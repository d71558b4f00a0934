CONSTANTS
  Executors = {e1}
  Plans = {p1}
  ActionCount = 2
  base = base
  ours = ours
  theirs = theirs
  Objects <- Commits
  History <- Forks
  Absent = absent
  NoPlan = none
  MaxMoves = 1
  MaxMishaps = 0
SPECIFICATION Spec
SYMMETRY Interchangeable
PROPERTY StaleIsNotPublished
CHECK_DEADLOCK FALSE
