CONSTANTS
  Executors = {e1, e2}
  Plans = {p1}
  ActionCount = 2
  base = base
  ours = ours
  theirs = theirs
  Objects <- Commits
  History <- Forks
  Absent = absent
  NoPlan = none
  MaxMoves = 1
  MaxMishaps = 1
SPECIFICATION Spec
SYMMETRY Interchangeable
INVARIANTS TypeOK PublishedIsLogged SuccessIsProven CompleteIsTrue
PROPERTY KeepsLedger
CHECK_DEADLOCK FALSE
