SPECIFICATION Spec
CONSTANTS
  Callers = {c1, c2}
  Servers = {s1, s2}
  MaxBundles = 3
  MaxChanges = 2
  MaxFaults = 1
  MaxNotes = 3
  Blocks = 2
INVARIANTS TypeOK CompleteIsRecoverable OfflineStandsFirst PausedIsKept CopyIsWhole ReceiptIsTrue
PROPERTY SavedPartialIsKept
SYMMETRY Interchangeable
CHECK_DEADLOCK FALSE
