SPECIFICATION Spec
CONSTANTS
  PathCount = 3
  Ignored = {3}
  Databases = {3}
  Export = 2
  Executables = {1}
  TotalAttempts = 2
  CaptureAttempts = 1
  MaxBundles = 2
  MaxChanges = 2
  MaxFaults = 1
  MaxPowerLosses = 1
INVARIANTS TypeOK SnapshotIsConsistent RecommendedIsWhole RestorableIsWhole
PROPERTY SealedStayLinked
CHECK_DEADLOCK FALSE
