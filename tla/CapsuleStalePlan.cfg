SPECIFICATION Spec
CONSTANTS
  PathCount = 2
  Ignored = {}
  Databases = {}
  Export = 2
  Executables = {1}
  TotalAttempts = 2
  CaptureAttempts = 3
  MaxBundles = 2
  MaxChanges = 1
  MaxFaults = 0
  MaxPowerLosses = 0
INVARIANT NothingOmitted
CHECK_DEADLOCK FALSE
