CONSTANTS
  Callers = {c1, c2}
  Digests = {r1, r2, r3}
  NoDigest = none
  MaxRecords = 3
  MaxFaults = 0
  MaxKills = 0
  MaxPowerLosses = 0
SPECIFICATION Spec
SYMMETRY Interchangeable
INVARIANT SequenceIncreases
CHECK_DEADLOCK FALSE
