CONSTANTS
  Callers = {c1, c2}
  Digests = {r1, r2, r3, r4}
  NoDigest = none
  MaxRecords = 4
  MaxFaults = 1
  MaxKills = 1
  MaxPowerLosses = 1
SPECIFICATION Spec
SYMMETRY Interchangeable
INVARIANTS TypeOK HistoryStands RecordedIsDurable FailedNeverCurrent AttestationsCohere
CHECK_DEADLOCK FALSE
