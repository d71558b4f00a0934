SPECIFICATION Spec
CONSTANTS
  Restorers = {r1}
  Dirs = {d1, d2, d3, d4}
  NoDir = NoDir
  Foreign = Foreign
  EntryCount = 1
  MaxFaults = 0
  MaxKills = 1
  MaxPowerLosses = 0
  MaxForeign = 0
  MaxPauses = 0
INVARIANT InterruptionIsResumable
CHECK_DEADLOCK FALSE
