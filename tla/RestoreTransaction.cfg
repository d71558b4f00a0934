SPECIFICATION FairSpec
CONSTANTS
  Restorers = {r1}
  Dirs = {d1, d2, d3}
  NoDir = NoDir
  Foreign = Foreign
  EntryCount = 2
  MaxFaults = 1
  MaxKills = 1
  MaxPowerLosses = 1
  MaxForeign = 1
  MaxPauses = 1
INVARIANTS TypeOK VisibleIsComplete JournalAccounts
PROPERTIES CompleteIsTrue ModesAreFinal PublicationRetained PublicationIsExclusive TransactionEnds
CHECK_DEADLOCK FALSE
