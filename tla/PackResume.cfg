CONSTANTS
  Attempts = {a1, a2, a3}
  NoAttempt = none
  ItemCount = 2
  MaxFaults = 1
  MaxKills = 1
  MaxPowerLosses = 1
  MaxForeign = 1
  MaxChanges = 2
  MaxHarms = 3
  CaptureAttempts = 2
  FollowsAdvice = TRUE
SPECIFICATION FairSpec
INVARIANTS TypeOK NoFalseCompletion
PROPERTIES KeepsPromise ForeignUntouched PromotionFinishes
CHECK_DEADLOCK FALSE
