CONSTANTS
  Attempts = {a1, a2, a3}
  NoAttempt = none
  ItemCount = 2
  MaxFaults = 0
  MaxKills = 1
  MaxPowerLosses = 0
  MaxForeign = 0
  MaxChanges = 0
  MaxHarms = 1
  CaptureAttempts = 1
  FollowsAdvice = TRUE
SPECIFICATION Spec
INVARIANT SavedPackResumes
CHECK_DEADLOCK FALSE
