CONSTANTS
  Limit = 2
  LockBelow = 2
  UnlockAbove = 3
  LockHold = 3
  QuietHold = 4
  Kp <- MCGain
  Ki <- MCIntegral
  Errors <- MCErrors
  Dts = {0, 1, 2}
SPECIFICATION FairServo
INVARIANTS PromotionIsEarned
PROPERTIES SettlesQuiet
