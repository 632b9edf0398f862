CONSTANTS
  Users = {Ann, Bob}
  Leavers = {Ann, Bob}
  Nobody = Nobody
  UnlockedReads = FALSE
  BuyIn = 2
  MinBuyIn = 1
  MaxHands = 1
  MaxVersion = 1
  MaxRequests = 3
  MaxCrashes = 0
  MaxFailures = 0
  MaxSockets = 1
  Droppers = {}
  MaxDrops = 0
SPECIFICATION Spec
PROPERTIES
  TurnsExpire
CHECK_DEADLOCK FALSE
