CONSTANTS
  Users = {Ann, Bob}
  Leavers = {}
  Nobody = Nobody
  UnlockedReads = FALSE
  BuyIn = 2
  MinBuyIn = 1
  MaxHands = 1
  MaxVersion = 1
  MaxRequests = 4
  MaxCrashes = 0
  MaxFailures = 0
  MaxSockets = 1
  Droppers = {Ann}
  MaxDrops = 1
SPECIFICATION Spec
INVARIANTS
  GraceOnlyForDropped
CHECK_DEADLOCK FALSE
