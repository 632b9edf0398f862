CONSTANTS
  Users = {Ann, Bob}
  Leavers = {Ann}
  Nobody = Nobody
  UnlockedReads = FALSE
  BuyIn = 2
  MinBuyIn = 1
  MaxHands = 2
  MaxVersion = 1
  MaxRequests = 4
  MaxCrashes = 0
  MaxFailures = 0
  MaxSockets = 1
  Droppers = {}
  MaxDrops = 0
SPECIFICATION Spec
INVARIANTS
  TableBacked
CHECK_DEADLOCK FALSE
