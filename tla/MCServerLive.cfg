CONSTANTS
  Users = {Ann, Bob}
  Leavers = {}
  Nobody = Nobody
  UnlockedReads = FALSE
  BuyIn = 2
  MinBuyIn = 1
  MaxHands = 2
  MaxVersion = 1
  MaxRequests = 4
  MaxCrashes = 1
  MaxFailures = 1
  MaxSockets = 1
  Droppers = {Ann}
  MaxDrops = 1
SPECIFICATION Spec
INVARIANTS
  ValidRoomServed
  TableBacked
PROPERTIES
  TurnsExpire
CHECK_DEADLOCK FALSE
