CONSTANTS
  Users = {Ann, Bob}
  Leavers = {Ann, Bob}
  Nobody = Nobody
  UnlockedReads = TRUE
  BuyIn = 1
  MinBuyIn = 1
  MaxHands = 2
  MaxVersion = 1
  MaxRequests = 5
  MaxCrashes = 1
  MaxFailures = 1
  MaxSockets = 1
  Droppers = {}
  MaxDrops = 0
SYMMETRY Symmetry
SPECIFICATION Spec
INVARIANTS
  AppliedOnce
  DurableRecoverable
  CacheNotAhead
PROPERTIES
  LegalHistory
  NoCashOutInHand
  StepsBacked
CHECK_DEADLOCK FALSE
