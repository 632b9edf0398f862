\* Three players, several hands; every hand ends
CONSTANTS
  N = 3
  SmallBlind = 1
  BigBlind = 2
  StartStacks = {1, 4}
  AddOns = {1}
  MaxChips = 5
SPECIFICATION HandSpec
INVARIANTS
  EngineAsserts
  TurnOrder
  ContenderCoversPot
  ShowdownMatched
  BettingInv
  RaiseRightsRule
  OffersAreAccepted
  TableStakes
PROPERTIES
  ChipsConserved
  HandsEnd
CHECK_DEADLOCK TRUE
