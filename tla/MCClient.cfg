SPECIFICATION Spec
CONSTANTS
  Calls <- Places
  NoCall = NoCall
  Attempts = 2
  MaxQueued = 1
  MaxDrops = 1
  MaxTimeouts = 1
  MaxVersion = 3
  MaxClicks = 2
INVARIANTS
  AppliedAsSeen
  ToldTheTruth
PROPERTIES
  PendingClears
  ViewCatchesUp
CHECK_DEADLOCK FALSE
