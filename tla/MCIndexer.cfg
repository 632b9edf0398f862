CONSTANTS
  Indexers = {i1, i2}
  Deposits = {d1}
  NoIndexer = NoIndexer
  Confirmations = 1
  RangeSize = 1
  DeepReorgs = FALSE
  MaxBlocks = 3
  MaxChanges = 7
  MaxFailures = 1
SPECIFICATION Spec
INVARIANTS
  TypeOK
  EventsMatchCheckpoint
  LedgerOnce
  HistoryOnOneChain
PROPERTIES
  Converges
CHECK_DEADLOCK TRUE
