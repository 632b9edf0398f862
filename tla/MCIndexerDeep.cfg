CONSTANTS
  Indexers = {i1}
  Deposits = {d1}
  NoIndexer = NoIndexer
  Confirmations = 1
  RangeSize = 1
  DeepReorgs = TRUE
  MaxBlocks = 3
  MaxChanges = 7
  MaxFailures = 0
SPECIFICATION Spec
INVARIANTS
  ReorgNoticed
CHECK_DEADLOCK FALSE
