CONSTANTS
  Keys = {k1}
  Amounts = {1, 2}
  Deadlines = {1, 2}
  NoKey = NoKey
  Funds = 2
  Reconcilers = {r1, r2}
  Confirmations = 1
  MaxWithdrawals = 2
  MaxBlocks = 3
  MaxTime = 3
  MaxDrops = 1
  MaxFailures = 1
SPECIFICATION Spec
INVARIANTS
  TypeOK
  SettledAsPaid
  FundsCoverVouchers
PROPERTIES
  ReservationsEnd
CHECK_DEADLOCK FALSE
