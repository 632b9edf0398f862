SPECIFICATION Spec
CONSTANTS
  Guests = {Ann, Bob}
  Wallets = {wallet}
  Rooms = {room1, room2}
  Nonces = {nonce}
  Treasury = Treasury
  Elsewhere = Elsewhere
  Requests = {r1, r2}
  NoOp = NoOp
  GrantAmount = 2
  BuyIn = 2
  SeatCount <- SeatsOfRoom
  room1 = room1
  room2 = room2
  Actions = {a1}
  References = {ref}
  Amounts = {1, 2}
  MaxAttempts = 2
  MaxAsked = 5
  MaxPlays = 1
SYMMETRY Symmetry
INVARIANTS
  FundsKept
  NonceOnce
  DoneAsAsked
CHECK_DEADLOCK FALSE
