------------------------------ MODULE MCCashier ------------------------------
EXTENDS Cashier, TLC

CONSTANTS room1, room2

SeatsOfRoom == (room1 :> 1) @@ (room2 :> 2)
Symmetry == Permutations(Requests) \cup Permutations(Guests)
=============================================================================
