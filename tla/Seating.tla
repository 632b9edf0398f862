------------------------------- MODULE Seating -------------------------------
(***************************************************************************)
(* The ring of seats of one hand.  startHand numbers the players of a hand *)
(* 0..n-1 by their place in the array (packages/poker-engine/src/state.ts),*)
(* and every later rule of the engine (blinds, turn order, odd chips)      *)
(* walks that ring clockwise.                                              *)
(***************************************************************************)
EXTENDS Integers

CONSTANT N          \* number of players dealt into the hand

\* "A hand must have between 2 and 9 seats" (state.ts:80).
ASSUME SeatsAssumption == N \in 2..9

Seats == 0..N-1

\* seatAfter: (seat + 1) % N for a seat of the ring.
SeatAfter(seat) == IF seat + 1 = N THEN 0 ELSE seat + 1

(***************************************************************************)
(* The number of clockwise steps, 1..N, from `from' to `seat': a seat is a *)
(* whole turn away from itself.  This is the `offset' of the loops of      *)
(* nextActivePlayer and nextFundedPlayer and the sort key of               *)
(* clockwiseFromLeftOfButton, where `... % seatSpan || seatSpan' turns     *)
(* distance zero into a whole turn.                                        *)
(***************************************************************************)
Clockwise(from, seat) ==
  IF seat > from THEN seat - from ELSE seat - from + N

\* The first seat of the non-empty set S met when walking clockwise from a seat.
NextClockwise(S, from) ==
  CHOOSE p \in S : \A q \in S : Clockwise(from, p) <= Clockwise(from, q)

MinOf(a, b) == IF a <= b THEN a ELSE b

AtMostOne(S) == \A p, q \in S : p = q
==============================================================================
