--------------------------------- MODULE Pots ---------------------------------
(***************************************************************************)
(* Settlement of a complete hand: buildPots, clockwiseFromLeftOfButton,    *)
(* bestIds and settleShowdown of packages/poker-engine/src/pots.ts, as     *)
(* operators on the commitments of the hand.                               *)
(*                                                                         *)
(* committed[p] is the player's handCommitted, `alive' the set of players  *)
(* who have not folded, and score[p] the rank of the seven cards of p, the *)
(* higher the better: the evaluator only matters through this order.       *)
(***************************************************************************)
EXTENDS Seating, FiniteSetsExt, Functions

\* The pots are cut at every distinct positive commitment.
Levels(committed) == {committed[p] : p \in Seats} \ {0}
Contributors(committed, level) == {p \in Seats : committed[p] >= level}
Below(committed, level) == Max({0} \cup {l \in Levels(committed) : l < level})

Slice(committed, level) ==
  (level - Below(committed, level)) * Cardinality(Contributors(committed, level))

\* A slice with one contributor is refunded, the others are pots.
Contested(committed) ==
  {l \in Levels(committed) : Cardinality(Contributors(committed, l)) > 1}
Refund(committed, p) ==
  LET solo == {l \in Levels(committed) : Contributors(committed, l) = {p}}
  IN  SumFunction([l \in solo |-> Slice(committed, l)])

\* Mutant: a folded player may win a pot it has paid into.
EligibleFolded(committed, alive, level) == Contributors(committed, level)

Eligible(committed, alive, level) == Contributors(committed, level) \cap alive

\* bestIds
Best(S, score) == {p \in S : \A q \in S : score[q] <= score[p]}

\* Mutant: the odd chips are not given to anybody.
AwardFloor(amount, winners, button, p) ==
  IF p \notin winners THEN 0 ELSE amount \div Cardinality(winners)

\* One pot: equal shares, then one odd chip each, clockwise from the left of
\* the button, until the remainder is gone.
Award(amount, winners, button, p) ==
  LET ahead == {q \in winners : Clockwise(button, q) < Clockwise(button, p)}
      n     == Cardinality(winners)
  IN  IF p \notin winners THEN 0
      ELSE amount \div n + (IF Cardinality(ahead) < amount % n THEN 1 ELSE 0)

\* What settleShowdown adds to the stack of p.
Payout(committed, alive, score, button, p) ==
  IF \E sole \in Seats : alive = {sole}
  THEN IF p \in alive THEN SumFunctionOnSet(committed, Seats) ELSE 0
  ELSE Refund(committed, p) +
       SumFunction([l \in Contested(committed) |->
                      Award(Slice(committed, l),
                            Best(Eligible(committed, alive, l), score), button, p)])

Payouts(committed, alive, score, button) ==
  [p \in Seats |-> Payout(committed, alive, score, button, p)]
===============================================================================
