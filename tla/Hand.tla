--------------------------------- MODULE Hand ---------------------------------
(***************************************************************************)
(* The life of a table in the pure engine: hands are dealt, bet, settled   *)
(* (settleShowdown, pots.ts) and followed by the next one (advanceHand,    *)
(* lifecycle.ts); between hands a player may add chips (addOn).            *)
(***************************************************************************)
EXTENDS Betting, Pots

CONSTANTS AddOns,       \* amounts a player may add between hands
          MaxChips      \* bound: no add-on beyond this many chips on the table

ASSUME AddOnsAssumption == AddOns \subseteq Nat \ {0} /\ MaxChips \in Nat

Settled == phase = "complete" /\ \A p \in Seats : handCommitted[p] = 0

\* Only the order of the seven-card scores matters: rank them 1, 2, ... without gaps.
Scores == {s \in [Seats -> 1..N] :
             \A p \in Seats : s[p] = 1 \/ \E q \in Seats : s[q] = s[p] - 1}

(***************************************************************************)
(* settleShowdown.  The board is run out when more than one contender is   *)
(* left.  On a hand already settled it changes nothing.                    *)
(***************************************************************************)
SettleWith(score) ==
  LET alive == Contenders(status)
      paid  == Payouts(handCommitted, alive, score, buttonSeat)
  IN  /\ phase = "complete"
      /\ stack' = [p \in Seats |-> stack[p] + paid[p]]
      /\ status' = [p \in Seats |->
                      IF status[p] = "all-in" /\ stack[p] + paid[p] > 0
                      THEN "active" ELSE status[p]]
      /\ handCommitted' = [p \in Seats |-> 0]
      /\ streetCommitted' = [p \in Seats |-> 0]
      /\ currentBet' = 0
      /\ acted' = {}
      /\ raiseRights' = {}
      /\ lastActedBet' = [p \in Seats |-> NoBet]
      /\ boardCount' = IF AtMostOne(alive) THEN boardCount ELSE 5
      /\ UNCHANGED <<phase, buttonSeat, actor, minimumRaise>>

Settle == \E score \in Scores : SettleWith(score)

(***************************************************************************)
(* advanceHand: the button moves to the next player with chips, who posts  *)
(* the small blind when only two have any.                                 *)
(***************************************************************************)
Funded == {p \in Seats : stack[p] > 0}

AdvanceHand ==
  LET button == NextClockwise(Funded, buttonSeat)
      sb     == IF Cardinality(Funded) = 2 THEN button ELSE NextClockwise(Funded, button)
      bb     == NextClockwise(Funded, sb)
  IN  /\ Settled
      /\ \A p \in Seats : streetCommitted[p] = 0
      /\ Cardinality(Funded) >= 2
      /\ phase' = IF DealtComplete(stack, sb, bb) THEN "complete" ELSE "preflop"
      /\ buttonSeat' = button
      /\ actor' = IF Cardinality(Funded) = 2 THEN button ELSE NextClockwise(Funded, bb)
      /\ currentBet' = BlindBet(stack, sb, bb)
      /\ minimumRaise' = BigBlind
      /\ stack' = [p \in Seats |-> stack[p] - Posted(stack, sb, bb, p)]
      /\ streetCommitted' = [p \in Seats |-> Posted(stack, sb, bb, p)]
      /\ handCommitted' = streetCommitted'
      /\ status' = DealtStatus(stack, sb, bb)
      /\ acted' = {}
      /\ raiseRights' = Active(status')
      /\ lastActedBet' = [p \in Seats |-> NoBet]
      /\ boardCount' = 0

\* addOn
AddOn(p, amount) ==
  /\ Settled
  /\ \A q \in Seats : streetCommitted[q] = 0
  /\ SumFunction(stack) + amount <= MaxChips
  /\ stack' = [stack EXCEPT ![p] = @ + amount]
  /\ status' = [status EXCEPT ![p] = IF @ = "all-in" THEN "active" ELSE @]
  /\ UNCHANGED <<phase, buttonSeat, actor, handCommitted, boardCount, wagers>>

HandNext ==
  \/ Next
  \/ Settle
  \/ AdvanceHand
  \/ \E p \in Seats, amount \in AddOns : AddOn(p, amount)

HandSpec ==
  Init /\ [][HandNext]_vars /\ WF_vars(Timeout) /\ WF_vars(Settle)

-------------------------------------------------------------------------------
(***************************************************************************)
(* Properties                                                              *)
(***************************************************************************)
Wealth(p) == stack[p] + handCommitted[p]
TotalChips == SumFunction(stack) + SumFunction(handCommitted)
AwaitsSettlement == phase = "complete" /\ ~Settled

\* No chip appears or vanishes: dealing and betting only move chips between a
\* player's own stack and its commitment, settling only moves the commitments
\* to stacks, and chips enter only through an add-on.
ChipsConserved ==
  [][ \/ \A p \in Seats : Wealth(p)' = Wealth(p)
      \/ AwaitsSettlement /\ Settled' /\ TotalChips' = TotalChips
      \/ Settled /\ Settled' /\ TotalChips' - TotalChips \in AddOns
    ]_vars

\* The table-stakes rule for side pots, however the cards fall: a player
\* collects from each opponent no more than it has committed itself, one with
\* the only best hand collects exactly that, and a folded player nothing.
TableStakes ==
  AwaitsSettlement =>
    \A score \in Scores :
      LET alive == Contenders(status)
          paid  == Payouts(handCommitted, alive, score, buttonSeat)
          reach(p) == SumFunction([q \in Seats |-> MinOf(handCommitted[p], handCommitted[q])])
      IN  \A p \in Seats :
            /\ paid[p] <= (IF p \in alive THEN reach(p) ELSE 0)
            /\ Best(alive, score) = {p} => paid[p] = reach(p)

\* A hand in play comes to an end and is settled, when an idle actor is timed
\* out and a complete hand settled: no sequence of raises, all-ins and checks
\* keeps a street open for ever or leaves nobody to act.
HandsEnd == []<>Settled
===============================================================================
