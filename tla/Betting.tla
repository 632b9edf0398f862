------------------------------- MODULE Betting -------------------------------
(***************************************************************************)
(* One hand of the pure poker engine, from the deal to the last command:   *)
(* startHand (packages/poker-engine/src/state.ts), applyCommandResult and  *)
(* finishOrPassAction (reducer.ts), resolveTimeout (lifecycle.ts).         *)
(*                                                                         *)
(* The record TableState is split into variables; a player is its seat.    *)
(* Cards are reduced to the number of board cards: no betting rule looks   *)
(* at a card.  `version' is left to the module of the server, which is the *)
(* only reader of it.  `players' order and ids never change during a hand. *)
(***************************************************************************)
EXTENDS Seating, FiniteSets

CONSTANTS SmallBlind, BigBlind,
          StartStacks    \* the stacks a player may bring to the first hand

\* validateBlindsAndStacks
ASSUME BlindsAssumption ==
  /\ SmallBlind \in Nat \ {0}
  /\ BigBlind \in Nat \ {0}
  /\ SmallBlind < BigBlind
ASSUME StacksAssumption == StartStacks \subseteq Nat \ {0}

VARIABLES
  phase,            \* betting phase, "complete" once no more command is due
  buttonSeat,
  actor,            \* actorId: the seat whose command is awaited
  currentBet,       \* the wager to match on this street
  minimumRaise,
  stack,            \* chips behind, per seat
  streetCommitted,  \* chips committed on this street, per seat
  handCommitted,    \* chips committed in this hand, per seat
  status,           \* "active", "folded" or "all-in", per seat
  acted,            \* actedPlayerIds: who has acted since the last full raise
  raiseRights,      \* who may still raise
  lastActedBet,     \* wager faced at the last action of this street, or NoBet
  boardCount        \* number of cards on the board

wagers == <<currentBet, minimumRaise, streetCommitted, acted, raiseRights, lastActedBet>>
vars == <<phase, buttonSeat, actor, stack, handCommitted, status, boardCount, wagers>>

Streets == {"preflop", "flop", "turn", "river"}
Phases  == Streets \cup {"complete"}
NoBet   == -1        \* a player without an entry in lastActedBet

------------------------------------------------------------------------------
(***************************************************************************)
(* Dealing.  `chips' are the stacks before the blinds; sb and bb the seats *)
(* that post.  A seat without chips (only after the first hand) is dealt   *)
(* out as folded.                                                          *)
(***************************************************************************)
Posted(chips, sb, bb, p) ==
  MinOf(chips[p], IF p = sb THEN SmallBlind ELSE IF p = bb THEN BigBlind ELSE 0)

\* The highest posted blind: all other seats post nothing.
BlindBet(chips, sb, bb) ==
  LET small == Posted(chips, sb, bb, sb)
      big   == Posted(chips, sb, bb, bb)
  IN  IF small <= big THEN big ELSE small

DealtStatus(chips, sb, bb) ==
  [p \in Seats |-> IF chips[p] = 0 THEN "folded"
                   ELSE IF chips[p] = Posted(chips, sb, bb, p) THEN "all-in"
                   ELSE "active"]

Active(st) == {p \in Seats : st[p] = "active"}

\* Nobody, or one player who already matches the blind, is left to bet.
DealtComplete(chips, sb, bb) ==
  LET active == Active(DealtStatus(chips, sb, bb))
  IN  /\ AtMostOne(active)
      /\ \A p \in active : Posted(chips, sb, bb, p) = BlindBet(chips, sb, bb)

\* startHand: heads-up the button posts the small blind; the player after the
\* big blind opens, or the first active one behind it.
SmallBlindSeat(button) == IF N = 2 THEN button ELSE SeatAfter(button)
BigBlindSeat(button)   == SeatAfter(SmallBlindSeat(button))

StartHand(chips, button) ==
  LET sb == SmallBlindSeat(button)
      bb == BigBlindSeat(button)
      active == Active(DealtStatus(chips, sb, bb))
  IN  /\ phase = IF DealtComplete(chips, sb, bb) THEN "complete" ELSE "preflop"
      /\ buttonSeat = button
      /\ actor = IF active = {} THEN SeatAfter(bb) ELSE NextClockwise(active, bb)
      /\ currentBet = BlindBet(chips, sb, bb)
      /\ minimumRaise = BigBlind
      /\ stack = [p \in Seats |-> chips[p] - Posted(chips, sb, bb, p)]
      /\ streetCommitted = [p \in Seats |-> Posted(chips, sb, bb, p)]
      /\ handCommitted = streetCommitted
      /\ status = DealtStatus(chips, sb, bb)
      /\ acted = {}
      /\ raiseRights = active
      /\ lastActedBet = [p \in Seats |-> NoBet]
      /\ boardCount = 0

Init == \E chips \in [Seats -> StartStacks], button \in Seats : StartHand(chips, button)

------------------------------------------------------------------------------
(***************************************************************************)
(* finishOrPassAction: what follows every accepted command.  The command   *)
(* has already fixed stack', handCommitted' and status'; the arguments are *)
(* the street commitments, wager, minimum raise, acted players and raise   *)
(* rights that the command computed.                                       *)
(***************************************************************************)
Contenders(st) == {p \in Seats : st[p] # "folded"}
Matched(st, committed, bet) == \A p \in Active(st) : committed[p] = bet

\* Mutants: the hand ends under a player who faces a wager; a lone player
\* with chips is asked to bet on.
HandOverUnmatched(st, committed, bet) ==
  AtMostOne(Contenders(st)) \/ AtMostOne(Active(st))
HandOverNobodyActive(st, committed, bet) == AtMostOne(Contenders(st)) \/ Active(st) = {}

HandOver(st, committed, bet) ==
  \/ AtMostOne(Contenders(st))
  \/ AtMostOne(Active(st)) /\ Matched(st, committed, bet)

\* Mutant: the street waits for players who are all-in.
StreetClosedByAll(st, committed, bet, actedNow) ==
  /\ ~AtMostOne(Active(st))
  /\ Matched(st, committed, bet)
  /\ Contenders(st) \subseteq actedNow

StreetClosed(st, committed, bet, actedNow) ==
  /\ ~AtMostOne(Active(st))
  /\ Matched(st, committed, bet)
  /\ Active(st) \subseteq actedNow

NextPhase(street) ==
  CASE street = "preflop" -> "flop"
    [] street = "flop"    -> "turn"
    [] street = "turn"    -> "river"
    [] OTHER              -> "complete"

\* dealBoard: the burn cards leave the deck, not counted here.
DealBoard(count, street) ==
  CASE street = "complete" -> count
    [] street = "flop"     -> count + 3
    [] OTHER               -> count + 1

\* Mutants: an all-in player is asked to act; the walk starts at the button.
NextActorAnyContender(st, chips, seat) == NextClockwise(Contenders(st), seat)
NextActorFromButton(st, chips, seat) ==
  LET able == {p \in Active(st) : chips[p] > 0}
  IN  IF able = {} THEN actor ELSE NextClockwise(able, buttonSeat)

\* nextActivePlayer: the actor stays when nobody can act.
NextActor(st, chips, seat) ==
  LET able == {p \in Active(st) : chips[p] > 0}
  IN  IF able = {} THEN actor ELSE NextClockwise(able, seat)

Finish(committed, bet, raise, actedNow) ==
  /\ HandOver(status', committed, bet)
  /\ phase' = "complete"
  /\ currentBet' = bet
  /\ minimumRaise' = raise
  /\ streetCommitted' = committed
  /\ acted' = actedNow
  /\ raiseRights' = {}
  /\ lastActedBet' = [lastActedBet EXCEPT ![actor] = bet]
  /\ UNCHANGED <<actor, boardCount>>

CloseStreet(committed, bet, actedNow) ==
  /\ ~HandOver(status', committed, bet)
  /\ StreetClosed(status', committed, bet, actedNow)
  /\ phase' = NextPhase(phase)
  /\ boardCount' = DealBoard(boardCount, NextPhase(phase))
  /\ actor' = NextActor(status', stack', buttonSeat)
  /\ currentBet' = 0
  /\ minimumRaise' = BigBlind
  /\ streetCommitted' = [p \in Seats |-> 0]
  /\ acted' = {}
  /\ raiseRights' = Active(status')
  /\ lastActedBet' = [p \in Seats |-> NoBet]

PassAction(committed, bet, raise, actedNow, rights) ==
  /\ ~HandOver(status', committed, bet)
  /\ ~StreetClosed(status', committed, bet, actedNow)
  /\ actor' = NextActor(status', stack', actor)
  /\ currentBet' = bet
  /\ minimumRaise' = raise
  /\ streetCommitted' = committed
  /\ acted' = actedNow
  /\ raiseRights' = rights
  /\ lastActedBet' = [lastActedBet EXCEPT ![actor] = bet]
  /\ UNCHANGED <<phase, boardCount>>

FinishOrPass(committed, bet, raise, actedNow, rights) ==
  /\ \/ Finish(committed, bet, raise, actedNow)
     \/ CloseStreet(committed, bet, actedNow)
     \/ PassAction(committed, bet, raise, actedNow, rights)
  /\ UNCHANGED buttonSeat

------------------------------------------------------------------------------
(***************************************************************************)
(* applyCommandResult: the commands of the actor.                          *)
(***************************************************************************)
MayAct  == phase # "complete" /\ status[actor] = "active"
ToCall  == IF currentBet > streetCommitted[actor]
           THEN currentBet - streetCommitted[actor] ELSE 0
Maximum == streetCommitted[actor] + stack[actor]     \* the actor's all-in wager

\* amountError; an amount is the total wager of the street, not the chips added.
BetAccepted(amount) ==
  /\ amount \in 1..Maximum
  /\ currentBet = 0
  /\ amount >= minimumRaise \/ amount = Maximum

\* Mutant: the raise rights are not checked.
RaiseAcceptedAlways(amount) ==
  /\ amount \in 1..Maximum
  /\ currentBet # 0
  /\ amount > currentBet
  /\ amount - currentBet >= minimumRaise \/ amount = Maximum

RaiseAccepted(amount) ==
  /\ amount \in 1..Maximum
  /\ currentBet # 0
  /\ amount > currentBet
  /\ actor \in raiseRights
  /\ amount - currentBet >= minimumRaise \/ amount = Maximum

\* The actor moves `paid' chips to the pot, and is all-in when none is left.
Pay(paid) ==
  /\ stack' = [stack EXCEPT ![actor] = @ - paid]
  /\ handCommitted' = [handCommitted EXCEPT ![actor] = @ + paid]
  /\ status' = [status EXCEPT ![actor] = IF stack[actor] = paid THEN "all-in" ELSE @]

Fold ==
  /\ MayAct
  /\ status' = [status EXCEPT ![actor] = "folded"]
  /\ UNCHANGED <<stack, handCommitted>>
  /\ FinishOrPass(streetCommitted, currentBet, minimumRaise,
                  acted \cup {actor}, raiseRights \ {actor})

Check ==
  /\ MayAct
  /\ ToCall = 0
  /\ UNCHANGED <<stack, handCommitted, status>>
  /\ FinishOrPass(streetCommitted, currentBet, minimumRaise,
                  acted \cup {actor}, raiseRights \ {actor})

\* A player who cannot match the wager calls with its whole stack.
CallCost == MinOf(ToCall, stack[actor])

Call ==
  /\ MayAct
  /\ ToCall # 0
  /\ Pay(CallCost)
  /\ FinishOrPass([streetCommitted EXCEPT ![actor] = @ + CallCost],
                  currentBet, minimumRaise, acted \cup {actor}, raiseRights \ {actor})

\* A full bet or raise restarts the round: everybody else must act again and
\* may raise again.
FullWager(amount, size) ==
  /\ Pay(amount - streetCommitted[actor])
  /\ FinishOrPass([streetCommitted EXCEPT ![actor] = amount], amount, size,
                  {actor}, Active(status') \ {actor})

\* An all-in bet below the minimum leaves rights and acted players as they were.
ShortBet(amount) ==
  /\ Pay(amount - streetCommitted[actor])
  /\ FinishOrPass([streetCommitted EXCEPT ![actor] = amount], amount, minimumRaise,
                  acted \cup {actor}, raiseRights \ {actor})

\* Mutant: incomplete raises never add up.
ReopenedRightsNever(bet) == {p \in Active(status') : p \in raiseRights \ {actor}}

\* Rights after an incomplete raise to `bet': kept where still open, reopened
\* for a player whom the raises since its last action add up to a full one.
ReopenedRights(bet) ==
  {p \in Active(status') :
     \/ p \in raiseRights \ {actor}
     \/ p # actor /\ lastActedBet[p] # NoBet /\ bet - lastActedBet[p] >= minimumRaise}

ShortRaise(amount) ==
  /\ Pay(amount - streetCommitted[actor])
  /\ FinishOrPass([streetCommitted EXCEPT ![actor] = amount], amount, minimumRaise,
                  acted \cup {actor}, ReopenedRights(amount))

Bet(amount) ==
  /\ MayAct
  /\ BetAccepted(amount)
  /\ IF amount >= minimumRaise THEN FullWager(amount, amount) ELSE ShortBet(amount)

Raise(amount) ==
  /\ MayAct
  /\ RaiseAccepted(amount)
  /\ IF amount - currentBet >= minimumRaise
     THEN FullWager(amount, amount - currentBet)
     ELSE ShortRaise(amount)

\* resolveTimeout
Timeout == IF streetCommitted[actor] = currentBet THEN Check ELSE Fold

Next ==
  \/ Fold
  \/ Check
  \/ Call
  \/ \E amount \in 1..Maximum : Bet(amount)
  \/ \E amount \in 1..Maximum : Raise(amount)
  \/ Timeout

Spec == Init /\ [][Next]_vars /\ WF_vars(Timeout)

------------------------------------------------------------------------------
(***************************************************************************)
(* legalActions: what the client offers the actor.                         *)
(***************************************************************************)
LegalActions ==
  IF ~MayAct THEN {}
  ELSE (IF ToCall > 0
        THEN {[type |-> "fold", min |-> 0, max |-> 0], [type |-> "call", min |-> 0, max |-> 0]}
        ELSE {[type |-> "check", min |-> 0, max |-> 0]})
       \cup
       (IF currentBet = 0 /\ Maximum > 0
        THEN {[type |-> "bet", min |-> MinOf(minimumRaise, Maximum), max |-> Maximum]}
        ELSE IF actor \in raiseRights /\ Maximum > currentBet
        THEN {[type |-> "raise", min |-> MinOf(currentBet + minimumRaise, Maximum),
               max |-> Maximum]}
        ELSE {})

------------------------------------------------------------------------------
(***************************************************************************)
(* Invariants                                                              *)
(***************************************************************************)

\* The types of the fields of TableState.
TypeOK ==
  /\ phase \in Phases
  /\ buttonSeat \in Seats
  /\ actor \in Seats
  /\ currentBet \in Nat
  /\ minimumRaise \in Nat \ {0}
  /\ stack \in [Seats -> Nat]
  /\ streetCommitted \in [Seats -> Nat]
  /\ handCommitted \in [Seats -> Nat]
  /\ status \in [Seats -> {"active", "folded", "all-in"}]
  /\ acted \in SUBSET Seats
  /\ raiseRights \in SUBSET Seats
  /\ lastActedBet \in [Seats -> Nat \cup {NoBet}]
  /\ boardCount \in 0..5

BoardCards(street) ==
  CASE street = "preflop" -> {0}
    [] street = "flop"    -> {3}
    [] street = "turn"    -> {4}
    [] street = "river"   -> {5}
    [] OTHER              -> {0, 3, 4, 5}

\* The engine's own assertInvariants (invariants.ts) never throws: chips and
\* statuses agree, the actor of a live street can act, no commitment exceeds
\* the current bet, and the board fits the street.  The server checks every
\* snapshot it recovers with it and drains the table when it throws.
EngineAsserts ==
  /\ \A p \in Seats :
       /\ streetCommitted[p] <= handCommitted[p]
       /\ status[p] = "active" => stack[p] > 0
       /\ status[p] = "all-in" => stack[p] = 0
       /\ streetCommitted[p] <= currentBet
  /\ phase # "complete" => status[actor] = "active" /\ stack[actor] > 0
  /\ boardCount \in BoardCards(phase)

OwesAction(p) == p \notin acted \/ streetCommitted[p] # currentBet

\* How far behind the actor a seat is in the turn order; the actor itself is 0.
Turn(p) == IF p = actor THEN 0 ELSE Clockwise(actor, p)

\* On a live street the actor owes an action, and every active player who
\* does is reached before any who does not: finishOrPassAction, which looks
\* only for the next active seat, neither skips a player nor asks one twice.
TurnOrder ==
  phase # "complete" =>
    /\ OwesAction(actor)
    /\ \A p, q \in Active(status) :
         OwesAction(q) /\ Turn(p) < Turn(q) => OwesAction(p)

\* Some player who has not folded has committed as much as anybody: folding
\* when nothing is to call is accepted, and yet no pot is ever left without an
\* eligible player (settleShowdown would throw and the hand stay unsettled).
ContenderCoversPot ==
  \E p \in Contenders(status) : \A q \in Seats : handCommitted[q] <= handCommitted[p]

\* A showdown is fair: at the end of a hand that two or more contest, a player
\* with chips behind has committed as much as anybody.  finishOrPassAction never
\* ends a hand, or runs out the board, over a player who still faces a wager.
ShowdownMatched ==
  phase = "complete" /\ ~AtMostOne(Contenders(status)) =>
    \A p \in Active(status), q \in Seats : handCommitted[q] <= handCommitted[p]

\* A player may raise exactly when it has not acted on this street or the
\* wager has since grown by a full minimum raise, however many incomplete
\* all-in raises that took.
RaiseRightsRule ==
  phase # "complete" =>
    raiseRights = {p \in Active(status) :
                     \/ lastActedBet[p] = NoBet
                     \/ currentBet - lastActedBet[p] >= minimumRaise}

\* What legalActions offers the actor is what applyCommandResult accepts:
\* every offered amount is accepted, nothing else is, but for a fold with
\* nothing to call.
OffersAreAccepted ==
  MayAct =>
    LET offered(t) == {a \in LegalActions : a.type = t}
    IN  /\ (offered("check") # {}) <=> (ToCall = 0)
        /\ (offered("call") # {}) <=> (ToCall # 0)
        /\ \A amount \in 0..Maximum + 1 :
             /\ BetAccepted(amount) <=>
                  \E a \in offered("bet") : amount \in a.min..a.max
             /\ RaiseAccepted(amount) <=>
                  \E a \in offered("raise") : amount \in a.min..a.max

------------------------------------------------------------------------------
(***************************************************************************)
(* The inductive invariant behind them.                                    *)
(***************************************************************************)
Live == phase # "complete"

\* What the actor had committed before this street.
StreetBase == handCommitted[actor] - streetCommitted[actor]

\* All active players entered the street with the same commitment, and nobody
\* with more.
StreetLevels ==
  Live => \A p \in Seats :
            /\ handCommitted[p] - streetCommitted[p] <= StreetBase
            /\ p \in Active(status) => handCommitted[p] - streetCommitted[p] = StreetBase

\* Somebody still in the hand stands behind the current wager.
WagerHolder ==
  Live => \E p \in Contenders(status) : handCommitted[p] = StreetBase + currentBet

\* A player who matches a wager without having acted (the big blind and its
\* option) is the last to act: behind it in the turn order nobody owes anything.
OptionIsLast ==
  Live => \A p, q \in Active(status) :
            /\ currentBet > 0
            /\ streetCommitted[p] = currentBet
            /\ p \notin acted
            /\ Turn(p) < Turn(q)
            => ~OwesAction(q)

\* A live hand is one finishOrPassAction would not have ended.
StreetOpen == Live => ~HandOver(status, streetCommitted, currentBet)

FacedAtMostBet == \A p \in Seats : lastActedBet[p] <= currentBet

\* The inductive invariant.
BettingInv ==
  /\ TypeOK
  /\ EngineAsserts
  /\ TurnOrder
  /\ ContenderCoversPot
  /\ ShowdownMatched
  /\ RaiseRightsRule
  /\ StreetLevels
  /\ WagerHolder
  /\ OptionIsLast
  /\ StreetOpen
  /\ FacedAtMostBet
==============================================================================
