------------------------------ MODULE Withdrawal ------------------------------
(***************************************************************************)
(* Withdrawals of one wallet: reserveWithdrawal and transitionWithdrawal   *)
(* (packages/db/src/withdrawal.ts), the requests of withdrawal.service.ts, *)
(* PokerEscrow.withdraw on the chain, and reconcilePending                 *)
(* (reconciliation.service.ts), which several processes may run.           *)
(*                                                                         *)
(* A request reserves funds and returns a voucher that the escrow contract *)
(* pays until its deadline.  The reconciler reads a confirmed block and    *)
(* completes what was paid, or releases what no longer can be.  Blocks     *)
(* with fewer successors than the confirmations may be reorganised.        *)
(***************************************************************************)
EXTENDS Integers, Sequences, FiniteSetsExt

CONSTANTS
  Keys, Amounts,    \* idempotency keys and amounts of requests
  Deadlines,        \* deadlines of vouchers
  NoKey,            \* a request without a key
  Funds,            \* escrow balance of the wallet at the start
  Reconcilers,      \* processes that reconcile
  Confirmations,    \* CHAIN_CONFIRMATIONS
  MaxWithdrawals, MaxBlocks, MaxTime, MaxDrops, MaxFailures   \* bounds

ASSUME WithdrawalAssumption ==
  /\ Amounts \subseteq Nat \ {0}
  /\ Deadlines \subseteq Nat
  /\ NoKey \notin Keys
  /\ Confirmations \in Nat \ {0}
  /\ {Funds, MaxWithdrawals, MaxBlocks, MaxTime, MaxDrops, MaxFailures} \subseteq Nat

VARIABLES
  \* durable
  withdrawals,  \* Withdrawal rows in the order of their nonces 0, 1, ...
  escrow,       \* balance of escrow:<wallet>
  vouchers,     \* nonces whose voucher has reached the wallet
  \* the chain
  chain,        \* blocks: timestamp, and the nonces used up to the block
  final,        \* the highest block that has had enough successors
  \* of each process
  run,
  \* bounds
  drops, failures

requests == <<withdrawals, escrow, vouchers>>
world    == <<chain, final>>
bounds   == <<drops, failures>>
vars     == <<requests, world, run, bounds>>

Idle == [step |-> "idle", number |-> 0, time |-> 0, todo |-> {}, outcome |-> "none"]

Nonces == 1..Len(withdrawals)
AmountOf(n) == withdrawals[n].amount

------------------------------------------------------------------------------
(***************************************************************************)
(* reserveWithdrawal: one serializable transaction, the signature included.*)
(***************************************************************************)

\* mutant: the balance is not checked.
AlwaysCovered(amount) == TRUE
Covered(amount) == amount <= escrow

Earlier(key) == {n \in Nonces : key # NoKey /\ withdrawals[n].key = key}

Reserve(key, amount, deadline) ==
  /\ Earlier(key) = {}
  /\ Covered(amount)
  /\ Len(withdrawals) < MaxWithdrawals
  /\ withdrawals' = Append(withdrawals, [key |-> key, amount |-> amount,
                                        deadline |-> deadline, status |-> "RESERVED"])
  /\ escrow' = escrow - amount
  \* the answer may be lost
  /\ vouchers' \in {vouchers, vouchers \cup {Len(withdrawals) + 1}}
  /\ UNCHANGED <<world, run, bounds>>

\* A retry of the same request, and findWithdrawalForUser, return the row.
Answer(n) ==
  /\ n \in Nonces \ vouchers
  /\ withdrawals[n].key # NoKey
  /\ vouchers' = vouchers \cup {n}
  /\ UNCHANGED <<withdrawals, escrow, world, run, bounds>>

------------------------------------------------------------------------------
(***************************************************************************)
(* The chain.  Timestamps grow from block to block.                        *)
(***************************************************************************)
Genesis == [time |-> 0, used |-> {}]
Block(number) == IF number = 0 THEN Genesis ELSE chain[number]
Tip == Block(Len(chain))

\* PokerEscrow.withdraw: not after the deadline, and each nonce once.
Payable(n, time) == n \in vouchers \ Tip.used /\ time <= withdrawals[n].deadline

Mine(time, paid) ==
  /\ Len(chain) < MaxBlocks
  /\ time > Tip.time
  /\ \A n \in paid : Payable(n, time)
  /\ chain' = Append(chain, [time |-> time, used |-> Tip.used \cup paid])
  /\ final' = IF Len(chain') - Confirmations > final THEN Len(chain') - Confirmations ELSE final
  /\ UNCHANGED <<requests, run, bounds>>

\* A reorganisation drops blocks that are not final; mining replaces them.
Drop(number) ==
  /\ drops < MaxDrops
  /\ drops' = drops + 1
  /\ number >= final
  /\ chain' = SubSeq(chain, 1, number)
  /\ UNCHANGED <<requests, final, run, failures>>

------------------------------------------------------------------------------
(***************************************************************************)
(* reconcilePending, one remote call or transaction at a time.             *)
(***************************************************************************)
At(r, step) == run[r].step = step
Continue(r, s) == run' = [run EXCEPT ![r] = s]

\* mutants: the latest block is taken for confirmed; its timestamp is compared.
LatestBlock == Len(chain)
LatestTime(number) == Tip.time

ConfirmedBlock == Len(chain) - Confirmations
BlockTime(number) == Block(number).time

\* getBlockNumber and getBlock in one step: a confirmed block does not change.
Start(r) ==
  /\ At(r, "idle")
  /\ Len(chain) >= Confirmations
  /\ Continue(r, [Idle EXCEPT !.step = "list", !.number = ConfirmedBlock,
                              !.time = BlockTime(ConfirmedBlock)])
  /\ UNCHANGED <<requests, world, bounds>>

\* listReservedWithdrawals, oldest first.
Reserved == {n \in Nonces : withdrawals[n].status = "RESERVED"}
ListReserved(r) ==
  /\ At(r, "list")
  /\ Continue(r, [run[r] EXCEPT !.step = "next", !.todo = Reserved])
  /\ UNCHANGED <<requests, world, bounds>>

Oldest(r) == Min(run[r].todo)

Outcome(r) ==
  IF Oldest(r) \in Block(run[r].number).used THEN "COMPLETED"
  ELSE IF run[r].time > withdrawals[Oldest(r)].deadline THEN "RELEASED" ELSE "none"

\* mutant: the loop ends at the first voucher that may still be paid.
EndsLoop(r) == {}

\* What is left of the list after a voucher that may still be paid.
Continues(r) == run[r].todo \ {Oldest(r)}

ReadNonce(r) ==
  /\ At(r, "next")
  /\ run[r].todo # {}
  /\ run[r].number <= Len(chain)
  /\ Continue(r, IF Outcome(r) = "none" THEN [run[r] EXCEPT !.todo = Continues(r)]
                 ELSE [run[r] EXCEPT !.step = "commit", !.outcome = Outcome(r)])
  /\ UNCHANGED <<requests, world, bounds>>

\* transitionWithdrawal: nothing when another process has come first.
Transition(r) ==
  LET n == Oldest(r)
  IN  /\ At(r, "commit")
      /\ IF withdrawals[n].status # "RESERVED" THEN UNCHANGED <<withdrawals, escrow>>
         ELSE /\ withdrawals' = [withdrawals EXCEPT ![n].status = run[r].outcome]
              /\ escrow' = IF run[r].outcome = "RELEASED" THEN escrow + AmountOf(n) ELSE escrow
      /\ Continue(r, [run[r] EXCEPT !.step = "next", !.todo = @ \ {n}, !.outcome = "none"])
      /\ UNCHANGED <<vouchers, world, bounds>>

Finish(r) ==
  /\ At(r, "next") /\ run[r].todo = {}
  /\ Continue(r, Idle)
  /\ UNCHANGED <<requests, world, bounds>>

\* A remote call or a transaction fails, or the process restarts: the finally
\* of reconcilePending.
Fail(r) ==
  /\ failures < MaxFailures
  /\ failures' = failures + 1
  /\ ~At(r, "idle")
  /\ Continue(r, Idle)
  /\ UNCHANGED <<requests, world, drops>>

------------------------------------------------------------------------------
Init ==
  /\ withdrawals = <<>>
  /\ escrow = Funds
  /\ vouchers = {}
  /\ chain = <<>>
  /\ final = 0
  /\ run = [r \in Reconcilers |-> Idle]
  /\ drops = 0
  /\ failures = 0

Step(r) ==
  \/ Start(r) \/ ListReserved(r) \/ ReadNonce(r)
  \/ Transition(r) \/ Finish(r)

Next ==
  \/ \E key \in Keys \cup {NoKey}, amount \in Amounts, deadline \in Deadlines :
       Reserve(key, amount, deadline)
  \/ \E n \in Nonces : Answer(n)
  \/ \E time \in 1..MaxTime, paid \in SUBSET Nonces : Mine(time, paid)
  \/ \E number \in 0..Len(chain) - 1 : Drop(number)
  \/ \E r \in Reconcilers : Step(r) \/ Fail(r)

\* The reconciler runs at an interval for as long as its process does.
Spec == Init /\ [][Next]_vars /\ \A r \in Reconcilers : WF_vars(Step(r))

------------------------------------------------------------------------------
(***************************************************************************)
(* Properties                                                              *)
(***************************************************************************)
TypeOK ==
  /\ escrow \in Nat
  /\ \A n \in Nonces : withdrawals[n].status \in {"RESERVED", "COMPLETED", "RELEASED"}
  /\ vouchers \subseteq Nonces
  /\ final \in 0..Len(chain)

\* "Failed or expired withdrawals release their reservation only after a state
\* reconciliation confirms that the voucher was not consumed on-chain": a
\* completed one is and stays paid, a released one never is, on whatever
\* blocks the chain has after the reconciler has looked.
SettledAsPaid ==
  \A n \in Nonces :
    /\ withdrawals[n].status = "COMPLETED" => n \in Tip.used
    /\ withdrawals[n].status = "RELEASED" => n \notin Tip.used

\* "A withdrawal voucher consumes internal funds at most once": what the wallet
\* may still spend and what the chain has paid or may still pay it together
\* never exceed what it had.
FundsCoverVouchers ==
  LET open == {n \in Nonces : n \in Tip.used \/ Tip.time < withdrawals[n].deadline}
  IN  escrow + SumFunctionOnSet([n \in Nonces |-> AmountOf(n)], open) <= Funds

\* No reservation is forgotten: every run of the reconcilers may fail, and in
\* the end only vouchers that may still be paid are reserved.
ReservationsEnd ==
  <>[](Len(chain) >= Confirmations =>
         \A n \in Reserved : /\ n \notin Block(ConfirmedBlock).used
                             /\ Block(ConfirmedBlock).time <= withdrawals[n].deadline)
===============================================================================
