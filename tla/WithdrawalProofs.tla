--------------------------- MODULE WithdrawalProofs ---------------------------
(***************************************************************************)
(* For any requests, reconcilers, depth of confirmation, number of blocks, *)
(* reorganisations and failures: a withdrawal is settled as the chain pays *)
(* it, and the wallet never spends more than it had.                       *)
(*                                                                         *)
(* The argument: a block that has had its confirmations stays, and what a  *)
(* reconciler goes by is one; what such a block pays, later blocks have    *)
(* paid as well, and what it neither pays nor may still pay, no later      *)
(* block pays, because timestamps grow.                                    *)
(***************************************************************************)
EXTENDS Withdrawal, FiniteSums, SequenceTheorems

Statuses == {"RESERVED", "COMPLETED", "RELEASED"}
Rows   == [key : Keys \union {NoKey}, amount : Amounts, deadline : Deadlines, status : Statuses]
Blocks == [time : Nat, used : SUBSET Nat]
Runs   == [step : {"idle", "list", "next", "commit"}, number : Nat, time : Nat,
           todo : SUBSET Nat, outcome : {"none", "COMPLETED", "RELEASED"}]

Typed ==
  /\ withdrawals \in Seq(Rows) /\ escrow \in Nat /\ vouchers \subseteq Nonces
  /\ chain \in Seq(Blocks)
  /\ run \in [Reconcilers -> Runs]

Height == 0..Len(chain)

\* Along the chain time does not go back, and what has been paid stays paid; it
\* was paid before the deadline.
ChainInv ==
  /\ \A b \in Height : Block(b) \in Blocks /\ Block(b).used \subseteq Nonces
  /\ \A a, b \in Height : a <= b =>
       /\ Block(a).time <= Block(b).time /\ Block(a).used \subseteq Block(b).used
       /\ \A n \in Block(b).used \ Block(a).used : Block(a).time < withdrawals[n].deadline

FinalInv == final \in Height /\ Len(chain) - Confirmations <= final

PaidAt(n, number) == n \in Block(number).used
ExpiredAt(n, number) == n \notin Block(number).used /\ Block(number).time > withdrawals[n].deadline

SettledAt(n, status, number) ==
  /\ status = "COMPLETED" => PaidAt(n, number)
  /\ status = "RELEASED" => ExpiredAt(n, number)

\* A reconciler goes by a block that stays.
Goes(s) ==
  s.step # "idle" =>
    /\ s.number \in 0..final /\ s.time = Block(s.number).time
    /\ s.todo \subseteq Nonces
    /\ s.step = "commit" =>
         /\ s.todo # {} /\ s.outcome \in {"COMPLETED", "RELEASED"}
         /\ SettledAt(Min(s.todo), s.outcome, s.number)

RunInv == \A r \in Reconcilers : Goes(run[r])

SettledInv == \A n \in Nonces : SettledAt(n, withdrawals[n].status, final)

Unreleased == {n \in Nonces : withdrawals[n].status # "RELEASED"}
AmountsOf == [n \in Nonces |-> AmountOf(n)]

\* What was reserved left the account, unless it was released.
Booked == escrow + SumFunctionOnSet(AmountsOf, Unreleased) = Funds

Inv == Typed /\ ChainInv /\ FinalInv /\ RunInv /\ SettledInv /\ Booked

------------------------------------------------------------------------------
(* What is settled by a block that stays is settled for good *)

LEMMA Rowed ==
  ASSUME Typed
  PROVE  /\ Len(withdrawals) \in Nat /\ Nonces \subseteq Nat
         /\ \A n \in Nonces : /\ withdrawals[n] \in Rows /\ withdrawals[n].amount \in Nat
                              /\ withdrawals[n].deadline \in Nat
<1>1. withdrawals \in Seq(Rows) /\ Len(withdrawals) \in Nat /\ Nonces \subseteq Nat
  BY LenProperties DEF Typed, Nonces
<1>2. \A n \in Nonces : withdrawals[n] \in Rows
  BY <1>1, ElementOfSeq DEF Nonces
<1>3. \A row \in Rows : row.amount \in Nat /\ row.deadline \in Nat
  BY WithdrawalAssumption DEF Rows
<1> QED
  BY <1>1, <1>2, <1>3

LEMMA SettledLater ==
  ASSUME Typed, ChainInv, NEW a \in Height, NEW b \in Height, a <= b,
         NEW n \in Nonces, NEW status, SettledAt(n, status, a)
  PROVE  SettledAt(n, status, b)
<1>1. /\ Block(a).time <= Block(b).time /\ Block(a).used \subseteq Block(b).used
      /\ \A m \in Block(b).used \ Block(a).used : Block(a).time < withdrawals[m].deadline
      /\ Block(a).time \in Nat /\ Block(b).time \in Nat
  BY DEF ChainInv, Blocks
<1>2. withdrawals[n].deadline \in Nat
  BY Rowed
<1> QED
  BY <1>1, <1>2 DEF SettledAt, PaidAt, ExpiredAt

LEMMA TipHigh == ASSUME Typed PROVE Len(chain) \in Height /\ Tip = Block(Len(chain)) /\ Len(chain) \in Nat
BY LenProperties DEF Typed, Height, Tip

LEMMA AmountsTyped ==
  ASSUME Typed
  PROVE  /\ \A n \in Nonces : AmountsOf[n] = withdrawals[n].amount /\ AmountsOf[n] \in Nat
         /\ IsFiniteSet(Nonces) /\ \A S \in SUBSET Nonces : IsFiniteSet(S)
<1>1. IsFiniteSet(Nonces)
  BY Rowed, FS_Interval DEF Nonces
<1> QED
  BY <1>1, Rowed, FS_Subset DEF AmountsOf, AmountOf

LEMMA InvInit == Init => Inv
<1> SUFFICES ASSUME Init PROVE Inv
  OBVIOUS
<1>1. Nonces = {} /\ Height = {0} /\ Len(chain) = 0 /\ Funds \in Nat /\ Confirmations \in Nat
  BY EmptySeq, WithdrawalAssumption DEF Init, Nonces, Height
<1>2. Typed
  BY EmptySeq, WithdrawalAssumption DEF Init, Typed, Nonces, Idle, Runs
<1>3. ChainInv
  <2>1. \A b \in Height : Block(b) = [time |-> 0, used |-> {}]
    BY <1>1 DEF Block, Genesis
  <2> QED
    BY <1>1, <2>1 DEF ChainInv, Blocks
<1>4. FinalInv /\ RunInv /\ SettledInv
  BY <1>1, WithdrawalAssumption DEF Init, FinalInv, RunInv, Goes, SettledInv, Idle
<1>5. Booked
  <2>1. Unreleased = {}
    BY <1>1 DEF Unreleased
  <2> QED
    BY <1>1, <2>1, SumOfNone DEF Init, Booked
<1> QED
  BY <1>2, <1>3, <1>4, <1>5 DEF Inv

------------------------------------------------------------------------------
(* Requests *)

\* While the chain stays, rows that keep their deadlines stay in time.
LEMMA ChainKept ==
  ASSUME Inv, UNCHANGED world, Nonces \subseteq Nonces',
         \A n \in Nonces : withdrawals'[n].deadline = withdrawals[n].deadline
  PROVE  /\ ChainInv' /\ FinalInv' /\ \A b : Block(b)' = Block(b)
         /\ \A n \in Nonces : \A status, b : SettledAt(n, status, b)' <=> SettledAt(n, status, b)
<1>1. /\ chain' = chain /\ final' = final /\ Height' = Height
      /\ \A b : Block(b)' = Block(b)
  BY DEF world, Height, Block
<1>2. ChainInv'
  BY <1>1 DEF Inv, ChainInv
<1>3. FinalInv'
  BY <1>1 DEF Inv, FinalInv
<1>4. \A n \in Nonces : \A status, b : SettledAt(n, status, b)' <=> SettledAt(n, status, b)
  BY <1>1 DEF SettledAt, PaidAt, ExpiredAt
<1> QED
  BY <1>1, <1>2, <1>3, <1>4

LEMMA RunKept ==
  ASSUME Inv, UNCHANGED world, Nonces \subseteq Nonces',
         \A n \in Nonces : withdrawals'[n].deadline = withdrawals[n].deadline,
         NEW r \in Reconcilers, run'[r] = run[r]
  PROVE  Goes(run[r])'
<1> DEFINE s == run[r]
<1>1. s \in Runs /\ Goes(s)
  BY DEF Inv, Typed, RunInv
<1>2. s.todo # {} => Min(s.todo) \in s.todo
  BY <1>1, Smallest DEF Runs
<1>3. \A b : Block(b)' = Block(b)
  BY ChainKept
<1> QED
  BY <1>1, <1>2, <1>3 DEF Goes, world, SettledAt, PaidAt, ExpiredAt

LEMMA InvReserve ==
  ASSUME Inv, NEW key \in Keys \union {NoKey}, NEW amount \in Amounts, NEW deadline \in Deadlines,
         Reserve(key, amount, deadline)
  PROVE  Inv'
<1> DEFINE row == [key |-> key, amount |-> amount, deadline |-> deadline, status |-> "RESERVED"]
           new == Len(withdrawals) + 1
<1>1. /\ withdrawals' = Append(withdrawals, row) /\ amount <= escrow /\ escrow' = escrow - amount
      /\ vouchers' \in {vouchers, vouchers \union {new}} /\ UNCHANGED <<world, run, bounds>>
  BY DEF Reserve, Covered
<1>2. row \in Rows /\ amount \in Nat /\ escrow \in Nat /\ withdrawals \in Seq(Rows)
  BY WithdrawalAssumption DEF Rows, Statuses, Inv, Typed
<1> HIDE DEF row
<1>3. /\ withdrawals' \in Seq(Rows) /\ Len(withdrawals') = new /\ withdrawals'[new] = row
      /\ \A n \in Nonces : withdrawals'[n] = withdrawals[n]
  BY <1>1, <1>2, AppendProperties DEF Nonces
<1>4. Nonces' = Nonces \union {new} /\ new \notin Nonces /\ Len(withdrawals) \in Nat
  BY <1>2, <1>3, LenProperties DEF Nonces
<1>5. Typed'
  <2>1. escrow' \in Nat
    BY <1>1, <1>2
  <2>2. vouchers' \subseteq Nonces'
    BY <1>1, <1>4 DEF Inv, Typed
  <2> QED
    BY <1>1, <1>3, <2>1, <2>2 DEF Inv, Typed, world
<1>6. /\ ChainInv' /\ FinalInv'
      /\ \A n \in Nonces : \A status, b : SettledAt(n, status, b)' <=> SettledAt(n, status, b)
  BY <1>1, <1>3, <1>4, ChainKept
<1>7. RunInv'
  <2> SUFFICES ASSUME NEW r \in Reconcilers PROVE Goes(run[r])'
    BY DEF RunInv
  <2> QED
    BY <1>1, <1>3, <1>4, RunKept
<1>8. SettledInv'
  <2>1. withdrawals'[new].status = "RESERVED" /\ final' = final
    BY <1>1, <1>3 DEF row, world
  <2>2. SettledAt(new, "RESERVED", final)'
    BY DEF SettledAt
  <2>3. \A n \in Nonces : SettledAt(n, withdrawals[n].status, final)'
    BY <1>3, <1>6, <2>1 DEF Inv, SettledInv, SettledAt, PaidAt, ExpiredAt
  <2> QED
    BY <1>4, <2>1, <2>2, <2>3 DEF SettledInv, SettledAt
<1>9. Booked'
  <2>1. /\ withdrawals'[new].status = "RESERVED" /\ withdrawals'[new].amount = amount
    BY <1>3 DEF row
  <2>2. Unreleased' = Unreleased \union {new} /\ new \notin Unreleased
    BY <1>3, <1>4, <2>1 DEF Unreleased
  <2>3. /\ AmountsOf'[new] = amount /\ \A n \in Unreleased : AmountsOf'[n] = AmountsOf[n]
        /\ \A n \in Unreleased : AmountsOf[n] \in Nat
        /\ IsFiniteSet(Unreleased) /\ Unreleased \subseteq Nonces
    BY <1>3, <1>4, <2>1, AmountsTyped DEF AmountsOf, AmountOf, Unreleased, Inv
  <2>4. SumFunctionOnSet(AmountsOf', Unreleased') = amount + SumFunctionOnSet(AmountsOf', Unreleased)
    BY <1>2, <2>2, <2>3, SumAdded
  <2>5. SumFunctionOnSet(AmountsOf', Unreleased) = SumFunctionOnSet(AmountsOf, Unreleased)
    BY <2>3, SumSame
  <2>6. SumFunctionOnSet(AmountsOf, Unreleased) \in Nat
    BY <2>3, SumNatural
  <2> QED
    BY <1>1, <1>2, <2>4, <2>5, <2>6 DEF Inv, Booked
<1> QED
  BY <1>5, <1>6, <1>7, <1>8, <1>9 DEF Inv

LEMMA InvAnswer ==
  ASSUME Inv, NEW n \in Nonces, Answer(n)
  PROVE  Inv'
<1>1. vouchers' = vouchers \union {n} /\ UNCHANGED <<withdrawals, escrow, world, run, bounds>>
  BY DEF Answer
<1>2. Nonces' = Nonces /\ Height' = Height /\ \A b : Block(b)' = Block(b)
  BY <1>1 DEF Nonces, Height, world, Block
<1>3. Typed'
  BY <1>1, <1>2 DEF Inv, Typed, world
<1>4. ChainInv' /\ FinalInv' /\ SettledInv'
  BY <1>1, <1>2, ChainKept DEF Inv, SettledInv, SettledAt, PaidAt, ExpiredAt, world
<1>5. RunInv'
  BY <1>1, <1>2, RunKept DEF RunInv
<1>6. Booked'
  BY <1>1, <1>2 DEF Inv, Booked, AmountsOf, AmountOf, Unreleased
<1> QED
  BY <1>3, <1>4, <1>5, <1>6 DEF Inv

------------------------------------------------------------------------------
(* The chain *)

\* While the rows stay: a new chain that goes as far as the final blocks, and
\* what is at or below the last final block is as it was.
LEMMA ChainMoves ==
  ASSUME Inv, UNCHANGED <<requests, run>>, chain' \in Seq(Blocks), ChainInv', FinalInv',
         final <= final', \A b \in 0..final : Block(b)' = Block(b)
  PROVE  Inv'
<1>1. /\ withdrawals' = withdrawals /\ escrow' = escrow /\ vouchers' = vouchers /\ run' = run
      /\ Nonces' = Nonces
  BY DEF requests, Nonces
<1>2. Typed'
  BY <1>1 DEF Inv, Typed
<1>3. final \in Height /\ Len(chain) \in Nat /\ final' \in Height' /\ Len(chain') \in Nat
  BY LenProperties DEF Inv, Typed, FinalInv
<1>4. final \in Nat /\ final' \in Nat /\ final \in Height' /\ final <= final'
  BY <1>3 DEF Height
<1>5. \A n, status : \A b \in 0..final : SettledAt(n, status, b)' <=> SettledAt(n, status, b)
  BY <1>1 DEF SettledAt, PaidAt, ExpiredAt
<1>6. RunInv'
  <2> SUFFICES ASSUME NEW r \in Reconcilers PROVE Goes(run[r])'
    BY DEF RunInv
  <2>1. Goes(run[r])
    BY DEF Inv, RunInv
  <2> QED
    BY <1>1, <1>4, <2>1 DEF Goes, SettledAt, PaidAt, ExpiredAt
<1>7. SettledInv'
  <2> SUFFICES ASSUME NEW n \in Nonces PROVE SettledAt(n, withdrawals[n].status, final)'
    BY <1>1 DEF SettledInv
  <2> DEFINE status == withdrawals[n].status
  <2>1. SettledAt(n, status, final)
    BY DEF Inv, SettledInv
  <2>2. withdrawals[n].deadline \in Nat
    BY Rowed DEF Inv
  <2>3. PICK old \in Nat : old = final
    BY <1>4
  <2>4. Block(old)' = Block(final) /\ old \in Height' /\ final' \in Height' /\ old <= final'
    BY <1>3, <1>4, <2>3
  <2>5. /\ Block(old)'.time <= Block(final)'.time /\ Block(old)'.used \subseteq Block(final)'.used
        /\ n \in Block(final)'.used \ Block(old)'.used => Block(old)'.time < withdrawals[n].deadline
        /\ Block(old)'.time \in Nat /\ Block(final)'.time \in Nat
    BY <1>1, <2>4 DEF ChainInv, Blocks
  <2> QED
    BY <1>1, <2>1, <2>2, <2>4, <2>5 DEF SettledAt, PaidAt, ExpiredAt
<1>8. Booked'
  BY <1>1 DEF Inv, Booked, AmountsOf, AmountOf, Unreleased
<1> QED
  BY <1>2, <1>6, <1>7, <1>8 DEF Inv

LEMMA InvMine ==
  ASSUME Inv, NEW time \in 1..MaxTime, NEW paid \in SUBSET Nonces, Mine(time, paid)
  PROVE  Inv'
<1> DEFINE block == [time |-> time, used |-> Tip.used \union paid]
<1>0. PICK limit \in Nat, top \in Nat : limit = Len(chain) /\ top = limit + 1
  BY LenProperties DEF Inv, Typed
<1>1. /\ time > Tip.time /\ \A n \in paid : time <= withdrawals[n].deadline
      /\ chain' = Append(chain, block) /\ UNCHANGED <<requests, run>>
      /\ final' = IF Len(chain') - Confirmations > final THEN Len(chain') - Confirmations ELSE final
  BY DEF Mine, Payable
<1>2. /\ chain \in Seq(Blocks) /\ Tip = Block(limit) /\ limit \in Height
      /\ Tip \in Blocks /\ Tip.used \subseteq Nonces
  BY <1>0, TipHigh DEF Inv, Typed, ChainInv
<1>3. block \in Blocks /\ block.used \subseteq Nonces /\ time \in Nat /\ Tip.time \in Nat /\ Nonces \subseteq Nat
  BY <1>2, Rowed, WithdrawalAssumption DEF Blocks, Inv
<1>4. /\ chain' \in Seq(Blocks) /\ Len(chain') = top /\ chain'[top] = block
      /\ \A b \in 1..limit : chain'[b] = chain[b]
  <2> HIDE DEF block
  <2> QED
    BY <1>0, <1>1, <1>2, <1>3, AppendProperties
<1>5. /\ Height' = Height \union {top} /\ top \notin Height /\ Block(top)' = block
      /\ \A b \in Height : Block(b)' = Block(b) /\ b < top /\ b <= limit /\ b \in Nat
  <2> HIDE DEF block
  <2>1. Height = 0..limit /\ Height' = 0..top
    BY <1>0, <1>4 DEF Height
  <2>2. \A b \in Height : b \in Nat /\ b <= limit /\ b < top /\ (b = 0 \/ b \in 1..limit)
    BY <1>0, <2>1
  <2>3. Block(top)' = block
    BY <1>0, <1>4 DEF Block
  <2>4. \A b \in Height : Block(b)' = Block(b)
    BY <1>4, <2>2 DEF Block
  <2> QED
    BY <1>0, <2>1, <2>2, <2>3, <2>4
<1>6. withdrawals' = withdrawals /\ Nonces' = Nonces
  BY <1>1 DEF requests, Nonces
<1>7. ChainInv'
  <2>0. block.time = time /\ block.used = Tip.used \union paid
    OBVIOUS
  <2> HIDE DEF block
  <2>1. \A b \in Height' : Block(b)' \in Blocks /\ Block(b)'.used \subseteq Nonces
    BY <1>3, <1>5 DEF Inv, ChainInv
  <2>2. \A a \in Height : /\ Block(a).time <= Tip.time /\ Block(a).used \subseteq Tip.used
                          /\ \A n \in Tip.used \ Block(a).used : Block(a).time < withdrawals[n].deadline
                          /\ Block(a).time \in Nat
    BY <1>2, <1>5 DEF Inv, ChainInv, Blocks
  <2>3. \A a \in Height : /\ Block(a).time <= time /\ Block(a).used \subseteq block.used
                          /\ \A n \in block.used \ Block(a).used : Block(a).time < withdrawals[n].deadline
    <3> SUFFICES ASSUME NEW a \in Height
                 PROVE  /\ Block(a).time <= time /\ Block(a).used \subseteq block.used
                        /\ \A n \in block.used \ Block(a).used : Block(a).time < withdrawals[n].deadline
      OBVIOUS
    <3>1. Block(a).time <= Tip.time /\ Block(a).time \in Nat /\ Block(a).used \subseteq Tip.used
      BY <2>2
    <3>2. Block(a).time < time
      BY <1>1, <1>3, <3>1
    <3>3. \A n \in paid : withdrawals[n].deadline \in Nat
      BY Rowed DEF Inv
    <3>4. \A n \in paid : Block(a).time < withdrawals[n].deadline
      BY <1>1, <1>3, <3>1, <3>2, <3>3
    <3>5. Block(a).time <= time
      BY <1>3, <3>1, <3>2
    <3>6. \A n \in block.used \ Block(a).used : n \in paid \/ n \in Tip.used \ Block(a).used
      BY <2>0
    <3> QED
      BY <2>0, <2>2, <3>1, <3>4, <3>5, <3>6
  <2>4. \A a, b \in Height' : a <= b =>
          /\ Block(a)'.time <= Block(b)'.time /\ Block(a)'.used \subseteq Block(b)'.used
          /\ \A n \in Block(b)'.used \ Block(a)'.used : Block(a)'.time < withdrawals[n].deadline
    <3> SUFFICES ASSUME NEW a \in Height', NEW b \in Height', a <= b
                 PROVE  /\ Block(a)'.time <= Block(b)'.time /\ Block(a)'.used \subseteq Block(b)'.used
                        /\ \A n \in Block(b)'.used \ Block(a)'.used :
                             Block(a)'.time < withdrawals[n].deadline
      OBVIOUS
    <3>1. CASE b \in Height
      <4>1. a \in Height
        BY <1>0, <1>5, <3>1
      <4> QED
        BY <1>5, <3>1, <4>1 DEF Inv, ChainInv
    <3>2. CASE b = top /\ a = top
      BY <1>3, <1>5, <2>0, <3>2
    <3>3. CASE b = top /\ a \in Height
      BY <1>5, <2>0, <2>3, <3>3
    <3> QED
      BY <1>5, <3>1, <3>2, <3>3
  <2> QED
    BY <1>6, <2>1, <2>4 DEF ChainInv
<1>8. FinalInv' /\ final <= final' /\ \A b \in 0..final : Block(b)' = Block(b)
  <2>1. final \in Height /\ final \in Nat /\ Confirmations \in Nat \ {0}
    BY <1>5, WithdrawalAssumption DEF Inv, FinalInv
  <2>2. Height' = 0..top /\ Height = 0..limit
    BY <1>0, <1>4 DEF Height
  <2>3. final' \in Height' /\ Len(chain') - Confirmations <= final' /\ final <= final'
    BY <1>0, <1>1, <1>4, <2>1, <2>2
  <2>4. \A b \in 0..final : b \in Height
    BY <1>0, <2>1, <2>2
  <2> QED
    BY <1>5, <2>3, <2>4 DEF FinalInv
<1> QED
  BY <1>1, <1>4, <1>7, <1>8, ChainMoves

LEMMA InvDrop ==
  ASSUME Inv, NEW number \in 0..Len(chain) - 1, Drop(number)
  PROVE  Inv'
<1>1. number >= final /\ chain' = SubSeq(chain, 1, number) /\ UNCHANGED <<requests, final, run>>
  BY DEF Drop
<1>2. chain \in Seq(Blocks) /\ Len(chain) \in Nat /\ number \in Nat /\ number < Len(chain)
  BY LenProperties DEF Inv, Typed
<1>3. /\ chain' \in Seq(Blocks) /\ Len(chain') = number
      /\ \A b \in 1..number : chain'[b] = chain[b]
  BY <1>1, <1>2, SubSeqProperties
<1>4. /\ Height' = 0..number /\ Height' \subseteq Height
      /\ \A b \in Height' : Block(b)' = Block(b)
  BY <1>2, <1>3 DEF Height, Block
<1>5. withdrawals' = withdrawals /\ Nonces' = Nonces /\ final' = final
  BY <1>1 DEF requests, Nonces
<1>6. ChainInv'
  <2>1. \A b \in Height' : Block(b)' \in Blocks /\ Block(b)'.used \subseteq Nonces
    BY <1>4 DEF Inv, ChainInv
  <2>2. \A a, b \in Height' : a <= b =>
          /\ Block(a)'.time <= Block(b)'.time /\ Block(a)'.used \subseteq Block(b)'.used
          /\ \A n \in Block(b)'.used \ Block(a)'.used : Block(a)'.time < withdrawals[n].deadline
    BY <1>4 DEF Inv, ChainInv
  <2> QED
    BY <1>5, <2>1, <2>2 DEF ChainInv
<1>7. final \in Nat /\ Len(chain) - Confirmations <= final /\ Confirmations \in Nat
  BY <1>2, WithdrawalAssumption DEF Inv, FinalInv, Height
<1>8. FinalInv' /\ \A b \in 0..final : Block(b)' = Block(b)
  <2>1. final \in Height' /\ number - Confirmations <= final
    BY <1>1, <1>2, <1>4, <1>7
  <2>2. \A b \in 0..final : b \in Height'
    BY <1>1, <1>2, <1>4, <1>7
  <2> QED
    BY <1>3, <1>4, <1>5, <2>1, <2>2 DEF FinalInv
<1> QED
  BY <1>1, <1>3, <1>5, <1>6, <1>7, <1>8, ChainMoves

------------------------------------------------------------------------------
(* The reconcilers *)

\* One reconciler goes on, and nothing else changes.
LEMMA RunMoves ==
  ASSUME Inv, NEW r \in Reconcilers, NEW s \in Runs, Goes(s), Continue(r, s), UNCHANGED <<requests, world>>
  PROVE  Inv'
<1>1. /\ UNCHANGED <<withdrawals, escrow, vouchers, chain, final>>
      /\ run' = [run EXCEPT ![r] = s] /\ run \in [Reconcilers -> Runs]
  BY DEF requests, world, Continue, Inv, Typed
<1>2. Nonces' = Nonces /\ Height' = Height /\ \A b : Block(b)' = Block(b)
  BY <1>1 DEF Nonces, Height, Block
<1>3. Typed'
  BY <1>1, <1>2 DEF Inv, Typed
<1>4. ChainInv' /\ FinalInv' /\ SettledInv'
  BY <1>1, <1>2 DEF Inv, ChainInv, FinalInv, SettledInv, SettledAt, PaidAt, ExpiredAt
<1>5. RunInv'
  <2> SUFFICES ASSUME NEW q \in Reconcilers PROVE Goes(run[q])'
    BY DEF RunInv
  <2>1. Goes(run'[q])
    BY <1>1 DEF Inv, RunInv
  <2> QED
    BY <1>1, <1>2, <2>1 DEF Goes, SettledAt, PaidAt, ExpiredAt
<1>6. Booked'
  BY <1>1, <1>2 DEF Inv, Booked, AmountsOf, AmountOf, Unreleased
<1> QED
  BY <1>3, <1>4, <1>5, <1>6 DEF Inv

LEMMA IdleGoes == Idle \in Runs /\ Goes(Idle)
BY DEF Idle, Runs, Goes

LEMMA InvStart ==
  ASSUME Inv, NEW r \in Reconcilers, Start(r)
  PROVE  Inv'
<1> DEFINE s == [Idle EXCEPT !.step = "list", !.number = ConfirmedBlock, !.time = BlockTime(ConfirmedBlock)]
<1>1. Continue(r, s) /\ Len(chain) >= Confirmations /\ UNCHANGED <<requests, world>>
  BY DEF Start
<1>2. /\ Len(chain) \in Nat /\ Confirmations \in Nat /\ final \in Height
      /\ Len(chain) - Confirmations <= final
  BY LenProperties, WithdrawalAssumption DEF Inv, Typed, FinalInv
<1>3. ConfirmedBlock \in 0..final /\ ConfirmedBlock \in Nat /\ ConfirmedBlock \in Height
  BY <1>1, <1>2 DEF ConfirmedBlock, Height
<1>4. Block(ConfirmedBlock).time \in Nat /\ Idle.todo = {}
  BY <1>3 DEF Inv, ChainInv, Blocks, Idle
<1>5. /\ s \in Runs /\ s.step = "list" /\ s.number = ConfirmedBlock /\ s.todo = {}
      /\ s.time = Block(ConfirmedBlock).time
  BY <1>3, <1>4, IdleGoes DEF Runs, BlockTime
<1> HIDE DEF s
<1>6. Goes(s)
  BY <1>3, <1>5 DEF Goes
<1> QED
  BY <1>1, <1>5, <1>6, RunMoves

LEMMA InvListReserved ==
  ASSUME Inv, NEW r \in Reconcilers, ListReserved(r)
  PROVE  Inv'
<1> DEFINE s == [run[r] EXCEPT !.step = "next", !.todo = Reserved]
<1>1. Continue(r, s) /\ run[r].step = "list" /\ UNCHANGED <<requests, world>>
  BY DEF ListReserved, At
<1>2. run[r] \in Runs /\ Goes(run[r]) /\ Reserved \subseteq Nonces /\ Nonces \subseteq Nat
  BY Rowed DEF Inv, Typed, RunInv, Reserved
<1>3. s \in Runs /\ s.number = run[r].number /\ s.time = run[r].time /\ s.todo = Reserved /\ s.step = "next"
  BY <1>2 DEF Runs
<1> HIDE DEF s
<1>4. Goes(s)
  BY <1>1, <1>2, <1>3 DEF Goes
<1> QED
  BY <1>1, <1>3, <1>4, RunMoves

LEMMA InvReadNonce ==
  ASSUME Inv, NEW r \in Reconcilers, ReadNonce(r)
  PROVE  Inv'
<1>1. run[r].step = "next" /\ run[r].todo # {} /\ UNCHANGED <<requests, world>>
  BY DEF ReadNonce, At
<1>2. /\ run[r] \in Runs /\ run[r].todo \in SUBSET Nat
      /\ run[r].number \in 0..final /\ run[r].time = Block(run[r].number).time /\ run[r].todo \subseteq Nonces
  BY <1>1 DEF Inv, Typed, RunInv, Goes, Runs
<1>3. CASE Outcome(r) = "none"
  <2> DEFINE s == [run[r] EXCEPT !.todo = Continues(r)]
  <2>1. Continue(r, s)
    BY <1>3 DEF ReadNonce
  <2>2. Continues(r) \subseteq run[r].todo
    BY DEF Continues
  <2>3. /\ s \in Runs /\ s.number = run[r].number /\ s.time = run[r].time /\ s.todo = Continues(r)
        /\ s.step = "next"
    BY <1>1, <1>2, <2>2 DEF Runs
  <2> HIDE DEF s
  <2>4. Goes(s)
    BY <1>2, <2>2, <2>3 DEF Goes
  <2> QED
    BY <1>1, <2>1, <2>3, <2>4, RunMoves
<1>4. CASE Outcome(r) # "none"
  <2> DEFINE s == [run[r] EXCEPT !.step = "commit", !.outcome = Outcome(r)]
  <2>1. Continue(r, s)
    BY <1>4 DEF ReadNonce
  <2>2. Outcome(r) \in {"COMPLETED", "RELEASED"}
    BY <1>4 DEF Outcome
  <2>3. /\ s \in Runs /\ s.number = run[r].number /\ s.time = run[r].time /\ s.todo = run[r].todo
        /\ s.step = "commit" /\ s.outcome = Outcome(r)
    BY <1>2, <2>2 DEF Runs
  <2> HIDE DEF s
  <2>4. SettledAt(Min(run[r].todo), Outcome(r), run[r].number)
    BY <1>2, <1>4 DEF Outcome, Oldest, SettledAt, PaidAt, ExpiredAt
  <2>5. Goes(s)
    BY <1>1, <1>2, <2>2, <2>3, <2>4 DEF Goes
  <2> QED
    BY <1>1, <2>1, <2>3, <2>5, RunMoves
<1> QED
  BY <1>3, <1>4

LEMMA InvIdles ==
  ASSUME Inv, NEW r \in Reconcilers, Finish(r) \/ Fail(r)
  PROVE  Inv'
BY IdleGoes, RunMoves DEF Finish, Fail

\* transitionWithdrawal: the row is still reserved, or another process was first.
LEMMA InvTransition ==
  ASSUME Inv, NEW r \in Reconcilers, Transition(r)
  PROVE  Inv'
<1> DEFINE s == [run[r] EXCEPT !.step = "next", !.todo = run[r].todo \ {Oldest(r)}, !.outcome = "none"]
<1>1. /\ run[r].step = "commit" /\ Continue(r, s) /\ UNCHANGED <<vouchers, world, bounds>>
      /\ run[r] \in Runs /\ Goes(run[r])
  BY DEF Transition, At, Inv, Typed, RunInv
<1>2. /\ run[r].todo \in SUBSET Nat /\ run[r].todo # {} /\ run[r].todo \subseteq Nonces
      /\ run[r].outcome \in {"COMPLETED", "RELEASED"} /\ run[r].number \in 0..final
      /\ SettledAt(Min(run[r].todo), run[r].outcome, run[r].number)
  BY <1>1 DEF Goes, Runs
<1>3. /\ s \in Runs /\ s.number = run[r].number /\ s.time = run[r].time /\ s.step = "next"
      /\ s.todo \subseteq run[r].todo
  BY <1>1 DEF Runs
<1>4. Goes(s)
  BY <1>1, <1>3 DEF Goes
<1> HIDE DEF s
<1>5. CASE UNCHANGED <<withdrawals, escrow>>
  BY <1>1, <1>3, <1>4, <1>5, RunMoves DEF requests
<1>6. CASE withdrawals[Oldest(r)].status = "RESERVED"
  <2>1. PICK n \in Nonces : n = Oldest(r)
    BY <1>2, Smallest DEF Oldest
  <2>2. PICK outcome \in {"COMPLETED", "RELEASED"} : outcome = run[r].outcome
    BY <1>2
  <2>3. /\ withdrawals' = [withdrawals EXCEPT ![n].status = outcome]
        /\ escrow' = IF outcome = "RELEASED" THEN escrow + AmountOf(n) ELSE escrow
        /\ withdrawals[n].status = "RESERVED"
    BY <1>6, <2>1, <2>2 DEF Transition
  <2>4. withdrawals \in Seq(Rows) /\ Len(withdrawals) \in Nat /\ Nonces = 1..Len(withdrawals)
    BY LenProperties DEF Inv, Typed, Nonces
  <2>5. /\ withdrawals[n] \in Rows /\ AmountOf(n) \in Nat /\ escrow \in Nat
    BY Rowed DEF AmountOf, Inv, Typed
  <2>6. [withdrawals[n] EXCEPT !.status = outcome] \in Rows
    BY <2>5 DEF Rows, Statuses
  <2>7. /\ withdrawals' = [withdrawals EXCEPT ![n] = [withdrawals[n] EXCEPT !.status = outcome]]
        /\ withdrawals' \in Seq(Rows) /\ Len(withdrawals') = Len(withdrawals)
    <3>1. withdrawals' = [withdrawals EXCEPT ![n] = [withdrawals[n] EXCEPT !.status = outcome]]
      BY <2>3
    <3> QED
      BY <2>4, <2>6, <3>1, ExceptSeq
  <2>8. /\ Nonces' = Nonces /\ \A m \in Nonces \ {n} : withdrawals'[m] = withdrawals[m]
        /\ withdrawals'[n].status = outcome
        /\ withdrawals'[n].amount = withdrawals[n].amount
        /\ withdrawals'[n].deadline = withdrawals[n].deadline
    <3>1. withdrawals'[n] = [withdrawals[n] EXCEPT !.status = outcome]
          /\ \A m \in Nonces \ {n} : withdrawals'[m] = withdrawals[m]
      BY <2>4, <2>7
    <3> QED
      BY <2>4, <2>5, <2>7, <3>1 DEF Rows, Nonces
  <2>9. escrow' \in Nat
    BY <2>3, <2>5
  <2>10. run' = [run EXCEPT ![r] = s] /\ run \in [Reconcilers -> Runs]
    BY <1>1 DEF Continue, Inv, Typed
  <2>11. Typed'
    BY <1>1, <1>3, <2>7, <2>8, <2>9, <2>10 DEF Inv, Typed, world
  <2>12. \A m \in Nonces : withdrawals'[m].deadline = withdrawals[m].deadline
    BY <2>8
  <2>13. /\ ChainInv' /\ FinalInv' /\ \A b : Block(b)' = Block(b)
    BY <1>1, <2>8, <2>12, ChainKept
  <2>14. RunInv'
    <3> SUFFICES ASSUME NEW q \in Reconcilers PROVE Goes(run[q])'
      BY DEF RunInv
    <3>1. CASE q # r
      <4>1. run'[q] = run[q]
        BY <2>10, <3>1
      <4> QED
        BY <1>1, <2>8, <2>12, <4>1, RunKept
    <3>2. CASE q = r
      <4>1. run'[q] = s
        BY <2>10, <3>2
      <4> QED
        BY <1>1, <1>3, <1>4, <2>8, <2>13, <4>1 DEF Goes, world
    <3> QED
      BY <3>1, <3>2
  <2>15. SettledInv'
    <3>1. run[r].number \in Height /\ final \in Height /\ run[r].number <= final
      BY <1>2, LenProperties DEF Inv, FinalInv, Typed, Height
    <3>2. SettledAt(n, outcome, run[r].number)
      BY <1>2, <2>1, <2>2 DEF Oldest
    <3>3. SettledAt(n, outcome, final)
      BY <3>1, <3>2, SettledLater DEF Inv
    <3> SUFFICES ASSUME NEW m \in Nonces PROVE SettledAt(m, withdrawals[m].status, final)'
      BY <2>8 DEF SettledInv
    <3>4. SettledAt(m, withdrawals[m].status, final)
      BY DEF Inv, SettledInv
    <3>5. final' = final /\ (m # n => withdrawals'[m] = withdrawals[m])
      BY <1>1, <2>8 DEF world
    <3> QED
      BY <2>8, <2>12, <2>13, <3>3, <3>4, <3>5 DEF SettledAt, PaidAt, ExpiredAt
  <2>16. Booked'
    <3>1. /\ AmountsOf' = AmountsOf /\ n \in Unreleased
      BY <2>3, <2>8 DEF AmountsOf, AmountOf, Unreleased
    <3>2. CASE outcome = "COMPLETED"
      <4>1. Unreleased' = Unreleased
        BY <2>3, <2>8, <3>2 DEF Unreleased
      <4> QED
        BY <2>3, <3>1, <3>2, <4>1 DEF Inv, Booked
    <3>3. CASE outcome = "RELEASED"
      <4>1. Unreleased' = Unreleased \ {n}
        BY <2>3, <2>8, <3>3 DEF Unreleased
      <4>2. /\ IsFiniteSet(Unreleased) /\ \A m \in Unreleased : AmountsOf[m] \in Nat
            /\ AmountsOf[n] = AmountOf(n) /\ IsFiniteSet(Unreleased \ {n})
        BY AmountsTyped, FS_RemoveElement DEF Unreleased, AmountOf, Inv
      <4>3. /\ SumFunctionOnSet(AmountsOf, Unreleased)
               = AmountsOf[n] + SumFunctionOnSet(AmountsOf, Unreleased \ {n})
            /\ SumFunctionOnSet(AmountsOf, Unreleased \ {n}) \in Nat
        BY <3>1, <4>2, SumAny, SumNatural
      <4> QED
        BY <2>3, <2>5, <3>1, <3>3, <4>1, <4>2, <4>3 DEF Inv, Booked
    <3> QED
      BY <3>2, <3>3
  <2> QED
    BY <2>11, <2>13, <2>14, <2>15, <2>16 DEF Inv
<1> QED
  BY <1>5, <1>6 DEF Transition

------------------------------------------------------------------------------
(* Theorems *)

LEMMA InvStutters == ASSUME Inv, UNCHANGED vars PROVE Inv'
<1>1. /\ UNCHANGED <<withdrawals, escrow, vouchers, chain, final, run>>
      /\ Nonces' = Nonces /\ Height' = Height /\ \A b : Block(b)' = Block(b)
  BY DEF vars, requests, world, Nonces, Height, Block
<1>2. Typed' /\ Booked'
  BY <1>1 DEF Inv, Typed, Booked, AmountsOf, AmountOf, Unreleased
<1>3. ChainInv' /\ FinalInv' /\ SettledInv' /\ RunInv'
  BY <1>1 DEF Inv, ChainInv, FinalInv, SettledInv, RunInv, Goes, SettledAt, PaidAt, ExpiredAt
<1> QED
  BY <1>2, <1>3 DEF Inv

LEMMA InvNext == Inv /\ [Next]_vars => Inv'
<1> SUFFICES ASSUME Inv, [Next]_vars PROVE Inv'
  OBVIOUS
<1>1. ASSUME NEW r \in Reconcilers, Step(r) \/ Fail(r) PROVE Inv'
  BY <1>1, InvStart, InvListReserved, InvReadNonce, InvTransition, InvIdles DEF Step
<1> QED
  BY <1>1, InvReserve, InvAnswer, InvMine, InvDrop, InvStutters DEF Next

\* In every reachable state the final blocks, the rows and what the reconcilers
\* go by are related as the argument above says.
THEOREM WithdrawalInvariant == Spec => []Inv
BY InvInit, InvNext, PTL DEF Spec

\* The account never goes below nothing, and vouchers are of rows that exist.
THEOREM WithdrawalTyped == Spec => []TypeOK
<1>1. Inv => TypeOK
  <2> SUFFICES ASSUME Inv PROVE TypeOK
    OBVIOUS
  <2>1. \A n \in Nonces : withdrawals[n] \in Rows
    BY Rowed DEF Inv
  <2> QED
    BY <2>1 DEF Inv, Typed, FinalInv, Height, TypeOK, Rows, Statuses
<1> QED
  BY <1>1, WithdrawalInvariant, PTL

\* What is settled as completed is and stays paid, what is released never is.
THEOREM SettledIsPaid == Spec => []SettledAsPaid
<1>1. Inv => SettledAsPaid
  <2> SUFFICES ASSUME Inv, NEW n \in Nonces
               PROVE  /\ withdrawals[n].status = "COMPLETED" => n \in Tip.used
                      /\ withdrawals[n].status = "RELEASED" => n \notin Tip.used
    BY DEF SettledAsPaid
  <2>1. SettledAt(n, withdrawals[n].status, final) /\ final \in Height
    BY DEF Inv, SettledInv, FinalInv
  <2>2. Len(chain) \in Height /\ Tip = Block(Len(chain)) /\ final <= Len(chain)
    BY <2>1, TipHigh DEF Inv, Height
  <2>3. SettledAt(n, withdrawals[n].status, Len(chain))
    BY <2>1, <2>2, SettledLater DEF Inv
  <2> QED
    BY <2>2, <2>3 DEF SettledAt, PaidAt, ExpiredAt
<1> QED
  BY <1>1, WithdrawalInvariant, PTL

\* What the wallet may spend, with what was and may still be paid to it, never
\* exceeds what it had.
THEOREM VouchersCovered == Spec => []FundsCoverVouchers
<1>1. Inv => FundsCoverVouchers
  <2> SUFFICES ASSUME Inv PROVE FundsCoverVouchers
    OBVIOUS
  <2> DEFINE open == {n \in Nonces : n \in Tip.used \/ Tip.time < withdrawals[n].deadline}
  <2>1. Len(chain) \in Height /\ Tip = Block(Len(chain)) /\ Len(chain) \in Nat
    BY TipHigh DEF Inv
  <2>2. open \subseteq Unreleased
    <3> SUFFICES ASSUME NEW n \in open PROVE n \in Unreleased
      OBVIOUS
    <3>1. SettledAt(n, withdrawals[n].status, final) /\ final \in Height /\ final <= Len(chain)
      BY <2>1 DEF Inv, SettledInv, FinalInv, Height
    <3>2. SettledAt(n, withdrawals[n].status, Len(chain))
      BY <2>1, <3>1, SettledLater DEF Inv
    <3>3. Tip.time \in Nat /\ withdrawals[n].deadline \in Nat
      BY <2>1, Rowed DEF Inv, ChainInv, Blocks
    <3> QED
      BY <2>1, <3>2, <3>3 DEF SettledAt, PaidAt, ExpiredAt, Unreleased
  <2> HIDE DEF open
  <2>3. /\ IsFiniteSet(Unreleased) /\ \A n \in Unreleased : AmountsOf[n] \in Nat
        /\ IsFiniteSet(open) /\ \A n \in open : AmountsOf[n] \in Nat
    BY <2>2, AmountsTyped DEF Unreleased, Inv
  <2>4. /\ SumFunctionOnSet(AmountsOf, open) <= SumFunctionOnSet(AmountsOf, Unreleased)
        /\ SumFunctionOnSet(AmountsOf, open) \in Nat /\ SumFunctionOnSet(AmountsOf, Unreleased) \in Nat
    BY <2>2, <2>3, SumGrows, SumNatural
  <2>5. escrow \in Nat /\ escrow + SumFunctionOnSet(AmountsOf, Unreleased) = Funds
    BY DEF Inv, Typed, Booked
  <2>6. escrow + SumFunctionOnSet(AmountsOf, open) <= Funds
    BY <2>4, <2>5
  <2> QED
    BY <2>6 DEF FundsCoverVouchers, AmountsOf, open
<1> QED
  BY <1>1, WithdrawalInvariant, PTL
===============================================================================
