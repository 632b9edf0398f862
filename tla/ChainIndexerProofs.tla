-------------------------- MODULE ChainIndexerProofs --------------------------
(***************************************************************************)
(* For any indexers, deposits, confirmations and range size: the ledger    *)
(* holds a deposit once when its event is credited and not at all          *)
(* otherwise; and, while no block that a sync relies on is reorganised     *)
(* under it, the events are those of the checkpoint and every stored       *)
(* checkpoint is of one chain.                                             *)
(*                                                                         *)
(* The argument: a transaction passes only the fence of the last lease, so *)
(* only what the last lease has read matters, and its blocks stay where    *)
(* they are: what it is about to write extends, or is a prefix of, the     *)
(* checkpoint as it is now, whatever was read in between.                  *)
(***************************************************************************)
EXTENDS ChainIndexer, SequenceTheorems, FiniteSetTheorems, TLAPS

Blocks == SUBSET Deposits
Hashes == {h \in Seq(Blocks) : Len(h) <= MaxBlocks}

Steps == {"idle", "start", "check", "ancestor", "rewind", "commit-rewind",
          "range", "logs", "after", "commit-range"}
Syncs == [step : Steps, tip : 0..MaxBlocks, from : 0..MaxBlocks + 1,
          hash : Hashes, logs : Seq(Blocks)]
Rows  == [status : {"none", "CREDITED", "UNATTRIBUTED", "REORGED"},
          revision : Nat, block : 0..MaxBlocks]

\* A sync that has chosen a block to go on from has chosen a block of the chain,
\* and holds the logs of a range only until it has committed them.
Placed(s) ==
  /\ s.step \notin {"idle", "start", "check", "ancestor"} => s.from >= 1
  /\ IF s.step \in {"after", "commit-range"} THEN s.from + Len(s.logs) <= MaxBlocks + 1
     ELSE s.logs = <<>>

Typed ==
  /\ chain \in Hashes
  /\ checkpoint \in Hashes
  /\ history \subseteq Hashes
  /\ event \in [Deposits -> Rows]
  /\ sync \in [Indexers -> Syncs]
  /\ \A i \in Indexers : Placed(sync[i])

------------------------------------------------------------------------------
(* The ledger *)

\* A revision is credited at most once and reversed at most once, the current
\* one is on the ledger exactly while it is credited, and none is ahead of it.
Credited(d) == event[d].status = "CREDITED"
Booked(rows, d, r) == <<d, r>> \in rows

RevisionsOf(d) ==
  /\ \A r \in Nat :
       /\ Booked(credits, d, r) => r < event[d].revision \/ (Credited(d) /\ r = event[d].revision)
       /\ Booked(reversals, d, r) <=> Booked(credits, d, r) /\ r < event[d].revision
  /\ Credited(d) => Booked(credits, d, event[d].revision)

RevisionsOnce ==
  /\ \A d \in Deposits : RevisionsOf(d)
  /\ credits \cup reversals \subseteq Deposits \X Nat

------------------------------------------------------------------------------
(* What the last lease has read *)

\* The first n blocks of two chains are the same.
Agree(s, t, n) == n <= Len(s) /\ n <= Len(t) /\ \A k \in 1..n : s[k] = t[k]

\* A deposit is in one block.
Disjoint(blocks) ==
  \A m, n \in DOMAIN blocks : m # n => blocks[m] \cap blocks[n] = {}

OnePlace == Disjoint(chain) /\ Disjoint(checkpoint)

\* The checkpoint is of the chain, or the rewind goes back to where it was.
Compared(s) ==
  /\ s.step \notin {"idle", "start", "check"} => Len(checkpoint) <= Len(chain)
  /\ s.step \in {"range", "logs", "after", "commit-range"} =>
       Agree(checkpoint, chain, Len(checkpoint)) /\ s.from = Len(checkpoint) + 1
  /\ s.step \in {"rewind", "commit-rewind"} => Agree(checkpoint, chain, s.from - 1)
  /\ s.step = "commit-rewind" => Len(s.hash) = s.from - 1 /\ Agree(s.hash, chain, s.from - 1)

\* The range that was read is the one of the chain.
Read(s, end) ==
  /\ s.step \in {"logs", "after", "commit-range"} =>
       /\ s.from <= end /\ end <= s.tip
       /\ Len(s.hash) = end /\ Agree(s.hash, chain, end)
  /\ s.step \in {"after", "commit-range"} =>
       /\ Len(s.logs) = end - s.from + 1
       /\ \A k \in s.from..end : s.logs[k - s.from + 1] = chain[k]

Current(i) == Compared(sync[i]) /\ Read(sync[i], RangeEnd(i))
LeaseInv == \A i \in Indexers : lease = i => Current(i)

\* EventsMatchCheckpoint, and the block that an event names is there.
Matching ==
  /\ ActiveEvents(event) = DepositsOf(checkpoint)
  /\ \A d \in ActiveEvents(event) :
       event[d].block \in 1..Len(checkpoint) /\ d \in checkpoint[event[d].block]

OneHistory == \A h \in history : Agree(h, checkpoint, Len(h))

SettledInv == OnePlace /\ LeaseInv /\ Matching /\ OneHistory

------------------------------------------------------------------------------
(* Sequences of blocks *)

LEMMA Numbers ==
  /\ Confirmations \in Nat /\ RangeSize \in Nat /\ RangeSize >= 1
  /\ MaxBlocks \in Nat /\ MaxChanges \in Nat /\ MaxFailures \in Nat
  /\ NoIndexer \notin Indexers
BY IndexerAssumption

\* The first n blocks of a chain, SubSeq(s, 1, n).
LEMMA FirstBlocks ==
  ASSUME NEW s \in Hashes, NEW n \in Int, n <= Len(s)
  PROVE  LET p == SubSeq(s, 1, n) IN
         /\ p \in Hashes
         /\ Len(p) = IF n >= 0 THEN n ELSE 0
         /\ \A k \in 1..n : p[k] = s[k]
<1> DEFINE p == SubSeq(s, 1, n)
<1>1. s \in Seq(Blocks) /\ Len(s) \in Nat /\ Len(s) <= MaxBlocks
  BY DEF Hashes
<1>2. \A k \in 1..n : s[k] \in Blocks
  BY <1>1, ElementOfSeq
<1>3. p \in Seq(Blocks) /\ Len(p) = (IF 1 <= n THEN n - 1 + 1 ELSE 0)
      /\ \A k \in 1..n - 1 + 1 : p[k] = s[1 + k - 1]
  BY <1>2, SubSeqProperties
<1> QED
  BY <1>1, <1>3, Numbers DEF Hashes

\* Lengths of chains have a largest, as no descending family of finite sets is
\* endless.
LEMMA LargestLength ==
  ASSUME NEW L \in SUBSET (0..MaxBlocks), L # {}
  PROVE  \E l \in L : \A m \in L : m <= l
<1> DEFINE above(l) == l + 1..MaxBlocks
           family == {above(l) : l \in L}
<1>1. \A l \in L : above(l) \in FiniteSubsetsOf(Nat)
  <2> SUFFICES ASSUME NEW l \in L PROVE above(l) \in FiniteSubsetsOf(Nat)
    OBVIOUS
  <2>1. l \in Nat /\ MaxBlocks \in Nat
    BY Numbers
  <2>2. IsFiniteSet(above(l))
    BY <2>1, FS_Interval
  <2> QED
    BY <2>1, <2>2 DEF FiniteSubsetsOf
<1>2. family \subseteq FiniteSubsetsOf(Nat) /\ family # {}
  BY <1>1
<1>3. PICK x \in family : \A y \in family : ~(<<y, x>> \in StrictSubsetOrdering(Nat))
  <2> DEFINE R == StrictSubsetOrdering(Nat)
             S == FiniteSubsetsOf(Nat)
  <2>1. IsWellFoundedOn(R, S)
    BY FS_StrictSubsetOrderingWellFounded
  <2>2. family \subseteq S /\ family # {}
    BY <1>2
  <2> HIDE DEF family, R, S
  <2>3. \E x \in family : \A y \in family : ~(<<y, x>> \in R)
    BY <2>1, <2>2, WFMin
  <2> QED
    BY <2>3 DEF R
<1>4. PICK l \in L : x = above(l)
  BY <1>3
<1>5. ASSUME NEW m \in L, ~(m <= l) PROVE FALSE
  <2>1. l \in Nat /\ m \in 0..MaxBlocks /\ l < m
    BY <1>5, Numbers
  <2>2. above(m) \subseteq above(l) /\ m \in above(l) /\ m \notin above(m)
    BY <2>1, Numbers
  <2>3. <<above(m), above(l)>> \in StrictSubsetOrdering(Nat)
    <3>1. above(m) \in SUBSET Nat /\ above(l) \in SUBSET Nat
      BY <2>1, Numbers
    <3>2. above(m) # above(l)
      BY <2>2
    <3> HIDE DEF above
    <3> QED
      BY <3>1, <3>2, <2>2 DEF StrictSubsetOrdering
  <2> QED
    BY <1>3, <1>4, <2>3
<1> QED
  BY <1>5

\* findCommonAncestor goes back to a hash of the history that is of the chain,
\* or to the beginning.
LEMMA RewindBlock ==
  ASSUME history \subseteq Hashes, chain \in Hashes
  PROVE  \/ RewindFrom = 1
         \/ \E h \in Ancestors : RewindFrom = Len(h) + 1
<1>1. CASE Ancestors = {}
  BY <1>1 DEF RewindFrom
<1>2. CASE Ancestors # {}
  <2> DEFINE lengths == {Len(h) : h \in Ancestors}
  <2>1. lengths \subseteq 0..MaxBlocks
    BY DEF Ancestors, OlderEntries, Hashes
  <2>2. PICK l \in lengths : \A m \in lengths : m <= l
    <3> HIDE DEF lengths
    <3>1. lengths # {}
      BY <1>2 DEF lengths
    <3> QED
      BY <2>1, <3>1, LargestLength
  <2>3. \E h \in Ancestors : \A g \in Ancestors : Len(g) <= Len(h)
    BY <2>2
  <2> QED
    BY <1>2, <2>3 DEF RewindFrom
<1> QED
  BY <1>1, <1>2

------------------------------------------------------------------------------
(* Types *)

SyncsTyped == sync \in [Indexers -> Syncs] /\ \A i \in Indexers : Placed(sync[i])

LEMMA IdleTyped == Idle \in Syncs /\ Placed(Idle) /\ <<>> \in Hashes
<1>1. <<>> \in Seq(Blocks) /\ Len(<<>>) = 0
  BY EmptySeq
<1> QED
  BY <1>1, Numbers DEF Idle, Syncs, Placed, Steps, Hashes

LEMMA SyncTyped ==
  ASSUME SyncsTyped, NEW i \in Indexers, NEW s \in Syncs, Placed(s), Continue(i, s)
  PROVE  SyncsTyped'
BY DEF SyncsTyped, Continue

LEMMA EndTyped ==
  ASSUME SyncsTyped, NEW i \in Indexers, End(i)
  PROVE  SyncsTyped' /\ UNCHANGED <<chain, checkpoint, history, event>>
BY IdleTyped DEF SyncsTyped, End, world, database

LEMMA TypedInit == Init => Typed
<1>1. NoEvent \in Rows
  BY Numbers DEF NoEvent, Rows
<1>2. Init => sync \in [Indexers -> Syncs] /\ \A i \in Indexers : Placed(sync[i])
  BY IdleTyped DEF Init
<1> QED
  BY <1>1, <1>2, IdleTyped DEF Init, Typed, NoCheckpoint

LEMMA TypedWorld ==
  ASSUME Typed,
         \/ \E block \in SUBSET Deposits : Mine(block)
         \/ \E n \in 0..Len(chain) - 1 : Drop(n)
         \/ \E d \in Deposits : Register(d)
  PROVE  Typed'
<1>0. chain \in Hashes /\ chain \in Seq(Blocks) /\ Len(chain) \in Nat
  BY DEF Typed, Hashes
<1>1. ASSUME NEW block \in SUBSET Deposits, Mine(block) PROVE Typed'
  <2>1. Append(chain, block) \in Seq(Blocks) /\ Len(Append(chain, block)) = Len(chain) + 1
    BY <1>0, AppendProperties DEF Blocks
  <2>2. chain' \in Hashes
    BY <2>1, <1>0, <1>1, Numbers DEF Mine, Hashes
  <2> QED
    BY <1>1, <2>2 DEF Mine, Typed, database
<1>2. ASSUME NEW n \in 0..Len(chain) - 1, Drop(n) PROVE Typed'
  <2>1. HashAt(n) \in Hashes
    BY <1>0, FirstBlocks DEF HashAt
  <2> QED
    BY <1>2, <2>1 DEF Drop, Typed, database
<1>3. ASSUME NEW d \in Deposits, Register(d) PROVE Typed'
  BY <1>3 DEF Register, Typed, database
<1> QED
  BY <1>1, <1>2, <1>3

LEMMA RangeEndTyped ==
  ASSUME NEW i \in Indexers, sync[i] \in Syncs
  PROVE  RangeEnd(i) \in 0..MaxBlocks /\ RangeEnd(i) <= sync[i].tip
         /\ RangeEnd(i) <= sync[i].from + RangeSize - 1
         /\ (sync[i].from <= sync[i].tip => RangeEnd(i) >= sync[i].from)
BY Numbers DEF RangeEnd, Syncs

\* The steps that only read.
LEMMA TypedReads ==
  ASSUME Typed, NEW i \in Indexers,
         \/ Poll(i) \/ ReadTip(i) \/ CheckCheckpoint(i) \/ FindAncestor(i)
         \/ ReadRewindBlock(i) \/ RangeBefore(i) \/ RangeLogs(i) \/ RangeAfter(i)
         \/ Fail(i) \/ LoseConnection(i) \/ NoticeLoss(i)
  PROVE  Typed'
<1> DEFINE s == sync[i]
<1>0. /\ SyncsTyped /\ chain \in Hashes /\ chain \in Seq(Blocks) /\ Len(chain) \in 0..MaxBlocks
      /\ s \in Syncs /\ Placed(s) /\ checkpoint \in Hashes /\ Len(checkpoint) \in 0..MaxBlocks
      /\ history \subseteq Hashes
  BY DEF Typed, Hashes, SyncsTyped
<1>1. /\ s = [step |-> s.step, tip |-> s.tip, from |-> s.from, hash |-> s.hash, logs |-> s.logs]
      /\ s.step \in Steps /\ s.tip \in 0..MaxBlocks /\ s.from \in 0..MaxBlocks + 1
      /\ s.hash \in Hashes /\ s.logs \in Seq(Blocks) /\ Len(s.logs) \in Nat
  BY <1>0 DEF Syncs
<1>e. ASSUME End(i) PROVE Typed'
  BY <1>0, <1>e, EndTyped DEF Typed, SyncsTyped
<1>c. ASSUME NEW r \in Syncs, Placed(r), Continue(i, r), UNCHANGED <<world, database>>
      PROVE  Typed'
  <2>1. SyncsTyped'
    BY <1>0, <1>c, SyncTyped
  <2> QED
    BY <1>c, <2>1 DEF Typed, SyncsTyped, world, database
<1>2. CASE Poll(i)
  <2>1. [Idle EXCEPT !.step = "start"] \in Syncs /\ Placed([Idle EXCEPT !.step = "start"])
    BY IdleTyped, EmptySeq, Numbers DEF Idle, Syncs, Placed, Steps
  <2> QED
    BY <1>2, <1>c, <2>1 DEF Poll
<1>3. CASE ReadTip(i)
  <2> DEFINE r == [s EXCEPT !.step = "check", !.tip = Len(chain) - Confirmations]
  <2>1. CASE TooShort
    BY <1>3, <1>e, <2>1 DEF ReadTip
  <2>2. CASE ~TooShort
    <3>1. s.step = "start" /\ s.logs = <<>>
      BY <1>3, <1>0 DEF ReadTip, At, Placed
    <3>2. r \in Syncs
      <4>1. Len(chain) - Confirmations \in 0..MaxBlocks
        BY <1>0, <2>2, Numbers DEF TooShort
      <4> QED
        BY <1>0, <4>1 DEF Syncs, Steps
    <3>3. Placed(r)
      BY <1>1, <3>1 DEF Placed
    <3> QED
      BY <1>3, <1>c, <2>2, <3>2, <3>3 DEF ReadTip
  <2> QED
    BY <2>1, <2>2
<1>4. CASE CheckCheckpoint(i)
  <2> DEFINE r == [s EXCEPT !.step = "range", !.from = Len(checkpoint) + 1]
             q == [s EXCEPT !.step = "ancestor"]
  <2>1. CASE Len(checkpoint) > Len(chain)
    BY <1>4, <1>e, <2>1 DEF CheckCheckpoint
  <2>2. CASE ~(Len(checkpoint) > Len(chain))
    <3>1. s.step = "check" /\ s.logs = <<>>
      BY <1>4, <1>0 DEF CheckCheckpoint, At, Placed
    <3>2. r \in Syncs /\ q \in Syncs
      <4>1. Len(checkpoint) + 1 \in 0..MaxBlocks + 1
        BY <1>0, Numbers
      <4> QED
        BY <1>0, <4>1 DEF Syncs, Steps
    <3>3. Placed(r) /\ Placed(q)
      BY <1>0, <1>1, <3>1 DEF Placed
    <3> QED
      BY <1>4, <1>c, <2>2, <3>2, <3>3 DEF CheckCheckpoint
  <2> QED
    BY <2>1, <2>2
<1>5. CASE FindAncestor(i)
  <2> DEFINE r == [s EXCEPT !.step = "rewind", !.from = RewindFrom]
             early == \E h \in OlderEntries : Len(h) > Len(chain)
  <2>1. CASE early
    BY <1>5, <1>e, <2>1 DEF FindAncestor
  <2>2. CASE ~early
    <3>1. s.step = "ancestor" /\ s.logs = <<>>
      BY <1>5, <1>0 DEF FindAncestor, At, Placed
    <3>2. RewindFrom \in 1..MaxBlocks + 1
      BY <1>0, RewindBlock, Numbers DEF Ancestors, OlderEntries, Hashes
    <3>3. r \in Syncs
      <4>1. RewindFrom \in 0..MaxBlocks + 1
        BY <3>2, Numbers
      <4> QED
        BY <1>0, <4>1 DEF Syncs, Steps
    <3>4. Placed(r)
      BY <1>1, <3>1, <3>2 DEF Placed
    <3> QED
      BY <1>5, <1>c, <2>2, <3>3, <3>4 DEF FindAncestor
  <2> QED
    BY <2>1, <2>2
<1>6. CASE ReadRewindBlock(i)
  <2> DEFINE r == [s EXCEPT !.step = "commit-rewind", !.hash = HashAt(s.from - 1)]
  <2>1. CASE s.from - 1 > Len(chain)
    BY <1>6, <1>e, <2>1 DEF ReadRewindBlock
  <2>2. CASE ~(s.from - 1 > Len(chain))
    <3>1. s.step = "rewind"
      BY <1>6 DEF ReadRewindBlock, At
    <3>2. HashAt(s.from - 1) \in Hashes
      BY <1>0, <1>1, <2>2, FirstBlocks DEF HashAt
    <3>3. r \in Syncs /\ Placed(r)
      BY <1>0, <1>1, <3>1, <3>2, Numbers DEF Syncs, Placed, Steps
    <3> QED
      BY <1>6, <1>c, <2>2, <3>3 DEF ReadRewindBlock
  <2> QED
    BY <2>1, <2>2
<1>7. CASE RangeBefore(i)
  <2> DEFINE r == [s EXCEPT !.step = "logs", !.hash = HashAt(RangeEnd(i))]
             stop == Indexed(i) \/ RangeEnd(i) > Len(chain)
  <2>1. CASE stop
    BY <1>7, <1>e, <2>1 DEF RangeBefore
  <2>2. CASE ~stop
    <3>1. s.step = "range"
      BY <1>7 DEF RangeBefore, At
    <3>2. HashAt(RangeEnd(i)) \in Hashes
      BY <1>0, <1>1, <2>2, FirstBlocks, RangeEndTyped DEF HashAt
    <3>3. r \in Syncs /\ Placed(r)
      BY <1>0, <1>1, <3>1, <3>2, Numbers DEF Syncs, Placed, Steps
    <3> QED
      BY <1>7, <1>c, <2>2, <3>3 DEF RangeBefore
  <2> QED
    BY <2>1, <2>2
<1>8. CASE RangeLogs(i)
  <2> DEFINE end == IF RangeEnd(i) < Len(chain) THEN RangeEnd(i) ELSE Len(chain)
             logs == SubSeq(chain, s.from, end)
             r == [s EXCEPT !.step = "after", !.logs = logs]
  <2>1. s.step = "logs" /\ s.from >= 1
    BY <1>8, <1>0 DEF RangeLogs, At, Placed
  <2>2. end \in Int /\ end <= Len(chain)
    BY <1>0, RangeEndTyped
  <2>3. \A k \in s.from..end : chain[k] \in Blocks
    BY <1>0, <1>1, <2>1, <2>2, ElementOfSeq
  <2>4. logs \in Seq(Blocks) /\ Len(logs) = IF s.from <= end THEN end - s.from + 1 ELSE 0
    <3> HIDE DEF end
    <3> QED
      BY <1>1, <2>2, <2>3, SubSeqProperties
  <2>5. r \in Syncs /\ Placed(r)
    <3>1. s.from + Len(logs) <= MaxBlocks + 1
      <4> HIDE DEF end, logs
      <4> QED
        BY <1>0, <1>1, <2>2, <2>4, Numbers
    <3> HIDE DEF logs
    <3> QED
      BY <1>0, <1>1, <2>1, <2>4, <3>1, Numbers DEF Syncs, Placed, Steps
  <2> QED
    BY <1>8, <1>c, <2>5 DEF RangeLogs
<1>9. CASE RangeAfter(i)
  <2> DEFINE r == [s EXCEPT !.step = "commit-range"]
             moved == RangeEnd(i) > Len(chain) \/ s.hash # HashAt(RangeEnd(i))
  <2>1. CASE moved
    BY <1>9, <1>e, <2>1 DEF RangeAfter
  <2>2. CASE ~moved
    <3>1. s.step = "after"
      BY <1>9 DEF RangeAfter, At
    <3>2. r \in Syncs /\ Placed(r)
      BY <1>0, <1>1, <3>1, Numbers DEF Syncs, Placed, Steps
    <3> QED
      BY <1>9, <1>c, <2>2, <3>2 DEF RangeAfter
  <2> QED
    BY <2>1, <2>2
<1>10. CASE Fail(i)
  BY <1>10, <1>0, IdleTyped DEF Fail, Typed, SyncsTyped, world, database
<1>11. CASE LoseConnection(i)
  BY <1>11 DEF LoseConnection, Typed, world, database
<1>12. CASE NoticeLoss(i)
  BY <1>12, <1>e DEF NoticeLoss
<1> QED
  BY <1>2, <1>3, <1>4, <1>5, <1>6, <1>7, <1>8, <1>9, <1>10, <1>11, <1>12

\* The block that an event names is the one its deposit was found in.
LEMMA FoundBlock ==
  ASSUME NEW logs \in Seq(Blocks), NEW d \in DepositsOf(logs)
  PROVE  LET n == CHOOSE m \in DOMAIN logs : d \in logs[m]
         IN  n \in 1..Len(logs) /\ d \in logs[n]
<1>1. DOMAIN logs = 1..Len(logs)
  BY LenProperties
<1>2. \E m \in DOMAIN logs : d \in logs[m]
  BY DEF DepositsOf
<1> QED
  BY <1>1, <1>2

LEMMA RowsCredited ==
  ASSUME event \in [Deposits -> Rows], NEW logs \in Seq(Blocks), NEW from \in Nat,
         from >= 1, from + Len(logs) <= MaxBlocks + 1,
         CreditDeposits(logs, from)
  PROVE  event' \in [Deposits -> Rows]
<1>1. ASSUME NEW d \in Fresh(logs), d \in Deposits PROVE CreditedEvent(logs, from, d) \in Rows
  <2> DEFINE n == CHOOSE m \in DOMAIN logs : d \in logs[m]
  <2>1. n \in 1..Len(logs) /\ Len(logs) \in Nat
    BY <1>1, FoundBlock, LenProperties DEF Fresh
  <2>2. from - 1 + n \in 0..MaxBlocks
    <3> HIDE DEF n
    <3> QED
      BY <2>1, Numbers
  <2>3. event[d].revision \in Nat
    BY <1>1 DEF Rows
  <2>4. (IF d \in known THEN "CREDITED" ELSE "UNATTRIBUTED")
          \in {"none", "CREDITED", "UNATTRIBUTED", "REORGED"}
    OBVIOUS
  <2>5. CreditedEvent(logs, from, d)
          = [status   |-> IF d \in known THEN "CREDITED" ELSE "UNATTRIBUTED",
             revision |-> event[d].revision, block |-> from - 1 + n]
    BY DEF CreditedEvent
  <2> HIDE DEF n
  <2> QED
    BY <2>2, <2>3, <2>4, <2>5 DEF Rows
<1>2. event' = [d \in Deposits |->
                  IF d \in Fresh(logs) THEN CreditedEvent(logs, from, d) ELSE event[d]]
  BY DEF CreditDeposits
<1> QED
  BY <1>1, <1>2

LEMMA RowsReversed ==
  ASSUME event \in [Deposits -> Rows], NEW from, NEW hash, RewindDeposits(from, hash)
  PROVE  event' \in [Deposits -> Rows]
<1>1. ASSUME NEW e \in Rows PROVE Reorged(e) \in Rows
  <2>1. e.revision + 1 \in Nat
    BY DEF Rows
  <2>2. e = [status |-> e.status, revision |-> e.revision, block |-> e.block]
    BY DEF Rows
  <2>3. Reorged(e) = [e EXCEPT !.status = "REORGED", !.revision = e.revision + 1]
    BY DEF Reorged
  <2> QED
    BY <2>1, <2>2, <2>3 DEF Rows
<1> QED
  BY <1>1 DEF RewindDeposits

LEMMA TypedCommits ==
  ASSUME Typed, NEW i \in Indexers, CommitRewind(i) \/ CommitRange(i)
  PROVE  Typed'
<1> DEFINE s == sync[i]
<1>0. /\ SyncsTyped /\ event \in [Deposits -> Rows] /\ chain \in Hashes
      /\ s \in Syncs /\ Placed(s) /\ checkpoint \in Hashes /\ history \subseteq Hashes
  BY DEF Typed, SyncsTyped
<1>1. /\ s.step \in Steps /\ s.tip \in 0..MaxBlocks /\ s.from \in 0..MaxBlocks + 1
      /\ s.hash \in Hashes /\ s.logs \in Seq(Blocks) /\ Len(s.logs) \in Nat
      /\ Len(s.hash) \in 0..MaxBlocks
  BY <1>0 DEF Syncs, Hashes
<1>e. ASSUME End(i) PROVE Typed'
  BY <1>0, <1>e, EndTyped DEF Typed, SyncsTyped
<1>2. CASE ~Fenced(i)
  BY <1>2, <1>e DEF CommitRewind, CommitRange
<1>3. CASE Fenced(i) /\ CommitRewind(i)
  <2> DEFINE r == [s EXCEPT !.step = "range", !.hash = <<>>, !.from = Len(s.hash) + 1]
  <2>1. s.step = "commit-rewind" /\ s.logs = <<>>
    BY <1>0, <1>3 DEF CommitRewind, At, Placed
  <2>2. RewindDeposits(s.from, s.hash)
    BY <1>3 DEF CommitRewind
  <2>3. checkpoint' = s.hash /\ history' \subseteq history \cup {s.hash}
    BY <2>2 DEF RewindDeposits, KeptHistory, WithEntry
  <2>4. r \in Syncs /\ Placed(r)
    <3>1. Len(s.hash) + 1 \in 0..MaxBlocks + 1 /\ Len(s.hash) + 1 >= 1
      BY <1>1, Numbers
    <3>2. r \in Syncs
      BY <1>0, <3>1, IdleTyped DEF Syncs, Steps
    <3> QED
      BY <1>0, <2>1, <3>1, <3>2 DEF Placed, Syncs
  <2>5. Continue(i, r) /\ UNCHANGED chain
    BY <1>3, <2>3 DEF CommitRewind, world
  <2>6. SyncsTyped'
    BY <1>0, <2>4, <2>5, SyncTyped
  <2>7. event' \in [Deposits -> Rows]
    BY <1>0, <2>2, RowsReversed
  <2> QED
    BY <1>0, <1>1, <2>3, <2>5, <2>6, <2>7 DEF Typed, SyncsTyped
<1>4. CASE Fenced(i) /\ CommitRange(i)
  <2> DEFINE r == [s EXCEPT !.step = "range", !.from = RangeEnd(i) + 1, !.hash = <<>>, !.logs = <<>>]
  <2>1. s.step = "commit-range" /\ s.from >= 1 /\ s.from + Len(s.logs) <= MaxBlocks + 1
    BY <1>0, <1>4 DEF CommitRange, At, Placed
  <2>2. CreditDeposits(s.logs, s.from) /\ StoreCheckpoint(s.hash)
    BY <1>4 DEF CommitRange, CommitDepositRange
  <2>3. checkpoint' \in Hashes /\ history' \subseteq Hashes
    BY <1>0, <1>1, <2>2 DEF StoreCheckpoint, WithEntry
  <2>4. r \in Syncs /\ Placed(r)
    <3>1. RangeEnd(i) + 1 \in 0..MaxBlocks + 1 /\ RangeEnd(i) + 1 >= 1
      BY <1>0, RangeEndTyped, Numbers
    <3>2. r \in Syncs
      BY <1>0, <3>1, IdleTyped DEF Syncs, Steps, Hashes
    <3> QED
      BY <1>0, <3>1, <3>2 DEF Placed, Syncs
  <2>5. Continue(i, r) /\ UNCHANGED chain
    BY <1>4 DEF CommitRange, world
  <2>6. SyncsTyped'
    BY <1>0, <2>4, <2>5, SyncTyped
  <2>7. event' \in [Deposits -> Rows]
    BY <1>0, <1>1, <2>1, <2>2, RowsCredited
  <2> QED
    BY <1>0, <2>3, <2>5, <2>6, <2>7 DEF Typed, SyncsTyped
<1> QED
  BY <1>2, <1>3, <1>4

LEMMA TypedNext == Typed /\ [Next]_vars => Typed'
<1> SUFFICES ASSUME Typed, [Next]_vars PROVE Typed'
  OBVIOUS
<1>1. CASE UNCHANGED vars
  BY <1>1 DEF vars, world, database, Typed
<1>2. CASE Next
  BY <1>2, TypedWorld, TypedReads, TypedCommits DEF Next, Step
<1> QED
  BY <1>1, <1>2

\* The rows, the syncs and the chain are what the code can hold, whatever is
\* reorganised and whoever loses the lock.
THEOREM TypeCorrect == Spec => []TypeOK
<1>1. Typed => TypeOK
  BY DEF Typed, TypeOK, IsHash, Hashes, Blocks, Rows, Syncs
<1> QED
  BY <1>1, TypedInit, TypedNext, PTL DEF Spec

------------------------------------------------------------------------------
(* The ledger *)

LEMMA CreditedFields ==
  ASSUME NEW logs, NEW from, NEW d
  PROVE  LET e == CreditedEvent(logs, from, d)
         IN  /\ e.status = IF d \in known THEN "CREDITED" ELSE "UNATTRIBUTED"
             /\ e.revision = event[d].revision
<1> DEFINE n == CHOOSE m \in DOMAIN logs : d \in logs[m]
<1>1. CreditedEvent(logs, from, d)
        = [status   |-> IF d \in known THEN "CREDITED" ELSE "UNATTRIBUTED",
           revision |-> event[d].revision, block |-> from - 1 + n]
  BY DEF CreditedEvent
<1> HIDE DEF n
<1> QED
  BY <1>1

LEMMA ReorgedFields ==
  ASSUME NEW e \in Rows
  PROVE  Reorged(e).status = "REORGED" /\ Reorged(e).revision = e.revision + 1
BY DEF Reorged, Rows

LEMMA RevisionsCredited ==
  ASSUME RevisionsOnce, event \in [Deposits -> Rows], NEW logs \in Seq(Blocks), NEW from,
         CreditDeposits(logs, from)
  PROVE  RevisionsOnce'
<1>1. Fresh(logs) \subseteq Deposits
  <2>1. \A n \in DOMAIN logs : logs[n] \in Blocks
    BY LenProperties, ElementOfSeq
  <2> QED
    BY <2>1 DEF Fresh, DepositsOf, Blocks
<1>2. \A d \in Deposits :
        event'[d] = IF d \in Fresh(logs) THEN CreditedEvent(logs, from, d) ELSE event[d]
  BY DEF CreditDeposits
<1>3. \A d \in Deposits : event[d].revision \in Nat /\ event'[d].revision = event[d].revision
  BY <1>2, CreditedFields DEF Rows
<1>4. \A d \in Deposits : /\ d \in Fresh(logs) => ~Credited(d)
                          /\ Credited(d)' <=> Credited(d) \/ d \in Fresh(logs) \cap known
  BY <1>2, CreditedFields DEF Credited, Fresh, ActiveEvents
<1>5. reversals' = reversals /\ \A d \in Deposits, r \in Nat :
        Booked(credits', d, r) <=>
          Booked(credits, d, r) \/ (d \in Fresh(logs) \cap known /\ r = event[d].revision)
  BY DEF CreditDeposits, Booked
<1>6. credits' \cup reversals' \subseteq Deposits \X Nat
  BY <1>1, <1>3 DEF CreditDeposits, RevisionsOnce
<1>7. ASSUME NEW d \in Deposits PROVE RevisionsOf(d)'
  <2>1. RevisionsOf(d)
    BY DEF RevisionsOnce
  <2> QED
    BY <2>1, <1>3, <1>4, <1>5 DEF RevisionsOf
<1> QED
  BY <1>6, <1>7 DEF RevisionsOnce

LEMMA RevisionsReversed ==
  ASSUME RevisionsOnce, event \in [Deposits -> Rows], NEW from, NEW hash,
         RewindDeposits(from, hash)
  PROVE  RevisionsOnce'
<1> DEFINE affected == {d \in ActiveEvents(event) : event[d].block >= from}
<1>1. \A d \in Deposits :
        event'[d] = IF d \in affected THEN Reorged(event[d]) ELSE event[d]
  BY DEF RewindDeposits
<1>2. \A d \in Deposits :
        /\ event[d].revision \in Nat
        /\ event'[d].revision = event[d].revision + (IF d \in affected THEN 1 ELSE 0)
        /\ Credited(d)' <=> Credited(d) /\ d \notin affected
  BY <1>1, ReorgedFields DEF Rows, Credited
<1>3. credits' = credits /\ \A d \in Deposits, r \in Nat :
        Booked(reversals', d, r) <=>
          Booked(reversals, d, r) \/ (d \in affected /\ Credited(d) /\ r = event[d].revision)
  BY DEF RewindDeposits, Credited, ActiveEvents, Booked
<1>4. credits' \cup reversals' \subseteq Deposits \X Nat
  BY <1>2 DEF RewindDeposits, RevisionsOnce, ActiveEvents
<1> HIDE DEF affected
<1>5. ASSUME NEW d \in Deposits PROVE RevisionsOf(d)'
  <2>1. RevisionsOf(d)
    BY DEF RevisionsOnce
  <2> QED
    BY <2>1, <1>2, <1>3 DEF RevisionsOf
<1> QED
  BY <1>4, <1>5 DEF RevisionsOnce

LEMMA RevisionsNext ==
  ASSUME Typed, RevisionsOnce, [Next]_vars
  PROVE  RevisionsOnce'
<1>0. event \in [Deposits -> Rows] /\ \A i \in Indexers : sync[i] \in Syncs
  BY DEF Typed
<1>1. ASSUME UNCHANGED <<event, credits, reversals>> PROVE RevisionsOnce'
  BY <1>1 DEF RevisionsOnce, RevisionsOf, Credited, Booked
<1>2. ASSUME NEW i \in Indexers, CommitRewind(i) PROVE RevisionsOnce'
  <2>1. CASE End(i)
    BY <1>1, <2>1 DEF End, database
  <2>2. CASE RewindDeposits(sync[i].from, sync[i].hash)
    BY <1>0, <2>2, RevisionsReversed
  <2> QED
    BY <1>2, <2>1, <2>2 DEF CommitRewind
<1>3. ASSUME NEW i \in Indexers, CommitRange(i) PROVE RevisionsOnce'
  <2>1. CASE End(i)
    BY <1>1, <2>1 DEF End, database
  <2>2. CASE CreditDeposits(sync[i].logs, sync[i].from)
    BY <1>0, <2>2, RevisionsCredited DEF Syncs
  <2> QED
    BY <1>3, <2>1, <2>2 DEF CommitRange, CommitDepositRange
<1>4. ASSUME NEW i \in Indexers,
             \/ Poll(i) \/ ReadTip(i) \/ CheckCheckpoint(i) \/ FindAncestor(i)
             \/ ReadRewindBlock(i) \/ RangeBefore(i) \/ RangeLogs(i) \/ RangeAfter(i)
             \/ Fail(i) \/ LoseConnection(i) \/ NoticeLoss(i)
      PROVE  UNCHANGED <<event, credits, reversals>>
  BY <1>4 DEF Poll, ReadTip, CheckCheckpoint, FindAncestor, ReadRewindBlock, RangeBefore,
              RangeLogs, RangeAfter, Fail, LoseConnection, NoticeLoss, End, database
<1>5. ASSUME \/ \E block \in SUBSET Deposits : Mine(block)
             \/ \E n \in 0..Len(chain) - 1 : Drop(n)
             \/ \E d \in Deposits : Register(d)
             \/ UNCHANGED vars
      PROVE  UNCHANGED <<event, credits, reversals>>
  BY <1>5 DEF Mine, Drop, Register, vars, database
<1> QED
  BY <1>1, <1>2, <1>3, <1>4, <1>5 DEF Next, Step

\* What the counts of LedgerOnce come to.
LEMMA Balanced ==
  ASSUME Typed, RevisionsOnce
  PROVE  LedgerOnce
<1> SUFFICES ASSUME NEW d \in Deposits
             PROVE  Cardinality({c \in credits : c[1] = d})
                      - Cardinality({r \in reversals : r[1] = d})
                      = (IF Credited(d) THEN 1 ELSE 0)
  BY DEF LedgerOnce, Credited
<1> DEFINE C == {c \in credits : c[1] = d}
           R == {r \in reversals : r[1] = d}
           last == <<d, event[d].revision>>
           numbers == 0..event[d].revision
<1>1. event[d].revision \in Nat
  BY DEF Typed, Rows
<1>2. \A c \in C \cup R : \E r \in Nat : c = <<d, r>>
  BY DEF RevisionsOnce
<1>3. \A r \in Nat : /\ <<d, r>> \in C <=> Booked(credits, d, r)
                     /\ <<d, r>> \in R <=> Booked(reversals, d, r)
  BY DEF Booked
<1>r. RevisionsOf(d)
  BY DEF RevisionsOnce
<1>4. IsFiniteSet(C)
  <2> DEFINE f == [c \in C |-> c[2]]
  <2>1. \A c \in C : c[2] \in numbers /\ c = <<d, c[2]>>
    <3> SUFFICES ASSUME NEW c \in C PROVE c[2] \in numbers /\ c = <<d, c[2]>>
      OBVIOUS
    <3>1. PICK r \in Nat : c = <<d, r>>
      BY <1>2
    <3>2. r <= event[d].revision
      BY <1>1, <1>3, <1>r, <3>1 DEF RevisionsOf
    <3> QED
      BY <1>1, <3>1, <3>2
  <2>2. f \in [C -> numbers] /\ \A a, b \in C : f[a] = f[b] => a = b
    <3> HIDE DEF C, numbers
    <3> QED
      BY <2>1
  <2>3. f \in Injection(C, numbers)
    <3> HIDE DEF f, C, numbers
    <3> QED
      BY <2>2 DEF Injection, IsInjective
  <2>4. IsFiniteSet(numbers)
    BY <1>1, FS_Interval
  <2> HIDE DEF f, C, numbers
  <2> QED
    BY <2>3, <2>4, FS_Injection
<1>5. Cardinality(C) \in Nat
  BY <1>4, FS_CardinalityType
<1> HIDE DEF C, R
<1>6. CASE Credited(d)
  <2>1. last \in C
    BY <1>1, <1>3, <1>6, <1>r DEF RevisionsOf
  <2>2. R = C \ {last}
    BY <1>1, <1>2, <1>3, <1>6, <1>r DEF RevisionsOf
  <2> HIDE DEF last
  <2>3. Cardinality(R) = Cardinality(C) - 1
    BY <1>4, <2>1, <2>2, FS_RemoveElement
  <2> QED
    BY <1>5, <1>6, <2>3 DEF C, R
<1>7. CASE ~Credited(d)
  <2>1. R = C
    BY <1>1, <1>2, <1>3, <1>7, <1>r DEF RevisionsOf
  <2>2. Cardinality(C) - Cardinality(R) = 0
    BY <1>5, <2>1
  <2> QED
    BY <1>7, <2>2 DEF C, R
<1> QED
  BY <1>6, <1>7

\* A deposit is on the ledger once while its event is credited and not at all
\* otherwise, through any reorganisations, however deep, lost locks and
\* repeated syncs.
THEOREM DepositsBookedOnce == Spec => []LedgerOnce
<1>1. Init => RevisionsOnce
  BY DEF Init, RevisionsOnce, RevisionsOf, Credited, Booked, NoEvent
<1> QED
  BY <1>1, TypedInit, TypedNext, RevisionsNext, Balanced, PTL DEF Spec

------------------------------------------------------------------------------
(* Chains that agree *)

LEMMA InDeposits ==
  ASSUME NEW s \in Seq(Blocks), NEW d
  PROVE  d \in DepositsOf(s) <=> \E k \in 1..Len(s) : d \in s[k]
BY LenProperties DEF DepositsOf

LEMMA PrefixAgrees ==
  ASSUME NEW s \in Hashes, NEW t \in Hashes, Agree(s, t, Len(s))
  PROVE  IsPrefix(s, t)
<1> DEFINE p == SubSeq(s, 1, Len(s))
           q == SubSeq(t, 1, Len(s))
<1>1. s \in Seq(Blocks) /\ t \in Seq(Blocks) /\ Len(s) \in Nat /\ Len(t) \in Nat /\ Len(s) <= Len(t)
      /\ \A k \in 1..Len(s) : s[k] = t[k]
  BY DEF Hashes, Agree
<1>2. p \in Hashes /\ Len(p) = Len(s) /\ \A k \in 1..Len(s) : p[k] = s[k]
  BY <1>1, FirstBlocks
<1>3. q \in Hashes /\ Len(q) = Len(s) /\ \A k \in 1..Len(s) : q[k] = t[k]
  BY <1>1, FirstBlocks
<1>4. p = q
  <2> HIDE DEF p, q
  <2>1. p \in Seq(Blocks) /\ q \in Seq(Blocks)
    BY <1>2, <1>3 DEF Hashes
  <2> QED
    BY <1>1, <1>2, <1>3, <2>1, SeqEqual
<1> QED
  BY <1>1, <1>4 DEF IsPrefix

LEMMA HashAgrees ==
  ASSUME chain \in Hashes, NEW n \in Nat, n <= Len(chain)
  PROVE  /\ HashAt(n) \in Hashes
         /\ Len(HashAt(n)) = n
         /\ Agree(HashAt(n), chain, n)
BY FirstBlocks DEF HashAt, Agree, Hashes

\* However the chain moves, some of its blocks stay, among them the ones that
\* the last lease relies on.
LEMMA ChainMoves ==
  ASSUME Typed, OnePlace,
         \/ \E block \in SUBSET Deposits : Mine(block)
         \/ \E n \in 0..Len(chain) - 1 : Drop(n)
         \/ \E d \in Deposits : Register(d)
  PROVE  /\ Disjoint(chain')
         /\ \E kept \in 0..Len(chain) :
              /\ Agree(chain', chain, kept)
              /\ DeepReorgs \/ kept = Len(chain) \/ \A i \in Indexers : \A r \in Relied(i) : r <= kept
<1>0. /\ chain \in Hashes /\ chain \in Seq(Blocks) /\ Len(chain) \in Nat /\ DOMAIN chain = 1..Len(chain)
      /\ Disjoint(chain)
  BY LenProperties DEF Typed, Hashes, OnePlace
<1>1. ASSUME NEW block \in SUBSET Deposits, Mine(block)
      PROVE  Disjoint(chain') /\ Agree(chain', chain, Len(chain))
  <2>1. /\ chain' \in Seq(Blocks) /\ Len(chain') = Len(chain) + 1
        /\ \A k \in 1..Len(chain) : chain'[k] = chain[k]
        /\ chain'[Len(chain) + 1] = block
    BY <1>0, <1>1, AppendProperties DEF Mine, Blocks
  <2>2. \A k \in 1..Len(chain) : chain[k] \cap block = {}
    BY <1>0, <1>1 DEF Mine, DepositsOf
  <2>3. DOMAIN chain' = 1..Len(chain) + 1
    BY <2>1, LenProperties
  <2>4. ASSUME NEW m \in DOMAIN chain', NEW n \in DOMAIN chain', m # n
        PROVE  chain'[m] \cap chain'[n] = {}
    <3>1. CASE m \in 1..Len(chain) /\ n \in 1..Len(chain)
      BY <1>0, <2>1, <2>4, <3>1 DEF Disjoint
    <3>2. CASE m = Len(chain) + 1 /\ n \in 1..Len(chain)
      BY <2>1, <2>2, <3>2
    <3>3. CASE n = Len(chain) + 1 /\ m \in 1..Len(chain)
      BY <2>1, <2>2, <3>3
    <3> QED
      BY <1>0, <2>3, <2>4, <3>1, <3>2, <3>3
  <2> QED
    BY <1>0, <2>1, <2>4 DEF Disjoint, Agree
<1>2. ASSUME NEW n \in 0..Len(chain) - 1, Drop(n)
      PROVE  /\ Disjoint(chain') /\ Agree(chain', chain, n)
             /\ DeepReorgs \/ \A i \in Indexers : \A r \in Relied(i) : r <= n
  <2>1. chain' \in Hashes /\ Len(chain') = n /\ Agree(chain', chain, n)
    BY <1>0, <1>2, HashAgrees DEF Drop
  <2>2. DOMAIN chain' = 1..n
    BY <2>1, LenProperties DEF Hashes
  <2> QED
    BY <1>0, <1>2, <2>1, <2>2 DEF Disjoint, Agree, Drop
<1>3. ASSUME NEW d \in Deposits, Register(d)
      PROVE  Disjoint(chain') /\ Agree(chain', chain, Len(chain))
  BY <1>0, <1>3 DEF Register, Agree
<1> DEFINE Keeps(kept) ==
      /\ Agree(chain', chain, kept)
      /\ DeepReorgs \/ kept = Len(chain) \/ \A i \in Indexers : \A r \in Relied(i) : r <= kept
<1>4. Len(chain) \in 0..Len(chain) /\ 0..Len(chain) - 1 \subseteq 0..Len(chain)
  BY <1>0
<1>5. Disjoint(chain') /\ \E kept \in 0..Len(chain) : Keeps(kept)
  <2>1. CASE \E block \in SUBSET Deposits : Mine(block)
    BY <1>1, <1>4, <2>1
  <2>2. CASE \E n \in 0..Len(chain) - 1 : Drop(n)
    BY <1>2, <1>4, <2>2
  <2>3. CASE \E d \in Deposits : Register(d)
    BY <1>3, <1>4, <2>3
  <2> QED
    BY <2>1, <2>2, <2>3
<1> QED
  BY <1>5

------------------------------------------------------------------------------
(* What the last lease has read stays true *)

LEMMA SettledWorld ==
  ASSUME Typed, SettledInv, ~DeepReorgs,
         \/ \E block \in SUBSET Deposits : Mine(block)
         \/ \E n \in 0..Len(chain) - 1 : Drop(n)
         \/ \E d \in Deposits : Register(d)
  PROVE  SettledInv'
<1>0. UNCHANGED <<database, locks, sync>>
  BY DEF Mine, Drop, Register
<1>1. /\ chain \in Hashes /\ Len(chain) \in Nat /\ checkpoint \in Hashes /\ Len(checkpoint) \in Nat
  BY DEF Typed, Hashes
<1>2. PICK kept \in 0..Len(chain) :
        /\ Agree(chain', chain, kept)
        /\ kept = Len(chain) \/ \A i \in Indexers : \A r \in Relied(i) : r <= kept
  BY ChainMoves DEF SettledInv
<1>3. ASSUME NEW s, NEW n \in Int, n <= kept, Agree(s, chain, n) PROVE Agree(s, chain', n)
  BY <1>1, <1>2, <1>3 DEF Agree
<1>4. ASSUME NEW i \in Indexers, lease = i PROVE Current(i)'
  <2> DEFINE s == sync[i]
  <2>1. s \in Syncs /\ s.tip \in Nat /\ s.from \in Nat /\ RangeEnd(i) \in Nat
        /\ Compared(s) /\ Read(s, RangeEnd(i))
    BY <1>4, RangeEndTyped, Numbers DEF Typed, SettledInv, LeaseInv, Current, Syncs
  <2>2. sync' = sync /\ checkpoint' = checkpoint /\ RangeEnd(i)' = RangeEnd(i)
    BY <1>0 DEF database, RangeEnd
  <2>3. CASE s.step \in {"idle", "start", "check"}
    BY <2>2, <2>3 DEF Current, Compared, Read
  <2>4. CASE s.step \notin {"idle", "start", "check"}
    <3>1. Len(checkpoint) <= Len(chain)
      BY <2>1, <2>4 DEF Compared
    <3>2. \A n \in Int : n <= Len(chain) /\ (n <= s.tip \/ n <= Len(checkpoint)) => n <= kept
      <4>1. kept = Len(chain) \/ (s.tip <= kept /\ Len(checkpoint) <= kept)
        BY <1>2, <1>4, <2>4 DEF Relied
      <4> QED
        BY <1>1, <2>1, <4>1
    <3>3. Compared(s)'
      <4>1. Len(checkpoint) <= Len(chain')
        BY <1>1, <1>2, <3>1, <3>2 DEF Agree
      <4>2. ASSUME NEW n \in Int, n <= Len(checkpoint), NEW t, Agree(t, chain, n)
            PROVE  Agree(t, chain', n)
        <5>1. n <= kept
          BY <1>1, <3>1, <3>2, <4>2
        <5> QED
          BY <1>3, <4>2, <5>1
      <4>3. s.step \in {"rewind", "commit-rewind"} => s.from - 1 \in Int /\ s.from - 1 <= Len(checkpoint)
        BY <2>1 DEF Compared, Agree
      <4> QED
        BY <1>1, <2>1, <2>2, <4>1, <4>2, <4>3 DEF Compared
    <3>4. Read(s, RangeEnd(i))'
      <4>1. CASE s.step \in {"logs", "after", "commit-range"}
        <5>1. RangeEnd(i) <= kept
          BY <1>1, <2>1, <3>2, <4>1 DEF Read, Agree
        <5>2. Agree(s.hash, chain', RangeEnd(i))
          BY <1>3, <2>1, <4>1, <5>1 DEF Read
        <5>3. s.step \in {"after", "commit-range"} =>
                \A k \in s.from..RangeEnd(i) : chain'[k] = chain[k]
          <6>1. s.step \in {"after", "commit-range"} => s.from >= 1
            BY <1>4 DEF Typed, Placed
          <6> QED
            BY <1>2, <2>1, <5>1, <6>1 DEF Agree
        <5> QED
          BY <2>1, <2>2, <4>1, <5>2, <5>3 DEF Read
      <4> QED
        BY <2>2, <4>1 DEF Read
    <3> QED
      BY <2>2, <3>3, <3>4 DEF Current
  <2> QED
    BY <2>3, <2>4
<1>5. LeaseInv'
  BY <1>0, <1>4 DEF LeaseInv, locks
<1>6. OnePlace' /\ Matching' /\ OneHistory'
  BY <1>0, ChainMoves DEF SettledInv, OnePlace, Matching, OneHistory, database, ActiveEvents
<1> QED
  BY <1>5, <1>6 DEF SettledInv

\* A sync that reads writes nothing, and what it reads is true when it is read.
LEMMA SettledReads ==
  ASSUME Typed, SettledInv, NEW i \in Indexers,
         \/ Poll(i) \/ ReadTip(i) \/ CheckCheckpoint(i) \/ FindAncestor(i)
         \/ ReadRewindBlock(i) \/ RangeBefore(i) \/ RangeLogs(i) \/ RangeAfter(i)
         \/ Fail(i) \/ LoseConnection(i) \/ NoticeLoss(i)
  PROVE  SettledInv'
<1> DEFINE s == sync[i]
           r == sync'[i]
<1>0. /\ chain \in Hashes /\ Len(chain) \in Nat /\ chain \in Seq(Blocks)
      /\ checkpoint \in Hashes /\ Len(checkpoint) \in Nat
      /\ sync \in [Indexers -> Syncs] /\ s \in Syncs /\ s.tip \in Nat /\ s.from \in Nat /\ Placed(s)
      /\ RangeEnd(i) \in Nat /\ history \subseteq Hashes
  BY RangeEndTyped, Numbers DEF Typed, Hashes, Syncs
<1>1. UNCHANGED <<chain, checkpoint, history, event>>
  BY DEF Poll, ReadTip, CheckCheckpoint, FindAncestor, ReadRewindBlock, RangeBefore,
         RangeLogs, RangeAfter, Fail, LoseConnection, NoticeLoss, End, world, database
<1>2. \A j \in Indexers : j # i => sync'[j] = sync[j]
  BY <1>0 DEF Poll, ReadTip, CheckCheckpoint, FindAncestor, ReadRewindBlock, RangeBefore,
         RangeLogs, RangeAfter, Fail, LoseConnection, NoticeLoss, End, Continue
<1>3. lease' = lease \/ Poll(i)
  BY DEF ReadTip, CheckCheckpoint, FindAncestor, ReadRewindBlock, RangeBefore,
         RangeLogs, RangeAfter, Fail, LoseConnection, NoticeLoss, End, locks
<1>e. ASSUME r.step \in {"idle", "start", "check"} PROVE Current(i)'
  BY <1>e DEF Current, Compared, Read
<1>f. ASSUME End(i) \/ Fail(i) PROVE Current(i)'
  <2>1. r = Idle
    BY <1>0, <1>f DEF End, Fail
  <2> QED
    BY <1>e, <2>1 DEF Idle
<1>4. CASE Poll(i)
  <2>1. r.step = "start"
    BY <1>0, <1>4 DEF Poll, Continue, Idle
  <2>2. Current(i)' /\ lease' = i
    BY <1>e, <1>4, <2>1 DEF Poll
  <2> QED
    BY <1>1, <2>2 DEF SettledInv, OnePlace, Matching, OneHistory, LeaseInv, ActiveEvents
<1>5. ASSUME lease = i, ~Poll(i) PROVE Current(i)'
  <2>0. Compared(s) /\ Read(s, RangeEnd(i)) /\ OneHistory
    BY <1>5 DEF SettledInv, LeaseInv, Current
  <2>1. CASE ReadTip(i)
    <3>1. End(i) \/ r.step = "check"
      BY <1>0, <2>1 DEF ReadTip, Continue, Syncs
    <3> QED
      BY <1>e, <1>f, <3>1
  <2>2. CASE CheckCheckpoint(i) /\ ~End(i)
    <3>1. Len(checkpoint) <= Len(chain)
      BY <1>0, <2>2 DEF CheckCheckpoint
    <3>2. CASE checkpoint = HashAt(Len(checkpoint))
      <4>1. r.step = "range" /\ r.from = Len(checkpoint) + 1
        BY <1>0, <2>2, <3>2 DEF CheckCheckpoint, Continue, Syncs
      <4>2. Agree(checkpoint, chain, Len(checkpoint))
        BY <1>0, <3>1, <3>2, HashAgrees
      <4> QED
        BY <1>1, <3>1, <4>1, <4>2 DEF Current, Compared, Read
    <3>3. CASE checkpoint # HashAt(Len(checkpoint))
      <4>1. r.step = "ancestor"
        BY <1>0, <2>2, <3>3 DEF CheckCheckpoint, Continue, Syncs
      <4> QED
        BY <1>1, <3>1, <4>1 DEF Current, Compared, Read
    <3> QED
      BY <3>2, <3>3
  <2>3. CASE FindAncestor(i) /\ ~End(i)
    <3>1. s.step = "ancestor" /\ r.step = "rewind" /\ r.from = RewindFrom
      BY <1>0, <2>3 DEF FindAncestor, Continue, At, Syncs
    <3>2. Agree(checkpoint, chain, RewindFrom - 1)
      <4>1. CASE RewindFrom = 1
        BY <1>0, <4>1 DEF Agree
      <4>2. ASSUME NEW h \in Ancestors, RewindFrom = Len(h) + 1
            PROVE  Agree(checkpoint, chain, RewindFrom - 1)
        <5>1. h \in history /\ Len(h) \in Nat /\ Len(h) <= Len(chain) /\ h = HashAt(Len(h))
          BY <1>0 DEF Ancestors, OlderEntries, Hashes
        <5>2. Agree(h, checkpoint, Len(h)) /\ Agree(h, chain, Len(h))
          BY <1>0, <2>0, <5>1, HashAgrees DEF OneHistory
        <5> QED
          BY <4>2, <5>1, <5>2 DEF Agree
      <4> QED
        BY <1>0, <4>1, <4>2, RewindBlock
    <3> QED
      BY <1>1, <2>0, <3>1, <3>2 DEF Current, Compared, Read
  <2>4. CASE ReadRewindBlock(i) /\ ~End(i)
    <3>1. /\ s.step = "rewind" /\ r.step = "commit-rewind" /\ r.from = s.from
          /\ r.hash = HashAt(s.from - 1) /\ s.from - 1 <= Len(chain) /\ s.from - 1 \in Nat
      <4>1. s.step = "rewind" /\ ~(s.from - 1 > Len(chain))
        BY <2>4 DEF ReadRewindBlock, At
      <4>2. r = [s EXCEPT !.step = "commit-rewind", !.hash = HashAt(s.from - 1)]
        BY <1>0, <2>4, <4>1 DEF ReadRewindBlock, Continue
      <4>3. s.from >= 1
        BY <1>0, <4>1 DEF Placed
      <4> QED
        BY <1>0, <4>1, <4>2, <4>3 DEF Syncs
    <3>2. Len(r.hash) = s.from - 1 /\ Agree(r.hash, chain, s.from - 1)
      BY <1>0, <3>1, HashAgrees
    <3> QED
      BY <1>1, <2>0, <3>1, <3>2 DEF Current, Compared, Read
  <2>5. CASE RangeBefore(i) /\ ~End(i)
    <3>1. /\ s.step = "range" /\ r.step = "logs" /\ r.from = s.from /\ r.tip = s.tip
          /\ r.hash = HashAt(RangeEnd(i)) /\ RangeEnd(i) <= Len(chain) /\ s.from <= s.tip
      <4>1. s.step = "range" /\ ~(s.from > s.tip) /\ ~(RangeEnd(i) > Len(chain))
        BY <2>5 DEF RangeBefore, At, Indexed
      <4>2. r = [s EXCEPT !.step = "logs", !.hash = HashAt(RangeEnd(i))]
        BY <1>0, <2>5, <4>1 DEF RangeBefore, Continue, Indexed
      <4> QED
        BY <1>0, <4>1, <4>2 DEF Syncs
    <3>2. Len(r.hash) = RangeEnd(i) /\ Agree(r.hash, chain, RangeEnd(i))
      BY <1>0, <3>1, HashAgrees
    <3>3. RangeEnd(i)' = RangeEnd(i) /\ s.from <= RangeEnd(i) /\ RangeEnd(i) <= s.tip
      BY <1>0, <3>1, RangeEndTyped DEF RangeEnd
    <3> QED
      BY <1>1, <2>0, <3>1, <3>2, <3>3 DEF Current, Compared, Read
  <2>6. CASE RangeLogs(i)
    <3>1. /\ s.step = "logs" /\ r.step = "after" /\ r.from = s.from /\ r.tip = s.tip
          /\ r.hash = s.hash
      BY <1>0, <2>6 DEF RangeLogs, Continue, At, Syncs
    <3>2. s.from >= 1 /\ s.from <= RangeEnd(i) /\ RangeEnd(i) <= Len(chain)
      BY <1>0, <2>0, <3>1 DEF Read, Agree, Placed
    <3>3. r.logs = SubSeq(chain, s.from, RangeEnd(i))
      <4>1. (IF RangeEnd(i) < Len(chain) THEN RangeEnd(i) ELSE Len(chain)) = RangeEnd(i)
        BY <1>0, <3>2
      <4>2. r = [s EXCEPT !.step = "after", !.logs = SubSeq(chain, s.from, RangeEnd(i))]
        BY <1>0, <2>6, <4>1 DEF RangeLogs, Continue
      <4> QED
        BY <1>0, <4>2 DEF Syncs
    <3>4. \A k \in s.from..RangeEnd(i) : chain[k] \in Blocks
      BY <1>0, <3>2, ElementOfSeq
    <3>5. /\ Len(r.logs) = RangeEnd(i) - s.from + 1
          /\ \A k \in 1..RangeEnd(i) - s.from + 1 : r.logs[k] = chain[s.from + k - 1]
      BY <1>0, <3>2, <3>3, <3>4, SubSeqProperties
    <3>6. \A k \in s.from..RangeEnd(i) : r.logs[k - s.from + 1] = chain[k]
      <4> SUFFICES ASSUME NEW k \in s.from..RangeEnd(i) PROVE r.logs[k - s.from + 1] = chain[k]
        OBVIOUS
      <4>1. k - s.from + 1 \in 1..RangeEnd(i) - s.from + 1 /\ s.from + (k - s.from + 1) - 1 = k
        BY <1>0, <3>2
      <4> QED
        BY <3>5, <4>1
    <3>7. RangeEnd(i)' = RangeEnd(i)
      BY <3>1 DEF RangeEnd
    <3> QED
      BY <1>1, <2>0, <3>1, <3>5, <3>6, <3>7 DEF Current, Compared, Read
  <2>7. CASE RangeAfter(i) /\ ~End(i)
    <3>1. /\ s.step = "after" /\ r.step = "commit-range" /\ r.from = s.from /\ r.tip = s.tip
          /\ r.hash = s.hash /\ r.logs = s.logs
      BY <1>0, <2>7 DEF RangeAfter, Continue, At, Syncs
    <3>2. RangeEnd(i)' = RangeEnd(i)
      BY <3>1 DEF RangeEnd
    <3> QED
      BY <1>1, <2>0, <3>1, <3>2 DEF Current, Compared, Read
  <2>8. CASE LoseConnection(i)
    BY <1>1, <2>0, <2>8 DEF LoseConnection, Current, Compared, Read, RangeEnd
  <2> QED
    BY <1>5, <1>f, <2>1, <2>2, <2>3, <2>4, <2>5, <2>6, <2>7, <2>8 DEF NoticeLoss
<1>6. CASE ~Poll(i)
  <2>1. ASSUME NEW j \in Indexers, lease' = j PROVE Current(j)'
    <3>1. CASE j = i
      BY <1>3, <1>5, <1>6, <2>1, <3>1
    <3>2. CASE j # i
      <4>1. sync'[j] = sync[j] /\ RangeEnd(j)' = RangeEnd(j) /\ Current(j)
        BY <1>2, <1>3, <1>6, <2>1, <3>2 DEF SettledInv, LeaseInv, RangeEnd
      <4> QED
        BY <1>1, <4>1 DEF Current, Compared, Read
    <3> QED
      BY <3>1, <3>2
  <2> QED
    BY <1>1, <2>1 DEF SettledInv, OnePlace, Matching, OneHistory, LeaseInv, ActiveEvents
<1> QED
  BY <1>4, <1>6

\* A range committed under the fence extends the checkpoint by what was read.
LEMMA SettledCommitRange ==
  ASSUME Typed, SettledInv, NEW i \in Indexers, lease = i, CommitRange(i)
  PROVE  SettledInv'
<1> DEFINE s == sync[i]
           end == RangeEnd(i)
<1>0. /\ chain \in Hashes /\ chain \in Seq(Blocks) /\ Len(chain) \in Nat /\ DOMAIN chain = 1..Len(chain)
      /\ checkpoint \in Seq(Blocks) /\ Len(checkpoint) \in Nat /\ history \subseteq Hashes
      /\ sync \in [Indexers -> Syncs] /\ s \in Syncs /\ s.from \in Nat /\ end \in Nat
      /\ s.logs \in Seq(Blocks) /\ s.hash \in Hashes /\ s.hash \in Seq(Blocks)
      /\ event \in [Deposits -> Rows]
  BY RangeEndTyped, Numbers, LenProperties DEF Typed, Hashes, Syncs
<1>1. s.step = "commit-range" /\ CreditDeposits(s.logs, s.from) /\ StoreCheckpoint(s.hash)
      /\ Continue(i, [s EXCEPT !.step = "range", !.from = end + 1, !.hash = <<>>, !.logs = <<>>])
      /\ UNCHANGED <<chain, lease>>
  BY DEF CommitRange, CommitDepositRange, Fenced, At, world, locks
<1>2. /\ Agree(checkpoint, chain, Len(checkpoint)) /\ s.from = Len(checkpoint) + 1
      /\ s.from <= end /\ Len(s.hash) = end /\ Agree(s.hash, chain, end)
      /\ Len(s.logs) = end - s.from + 1
      /\ \A k \in s.from..end : s.logs[k - s.from + 1] = chain[k]
  BY <1>1 DEF SettledInv, LeaseInv, Current, Compared, Read
<1> HIDE DEF end
<1>3. checkpoint' = s.hash /\ history' = WithEntry(history, s.hash)
  BY <1>0, <1>1, <1>2 DEF StoreCheckpoint
<1>4. \A k \in 1..end : s.hash[k] = chain[k]
  BY <1>2 DEF Agree
<1>5. \A k \in 1..Len(checkpoint) : checkpoint[k] = s.hash[k]
  BY <1>0, <1>2, <1>4 DEF Agree
<1>6. OnePlace'
  <2>1. DOMAIN s.hash = 1..end /\ end <= Len(chain)
    BY <1>0, <1>2, LenProperties DEF Agree
  <2> QED
    BY <1>0, <1>1, <1>3, <1>4, <2>1 DEF SettledInv, OnePlace, Disjoint
<1>7. LeaseInv'
  <2>1. sync'[i].step = "range" /\ sync'[i].from = end + 1
    BY <1>0, <1>1 DEF Continue, Syncs
  <2>2. Len(checkpoint') = end /\ Agree(checkpoint', chain', Len(checkpoint'))
    BY <1>1, <1>2, <1>3
  <2>3. Current(i)'
    BY <2>1, <2>2 DEF Current, Compared, Read, Agree
  <2> QED
    BY <1>1, <2>3 DEF LeaseInv
<1>8. \A d : d \in DepositsOf(s.hash) <=> d \in DepositsOf(checkpoint) \/ d \in DepositsOf(s.logs)
  <2> TAKE d
  <2>1. ASSUME NEW k \in 1..end, d \in s.hash[k]
        PROVE  d \in DepositsOf(checkpoint) \/ d \in DepositsOf(s.logs)
    <3>1. CASE k \in 1..Len(checkpoint)
      BY <1>0, <1>5, <2>1, <3>1, InDeposits
    <3>2. CASE k \in s.from..end
      <4>1. k - s.from + 1 \in 1..Len(s.logs) /\ d \in s.logs[k - s.from + 1]
        BY <1>0, <1>2, <1>4, <2>1, <3>2
      <4> QED
        BY <1>0, <4>1, InDeposits
    <3> QED
      BY <1>0, <1>2, <3>1, <3>2
  <2>2. ASSUME d \in DepositsOf(checkpoint) PROVE d \in DepositsOf(s.hash)
    <3>1. PICK k \in 1..Len(checkpoint) : d \in checkpoint[k]
      BY <1>0, <2>2, InDeposits
    <3>2. k \in 1..Len(s.hash) /\ d \in s.hash[k]
      BY <1>0, <1>2, <1>5, <3>1
    <3> QED
      BY <1>0, <3>2, InDeposits
  <2>3. ASSUME d \in DepositsOf(s.logs) PROVE d \in DepositsOf(s.hash)
    <3>1. PICK n \in 1..Len(s.logs) : d \in s.logs[n]
      BY <1>0, <2>3, InDeposits
    <3>2. PICK k \in s.from..end : k - s.from + 1 = n
      <4>1. s.from + n - 1 \in s.from..end /\ (s.from + n - 1) - s.from + 1 = n
        BY <1>0, <1>2, <3>1
      <4> QED
        BY <4>1
    <3>3. k \in 1..Len(s.hash) /\ s.logs[n] = s.hash[k]
      <4>1. k \in 1..end
        BY <1>0, <1>2, <3>2
      <4>2. s.logs[k - s.from + 1] = chain[k]
        BY <1>2, <3>2
      <4> QED
        BY <1>2, <1>4, <3>2, <4>1, <4>2
    <3> QED
      BY <1>0, <3>1, <3>3, InDeposits
  <2> QED
    BY <1>0, <1>2, <2>1, <2>2, <2>3, InDeposits
<1>9. Matching'
  <2>1. \A d \in Deposits :
          event'[d] = IF d \in Fresh(s.logs) THEN CreditedEvent(s.logs, s.from, d) ELSE event[d]
    BY <1>1 DEF CreditDeposits
  <2>2. Fresh(s.logs) \subseteq Deposits /\ DepositsOf(s.logs) \subseteq Deposits
    <3>1. \A n \in 1..Len(s.logs) : s.logs[n] \in Blocks
      BY <1>0, ElementOfSeq
    <3> QED
      BY <1>0, <3>1, InDeposits DEF Fresh, Blocks
  <2>3. \A d \in Deposits : d \in ActiveEvents(event') <=> d \in ActiveEvents(event) \/ d \in Fresh(s.logs)
    BY <2>1, CreditedFields DEF ActiveEvents
  <2>4. ActiveEvents(event') = DepositsOf(s.hash)
    <3>1. ActiveEvents(event) = DepositsOf(checkpoint)
      BY DEF SettledInv, Matching
    <3>2. \A d : d \in Fresh(s.logs) <=> d \in DepositsOf(s.logs) /\ d \notin ActiveEvents(event)
      BY DEF Fresh
    <3>3. ActiveEvents(event') \subseteq Deposits /\ ActiveEvents(event) \subseteq Deposits
      BY DEF ActiveEvents
    <3> QED
      BY <1>8, <2>2, <2>3, <3>1, <3>2, <3>3
  <2>5. ASSUME NEW d \in ActiveEvents(event')
        PROVE  event'[d].block \in 1..end /\ d \in s.hash[event'[d].block]
    <3>0. d \in Deposits
      BY <2>5 DEF ActiveEvents
    <3>1. CASE d \in Fresh(s.logs)
      <4> DEFINE n == CHOOSE m \in DOMAIN s.logs : d \in s.logs[m]
      <4>1. n \in 1..Len(s.logs) /\ d \in s.logs[n]
        BY <1>0, <3>1, FoundBlock DEF Fresh
      <4>2. event'[d]
              = [status   |-> IF d \in known THEN "CREDITED" ELSE "UNATTRIBUTED",
                 revision |-> event[d].revision, block |-> s.from - 1 + n]
        BY <2>1, <3>0, <3>1 DEF CreditedEvent
      <4> HIDE DEF n
      <4>3. PICK k \in s.from..end : k - s.from + 1 = n /\ k = s.from - 1 + n
        <5>1. s.from - 1 + n \in s.from..end /\ (s.from - 1 + n) - s.from + 1 = n
          BY <1>0, <1>2, <4>1
        <5> QED
          BY <5>1
      <4>4. k \in 1..end /\ d \in s.hash[k]
        <5>1. k \in 1..end
          BY <1>0, <1>2, <4>3
        <5>2. s.logs[k - s.from + 1] = chain[k]
          BY <1>2, <4>3
        <5> QED
          BY <1>4, <4>1, <4>3, <5>1, <5>2
      <4> QED
        BY <4>2, <4>3, <4>4
    <3>2. CASE d \notin Fresh(s.logs)
      <4>1. d \in ActiveEvents(event) /\ event'[d] = event[d]
        BY <2>1, <2>3, <3>0, <3>2
      <4> QED
        BY <1>0, <1>2, <1>5, <4>1 DEF SettledInv, Matching
    <3> QED
      BY <3>1, <3>2
  <2> QED
    BY <1>2, <1>3, <2>4, <2>5 DEF Matching
<1>10. OneHistory'
  <2>1. ASSUME NEW h \in history, Len(h) # Len(s.hash) PROVE Agree(h, s.hash, Len(h))
    <3>1. Agree(h, checkpoint, Len(h)) /\ Len(h) \in Nat
      BY <1>0 DEF SettledInv, OneHistory, Hashes
    <3> QED
      BY <1>0, <1>2, <1>5, <3>1 DEF Agree
  <2>2. Agree(s.hash, s.hash, Len(s.hash))
    BY <1>0 DEF Agree, Hashes
  <2> QED
    BY <1>3, <2>1, <2>2 DEF OneHistory, WithEntry
<1> QED
  BY <1>6, <1>7, <1>9, <1>10 DEF SettledInv

\* A rewind under the fence leaves a prefix of the checkpoint and its deposits.
LEMMA SettledCommitRewind ==
  ASSUME Typed, SettledInv, NEW i \in Indexers, lease = i, CommitRewind(i)
  PROVE  SettledInv'
<1> DEFINE s == sync[i]
           affected == {d \in ActiveEvents(event) : event[d].block >= s.from}
<1>0. /\ chain \in Hashes /\ chain \in Seq(Blocks) /\ Len(chain) \in Nat /\ DOMAIN chain = 1..Len(chain)
      /\ checkpoint \in Seq(Blocks) /\ Len(checkpoint) \in Nat /\ history \subseteq Hashes
      /\ DOMAIN checkpoint = 1..Len(checkpoint)
      /\ sync \in [Indexers -> Syncs] /\ s \in Syncs /\ s.from \in Nat
      /\ s.hash \in Hashes /\ s.hash \in Seq(Blocks) /\ Len(s.hash) \in Nat
      /\ event \in [Deposits -> Rows]
  BY Numbers, LenProperties DEF Typed, Hashes, Syncs
<1>1. s.step = "commit-rewind" /\ RewindDeposits(s.from, s.hash)
      /\ Continue(i, [s EXCEPT !.step = "range", !.hash = <<>>, !.from = Len(checkpoint') + 1])
      /\ UNCHANGED <<chain, lease>>
  BY DEF CommitRewind, Fenced, At, world, locks
<1>2. /\ Agree(checkpoint, chain, s.from - 1)
      /\ Len(s.hash) = s.from - 1 /\ Agree(s.hash, chain, s.from - 1)
  BY <1>1 DEF SettledInv, LeaseInv, Current, Compared
<1>3. checkpoint' = s.hash /\ history' \subseteq KeptHistory(s.from) \cup {s.hash}
  BY <1>1 DEF RewindDeposits, WithEntry
<1>4. /\ s.from - 1 <= Len(checkpoint)
      /\ \A k \in 1..s.from - 1 : s.hash[k] = checkpoint[k] /\ s.hash[k] = chain[k]
  BY <1>2 DEF Agree
<1>5. DOMAIN s.hash = 1..s.from - 1
  BY <1>0, <1>2, LenProperties
<1>6. OnePlace'
  BY <1>0, <1>1, <1>3, <1>4, <1>5 DEF SettledInv, OnePlace, Disjoint
<1>7. LeaseInv'
  <2>1. sync'[i].step = "range" /\ sync'[i].from = Len(checkpoint') + 1
    BY <1>0, <1>1 DEF Continue, Syncs
  <2>2. Agree(checkpoint', chain', Len(checkpoint'))
    BY <1>1, <1>2, <1>3
  <2>3. Current(i)'
    BY <2>1, <2>2 DEF Current, Compared, Read, Agree
  <2> QED
    BY <1>1, <2>3 DEF LeaseInv
<1>8. Matching'
  <2>1. \A d \in Deposits :
          event'[d] = IF d \in affected THEN Reorged(event[d]) ELSE event[d]
    BY <1>1 DEF RewindDeposits
  <2>2. \A d \in Deposits : d \in ActiveEvents(event') <=> d \in ActiveEvents(event) /\ d \notin affected
    BY <1>0, <2>1, ReorgedFields DEF ActiveEvents
  <2>3. ASSUME NEW d \in ActiveEvents(event')
        PROVE  /\ event'[d].block \in 1..Len(s.hash)
               /\ d \in s.hash[event'[d].block]
    <3>1. d \in Deposits /\ d \in ActiveEvents(event) /\ d \notin affected /\ event'[d] = event[d]
      BY <2>1, <2>2, <2>3 DEF ActiveEvents
    <3>2. event[d].block \in 1..Len(checkpoint) /\ d \in checkpoint[event[d].block]
      BY <3>1 DEF SettledInv, Matching
    <3>3. ~(event[d].block >= s.from)
      BY <3>1
    <3> QED
      BY <1>0, <1>2, <1>4, <3>1, <3>2, <3>3
  <2>4. ASSUME NEW k \in 1..Len(s.hash), NEW d \in s.hash[k]
        PROVE  d \in ActiveEvents(event')
    <3>1. k \in 1..Len(checkpoint) /\ d \in checkpoint[k] /\ k < s.from
      BY <1>0, <1>2, <1>4, <2>4
    <3>2. d \in ActiveEvents(event)
      BY <1>0, <3>1, InDeposits DEF SettledInv, Matching
    <3>3. event[d].block \in 1..Len(checkpoint) /\ d \in checkpoint[event[d].block]
      BY <3>2 DEF SettledInv, Matching
    <3>4. event[d].block = k
      BY <1>0, <3>1, <3>3 DEF SettledInv, OnePlace, Disjoint
    <3> QED
      BY <1>0, <2>2, <3>1, <3>2, <3>4 DEF ActiveEvents
  <2>5. ActiveEvents(event') = DepositsOf(s.hash)
    BY <1>0, <2>3, <2>4, InDeposits
  <2> QED
    BY <1>3, <2>3, <2>5 DEF Matching
<1>9. OneHistory'
  <2>1. ASSUME NEW h \in KeptHistory(s.from) PROVE Agree(h, s.hash, Len(h))
    <3>1. h \in history /\ Len(h) \in Nat /\ Len(h) < s.from /\ Agree(h, checkpoint, Len(h))
      BY <1>0 DEF SettledInv, OneHistory, Hashes, KeptHistory
    <3> QED
      BY <1>0, <1>2, <1>4, <3>1 DEF Agree
  <2>2. Agree(s.hash, s.hash, Len(s.hash))
    BY <1>0 DEF Agree
  <2> QED
    BY <1>3, <2>1, <2>2 DEF OneHistory
<1> QED
  BY <1>6, <1>7, <1>8, <1>9 DEF SettledInv

LEMMA SettledInit == Init => SettledInv
<1> SUFFICES ASSUME Init PROVE SettledInv
  OBVIOUS
<1>1. chain = <<>> /\ checkpoint = <<>> /\ history = {}
  BY DEF Init, NoCheckpoint
<1>2. lease \notin Indexers /\ ActiveEvents(event) = {}
  BY Numbers DEF Init, ActiveEvents, NoEvent
<1>3. DepositsOf(<<>>) = {} /\ Disjoint(<<>>)
  BY DEF DepositsOf, Disjoint
<1> QED
  BY <1>1, <1>2, <1>3 DEF SettledInv, OnePlace, LeaseInv, Matching, OneHistory

LEMMA SettledNext ==
  ASSUME Typed, SettledInv, ~DeepReorgs, [Next]_vars
  PROVE  SettledInv'
<1>1. CASE UNCHANGED vars
  BY <1>1 DEF SettledInv, OnePlace, LeaseInv, Current, Compared, Read, RangeEnd, Matching,
              OneHistory, ActiveEvents, vars, world, database, locks
<1>2. ASSUME NEW i \in Indexers, CommitRewind(i) \/ CommitRange(i) PROVE SettledInv'
  <2>1. CASE lease = i
    BY <1>2, <2>1, SettledCommitRewind, SettledCommitRange
  <2>2. CASE lease # i
    <3>1. End(i)
      BY <1>2, <2>2 DEF CommitRewind, CommitRange, Fenced
    <3>2. UNCHANGED <<chain, checkpoint, history, event, lease>>
          /\ \A j \in Indexers : j # i => sync'[j] = sync[j]
      BY <3>1 DEF End, world, database, Typed
    <3>3. ASSUME NEW j \in Indexers, lease = j PROVE Current(j)'
      <4>1. sync'[j] = sync[j] /\ RangeEnd(j)' = RangeEnd(j) /\ Current(j)
        BY <2>2, <3>2, <3>3 DEF SettledInv, LeaseInv, RangeEnd
      <4> QED
        BY <3>2, <4>1 DEF Current, Compared, Read
    <3> QED
      BY <3>2, <3>3 DEF SettledInv, LeaseInv, OnePlace, Matching, OneHistory, ActiveEvents
  <2> QED
    BY <2>1, <2>2
<1> QED
  BY <1>1, <1>2, SettledWorld, SettledReads DEF Next, Step

LEMMA SettledAlways ==
  ASSUME ~DeepReorgs
  PROVE  Spec => [](Typed /\ SettledInv)
<1>1. Init => Typed /\ SettledInv
  BY TypedInit, SettledInit
<1>2. Typed /\ SettledInv /\ [Next]_vars => Typed' /\ SettledInv'
  BY TypedNext, SettledNext
<1> QED
  BY <1>1, <1>2, PTL DEF Spec

\* Unless a block that a sync relies on is reorganised under it, the deposits
\* that count are those of the blocks of the checkpoint, each at its block:
\* stale workers, lost locks and overtaken ranges change nothing.
THEOREM EventsAreOfCheckpoint ==
  ASSUME ~DeepReorgs
  PROVE  Spec => []EventsMatchCheckpoint
<1>1. Typed /\ SettledInv => EventsMatchCheckpoint
  BY DEF SettledInv, Matching, EventsMatchCheckpoint
<1> QED
  BY <1>1, SettledAlways, PTL

\* And every stored checkpoint is of the chain of the last one.
THEOREM OneChainStored ==
  ASSUME ~DeepReorgs
  PROVE  Spec => []HistoryOnOneChain
<1>1. Typed /\ SettledInv => HistoryOnOneChain
  BY PrefixAgrees DEF SettledInv, OneHistory, HistoryOnOneChain, Typed
<1> QED
  BY <1>1, SettledAlways, PTL
===============================================================================
