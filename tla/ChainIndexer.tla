----------------------------- MODULE ChainIndexer -----------------------------
(***************************************************************************)
(* The deposit indexer: apps/poker-api/src/chain/indexer.service.ts and    *)
(* indexer.runner.ts over the transactions of packages/db/src/chain.ts.    *)
(*                                                                         *)
(* Several indexers poll one chain.  Each runs a sync under an advisory    *)
(* lock of the database and a fence: the generation it took with the lock. *)
(* A sync reads the chain by remote calls between which the chain may grow *)
(* or be reorganised, and writes by transactions that check the fence.     *)
(*                                                                         *)
(* A block is the set of deposits it contains; a block hash commits to all *)
(* ancestors, so the hash of block n is the sequence of blocks 1..n.       *)
(***************************************************************************)
EXTENDS Integers, Sequences, FiniteSets, SequencesExt

CONSTANTS
  Indexers, Deposits,
  NoIndexer,        \* no holder of the lock or the lease
  Confirmations, RangeSize,   \* config.confirmations, config.rangeSize
  DeepReorgs,       \* whether blocks a sync relies on may be reorganised under it
  MaxBlocks, MaxChanges, MaxFailures   \* bounds: chain, its changes, failures

ASSUME IndexerAssumption ==
  /\ Confirmations \in Nat /\ RangeSize \in Nat \ {0}
  /\ {MaxBlocks, MaxChanges, MaxFailures} \subseteq Nat
  /\ NoIndexer \notin Indexers
  /\ DeepReorgs \in BOOLEAN

VARIABLES
  chain,        \* the canonical chain
  known,        \* deposits whose wallet belongs to a user
  \* durable
  checkpoint,   \* hash of the last indexed block, or NoCheckpoint
  history,      \* ChainCheckpointHistory: hashes of earlier range ends
  event,        \* ChainDepositEvent rows
  credits, reversals,   \* ledger references: <<deposit, revision>>
  lock,         \* holder of the advisory lock
  lease,        \* the indexer that took the latest generation
  \* of each indexer
  sync,
  \* bounds
  changes, failures

database == <<checkpoint, history, event, credits, reversals>>
world    == <<chain, known>>
locks    == <<lock, lease>>
bounds   == <<changes, failures>>
vars     == <<world, database, locks, sync, bounds>>

NoCheckpoint == <<>>
NoEvent == [status |-> "none", revision |-> 0, block |-> 0]

Idle == [step |-> "idle", tip |-> 0, from |-> 0, hash |-> <<>>, logs |-> <<>>]

------------------------------------------------------------------------------
(***************************************************************************)
(* The chain.                                                              *)
(***************************************************************************)
HashAt(n) == SubSeq(chain, 1, n)
DepositsOf(blocks) == UNION {blocks[n] : n \in DOMAIN blocks}

Mine(block) ==
  /\ changes < MaxChanges /\ Len(chain) < MaxBlocks
  /\ changes' = changes + 1
  /\ block \cap DepositsOf(chain) = {}
  /\ chain' = Append(chain, block)
  /\ UNCHANGED <<known, database, locks, sync, failures>>

\* What the sync of the current lease takes for settled: the blocks under its
\* confirmed tip and those under the checkpoint it has compared.
Relied(i) ==
  IF lease = i /\ sync[i].step \notin {"idle", "start", "check"}
  THEN {sync[i].tip, Len(checkpoint)} ELSE {0}

\* A reorganisation starts by dropping blocks; mining replaces them.
Drop(n) ==
  /\ changes < MaxChanges
  /\ changes' = changes + 1
  /\ DeepReorgs \/ \A i \in Indexers : \A r \in Relied(i) : r <= n
  /\ chain' = HashAt(n)
  /\ UNCHANGED <<known, database, locks, sync, failures>>

\* The owner of the depositing wallet signs in for the first time.
Register(d) ==
  /\ d \notin known
  /\ known' = known \cup {d}
  /\ UNCHANGED <<chain, database, locks, sync, bounds>>

------------------------------------------------------------------------------
(***************************************************************************)
(* The transactions of chain.ts.                                           *)
(***************************************************************************)

\* mutant: a commit does not check the generation.
Unfenced(i) == TRUE

\* assertChainIndexerFence.
Fenced(i) == lease = i

ActiveEvents(ev) == {d \in Deposits : ev[d].status \in {"CREDITED", "UNATTRIBUTED"}}

\* creditChainDeposit for the deposits of blocks from, from + 1, ...: an event
\* that counts is left as it is, any other is (re)written.
Fresh(logs) == DepositsOf(logs) \ ActiveEvents(event)
CreditedEvent(logs, from, d) ==
  [status   |-> IF d \in known THEN "CREDITED" ELSE "UNATTRIBUTED",
   revision |-> event[d].revision,
   block    |-> from - 1 + (CHOOSE n \in DOMAIN logs : d \in logs[n])]
CreditDeposits(logs, from) ==
  /\ event' = [d \in Deposits |->
                 IF d \in Fresh(logs) THEN CreditedEvent(logs, from, d) ELSE event[d]]
  /\ credits' = credits \cup {<<d, event[d].revision>> : d \in Fresh(logs) \cap known}
  /\ UNCHANGED reversals

\* storeCheckpoint: a checkpoint never moves back here.
WithEntry(entries, hash) == {h \in entries : Len(h) # Len(hash)} \cup {hash}
StoreCheckpoint(hash) ==
  IF Len(checkpoint) > Len(hash) THEN UNCHANGED <<checkpoint, history>>
  ELSE checkpoint' = hash /\ history' = WithEntry(history, hash)

\* mutant: the revision stays.
ReorgedKeepsRevision(e) == [e EXCEPT !.status = "REORGED"]
Reorged(e) == [e EXCEPT !.status = "REORGED", !.revision = @ + 1]

\* mutant: the history of the dropped blocks stays.
KeepAllHistory(from) == history
KeptHistory(from) == {h \in history : Len(h) < from}

\* rewindChainDeposits: reverses what was posted from block `from' on.
RewindDeposits(from, hash) ==
  LET affected == {d \in ActiveEvents(event) : event[d].block >= from}
  IN  /\ event' = [d \in Deposits |-> IF d \in affected THEN Reorged(event[d]) ELSE event[d]]
      /\ reversals' = reversals \cup
           {<<d, event[d].revision>> : d \in {a \in affected : event[a].status = "CREDITED"}}
      /\ history' = IF hash = NoCheckpoint THEN KeptHistory(from)
                    ELSE WithEntry(KeptHistory(from), hash)
      /\ checkpoint' = hash
      /\ UNCHANGED credits

------------------------------------------------------------------------------
(***************************************************************************)
(* A sync, one remote call or transaction at a time.  A step that finds    *)
(* its block missing, or its fence lost, throws: the poll ends and another *)
(* follows at the next interval.                                           *)
(***************************************************************************)
At(i, step) == sync[i].step = step
Continue(i, s) == sync' = [sync EXCEPT ![i] = s]

\* The finally of withChainIndexerLock.
End(i) ==
  /\ sync' = [sync EXCEPT ![i] = Idle]
  /\ lock' = IF lock = i THEN NoIndexer ELSE lock
  /\ UNCHANGED <<world, database, lease, bounds>>

\* poll, withChainIndexerLock: lock, then the next generation.
Poll(i) ==
  /\ At(i, "idle")
  /\ lock = NoIndexer
  /\ lock' = i
  /\ lease' = i
  /\ Continue(i, [Idle EXCEPT !.step = "start"])
  /\ UNCHANGED <<world, database, bounds>>

\* mutant: a chain shorter than the confirmations is not skipped.
NeverTooShort == FALSE

TooShort == Len(chain) < Confirmations

ReadTip(i) ==
  /\ At(i, "start")
  /\ IF TooShort THEN End(i)
     ELSE /\ Continue(i, [sync[i] EXCEPT !.step = "check", !.tip = Len(chain) - Confirmations])
          /\ UNCHANGED <<world, database, locks, bounds>>

\* The stored checkpoint against the block of the chain.
CheckCheckpoint(i) ==
  /\ At(i, "check")
  /\ IF Len(checkpoint) > Len(chain) THEN End(i)
     ELSE /\ Continue(i, IF checkpoint = HashAt(Len(checkpoint))
                         THEN [sync[i] EXCEPT !.step = "range", !.from = Len(checkpoint) + 1]
                         ELSE [sync[i] EXCEPT !.step = "ancestor"])
          /\ UNCHANGED <<world, database, locks, bounds>>

\* findCommonAncestor: the latest entry below the checkpoint still on the chain.
\* Its calls are one step.
OlderEntries == {h \in history : Len(h) < Len(checkpoint)}
Ancestors == {h \in OlderEntries : Len(h) <= Len(chain) /\ h = HashAt(Len(h))}
RewindFrom ==
  IF Ancestors = {} THEN 1
  ELSE Len(CHOOSE h \in Ancestors : \A g \in Ancestors : Len(g) <= Len(h)) + 1

FindAncestor(i) ==
  /\ At(i, "ancestor")
  /\ IF \E h \in OlderEntries : Len(h) > Len(chain) THEN End(i)
     ELSE /\ Continue(i, [sync[i] EXCEPT !.step = "rewind", !.from = RewindFrom])
          /\ UNCHANGED <<world, database, locks, bounds>>

\* rewindLocked reads the hash of the block before the rewind from the chain.
ReadRewindBlock(i) ==
  /\ At(i, "rewind")
  /\ IF sync[i].from - 1 > Len(chain) THEN End(i)
     ELSE /\ Continue(i, [sync[i] EXCEPT !.step = "commit-rewind",
                                        !.hash = HashAt(sync[i].from - 1)])
          /\ UNCHANGED <<world, database, locks, bounds>>

CommitRewind(i) ==
  /\ At(i, "commit-rewind")
  /\ IF ~Fenced(i) THEN End(i)
     ELSE /\ RewindDeposits(sync[i].from, sync[i].hash)
          /\ Continue(i, [sync[i] EXCEPT !.step = "range", !.hash = <<>>,
                                        !.from = Len(checkpoint') + 1])
          /\ UNCHANGED <<world, locks, bounds>>

\* processRange: the hash of the range's end before and after its logs.
RangeEnd(i) ==
  LET end == sync[i].from + RangeSize - 1
  IN  IF end < sync[i].tip THEN end ELSE sync[i].tip

\* mutant: the last confirmed block is left out.
IndexedBelowTip(i) == sync[i].from >= sync[i].tip
Indexed(i) == sync[i].from > sync[i].tip

RangeBefore(i) ==
  /\ At(i, "range")
  /\ IF Indexed(i) \/ RangeEnd(i) > Len(chain) THEN End(i)
     ELSE /\ Continue(i, [sync[i] EXCEPT !.step = "logs", !.hash = HashAt(RangeEnd(i))])
          /\ UNCHANGED <<world, database, locks, bounds>>

RangeLogs(i) ==
  /\ At(i, "logs")
  /\ Continue(i, [sync[i] EXCEPT !.step = "after",
                                !.logs = SubSeq(chain, sync[i].from,
                                                IF RangeEnd(i) < Len(chain)
                                                THEN RangeEnd(i) ELSE Len(chain))])
  /\ UNCHANGED <<world, database, locks, bounds>>

RangeAfter(i) ==
  /\ At(i, "after")
  /\ IF RangeEnd(i) > Len(chain) \/ sync[i].hash # HashAt(RangeEnd(i)) THEN End(i)
     ELSE /\ Continue(i, [sync[i] EXCEPT !.step = "commit-range"])
          /\ UNCHANGED <<world, database, locks, bounds>>

\* commitChainDepositRange: deposits and checkpoint in one transaction.
CommitDepositRange(deposits, from, hash) ==
  /\ CreditDeposits(deposits, from)
  /\ StoreCheckpoint(hash)

CommitRange(i) ==
  /\ At(i, "commit-range")
  /\ IF ~Fenced(i) THEN End(i)
     ELSE /\ CommitDepositRange(sync[i].logs, sync[i].from, sync[i].hash)
          /\ Continue(i, [sync[i] EXCEPT !.step = "range", !.from = RangeEnd(i) + 1,
                                        !.hash = <<>>, !.logs = <<>>])
          /\ UNCHANGED <<world, locks, bounds>>

------------------------------------------------------------------------------
(***************************************************************************)
(* Failures.                                                               *)
(***************************************************************************)

\* A remote call fails, or the process stops.
Fail(i) ==
  /\ failures < MaxFailures
  /\ failures' = failures + 1
  /\ ~At(i, "idle")
  /\ sync' = [sync EXCEPT ![i] = Idle]
  /\ lock' = IF lock = i THEN NoIndexer ELSE lock
  /\ UNCHANGED <<world, database, lease, changes>>

\* The database drops the connection that holds the lock; the sync goes on
\* until it notices, or for ever.
LoseConnection(i) ==
  /\ failures < MaxFailures
  /\ failures' = failures + 1
  /\ lock = i
  /\ lock' = NoIndexer
  /\ UNCHANGED <<world, database, lease, sync, changes>>

NoticeLoss(i) ==
  /\ ~At(i, "idle")
  /\ lock # i
  /\ End(i)

------------------------------------------------------------------------------
Init ==
  /\ chain = <<>>
  /\ known = {}
  /\ checkpoint = NoCheckpoint
  /\ history = {}
  /\ event = [d \in Deposits |-> NoEvent]
  /\ credits = {}
  /\ reversals = {}
  /\ lock = NoIndexer
  /\ lease = NoIndexer
  /\ sync = [i \in Indexers |-> Idle]
  /\ changes = 0
  /\ failures = 0

Step(i) ==
  \/ Poll(i) \/ ReadTip(i) \/ CheckCheckpoint(i)
  \/ FindAncestor(i) \/ ReadRewindBlock(i) \/ CommitRewind(i)
  \/ RangeBefore(i) \/ RangeLogs(i) \/ RangeAfter(i) \/ CommitRange(i)

Next ==
  \/ \E block \in SUBSET Deposits : Mine(block)
  \/ \E n \in 0..Len(chain) - 1 : Drop(n)
  \/ \E d \in Deposits : Register(d)
  \/ \E i \in Indexers : Step(i) \/ Fail(i) \/ LoseConnection(i) \/ NoticeLoss(i)

\* Polls are repeated at an interval for as long as the process runs, and a
\* remote call returns or throws.
Spec == Init /\ [][Next]_vars /\ \A i \in Indexers : WF_vars(Step(i))

------------------------------------------------------------------------------
(***************************************************************************)
(* Properties                                                              *)
(***************************************************************************)
IsHash(h) == h \in Seq(SUBSET Deposits) /\ Len(h) <= MaxBlocks

TypeOK ==
  /\ IsHash(chain) /\ IsHash(checkpoint) /\ \A h \in history : IsHash(h)
  /\ event \in [Deposits -> [status : {"none", "CREDITED", "UNATTRIBUTED", "REORGED"},
                             revision : Nat, block : 0..MaxBlocks]]
  /\ \A i \in Indexers : sync[i].tip \in 0..MaxBlocks /\ sync[i].from \in 0..MaxBlocks + 1

\* Whatever chain the indexers have followed, the deposits that count are
\* those of the blocks the checkpoint stands for, each at its block: stale
\* workers, lost locks and ranges overtaken by a reorganisation leave none
\* behind and none out.
EventsMatchCheckpoint ==
  /\ ActiveEvents(event) = DepositsOf(checkpoint)
  /\ \A d \in ActiveEvents(event) : d \in checkpoint[event[d].block]

\* A deposit is on the ledger once when its event is credited and not at all
\* otherwise, however often it was reversed and credited again: no reference
\* is used twice and none is skipped.
LedgerOnce ==
  \A d \in Deposits :
    Cardinality({c \in credits : c[1] = d}) - Cardinality({r \in reversals : r[1] = d})
      = (IF event[d].status = "CREDITED" THEN 1 ELSE 0)

\* All stored checkpoints are of one chain, the one the last belongs to: this is
\* why comparing the last one is enough to notice a reorganisation.
HistoryOnOneChain == \A h \in history : IsPrefix(h, checkpoint)

\* Once the chain rests, the indexers reach its confirmed tip, through failures
\* and lost locks; unless it is left shorter than what was indexed.
Converges ==
  <>[]( \/ Len(chain) < Len(checkpoint) \/ TooShort
        \/ IsPrefix(checkpoint, chain) /\ Len(checkpoint) >= Len(chain) - Confirmations )

\* "Persist block number/hash checkpoints, detect hash mismatch, rewind affected
\* unfinalized events" (04-web3-testnet.md, task 3): when a stored checkpoint has
\* left the chain, so has the one that the next sync compares.
ReorgNoticed ==
  IsPrefix(checkpoint, chain) => \A h \in history : IsPrefix(h, chain)
===============================================================================
