--------------------------- MODULE TableServerProofs ---------------------------
(***************************************************************************)
(* For any users, hands, requests, restarts and failures, with snapshots   *)
(* recovered outside the lock: the durable history of a table is a legal   *)
(* one, it can be recovered, it holds each action once, the cache is never *)
(* ahead of it, nobody is cashed out of a hand in play, joins and leaves   *)
(* are booked, and deals and turns conserve what is held.  With every      *)
(* recovery under the lock, a room only drains after a failed commit.      *)
(*                                                                         *)
(* The argument: what the process holds (its cache, the state a reader     *)
(* carries, the timer and the task of the next hand) is the latest         *)
(* snapshot or older than it in a way the guards of the handlers notice.   *)
(* So the durable records change in two ways only, a commit of the turn in *)
(* play or the deal that follows its hand, and the rest follows from that. *)
(***************************************************************************)
EXTENDS TableServer, FiniteSums

\* A hand in play has an actor among its players; a settlement has taken two
\* versions, and left nothing in the pot.
HandRecords ==
  [hand : 1..MaxHands, version : Nat, live : BOOLEAN, players : SUBSET Users,
   chips : [Users -> Nat], pot : Nat, actor : Users \cup {Nobody}]
Hands ==
  {h \in HandRecords : IF h.live THEN h.actor \in h.players /\ h.version <= MaxVersion
                       ELSE h.version >= 2 /\ h.pot = 0}

Timers == [hand : Nat, version : Nat]
Events == [version : Nat, settled : BOOLEAN]
TaskRecords  ==
  [kind : {"join", "action", "auto", "grace", "pounce", "next", "leave"},
   user : Users \cup {Nobody}, hand : Nat, version : Nat,
   step : {"start", "claimed", "dealt", "committed", "cleared"}, detached : BOOLEAN]
Tasks ==
  {t \in TaskRecords : (t.kind = "join" => t.user \in Users) /\ (t.kind = "leave" => t.user \in Leavers)}
Readers == [step : {"none", "events", "set"}, state : Hands \cup {NoHand}]

TypeOK ==
  /\ seat \in [Users -> Nat \cup {NoSeat}]
  /\ account \in Nat
  /\ snapshot \in Hands \cup {NoHand}
  /\ cache \in Hands \cup {NoHand}
  /\ reader \in Readers
  /\ events \in [1..MaxHands -> Seq(Events)]
  /\ actionTimer \in Timers
  /\ orphans \subseteq Timers
  /\ nextTimer \in Nat
  /\ queue \in Seq(Tasks)
  /\ leaving \subseteq Leavers
  /\ failures \in Nat

------------------------------------------------------------------------------
(* What the process holds *)

\* The latest snapshot, or an older state: of an earlier hand, or of an earlier
\* version of this hand, and then the hand was not over.
Behind(h) ==
  \/ h = snapshot
  \/ h.hand < snapshot.hand
  \/ h.hand = snapshot.hand /\ h.version < snapshot.version /\ h.live

CopiesBehind == (cache # NoHand => Behind(cache)) /\ (reader.state # NoHand => Behind(reader.state))

\* Only the handler that holds the lock has done anything yet.
Waiting(q) == \A i \in DOMAIN q : i # 1 => q[i].step = "start"
OthersWait == Waiting(queue)

\* The tasks that are to deal the next hand.
NextTasks(q) == {i \in DOMAIN q : q[i].kind = "next" /\ q[i].step = "start"}

\* The next hand follows the latest one, which is over and is followed once.
NextFollows ==
  /\ nextTimer # 0 => nextTimer = snapshot.hand /\ ~snapshot.live /\ NextTasks(queue) = {}
  /\ \A i \in NextTasks(queue) : queue[i].hand = snapshot.hand /\ snapshot # NoHand /\ ~snapshot.live
  /\ \A i, j \in NextTasks(queue) : i = j
  /\ Acting("committed") => nextTimer = 0 /\ NextTasks(queue) = {}

------------------------------------------------------------------------------
(* What is durable *)

\* A version of the latest hand has one event, the last of a hand that is over
\* a second one.
ChainOf(h, chain) ==
  /\ Len(chain) = h.version
  /\ \A i \in DOMAIN chain :
       IF h.live \/ i < h.version - 1 THEN chain[i].version = i /\ ~chain[i].settled
       ELSE chain[i].version = h.version /\ (chain[i].settled <=> i = h.version)

EventsFollow ==
  /\ snapshot # NoHand => ChainOf(snapshot, events[snapshot.hand])
  /\ \A hand \in 1..MaxHands : hand > snapshot.hand => events[hand] = <<>>

\* The operations that act on a version of a hand.
TurnIds(hand, version) ==
  {TimeoutId(hand, version)} \cup {ActionId(u, hand, version) : u \in Users}
LeaveIds == {LeaveId(u) : u \in Users}

\* Each operation is a leave or belongs to a version that has passed.
OperationsPast ==
  /\ IsFiniteSet(operations)
  /\ \A id \in operations :
       \/ id \in LeaveIds
       \/ \E hand \in 1..MaxHands, version \in 0..MaxVersion :
            /\ id \in TurnIds(hand, version)
            /\ hand <= snapshot.hand
            /\ hand = snapshot.hand => version < snapshot.version

\* Without unlocked reads and failed commits, the cache is current whenever a
\* handler starts.
CacheCurrent ==
  ~UnlockedReads /\ failures = 0 =>
    /\ ~draining
    /\ reader = NoReader
    /\ \A i \in DOMAIN queue : ~queue[i].detached
    /\ cache \in {NoHand, snapshot} \/ (queue # <<>> /\ task.step \in {"dealt", "committed"})

ServerInv ==
  /\ TypeOK /\ CopiesBehind /\ OthersWait /\ NextFollows
  /\ EventsFollow /\ OperationsPast /\ AppliedOnce /\ CacheCurrent

------------------------------------------------------------------------------
(* The initial state *)

LEMMA NoHandType == NoHand \notin Hands
BY DEF NoHand, Hands, HandRecords

LEMMA InitInv == Init => ServerInv
<1> SUFFICES ASSUME Init PROVE ServerInv
  OBVIOUS
<1> USE ServerAssumption DEF Init
<1>1. TypeOK
  BY DEF TypeOK, NoSeat, NoTimer, NoReader, Timers, Readers
<1>2. CopiesBehind
  BY DEF CopiesBehind, NoReader
<1>3. OthersWait
  BY DEF OthersWait, Waiting
<1>4. NextFollows
  BY DEF NextFollows, NextTasks, Acting, Running
<1>5. EventsFollow
  BY DEF EventsFollow
<1>6. OperationsPast
  BY FS_EmptySet DEF OperationsPast
<1>7. AppliedOnce
  BY DEF AppliedOnce
<1>8. CacheCurrent
  BY DEF CacheCurrent
<1> QED BY <1>1, <1>2, <1>3, <1>4, <1>5, <1>6, <1>7, <1>8 DEF ServerInv

------------------------------------------------------------------------------
(* What the engine returns *)

\* A turn leads to a later version of the same hand.
LEMMA OutcomeType ==
  ASSUME NEW h \in Hands, h.live, NEW bets \in SUBSET Bets, NEW g \in Outcomes(h, bets)
  PROVE  /\ g \in Hands
         /\ g.hand = h.hand
         /\ g.version = h.version + (IF g.live THEN 1 ELSE 2)
         /\ g \in Outcomes(h, Bets)
<1> USE ServerAssumption
<1>1. PICK bet \in bets : /\ bet <= h.chips[h.actor]
                          /\ \/ h.version < MaxVersion /\ g \in Passed(h, bet)
                             \/ g \in Finished(h, bet)
  BY DEF Outcomes
<1>2. bet \in Nat /\ bet \in Bets
  BY DEF Bets
<1>3. h \in HandRecords /\ h.actor \in h.players /\ h.version <= MaxVersion
  BY DEF Hands
<1>4. g \in Outcomes(h, Bets)
  BY <1>1, <1>2 DEF Outcomes
<1>5. CASE h.version < MaxVersion /\ g \in Passed(h, bet)
  <2>1. PICK a \in h.players :
          g = [h EXCEPT !.version = @ + 1, !.chips[h.actor] = @ - bet, !.pot = @ + bet, !.actor = a]
    BY <1>5 DEF Passed
  <2> DEFINE chips == [h.chips EXCEPT ![h.actor] = @ - bet]
  <2>2. chips \in [Users -> Nat]
    BY <1>1, <1>2, <1>3 DEF HandRecords
  <2>3. g = [hand |-> h.hand, version |-> h.version + 1, live |-> h.live, players |-> h.players,
             chips |-> chips, pot |-> h.pot + bet, actor |-> a]
    BY <2>1, <1>3 DEF HandRecords
  <2> HIDE DEF chips
  <2>4. g \in HandRecords
    BY <2>2, <2>3, <1>2, <1>3 DEF HandRecords
  <2> QED BY <2>3, <2>4, <1>3, <1>4, <1>5 DEF Hands, HandRecords
<1>6. CASE g \in Finished(h, bet)
  <2>1. PICK w \in h.players :
          g = [h EXCEPT !.version = @ + 2, !.live = FALSE, !.pot = 0, !.actor = Nobody,
                 !.chips = [u \in Users |-> @[u] - (IF u = h.actor THEN bet ELSE 0)
                                                 + (IF u = w THEN h.pot + bet ELSE 0)]]
    BY <1>6 DEF Finished
  <2> DEFINE chips == [u \in Users |-> h.chips[u] - (IF u = h.actor THEN bet ELSE 0)
                                                 + (IF u = w THEN h.pot + bet ELSE 0)]
  <2>2. chips \in [Users -> Nat]
    BY <1>1, <1>2, <1>3 DEF HandRecords
  <2>3. g = [hand |-> h.hand, version |-> h.version + 2, live |-> FALSE, players |-> h.players,
             chips |-> chips, pot |-> 0, actor |-> Nobody]
    BY <2>1, <1>3 DEF HandRecords
  <2> HIDE DEF chips
  <2>4. g \in HandRecords
    BY <2>2, <2>3, <1>3 DEF HandRecords
  <2> QED BY <2>3, <2>4, <1>3, <1>4 DEF Hands, HandRecords
<1> QED BY <1>1, <1>5, <1>6

\* One of the players has posted a chip.
OneBlind(players, chips, h) ==
  \E b \in Posters(players, chips) :
    h.chips = [chips EXCEPT ![b] = @ - 1] /\ h.players = players /\ h.pot = 1

LEMMA DealtForm ==
  ASSUME NEW hand, NEW players, NEW chips, NEW h, h \in Dealt(hand, players, chips)
  PROVE  OneBlind(players, chips, h)
<1>1. PICK a \in players, b \in Posters(players, chips) :
        h = [hand |-> hand, version |-> 0, live |-> TRUE, players |-> players,
             chips |-> [chips EXCEPT ![b] = @ - 1], pot |-> 1, actor |-> a]
  BY DEF Dealt
<1> QED BY <1>1 DEF OneBlind

LEMMA DealtType ==
  ASSUME NEW hand, NEW players, NEW chips, NEW h, h \in Dealt(hand, players, chips)
  PROVE  hand \in 1..MaxHands /\ players \in SUBSET Users /\ chips \in [Users -> Nat]
           => h \in Hands /\ h.live /\ h.hand = hand /\ h.version = 0
<1>1. PICK a \in players, b \in Posters(players, chips) :
        h = [hand |-> hand, version |-> 0, live |-> TRUE, players |-> players,
             chips |-> [chips EXCEPT ![b] = @ - 1], pot |-> 1, actor |-> a]
  BY DEF Dealt
<1> HAVE hand \in 1..MaxHands /\ players \in SUBSET Users /\ chips \in [Users -> Nat]
<1>2. [chips EXCEPT ![b] = @ - 1] \in [Users -> Nat]
  BY <1>1 DEF Posters
<1> QED BY <1>1, <1>2, ServerAssumption DEF Hands, HandRecords

------------------------------------------------------------------------------
(* How the durable records change *)

RecordsKept ==
  /\ UNCHANGED <<snapshot, events>>
  /\ operations' = operations \/ \E u \in Users : operations' = operations \cup {LeaveId(u)}

\* The turn in play is committed, under an id of its own.
TurnCommitted ==
  /\ snapshot \in Hands /\ snapshot.live
  /\ \E h \in Outcomes(snapshot, Bets), id \in TurnIds(snapshot.hand, snapshot.version) :
       CommitAction(id, h)

\* A hand is dealt once the latest one is over.
HandDealt ==
  /\ ~snapshot.live
  /\ \E h \in Hands :
       /\ h.live /\ h.version = 0 /\ h.hand = snapshot.hand + 1
       /\ \/ snapshot = NoHand
          \/ h \in Dealt(snapshot.hand + 1, snapshot.players, snapshot.chips)
       /\ CreateHand(h)

ProcessInv == TypeOK /\ CopiesBehind /\ OthersWait /\ NextFollows

\* A commit that passes the check of the version is one of the turn in play.
LEMMA CommitIsCurrent ==
  ASSUME ProcessInv, Computed, VersionCurrent
  PROVE  /\ Recovered = snapshot /\ snapshot \in Hands /\ snapshot.live
         /\ TaskId \in TurnIds(snapshot.hand, snapshot.version)
         /\ Results \subseteq Outcomes(snapshot, Bets)
<1>1. Recovered.live
  BY DEF Computed, Expected
<1>2. Recovered = snapshot
  <2>1. CASE cache = NoHand
    BY <2>1 DEF Recovered
  <2>2. CASE cache # NoHand
    <3>1. Recovered = cache /\ Behind(cache)
      BY <2>2 DEF Recovered, ProcessInv, CopiesBehind
    <3>2. cache.hand = snapshot.hand /\ cache.version = snapshot.version
      BY <3>1 DEF VersionCurrent
    <3>3. snapshot.hand \in Int /\ snapshot.version \in Int
      BY DEF ProcessInv, TypeOK, Hands, HandRecords, NoHand
    <3> QED BY <3>1, <3>2, <3>3 DEF Behind
  <2> QED BY <2>1, <2>2
<1>3. snapshot \in Hands
  BY <1>1, <1>2 DEF ProcessInv, TypeOK, NoHand
<1>4. TaskId \in TurnIds(snapshot.hand, snapshot.version)
  <2>1. CASE ByClient
    <3>1. TaskId = ActionId(snapshot.actor, snapshot.hand, snapshot.version)
      BY <1>2, <2>1 DEF Computed, Expected, TaskId, ByClient
    <3>2. snapshot.actor \in Users
      BY <1>1, <1>2, <1>3 DEF Hands, HandRecords
    <3> QED BY <3>1, <3>2 DEF TurnIds
  <2>2. CASE ~ByClient
    BY <1>2, <2>2 DEF TaskId, TurnIds
  <2> QED BY <2>1, <2>2
<1>5. Results \subseteq Outcomes(snapshot, Bets)
  BY <1>1, <1>2, <1>3, OutcomeType DEF Results, Bets
<1> QED BY <1>1, <1>2, <1>3, <1>4, <1>5

LEMMA CommitIsTurn ==
  ASSUME ProcessInv, Computed, VersionCurrent, NEW h \in Results, CommitAction(TaskId, h)
  PROVE  TurnCommitted
<1>1. /\ snapshot \in Hands /\ snapshot.live
      /\ TaskId \in TurnIds(snapshot.hand, snapshot.version)
      /\ h \in Outcomes(snapshot, Bets)
  BY CommitIsCurrent
<1> QED BY <1>1 DEF TurnCommitted

\* The first hand is dealt to those who have a seat.
LEMMA FirstDeal == ASSUME ProcessInv, JoinDeal PROVE HandDealt
<1>1. snapshot = NoHand
  BY DEF JoinDeal, FirstHandDue
<1> DEFINE stacks == [u \in Users |-> IF u \in Seated THEN seat[u] ELSE 0]
<1>2. stacks \in [Users -> Nat]
  BY DEF ProcessInv, TypeOK, Seated
<1>3. PICK h \in Dealt(1, Seated, stacks) : CreateHand(h)
  BY DEF JoinDeal
<1>4. h \in Hands /\ h.live /\ h.hand = 1 /\ h.version = 0
  <2>1. Seated \in SUBSET Users /\ 1 \in 1..MaxHands
    BY ServerAssumption DEF Seated
  <2> HIDE DEF stacks
  <2> QED BY <1>2, <1>3, <2>1, DealtType
<1> QED BY <1>1, <1>3, <1>4 DEF HandDealt, NoHand

\* The next hand is dealt from the result of the latest one.
LEMMA NextDealFollows == ASSUME ProcessInv, NextDeal PROVE HandDealt \/ UNCHANGED <<money, records>>
<1> SUFFICES ASSUME Recovered.hand = task.hand, NextHandDue(Recovered), task.hand < MaxHands,
                    \E h \in Dealt(task.hand + 1, Recovered.players, Recovered.chips) : CreateHand(h)
             PROVE  HandDealt
  BY DEF NextDeal
<1>1. task.hand = snapshot.hand /\ snapshot # NoHand /\ ~snapshot.live
  <2>1. 1 \in NextTasks(queue)
    BY DEF NextDeal, Running, NextTasks, ProcessInv, TypeOK
  <2> QED BY <2>1 DEF ProcessInv, NextFollows, task
<1>2. snapshot \in Hands
  BY <1>1 DEF ProcessInv, TypeOK
<1>3. Recovered = snapshot
  <2>1. CASE cache = NoHand
    BY <2>1 DEF Recovered
  <2>2. CASE cache # NoHand
    BY <1>1, <1>2, <2>2 DEF Recovered, ProcessInv, CopiesBehind, Behind, NextHandDue, Hands, HandRecords
  <2> QED BY <2>1, <2>2
<1>4. PICK h \in Dealt(snapshot.hand + 1, snapshot.players, snapshot.chips) : CreateHand(h)
  BY <1>1, <1>3
<1>5. h \in Hands /\ h.live /\ h.hand = snapshot.hand + 1 /\ h.version = 0
  <2>1. /\ snapshot.players \in SUBSET Users /\ snapshot.chips \in [Users -> Nat]
        /\ snapshot.hand + 1 \in 1..MaxHands
    BY <1>1, <1>2, ServerAssumption DEF Hands, HandRecords
  <2> QED BY <1>4, <2>1, DealtType
<1> QED BY <1>1, <1>4, <1>5 DEF HandDealt

\* Every step of the server leaves the records alone (but for the operation of a
\* leave), commits the turn in play or deals the hand that follows.
LEMMA HistoryStep ==
  ASSUME ProcessInv, Next
  PROVE  RecordsKept \/ TurnCommitted \/ (HandDealt /\ (snapshot = NoHand \/ NextDeal))
<1>1. UNCHANGED records => RecordsKept
  BY DEF records, RecordsKept
<1>2. ASSUME Client \/ Reader \/ SnapshotArms \/ Restart
             \/ FireActionTimer \/ FireOrphan \/ FireNextTimer
      PROVE  UNCHANGED records
  BY <1>2 DEF Client, RequestJoin, RequestAction, RequestLeave, SnapshotCached, SnapshotStart,
       Reader, SnapshotEvents, SnapshotSet, SnapshotArms, Restart,
       FireActionTimer, FireOrphan, FireNextTimer
<1>3. ASSUME NEW u \in Users,
             LeaveQueued(u) \/ Disconnect(u) \/ GraceTimerSet(u)
               \/ \E kind \in {"checks", "plays"} : FireGraceTimer(u, kind)
      PROVE  UNCHANGED records
  BY <1>3 DEF LeaveQueued, Disconnect, GraceTimerSet, FireGraceTimer
<1>4. ASSUME Handler PROVE RecordsKept \/ TurnCommitted \/ (HandDealt /\ (snapshot = NoHand \/ NextDeal))
  <2>1. CASE JoinClaim \/ JoinDealt \/ JoinRearms \/ ActionRefused \/ CommitStale
             \/ ActionFinished \/ NextDealt \/ LeaveClear
    BY <2>1, <1>1 DEF JoinClaim, JoinDealt, JoinRearms, ActionRefused, CommitStale,
         ActionFinished, NextDealt, LeaveClear
  <2>2. CASE JoinDeal
    BY <2>2, FirstDeal DEF JoinDeal, FirstHandDue
  <2>3. CASE NextDeal
    BY <2>3, <1>1, NextDealFollows
  <2>4. CASE ActionCommitted
    BY <2>4, CommitIsTurn DEF ActionCommitted
  <2>5. CASE CommitFails
    BY <2>5, <1>1, CommitIsTurn DEF CommitFails
  <2>6. CASE PounceFails
    BY <2>6, <1>1, CommitIsTurn DEF PounceFails
  <2>7. CASE LeaveRelease
    <3>1. CASE MayLeave
      BY <2>7, <3>1 DEF LeaveRelease, RecordsKept, MayLeave, Seated
    <3>2. CASE ~MayLeave
      BY <2>7, <3>2, <1>1 DEF LeaveRelease, records
    <3> QED BY <3>1, <3>2
  <2> QED BY <1>4, <2>1, <2>2, <2>3, <2>4, <2>5, <2>6, <2>7 DEF Handler
<1> QED BY <1>1, <1>2, <1>3, <1>4 DEF Next

------------------------------------------------------------------------------
(* What the process holds stays behind *)

\* The cache and a reader only take what was, or now is, the latest snapshot.
LEMMA CopiesStep ==
  ASSUME ProcessInv, Next
  PROVE  /\ cache' \in {cache, NoHand, snapshot, snapshot', reader.state}
         /\ reader' \in Readers
         /\ reader'.state \in {reader.state, snapshot, NoHand}
<1> DEFINE Cached == cache' \in {cache, NoHand, snapshot, snapshot', reader.state}
           Read   == reader' \in Readers /\ reader'.state \in {reader.state, snapshot, NoHand}
<1>1. reader \in Readers /\ snapshot \in Hands \cup {NoHand}
  BY DEF ProcessInv, TypeOK
<1>2. NoReader \in Readers /\ NoReader.state = NoHand
  BY DEF NoReader, Readers
<1>3. UNCHANGED requests => Read
  BY <1>1 DEF requests
<1>4. \A h : Reboots(h) => cache' = h /\ reader' = NoReader
  BY DEF Reboots
<1>5. CASE Client \/ Reader \/ SnapshotArms \/ Restart
           \/ FireActionTimer \/ FireOrphan \/ FireNextTimer
  <2>1. CASE SnapshotStart
    BY <2>1, <1>1 DEF SnapshotStart, LoadsSnapshot, Readers
  <2>2. CASE SnapshotEvents
    BY <2>2, <1>1, <1>2 DEF SnapshotEvents, Readers
  <2>3. CASE SnapshotSet
    BY <2>3, <1>2 DEF SnapshotSet, SetCache
  <2>4. CASE Restart
    BY <2>4, <1>2, <1>4 DEF Restart
  <2>5. CASE \E u \in Users : RequestLeave(u)
    BY <2>5, <1>1 DEF RequestLeave
  <2>6. CASE \/ \E u \in Users : RequestJoin(u) \/ RequestAction(u)
             \/ SnapshotCached \/ SnapshotArms \/ FireActionTimer \/ FireOrphan \/ FireNextTimer
    <3>1. UNCHANGED requests /\ cache' = cache
      BY <2>6 DEF RequestJoin, RequestAction, SnapshotCached, SnapshotArms,
           FireActionTimer, FireOrphan, FireNextTimer
    <3> QED BY <3>1, <1>3
  <2> QED BY <1>5, <2>1, <2>2, <2>3, <2>4, <2>5, <2>6 DEF Client, Reader
<1>6. CASE \E u \in Users :
             \/ LeaveQueued(u) \/ Disconnect(u) \/ GraceTimerSet(u)
             \/ \E kind \in {"checks", "plays"} : FireGraceTimer(u, kind)
  BY <1>6, <1>1 DEF LeaveQueued, Disconnect, GraceTimerSet, FireGraceTimer, requests
<1>7. CASE Handler
  <2>1. Recovered \in {cache, snapshot} /\ CacheAfter \in {cache, snapshot}
    BY DEF Recovered, CacheAfter
  <2>2. CASE PounceFails
    BY <2>2, <1>2, <1>4 DEF PounceFails
  <2>3. CASE JoinClaim \/ JoinDeal \/ JoinDealt \/ JoinRearms \/ NextDeal \/ NextDealt
             \/ LeaveClear \/ LeaveRelease
    <3>1. UNCHANGED requests
      BY <2>3 DEF JoinClaim, JoinDeal, JoinDealt, JoinRearms, NextDeal, NextDealt,
           LeaveClear, LeaveRelease
    <3>2. Cached
      BY <2>1, <2>3 DEF JoinClaim, JoinDeal, JoinDealt, JoinRearms, NextDeal, NextDealt,
           LeaveClear, LeaveRelease, SetCache, ClearsRuntime
    <3> QED BY <3>1, <3>2, <1>3
  <2>4. CASE ActionRefused \/ ActionCommitted \/ CommitStale \/ CommitFails \/ ActionFinished
    <3>1. UNCHANGED requests
      BY <2>4 DEF ActionRefused, ActionCommitted, CommitStale, CommitFails, ActionFinished
    <3>2. Cached
      BY <2>1, <2>4 DEF ActionRefused, ActionCommitted, CommitStale, CommitFails, ActionFinished
    <3> QED BY <3>1, <3>2, <1>3
  <2> QED BY <1>7, <2>2, <2>3, <2>4 DEF Handler
<1> QED BY <1>5, <1>6, <1>7 DEF Next

\* What is behind the latest snapshot is behind the next one, which is not behind.
LEMMA StaysBehind ==
  ASSUME ProcessInv, RecordsKept \/ TurnCommitted \/ HandDealt,
         NEW h \in Hands, Behind(h)
  PROVE  Behind(h)'
<1>1. snapshot \in Hands \cup {NoHand} /\ h.hand \in Nat \ {0} /\ h.version \in Nat
  BY DEF ProcessInv, TypeOK, Hands, HandRecords
<1>2. CASE RecordsKept
  BY <1>2 DEF RecordsKept, Behind
<1>3. CASE TurnCommitted
  <2>1. PICK g \in Outcomes(snapshot, Bets) : snapshot' = g
    BY <1>3 DEF TurnCommitted, CommitAction
  <2>2. /\ snapshot'.hand = snapshot.hand /\ snapshot.live
        /\ snapshot'.version = snapshot.version + (IF snapshot'.live THEN 1 ELSE 2)
    BY <1>3, <2>1, OutcomeType DEF TurnCommitted
  <2>3. snapshot.version \in Nat /\ snapshot.hand \in Nat
    BY <1>3 DEF TurnCommitted, Hands, HandRecords
  <2> QED BY <1>1, <2>2, <2>3 DEF Behind
<1>4. CASE HandDealt
  <2>1. snapshot'.hand = snapshot.hand + 1 /\ snapshot.hand \in Nat
    BY <1>1, <1>4 DEF HandDealt, CreateHand, Hands, HandRecords, NoHand
  <2>2. h.hand <= snapshot.hand
    BY <1>1, <2>1 DEF Behind
  <2> QED BY <1>1, <2>1, <2>2 DEF Behind
<1> QED BY <1>2, <1>3, <1>4

LEMMA SnapshotType ==
  ASSUME ProcessInv, RecordsKept \/ TurnCommitted \/ HandDealt
  PROVE  snapshot' \in Hands \cup {NoHand}
<1>1. CASE RecordsKept
  BY <1>1 DEF RecordsKept, ProcessInv, TypeOK
<1>2. CASE TurnCommitted
  BY <1>2, OutcomeType DEF TurnCommitted, CommitAction
<1>3. CASE HandDealt
  BY <1>3 DEF HandDealt, CreateHand
<1> QED BY <1>1, <1>2, <1>3

LEMMA CopiesStayBehind ==
  ASSUME ProcessInv, Next
  PROVE  CopiesBehind' /\ cache' \in Hands \cup {NoHand} /\ reader' \in Readers
<1>1. RecordsKept \/ TurnCommitted \/ HandDealt
  BY HistoryStep
<1>2. \A h \in Hands : h = snapshot' \/ h = snapshot => Behind(h)'
  BY <1>1, StaysBehind DEF Behind
<1>3. \A h \in Hands : h = cache \/ h = reader.state => Behind(h)'
  BY <1>1, StaysBehind, NoHandType DEF ProcessInv, CopiesBehind
<1>4. /\ cache' \in {cache, NoHand, snapshot, snapshot', reader.state}
      /\ reader' \in Readers
      /\ reader'.state \in {reader.state, snapshot, NoHand}
  BY CopiesStep
<1>5. {cache, snapshot, snapshot', reader.state} \subseteq Hands \cup {NoHand}
  BY <1>1, SnapshotType DEF ProcessInv, TypeOK, Readers
<1> QED BY <1>2, <1>3, <1>4, <1>5, NoHandType DEF CopiesBehind

------------------------------------------------------------------------------
(* The queue of the lock *)

StartTasks == {t \in Tasks : t.step = "start" /\ ~t.detached}

\* A queue moves on: a handler arrives, the head does a step or returns (and may
\* have a pounce follow), or the process ends.  No task of the next hand arrives
\* and nothing is committed.
Replaced(q, r) ==
  /\ q # <<>>
  /\ \E t \in Tasks :
       /\ t.kind = q[1].kind
       /\ t.step \in {"claimed", "dealt", "cleared"} \/ (t.step = q[1].step /\ t.step # "start")
       /\ t.detached => q[1].detached \/ reader.step = "set"
       /\ r = [q EXCEPT ![1] = t]
Arrived(q, r) == \E t \in StartTasks : t.kind # "next" /\ r = Append(q, t)
Dropped(q, r) == q # <<>> /\ (r = Tail(q) \/ Arrived(Tail(q), r))
Moves(q, r) == r = q \/ Replaced(q, r) \/ Arrived(q, r) \/ Dropped(q, r) \/ r = <<>>

LEMMA TaskType ==
  ASSUME NEW kind \in {"join", "action", "auto", "grace", "pounce", "next", "leave"},
         NEW user \in Users \cup {Nobody}, NEW hand \in Nat, NEW version \in Nat,
         kind = "join" => user \in Users, kind = "leave" => user \in Leavers
  PROVE  /\ Task(kind, user, hand, version) \in StartTasks
         /\ Task(kind, user, hand, version).kind = kind
         /\ Task(kind, user, hand, version).hand = hand
BY DEF Task, StartTasks, Tasks, TaskRecords

LEMMA ArrivedKeeps ==
  ASSUME NEW q \in Seq(Tasks), Waiting(q), NEW t \in StartTasks
  PROVE  LET r == Append(q, t)
         IN  /\ r \in Seq(Tasks) /\ Waiting(r)
             /\ t.kind # "next" => NextTasks(r) = NextTasks(q)
             /\ \A i \in DOMAIN q : r[i] = q[i]
             /\ \A i \in DOMAIN r : i \in DOMAIN q \/ r[i] = t
             /\ r # <<>> /\ (r[1].step = "start" \/ (q # <<>> /\ r[1] = q[1]))
<1> DEFINE r == Append(q, t)
<1>1. t \in Tasks /\ t.step = "start"
  BY DEF StartTasks
<1>2. r \in Seq(Tasks) /\ Len(r) = Len(q) + 1 /\ r[Len(q) + 1] = t
  BY <1>1
<1>3. \A i \in 1..Len(q) : r[i] = q[i]
  BY <1>1
<1>4. DOMAIN r = 1..Len(r) /\ DOMAIN q = 1..Len(q) /\ Len(q) \in Nat
  BY <1>2
<1> HIDE DEF r
<1>5. \A i \in DOMAIN r : i \in DOMAIN q \/ (i = Len(q) + 1 /\ r[i] = t)
  BY <1>2, <1>4
<1>6. Waiting(r)
  BY <1>1, <1>3, <1>4, <1>5 DEF Waiting
<1>7. t.kind # "next" => NextTasks(r) = NextTasks(q)
  BY <1>2, <1>3, <1>4, <1>5 DEF NextTasks
<1>8. r # <<>> /\ (r[1].step = "start" \/ (q # <<>> /\ r[1] = q[1]))
  <2>1. CASE Len(q) = 0
    <3>1. r[1] = t
      BY <1>2, <2>1
    <3>2. r # <<>>
      BY <1>2, <1>4
    <3> QED BY <1>1, <3>1, <3>2
  <2>2. CASE Len(q) # 0
    <3>1. 1 \in 1..Len(q) /\ q # <<>>
      BY <1>4, <2>2
    <3> QED BY <1>2, <1>3, <1>4, <3>1
  <2> QED BY <2>1, <2>2
<1> QED BY <1>2, <1>3, <1>4, <1>5, <1>6, <1>7, <1>8 DEF r

LEMMA TailKeeps ==
  ASSUME NEW q \in Seq(Tasks), Waiting(q), q # <<>>
  PROVE  LET r == Tail(q)
         IN  /\ r \in Seq(Tasks) /\ Waiting(r)
             /\ \A i \in DOMAIN r : i + 1 \in DOMAIN q /\ r[i] = q[i + 1] /\ r[i].step = "start"
             /\ \A i \in NextTasks(r) : i + 1 \in NextTasks(q)
             /\ DOMAIN r \subseteq Nat
<1> DEFINE r == Tail(q)
<1>1. r \in Seq(Tasks) /\ Len(r) = Len(q) - 1 /\ \A i \in 1..Len(r) : r[i] = q[i + 1]
  OBVIOUS
<1>2. DOMAIN r = 1..Len(r) /\ DOMAIN q = 1..Len(q) /\ Len(q) \in Nat /\ Len(r) \in Nat
  BY <1>1
<1> HIDE DEF r
<1>3. \A i \in DOMAIN r : i + 1 \in DOMAIN q /\ r[i] = q[i + 1] /\ r[i].step = "start"
  BY <1>1, <1>2 DEF Waiting
<1> QED BY <1>1, <1>2, <1>3 DEF r, Waiting, NextTasks

\* What a move of the queue keeps: its tasks of the next hand are as before or
\* fewer, and no task has newly committed.
LEMMA MovesKeep ==
  ASSUME NEW q \in Seq(Tasks), Waiting(q), NEW r, Moves(q, r)
  PROVE  /\ r \in Seq(Tasks) /\ Waiting(r)
         /\ NextTasks(q) = {} => NextTasks(r) = {}
         /\ \A hand : (\A i \in NextTasks(q) : q[i].hand = hand)
                      => \A i \in NextTasks(r) : r[i].hand = hand
         /\ (\A i, j \in NextTasks(q) : i = j) => \A i, j \in NextTasks(r) : i = j
         /\ r # <<>> /\ r[1].step = "committed" =>
              q # <<>> /\ q[1].step = "committed" /\ r[1].kind = q[1].kind
         /\ reader.step # "set" /\ (\A i \in DOMAIN q : ~q[i].detached) =>
              \A i \in DOMAIN r : ~r[i].detached
<1>1. CASE r = q
  BY <1>1
<1>2. CASE r = <<>>
  BY <1>2 DEF Waiting, NextTasks
<1>3. CASE Replaced(q, r)
  <2>1. PICK t \in Tasks :
          /\ t.kind = q[1].kind
          /\ t.step # "start" /\ (t.step = "committed" => q[1].step = "committed")
          /\ t.detached => q[1].detached \/ reader.step = "set"
          /\ r = [q EXCEPT ![1] = t]
    BY <1>3 DEF Replaced
  <2>2. 1 \in DOMAIN q /\ q # <<>>
    BY <1>3 DEF Replaced
  <2>3. r \in Seq(Tasks) /\ DOMAIN r = DOMAIN q /\ r[1] = t /\ \A i \in DOMAIN q : i # 1 => r[i] = q[i]
    BY <2>1, <2>2
  <2>4. NextTasks(r) \subseteq NextTasks(q) /\ \A i \in NextTasks(r) : r[i] = q[i]
    BY <2>1, <2>3 DEF NextTasks
  <2> QED BY <2>1, <2>2, <2>3, <2>4 DEF Waiting
<1>4. ASSUME Arrived(q, r)
      PROVE  /\ r \in Seq(Tasks) /\ Waiting(r)
             /\ NextTasks(r) = NextTasks(q) /\ \A i \in NextTasks(r) : r[i] = q[i]
             /\ r # <<>> /\ (r[1].step = "start" \/ (q # <<>> /\ r[1] = q[1]))
             /\ (\A i \in DOMAIN q : ~q[i].detached) => \A i \in DOMAIN r : ~r[i].detached
  <2>1. PICK t \in StartTasks : t.kind # "next" /\ r = Append(q, t)
    BY <1>4 DEF Arrived
  <2> QED BY <2>1, ArrivedKeeps DEF StartTasks, NextTasks
<1>5. CASE Dropped(q, r)
  <2> DEFINE p == Tail(q)
  <2>1. /\ p \in Seq(Tasks) /\ Waiting(p)
        /\ \A i \in DOMAIN p : i + 1 \in DOMAIN q /\ p[i] = q[i + 1] /\ p[i].step = "start"
        /\ \A i \in NextTasks(p) : i + 1 \in NextTasks(q)
        /\ DOMAIN p \subseteq Nat
    BY <1>5, TailKeeps DEF Dropped
  <2> HIDE DEF p
  <2>2. /\ NextTasks(q) = {} => NextTasks(p) = {}
        /\ \A i \in NextTasks(p) : p[i] = q[i + 1]
        /\ (\A i, j \in NextTasks(q) : i = j) => \A i, j \in NextTasks(p) : i = j
    BY <2>1 DEF NextTasks
  <2>3. p # <<>> => p[1].step = "start"
    BY <2>1
  <2>4. CASE r = p
    BY <2>1, <2>2, <2>3, <2>4
  <2>5. CASE Arrived(p, r)
    <3>1. PICK t \in StartTasks : t.kind # "next" /\ r = Append(p, t)
      BY <2>5 DEF Arrived
    <3>2. /\ r \in Seq(Tasks) /\ Waiting(r)
          /\ NextTasks(r) = NextTasks(p)
          /\ \A i \in DOMAIN p : r[i] = p[i]
          /\ \A i \in DOMAIN r : i \in DOMAIN p \/ r[i] = t
          /\ r # <<>> /\ (r[1].step = "start" \/ (p # <<>> /\ r[1] = p[1]))
      BY <2>1, <3>1, ArrivedKeeps
    <3>3. \A i \in NextTasks(r) : r[i] = q[i + 1] /\ i + 1 \in NextTasks(q)
      BY <2>1, <2>2, <3>2 DEF NextTasks
    <3>4. r[1].step = "start" /\ ~t.detached
      BY <2>3, <3>2 DEF StartTasks
    <3>5. \A i \in DOMAIN r : (\A j \in DOMAIN q : ~q[j].detached) => ~r[i].detached
      BY <2>1, <3>2, <3>4
    <3>6. NextTasks(q) = {} => NextTasks(r) = {}
      BY <2>2, <3>2
    <3>7. (\A i, j \in NextTasks(q) : i = j) => \A i, j \in NextTasks(r) : i = j
      BY <2>2, <3>2
    <3> QED BY <3>2, <3>3, <3>4, <3>5, <3>6, <3>7
  <2> QED BY <1>5, <2>4, <2>5 DEF Dropped, p
<1> QED BY <1>1, <1>2, <1>3, <1>4, <1>5 DEF Moves

\* Every step but the arrival of a next hand and a commit is such a move.
LEMMA QueueStep ==
  ASSUME ProcessInv, Next
  PROVE  Moves(queue, queue') \/ FireNextTimer \/ ActionCommitted
<1>1. queue \in Seq(Tasks) /\ snapshot \in Hands \cup {NoHand}
  BY DEF ProcessInv, TypeOK
<1>2. \A step \in {"claimed", "dealt", "cleared"} : queue # <<>> /\ Continue(step) => Moves(queue, queue')
  <2> SUFFICES ASSUME NEW step \in {"claimed", "dealt", "cleared"}, queue # <<>>, Continue(step)
               PROVE  Replaced(queue, queue')
    BY DEF Moves
  <2> DEFINE t == [queue[1] EXCEPT !.step = step]
  <2>1. queue[1] \in Tasks
    BY <1>1
  <2>2. t \in Tasks /\ t.kind = queue[1].kind /\ t.step = step /\ t.detached = queue[1].detached
    BY <2>1 DEF Tasks, TaskRecords
  <2>3. queue' = [queue EXCEPT ![1] = t]
    BY DEF Continue
  <2> QED BY <2>2, <2>3 DEF Replaced
<1>3. queue # <<>> /\ Return => Moves(queue, queue')
  BY DEF Return, Moves, Dropped
<1>4. \A kind, step : Running(kind, step) => queue # <<>>
  BY DEF Running
<1>5. \A step : Acting(step) => queue # <<>>
  BY DEF Acting, Running
<1>6. \A t \in StartTasks : t.kind # "next" /\ queue' = Append(queue, t) => Moves(queue, queue')
  BY DEF Moves, Arrived
<1>7. UNCHANGED queue => Moves(queue, queue')
  BY DEF Moves
<1>8. CASE Client
  <2>1. CASE \E u \in Users : RequestJoin(u)
    BY <1>6, <2>1, TaskType DEF RequestJoin
  <2>2. CASE \E u \in Users : RequestAction(u)
    <3>1. snapshot.hand \in Nat /\ snapshot.version \in Nat
      BY <1>1 DEF Hands, HandRecords, NoHand
    <3> QED BY <1>6, <2>2, <3>1, TaskType DEF RequestAction
  <2>3. CASE (\E u \in Users : RequestLeave(u)) \/ SnapshotCached \/ SnapshotStart
    BY <1>7, <2>3 DEF RequestLeave, SnapshotCached, SnapshotStart
  <2> QED BY <1>8, <2>1, <2>2, <2>3 DEF Client
<1>9. CASE Reader
  <2>1. CASE SnapshotSet /\ queue # <<>> /\ task.step # "start"
    <3> DEFINE t == [queue[1] EXCEPT !.detached = TRUE]
    <3>1. queue[1] \in Tasks
      BY <1>1, <2>1
    <3>2. t \in Tasks /\ t.kind = queue[1].kind /\ t.step = queue[1].step
      BY <3>1 DEF Tasks, TaskRecords
    <3>3. queue' = [queue EXCEPT ![1] = t] /\ reader.step = "set" /\ queue[1].step # "start"
      BY <2>1 DEF SnapshotSet, task
    <3> QED BY <2>1, <3>2, <3>3 DEF Moves, Replaced
  <2>2. CASE SnapshotEvents \/ (SnapshotSet /\ ~(queue # <<>> /\ task.step # "start"))
    BY <1>7, <2>2 DEF SnapshotEvents, SnapshotSet
  <2> QED BY <1>9, <2>1, <2>2 DEF Reader
<1>10. CASE SnapshotArms \/ Restart
  BY <1>7, <1>10 DEF SnapshotArms, Restart, Reboots, Moves
<1>11. CASE FireActionTimer \/ FireOrphan
  <2>1. PICK timer \in Timers : Expire(timer)
    BY <1>11 DEF FireActionTimer, FireOrphan, ProcessInv, TypeOK
  <2>2. timer.hand \in Nat /\ timer.version \in Nat
    BY DEF Timers
  <2>3. /\ Task("auto", Nobody, timer.hand, timer.version) \in StartTasks
        /\ Task("auto", Nobody, timer.hand, timer.version).kind # "next"
    BY <2>2, TaskType
  <2>4. queue' = Append(queue, Task("auto", Nobody, timer.hand, timer.version))
    BY <2>1 DEF Expire
  <2> QED BY <1>6, <2>3, <2>4
<1>12. ASSUME NEW u \in Users,
              LeaveQueued(u) \/ Disconnect(u) \/ GraceTimerSet(u)
                \/ \E kind \in {"checks", "plays"} : FireGraceTimer(u, kind)
       PROVE  Moves(queue, queue')
  <2>1. CASE LeaveQueued(u)
    <3>1. u \in Leavers
      BY <2>1 DEF LeaveQueued, ProcessInv, TypeOK
    <3>2. Task("leave", u, 0, 0) \in StartTasks /\ Task("leave", u, 0, 0).kind # "next"
      BY <3>1, TaskType
    <3> QED BY <1>6, <1>7, <2>1, <3>2 DEF LeaveQueued
  <2>2. CASE ~LeaveQueued(u)
    BY <1>6, <1>7, <1>12, <2>2, TaskType DEF Disconnect, GraceTimerSet, FireGraceTimer
  <2> QED BY <2>1, <2>2
<1>13. ASSUME Handler PROVE Moves(queue, queue') \/ ActionCommitted
  <2>1. CASE JoinClaim \/ JoinDeal \/ JoinDealt \/ JoinRearms \/ NextDeal \/ NextDealt
             \/ LeaveClear \/ LeaveRelease
    BY <1>2, <1>3, <1>4, <2>1 DEF JoinClaim, JoinDeal, JoinDealt, JoinRearms, NextDeal, NextDealt,
         LeaveClear, LeaveRelease
  <2>2. CASE ActionRefused \/ CommitStale \/ CommitFails
    BY <1>3, <1>5, <2>2 DEF ActionRefused, CommitStale, CommitFails, Computed, CommitThrows
  <2>3. CASE PounceFails
    BY <2>3 DEF PounceFails, Reboots, Moves
  <2>4. CASE ActionFinished
    <3>1. queue # <<>> /\ Tail(queue) \in Seq(Tasks)
      BY <1>1, <1>5, <2>4 DEF ActionFinished
    <3>2. CASE ByClient
      <4> DEFINE t == Task("pounce", snapshot.actor, 0, 0)
      <4>1. snapshot.actor \in Users \cup {Nobody}
        BY <1>1 DEF Hands, HandRecords, NoHand
      <4>2. t \in StartTasks /\ t.kind # "next" /\ t \in Tasks
        BY <4>1, TaskType DEF StartTasks
      <4>3. PICK expired \in ExpiredGrace(snapshot.actor) :
              queue' = Tail(queue) \o (IF expired THEN <<t>> ELSE <<>>)
        BY <2>4, <3>2 DEF ActionFinished
      <4> HIDE DEF t
      <4>4. queue' = Tail(queue) \/ queue' = Append(Tail(queue), t)
        BY <3>1, <4>2, <4>3
      <4>5. Dropped(queue, queue')
        <5>1. CASE queue' = Tail(queue)
          BY <3>1, <5>1 DEF Dropped
        <5>2. CASE queue' = Append(Tail(queue), t)
          BY <3>1, <4>2, <5>2 DEF Dropped, Arrived
        <5> QED BY <4>4, <5>1, <5>2
      <4> QED BY <4>5 DEF Moves
    <3>3. CASE ~ByClient
      BY <1>3, <2>4, <3>1, <3>3 DEF ActionFinished
    <3> QED BY <3>2, <3>3
  <2> QED BY <1>13, <2>1, <2>2, <2>3, <2>4 DEF Handler
<1> QED BY <1>8, <1>9, <1>10, <1>11, <1>12, <1>13 DEF Next

------------------------------------------------------------------------------
(* The next hand *)

NothingPending == nextTimer = 0 /\ NextTasks(queue) = {}

LEMMA TimerStep == ASSUME Next PROVE nextTimer' \in {nextTimer, 0} \/ ActionFinished
<1>1. CASE Client \/ Reader \/ SnapshotArms \/ Restart
           \/ FireActionTimer \/ FireOrphan \/ FireNextTimer
  BY <1>1 DEF Client, RequestJoin, RequestAction, RequestLeave, SnapshotCached, SnapshotStart,
       Reader, SnapshotEvents, SnapshotSet, SnapshotArms, Restart, Reboots,
       FireActionTimer, FireOrphan, FireNextTimer, timers
<1>2. CASE \E u \in Users :
             \/ LeaveQueued(u) \/ Disconnect(u) \/ GraceTimerSet(u)
             \/ \E kind \in {"checks", "plays"} : FireGraceTimer(u, kind)
  BY <1>2 DEF LeaveQueued, Disconnect, GraceTimerSet, FireGraceTimer, timers
<1>3. CASE Handler
  BY <1>3 DEF Handler, JoinClaim, JoinDeal, JoinDealt, JoinRearms, ActionRefused, ActionCommitted,
       CommitStale, CommitFails, PounceFails, Reboots, NextDeal, NextDealt, LeaveClear, LeaveRelease,
       timers
<1> QED BY <1>1, <1>2, <1>3 DEF Next

\* The next hand is due to the latest hand alone.
LEMMA NothingPendingYet ==
  ASSUME ProcessInv, snapshot.live \/ snapshot = NoHand PROVE NothingPending
BY DEF ProcessInv, NextFollows, NothingPending, NoHand

LEMMA NextFollowsStep ==
  ASSUME ProcessInv, Next
  PROVE  queue' \in Seq(Tasks) /\ OthersWait' /\ NextFollows'
<1>1. queue \in Seq(Tasks) /\ Waiting(queue) /\ nextTimer \in Nat
  BY DEF ProcessInv, TypeOK, OthersWait
<1>2. snapshot \in Hands \cup {NoHand}
  BY DEF ProcessInv, TypeOK
<1>3. CASE FireNextTimer
  <2> DEFINE t == Task("next", Nobody, nextTimer, 0)
  <2>1. t \in StartTasks /\ t.kind = "next" /\ t.hand = nextTimer /\ t.step = "start"
    <3>1. t \in StartTasks
      BY <1>1, TaskType
    <3> QED BY <3>1 DEF Task
  <2>2. /\ nextTimer = snapshot.hand /\ ~snapshot.live /\ NextTasks(queue) = {} /\ nextTimer # 0
        /\ ~Acting("committed") /\ nextTimer' = 0 /\ snapshot' = snapshot /\ queue' = Append(queue, t)
    BY <1>3 DEF FireNextTimer, ProcessInv, NextFollows, records
  <2>3. snapshot # NoHand
    BY <2>2 DEF NoHand
  <2> HIDE DEF t
  <2>4. /\ queue' \in Seq(Tasks) /\ Waiting(queue')
        /\ \A i \in DOMAIN queue : queue'[i] = queue[i]
        /\ \A i \in DOMAIN queue' : i \in DOMAIN queue \/ queue'[i] = t
        /\ queue' # <<>> /\ (queue'[1].step = "start" \/ (queue # <<>> /\ queue'[1] = queue[1]))
    BY <1>1, <2>1, <2>2, ArrivedKeeps
  <2>5. /\ \A i \in NextTasks(queue') : i \notin DOMAIN queue /\ queue'[i] = t
        /\ \A i, j \in DOMAIN queue' : i \notin DOMAIN queue /\ j \notin DOMAIN queue => i = j
    <3>1. \A i \in NextTasks(queue') : i \notin DOMAIN queue /\ queue'[i] = t
      BY <2>2, <2>4 DEF NextTasks
    <3>2. DOMAIN queue = 1..Len(queue) /\ DOMAIN queue' = 1..(Len(queue) + 1) /\ Len(queue) \in Nat
      BY <1>1, <2>1, <2>2 DEF StartTasks
    <3> QED BY <3>1, <3>2
  <2>6. ~Acting("committed")'
    BY <2>2, <2>4 DEF Acting, Running
  <2>7. \A i \in NextTasks(queue') : queue'[i].hand = snapshot.hand
    BY <2>1, <2>2, <2>5
  <2>8. \A i, j \in NextTasks(queue') : i = j
    BY <2>5 DEF NextTasks
  <2> QED BY <2>2, <2>3, <2>4, <2>6, <2>7, <2>8 DEF OthersWait, NextFollows
<1>4. CASE ActionCommitted
  <2>1. snapshot.live
    BY <1>4, CommitIsCurrent DEF ActionCommitted
  <2>2. NothingPending
    BY <2>1, NothingPendingYet
  <2>3. nextTimer' = nextTimer /\ queue # <<>>
    BY <1>4 DEF ActionCommitted, timers, Computed, Acting, Running
  <2> DEFINE t == [queue[1] EXCEPT !.step = "committed", !.user = Recovered.actor]
  <2>4. t \in Tasks /\ t.step = "committed"
    <3>1. queue[1] \in Tasks
      BY <1>1, <2>3
    <3>2. Recovered.actor \in Users \cup {Nobody}
      BY <1>4, CommitIsCurrent DEF ActionCommitted, Hands, HandRecords
    <3>3. queue[1].kind \notin {"join", "leave"}
      BY <1>4 DEF ActionCommitted, Computed, Acting, Running
    <3> QED BY <3>1, <3>2, <3>3 DEF Tasks, TaskRecords
  <2>5. queue' = [queue EXCEPT ![1] = t]
    BY <1>1, <1>4, <2>3 DEF ActionCommitted
  <2> HIDE DEF t
  <2>6. /\ queue' \in Seq(Tasks) /\ DOMAIN queue' = DOMAIN queue /\ queue'[1] = t
        /\ \A i \in DOMAIN queue : i # 1 => queue'[i] = queue[i]
    BY <1>1, <2>3, <2>4, <2>5
  <2>7. Waiting(queue') /\ NextTasks(queue') = {}
    BY <1>1, <2>2, <2>4, <2>6 DEF Waiting, NextTasks, NothingPending
  <2> QED BY <2>2, <2>3, <2>6, <2>7 DEF OthersWait, NextFollows, NothingPending
<1>5. CASE Moves(queue, queue')
  <2>1. /\ queue' \in Seq(Tasks) /\ Waiting(queue')
        /\ NextTasks(queue) = {} => NextTasks(queue') = {}
        /\ \A hand : (\A i \in NextTasks(queue) : queue[i].hand = hand)
                     => \A i \in NextTasks(queue') : queue'[i].hand = hand
        /\ (\A i, j \in NextTasks(queue) : i = j) => \A i, j \in NextTasks(queue') : i = j
        /\ queue' # <<>> /\ queue'[1].step = "committed" =>
             queue # <<>> /\ queue[1].step = "committed" /\ queue'[1].kind = queue[1].kind
    BY <1>1, <1>5, MovesKeep
  <2>2. Acting("committed")' => Acting("committed")
    BY <2>1 DEF Acting, Running
  <2>3. ASSUME NothingPending, nextTimer' \in {nextTimer, 0} PROVE NextFollows'
    BY <2>1, <2>3 DEF NothingPending, NextFollows
  <2>4. ASSUME snapshot' = snapshot, nextTimer' \in {nextTimer, 0} PROVE NextFollows'
    <3>1. NextFollows
      BY DEF ProcessInv
    <3>2. nextTimer' # 0 => nextTimer' = snapshot'.hand /\ ~snapshot'.live /\ NextTasks(queue') = {}
      BY <2>1, <2>4, <3>1 DEF NextFollows
    <3>3. \A i \in NextTasks(queue') : queue'[i].hand = snapshot'.hand /\ snapshot' # NoHand /\ ~snapshot'.live
      BY <2>1, <2>4, <3>1 DEF NextFollows
    <3>4. \A i, j \in NextTasks(queue') : i = j
      BY <2>1, <3>1 DEF NextFollows
    <3>5. Acting("committed")' => nextTimer' = 0 /\ NextTasks(queue') = {}
      BY <2>1, <2>2, <2>4, <3>1 DEF NextFollows
    <3> QED BY <3>2, <3>3, <3>4, <3>5 DEF NextFollows
  <2>5. CASE ActionFinished
    <3>1. NothingPending /\ snapshot' = snapshot
      BY <2>5 DEF ActionFinished, ProcessInv, NextFollows, NothingPending, records
    <3>2. NextTasks(queue') = {}
      BY <2>1, <3>1 DEF NothingPending
    <3>3. nextTimer' # 0 => nextTimer' = snapshot.hand /\ ~snapshot.live
      BY <2>5 DEF ActionFinished, NextHandDue
    <3>4. queue # <<>> /\ (queue' = Tail(queue) \/ \E e \in BOOLEAN : queue' = Tail(queue) \o
                 (IF e THEN <<Task("pounce", snapshot.actor, 0, 0)>> ELSE <<>>))
      BY <2>5 DEF ActionFinished, Return, ExpiredGrace, Acting, Running
    <3>5. ~Acting("committed")'
      <4> DEFINE t == Task("pounce", snapshot.actor, 0, 0)
                 p == Tail(queue)
      <4>1. t.step = "start"
        BY DEF Task
      <4>2. p \in Seq(Tasks) /\ \A i \in DOMAIN p : p[i].step = "start"
        BY <1>1, <3>4, TailKeeps
      <4>3. \A i \in DOMAIN queue' : queue'[i].step = "start"
        <5>1. queue' = p \/ queue' = p \o <<t>>
          BY <3>4, <4>2
        <5> HIDE DEF t, p
        <5> QED BY <4>1, <4>2, <5>1
      <4>4. queue' # <<>> => 1 \in DOMAIN queue'
        BY <2>1
      <4> QED BY <4>3, <4>4 DEF Acting, Running
    <3> QED BY <2>1, <3>1, <3>2, <3>3, <3>5 DEF OthersWait, NextFollows
  <2>6. CASE NextDeal
    <3>1. 1 \in NextTasks(queue) /\ nextTimer' = nextTimer
      BY <1>1, <2>6 DEF NextDeal, Running, NextTasks, timers
    <3>2. nextTimer = 0 /\ \A i \in NextTasks(queue) : i = 1
      BY <3>1 DEF ProcessInv, NextFollows
    <3>3. CASE queue # <<>> /\ Continue("dealt")
      <4>1. NextTasks(queue') = {}
        <5>1. DOMAIN queue' = DOMAIN queue /\ \A i \in DOMAIN queue : i # 1 => queue'[i] = queue[i]
          BY <1>1, <3>3 DEF Continue
        <5>2. queue'[1].step = "dealt"
          BY <1>1, <3>3 DEF Continue, Tasks, TaskRecords
        <5> QED BY <3>2, <5>1, <5>2 DEF NextTasks
      <4>2. ~Acting("committed")'
        BY <1>1, <3>3 DEF Continue, Tasks, TaskRecords, Acting, Running
      <4> QED BY <2>1, <3>1, <3>2, <4>1, <4>2 DEF OthersWait, NextFollows
    <3>4. CASE UNCHANGED <<money, records>>
      BY <2>1, <2>4, <3>1, <3>4 DEF OthersWait, records
    <3> QED BY <2>6, <3>3, <3>4 DEF NextDeal, Running
  <2>7. CASE ~ActionFinished /\ ~NextDeal
    <3>1. nextTimer' \in {nextTimer, 0}
      BY <2>7, TimerStep
    <3>2. RecordsKept \/ TurnCommitted \/ (HandDealt /\ snapshot = NoHand)
      BY <2>7, HistoryStep
    <3>3. (TurnCommitted \/ (HandDealt /\ snapshot = NoHand)) => NothingPending
      BY NothingPendingYet DEF TurnCommitted
    <3>4. NextFollows'
      BY <2>3, <2>4, <3>1, <3>2, <3>3 DEF RecordsKept
    <3> QED BY <2>1, <3>4 DEF OthersWait
  <2> QED BY <2>5, <2>6, <2>7
<1> QED BY <1>3, <1>4, <1>5, QueueStep

------------------------------------------------------------------------------
(* Seats, events and timers *)

\* Chips move with a hand that is committed or dealt, with a seat that is bought
\* and with one that is cashed out.
HandMoves == TurnCommitted \/ JoinDeal \/ (NextDeal /\ HandDealt)
SeatMoves == JoinClaim \/ (LeaveRelease /\ MayLeave)

LEMMA MoneyStep ==
  ASSUME ProcessInv, Next
  PROVE  UNCHANGED <<money, snapshot>> \/ HandMoves \/ SeatMoves
<1>1. UNCHANGED <<money, records>> => UNCHANGED <<money, snapshot>>
  BY DEF records
<1>2. ASSUME Client \/ Reader \/ SnapshotArms \/ Restart
             \/ FireActionTimer \/ FireOrphan \/ FireNextTimer
      PROVE  UNCHANGED <<money, records>>
  BY <1>2 DEF Client, RequestJoin, RequestAction, RequestLeave, SnapshotCached, SnapshotStart,
       Reader, SnapshotEvents, SnapshotSet, SnapshotArms, Restart,
       FireActionTimer, FireOrphan, FireNextTimer
<1>3. ASSUME NEW u \in Users,
             LeaveQueued(u) \/ Disconnect(u) \/ GraceTimerSet(u)
               \/ \E kind \in {"checks", "plays"} : FireGraceTimer(u, kind)
      PROVE  UNCHANGED <<money, records>>
  BY <1>3 DEF LeaveQueued, Disconnect, GraceTimerSet, FireGraceTimer
<1>4. ASSUME Handler PROVE UNCHANGED <<money, snapshot>> \/ HandMoves \/ SeatMoves
  <2>1. CASE JoinDealt \/ JoinRearms \/ ActionRefused \/ CommitStale \/ ActionFinished
             \/ NextDealt \/ LeaveClear
    BY <1>1, <2>1 DEF JoinDealt, JoinRearms, ActionRefused, CommitStale, ActionFinished,
         NextDealt, LeaveClear
  <2>2. CASE LeaveRelease /\ ~MayLeave
    BY <2>2 DEF LeaveRelease
  <2>3. CASE JoinDeal \/ NextDeal
    BY <1>1, <2>3, NextDealFollows DEF HandMoves
  <2>4. CASE ActionCommitted \/ CommitFails \/ PounceFails
    BY <1>1, <2>4, CommitIsTurn DEF ActionCommitted, CommitFails, PounceFails, HandMoves
  <2>5. CASE JoinClaim \/ (LeaveRelease /\ MayLeave)
    BY <2>5 DEF SeatMoves
  <2> QED BY <1>4, <2>1, <2>2, <2>3, <2>4, <2>5 DEF Handler
<1> QED BY <1>1, <1>2, <1>3, <1>4 DEF Next

LEMMA JoinerType == ASSUME ProcessInv, JoinClaim PROVE task.user \in Users
<1>1. queue \in Seq(Tasks) /\ queue # <<>> /\ task.kind = "join"
  BY DEF ProcessInv, TypeOK, JoinClaim, Running, task
<1>2. task \in Tasks
  BY <1>1 DEF task
<1> QED BY <1>1, <1>2 DEF Tasks

\* Seats take the chips of a hand that is committed or dealt, and are only left
\* when no hand is in play; the room's account is never overdrawn.
LEMMA SeatStep ==
  ASSUME ProcessInv, Next
  PROVE  /\ seat' \in [Users -> Nat \cup {NoSeat}] /\ account' \in Nat
         /\ \/ ~snapshot.live
            \/ \A u \in Users : seat[u] # NoSeat => seat'[u] # NoSeat
<1>1. seat \in [Users -> Nat \cup {NoSeat}] /\ account \in Nat
  BY DEF ProcessInv, TypeOK
<1>2. CASE UNCHANGED <<money, snapshot>>
  BY <1>1, <1>2 DEF money
<1>3. CASE HandMoves
  <2>1. TurnCommitted \/ HandDealt
    BY <1>3, FirstDeal DEF HandMoves
  <2>2. seat' = SeatsAfter(snapshot') /\ snapshot' \in Hands /\ account' = account
    BY <2>1, OutcomeType DEF TurnCommitted, HandDealt, CommitAction, CreateHand
  <2>3. \A u \in Users : snapshot'.chips[u] \in Nat
    BY <2>2 DEF Hands, HandRecords
  <2> QED BY <1>1, <2>2, <2>3 DEF SeatsAfter, NoSeat
<1>4. CASE JoinClaim
  <2>1. BuyIn \in Nat
    BY ServerAssumption
  <2> QED BY <1>1, <1>4, <2>1 DEF JoinClaim, NoSeat, money, BuyInDue
<1>5. CASE LeaveRelease /\ MayLeave
  <2>1. /\ seat' = [seat EXCEPT ![task.user] = NoSeat] /\ ~snapshot.live
        /\ account' = account - seat[task.user] /\ seat[task.user] <= account
        /\ task.user \in Users /\ seat[task.user] # NoSeat
    BY <1>5 DEF LeaveRelease, MayLeave, Seated
  <2>2. account' \in Nat
    BY <1>1, <2>1
  <2> QED BY <1>1, <2>1, <2>2
<1> QED BY <1>2, <1>3, <1>4, <1>5, MoneyStep DEF SeatMoves

LEMMA EventsType ==
  ASSUME ProcessInv, RecordsKept \/ TurnCommitted \/ HandDealt
  PROVE  events' \in [1..MaxHands -> Seq(Events)]
<1>1. events \in [1..MaxHands -> Seq(Events)]
  BY DEF ProcessInv, TypeOK
<1>2. CASE RecordsKept \/ HandDealt
  BY <1>1, <1>2 DEF RecordsKept, HandDealt, CreateHand
<1>3. CASE TurnCommitted
  <2>1. PICK h \in Outcomes(snapshot, Bets), id \in TurnIds(snapshot.hand, snapshot.version) :
          CommitAction(id, h)
    BY <1>3 DEF TurnCommitted
  <2>2. h \in Hands
    BY <1>3, OutcomeType DEF TurnCommitted
  <2>3. h.hand \in 1..MaxHands /\ h.version \in Nat
    BY <2>2 DEF Hands, HandRecords
  <2> DEFINE more == IF h.live
                     THEN <<[version |-> h.version, settled |-> FALSE]>>
                     ELSE <<[version |-> h.version, settled |-> FALSE],
                            [version |-> h.version, settled |-> TRUE]>>
  <2>4. more \in Seq(Events)
    <3>1. /\ [version |-> h.version, settled |-> FALSE] \in Events
          /\ [version |-> h.version, settled |-> TRUE] \in Events
      BY <2>3 DEF Events
    <3> QED BY <3>1
  <2>5. events' = [events EXCEPT ![h.hand] = @ \o more]
    BY <2>1 DEF CommitAction
  <2> HIDE DEF more
  <2>6. events[h.hand] \o more \in Seq(Events)
    BY <1>1, <2>3, <2>4
  <2> QED BY <1>1, <2>3, <2>5, <2>6
<1> QED BY <1>2, <1>3

LEMMA TimersType ==
  ASSUME ProcessInv, Next
  PROVE  actionTimer' \in Timers /\ orphans' \subseteq Timers
<1>1. actionTimer \in Timers /\ orphans \subseteq Timers /\ NoTimer \in Timers
  BY DEF ProcessInv, TypeOK, NoTimer, Timers
<1>2. ASSUME NEW h \in Hands \cup {NoHand}, NEW timer \in Timers PROVE TimerFor(h, timer) \in Timers
  BY <1>2 DEF TimerFor, Timers, Hands, HandRecords, NoHand
<1>3. {cache, snapshot, snapshot', reader.state, CacheAfter} \subseteq Hands \cup {NoHand}
  BY HistoryStep, SnapshotType DEF ProcessInv, TypeOK, Readers, CacheAfter
<1>4. UNCHANGED timers => actionTimer' \in Timers /\ orphans' \subseteq Timers
  BY <1>1 DEF timers
<1>5. \A h \in Hands \cup {NoHand} : Reboots(h) => actionTimer' \in Timers /\ orphans' \subseteq Timers
  BY <1>1, <1>2 DEF Reboots
<1>6. \A h : SetCache(h) => orphans' \subseteq Timers
  BY <1>1 DEF SetCache
<1>7. CASE Client \/ Reader \/ SnapshotArms \/ FireActionTimer \/ FireOrphan \/ FireNextTimer
  BY <1>1, <1>2, <1>3, <1>4, <1>6, <1>7
     DEF Client, RequestJoin, RequestAction, RequestLeave, SnapshotCached, SnapshotStart,
         Reader, SnapshotEvents, SnapshotSet, SnapshotArms,
         FireActionTimer, FireOrphan, FireNextTimer
<1>8. CASE Restart
  BY <1>3, <1>5, <1>8 DEF Restart
<1>9. CASE \E u \in Users :
             \/ LeaveQueued(u) \/ Disconnect(u) \/ GraceTimerSet(u)
             \/ \E kind \in {"checks", "plays"} : FireGraceTimer(u, kind)
  BY <1>4, <1>9 DEF LeaveQueued, Disconnect, GraceTimerSet, FireGraceTimer
<1>10. CASE Handler
  <2>1. CASE PounceFails
    BY <1>3, <1>5, <2>1 DEF PounceFails
  <2>2. CASE JoinClaim \/ JoinDeal \/ JoinDealt \/ JoinRearms \/ NextDeal \/ NextDealt
             \/ LeaveClear \/ LeaveRelease
    BY <1>1, <1>2, <1>3, <1>4, <1>6, <2>2
       DEF JoinClaim, JoinDeal, JoinDealt, JoinRearms, NextDeal, NextDealt, LeaveClear, LeaveRelease,
           ClearsRuntime
  <2>3. CASE ActionRefused \/ ActionCommitted \/ CommitStale \/ CommitFails \/ ActionFinished
    BY <1>1, <1>2, <1>3, <1>4, <2>3
       DEF ActionRefused, ActionCommitted, CommitStale, CommitFails, ActionFinished
  <2> QED BY <1>10, <2>1, <2>2, <2>3 DEF Handler
<1> QED BY <1>7, <1>8, <1>9, <1>10 DEF Next

LEMMA LeavingType ==
  ASSUME ProcessInv, Next
  PROVE  leaving' \subseteq Leavers
<1>1. leaving \subseteq Leavers
  BY DEF ProcessInv, TypeOK
<1>2. CASE Client \/ Reader \/ SnapshotArms \/ Restart
           \/ FireActionTimer \/ FireOrphan \/ FireNextTimer
  BY <1>1, <1>2 DEF Client, RequestJoin, RequestAction, RequestLeave, SnapshotCached, SnapshotStart,
       Reader, SnapshotEvents, SnapshotSet, SnapshotArms, Restart, Reboots,
       FireActionTimer, FireOrphan, FireNextTimer, requests
<1>3. CASE \E u \in Users :
             \/ LeaveQueued(u) \/ Disconnect(u) \/ GraceTimerSet(u)
             \/ \E kind \in {"checks", "plays"} : FireGraceTimer(u, kind)
  BY <1>1, <1>3 DEF LeaveQueued, Disconnect, GraceTimerSet, FireGraceTimer, requests
<1>4. CASE Handler
  BY <1>1, <1>4 DEF Handler, JoinClaim, JoinDeal, JoinDealt, JoinRearms, ActionRefused, ActionCommitted,
       CommitStale, CommitFails, PounceFails, Reboots, ActionFinished, NextDeal, NextDealt, LeaveClear,
       LeaveRelease, requests
<1> QED BY <1>2, <1>3, <1>4 DEF Next

LEMMA FailuresStep == ASSUME Next PROVE failures' \in {failures, failures + 1}
<1>2. CASE Client \/ Reader \/ SnapshotArms \/ Restart
           \/ FireActionTimer \/ FireOrphan \/ FireNextTimer
  BY <1>2 DEF Client, RequestJoin, RequestAction, RequestLeave, SnapshotCached, SnapshotStart,
       Reader, SnapshotEvents, SnapshotSet, SnapshotArms, Restart,
       FireActionTimer, FireOrphan, FireNextTimer, bounds, faults
<1>3. CASE \E u \in Users :
             \/ LeaveQueued(u) \/ Disconnect(u) \/ GraceTimerSet(u)
             \/ \E kind \in {"checks", "plays"} : FireGraceTimer(u, kind)
  BY <1>3 DEF LeaveQueued, Disconnect, GraceTimerSet, FireGraceTimer, bounds, faults
<1>4. CASE Handler
  <2>1. CASE CommitFails \/ PounceFails
    BY <2>1 DEF CommitFails, PounceFails
  <2>2. CASE ActionRefused \/ ActionCommitted \/ CommitStale \/ ActionFinished
    BY <2>2 DEF ActionRefused, ActionCommitted, CommitStale, ActionFinished, bounds, faults
  <2>3. CASE JoinClaim \/ JoinDeal \/ JoinDealt \/ JoinRearms \/ NextDeal \/ NextDealt
             \/ LeaveClear \/ LeaveRelease
    BY <2>3 DEF JoinClaim, JoinDeal, JoinDealt, JoinRearms, NextDeal, NextDealt,
         LeaveClear, LeaveRelease, bounds, faults
  <2> QED BY <1>4, <2>1, <2>2, <2>3 DEF Handler
<1> QED BY <1>2, <1>3, <1>4 DEF Next

LEMMA ProcessStep == ASSUME ProcessInv, Next PROVE ProcessInv'
<1>1. RecordsKept \/ TurnCommitted \/ HandDealt
  BY HistoryStep
<1>2. nextTimer' \in Nat
  <2>1. snapshot.hand \in Nat /\ nextTimer \in Nat
    BY DEF ProcessInv, TypeOK, Hands, HandRecords, NoHand
  <2>2. ActionFinished => nextTimer' \in {snapshot.hand, 0}
    BY DEF ActionFinished
  <2> QED BY <2>1, <2>2, TimerStep
<1>3. failures' \in Nat
  BY FailuresStep DEF ProcessInv, TypeOK
<1>4. TypeOK'
  BY <1>1, <1>2, <1>3, SnapshotType, CopiesStayBehind, SeatStep, EventsType, TimersType, LeavingType,
     NextFollowsStep DEF TypeOK
<1> QED BY <1>4, CopiesStayBehind, NextFollowsStep DEF ProcessInv

------------------------------------------------------------------------------
(* The events of the latest hand *)

LEMMA EventsStep ==
  ASSUME ProcessInv, EventsFollow, RecordsKept \/ TurnCommitted \/ HandDealt
  PROVE  EventsFollow'
<1>1. /\ events \in [1..MaxHands -> Seq(Events)]
      /\ snapshot \in Hands \cup {NoHand}
  BY DEF ProcessInv, TypeOK
<1>2. CASE RecordsKept
  BY <1>2 DEF RecordsKept, EventsFollow
<1>3. CASE TurnCommitted
  <2>1. PICK h \in Outcomes(snapshot, Bets), id \in TurnIds(snapshot.hand, snapshot.version) :
          CommitAction(id, h)
    BY <1>3 DEF TurnCommitted
  <2>2. /\ h \in Hands /\ h.hand = snapshot.hand
        /\ h.version = snapshot.version + (IF h.live THEN 1 ELSE 2)
    BY <1>3, <2>1, OutcomeType DEF TurnCommitted
  <2>3. /\ snapshot \in Hands /\ snapshot.live /\ snapshot # NoHand
        /\ h.hand \in 1..MaxHands /\ snapshot.version \in Nat
    BY <1>3, <2>2 DEF TurnCommitted, Hands, HandRecords, NoHand
  <2> DEFINE chain == events[h.hand]
             more  == IF h.live
                      THEN <<[version |-> h.version, settled |-> FALSE]>>
                      ELSE <<[version |-> h.version, settled |-> FALSE],
                             [version |-> h.version, settled |-> TRUE]>>
  <2>4. snapshot' = h /\ events' = [events EXCEPT ![h.hand] = chain \o more]
    BY <2>1 DEF CommitAction
  <2>5. PICK v \in Nat : /\ v = snapshot.version
                        /\ chain \in Seq(Events) /\ Len(chain) = v
                        /\ \A i \in 1..v : chain[i].version = i /\ ~chain[i].settled
    BY <1>1, <2>2, <2>3 DEF EventsFollow, ChainOf
  <2>6. ChainOf(h, chain \o more)
    <3>1. CASE h.live
      <4> DEFINE e == [version |-> h.version, settled |-> FALSE]
      <4>1. more = <<e>> /\ h.version = v + 1
        BY <2>2, <2>5, <3>1
      <4> HIDE DEF chain, more, e
      <4>2. /\ DOMAIN (chain \o more) = 1..(v + 1) /\ Len(chain \o more) = v + 1
            /\ \A i \in 1..v : (chain \o more)[i] = chain[i]
            /\ (chain \o more)[v + 1] = e
        BY <2>5, <4>1
      <4>3. ASSUME NEW i \in 1..(v + 1)
            PROVE  (chain \o more)[i].version = i /\ ~(chain \o more)[i].settled
        <5>1. CASE i \in 1..v
          BY <2>5, <4>2, <5>1
        <5>2. CASE i = v + 1
          BY <4>1, <4>2, <5>2 DEF e
        <5>3. i \in 1..v \/ i = v + 1
          OBVIOUS
        <5> QED BY <5>1, <5>2, <5>3
      <4> QED BY <3>1, <4>1, <4>2, <4>3 DEF ChainOf
    <3>2. CASE ~h.live
      <4> DEFINE e == [version |-> h.version, settled |-> FALSE]
                 f == [version |-> h.version, settled |-> TRUE]
      <4>1. more = <<e, f>> /\ h.version = v + 2
        BY <2>2, <2>5, <3>2
      <4> HIDE DEF chain, more, e, f
      <4>2. /\ DOMAIN (chain \o more) = 1..(v + 2) /\ Len(chain \o more) = v + 2
            /\ \A i \in 1..v : (chain \o more)[i] = chain[i]
            /\ (chain \o more)[v + 1] = e /\ (chain \o more)[v + 2] = f
        BY <2>5, <4>1
      <4>3. ASSUME NEW i \in 1..(v + 2)
            PROVE  IF i < h.version - 1
                   THEN (chain \o more)[i].version = i /\ ~(chain \o more)[i].settled
                   ELSE /\ (chain \o more)[i].version = h.version
                        /\ (chain \o more)[i].settled <=> i = h.version
        <5>1. CASE i \in 1..v
          BY <2>5, <4>1, <4>2, <5>1
        <5>2. CASE i = v + 1
          BY <4>1, <4>2, <5>2 DEF e
        <5>3. CASE i = v + 2
          BY <4>1, <4>2, <5>3 DEF f
        <5>4. i \in 1..v \/ i = v + 1 \/ i = v + 2
          OBVIOUS
        <5> QED BY <5>1, <5>2, <5>3, <5>4
      <4> QED BY <3>2, <4>1, <4>2, <4>3 DEF ChainOf
    <3> QED BY <3>1, <3>2
  <2>7. events'[h.hand] = chain \o more /\ \A hand \in 1..MaxHands : hand # h.hand => events'[hand] = events[hand]
    BY <1>1, <2>3, <2>4
  <2> HIDE DEF chain, more
  <2>8. \A hand \in 1..MaxHands : hand > snapshot'.hand => events'[hand] = <<>>
    BY <2>2, <2>3, <2>4, <2>7 DEF EventsFollow
  <2>9. snapshot' # NoHand => ChainOf(snapshot', events'[snapshot'.hand])
    BY <2>4, <2>6, <2>7
  <2> QED BY <2>8, <2>9 DEF EventsFollow
<1>4. CASE HandDealt
  <2>1. PICK h \in Hands : h.version = 0 /\ h.live /\ h.hand = snapshot.hand + 1 /\ snapshot' = h /\ events' = events
    BY <1>4 DEF HandDealt, CreateHand
  <2>2. h.hand \in 1..MaxHands /\ snapshot.hand \in Nat
    BY <1>1, <2>1 DEF Hands, HandRecords, NoHand
  <2>3. events[h.hand] = <<>>
    BY <2>1, <2>2 DEF EventsFollow
  <2>4. \A hand \in 1..MaxHands : hand > snapshot'.hand => events'[hand] = <<>>
    BY <2>1, <2>2 DEF EventsFollow
  <2>5. ChainOf(snapshot', events'[snapshot'.hand])
    BY <2>1, <2>3 DEF ChainOf
  <2> QED BY <2>4, <2>5 DEF EventsFollow
<1> QED BY <1>2, <1>3, <1>4

\* Such a chain passes the checks of a recovery.
LEMMA ChainRecovers ==
  ASSUME NEW h \in Hands, NEW chain \in Seq(Events), ChainOf(h, chain)
  PROVE  Recoverable(h, chain)
<1> DEFINE v == h.version
<1>1. v \in Nat /\ (~h.live => v >= 2) /\ DOMAIN chain = 1..v /\ Len(chain) = v
  BY DEF Hands, HandRecords, ChainOf
<1>2. \A i \in 1..v : (h.live \/ i < v - 1) => chain[i].version = i
  BY <1>1 DEF ChainOf
<1>3. ~h.live => /\ chain[v - 1].version = v /\ chain[v].version = v
                 /\ \A i \in 1..v : chain[i].version = v => (chain[i].settled <=> i = v)
  <2> SUFFICES ASSUME ~h.live
               PROVE  /\ chain[v - 1].version = v /\ chain[v].version = v
                      /\ \A i \in 1..v : chain[i].version = v => (chain[i].settled <=> i = v)
    OBVIOUS
  <2>1. \A i \in 1..v : ~(i < v - 1) => chain[i].version = v /\ (chain[i].settled <=> i = v)
    BY <1>1 DEF ChainOf
  <2>2. v - 1 \in 1..v /\ v \in 1..v
    BY <1>1
  <2> QED BY <1>1, <1>2, <2>1, <2>2
<1>4. ~h.live => PairedSettlement(chain, v)
  <2> SUFFICES ASSUME ~h.live PROVE PairedSettlement(chain, v)
    OBVIOUS
  <2> DEFINE same == {i \in DOMAIN chain : chain[i].version = v}
  <2>1. v \in same /\ v - 1 \in same /\ v - 1 # v
    BY <1>1, <1>3
  <2>2. \A i \in same : i <= v /\ (chain[i].settled <=> i = v)
    BY <1>1, <1>3
  <2>3. same # {v}
    BY <2>1
  <2> QED BY <2>1, <2>2, <2>3 DEF PairedSettlement
<1> HIDE DEF v
<1>5. ASSUME NEW i \in DOMAIN chain
      PROVE  LET prior == IF i = 1 THEN 0 ELSE chain[i - 1].version
             IN  /\ chain[i].version >= prior
                 /\ chain[i].version - prior <= 2
                 /\ chain[i].version - prior = 2 => PairedSettlement(chain, chain[i].version)
  <2> DEFINE prior == IF i = 1 THEN 0 ELSE chain[i - 1].version
  <2>1. CASE h.live \/ i < v - 1
    <3>1. chain[i].version = i /\ prior = i - 1
      BY <1>1, <1>2, <2>1
    <3> QED BY <1>1, <3>1
  <2>2. CASE ~h.live /\ i = v - 1
    <3>1. chain[i].version = v /\ prior = v - 2
      BY <1>1, <1>2, <1>3, <2>2
    <3> QED BY <1>1, <1>4, <2>2, <3>1
  <2>3. CASE ~h.live /\ i = v
    <3>1. chain[i].version = v /\ prior = v
      BY <1>1, <1>3, <2>3
    <3> QED BY <1>1, <3>1
  <2> QED BY <1>1, <2>1, <2>2, <2>3
<1>6. chain # <<>> => chain[Len(chain)].version = h.version
  <2> SUFFICES ASSUME chain # <<>> PROVE chain[v].version = v
    BY <1>1 DEF v
  <2>1. v \in 1..v
    BY <1>1
  <2> QED BY <1>1, <1>2, <1>3, <2>1
<1> QED BY <1>5, <1>6 DEF Recoverable, ChainValid

------------------------------------------------------------------------------
(* The operations of the latest hand *)

\* An id names its hand and its version.
LEMMA IdsApart ==
  ASSUME NEW hand, NEW version, NEW id \in TurnIds(hand, version)
  PROVE  /\ id \notin LeaveIds
         /\ \A other, later : id \in TurnIds(other, later) => hand = other /\ version = later
<1>1. \A u : LeaveId(u)[1] = "leave"
  BY DEF LeaveId
<1>2. \A u, h, v : /\ ActionId(u, h, v)[1] = "action"
                   /\ ActionId(u, h, v)[3] = h /\ ActionId(u, h, v)[4] = v
  BY DEF ActionId
<1>3. \A h, v : /\ TimeoutId(h, v)[1] = "timeout"
                /\ TimeoutId(h, v)[2] = h /\ TimeoutId(h, v)[3] = v
  BY DEF TimeoutId
<1>4. \A h, v : id \in TurnIds(h, v) =>
        id = TimeoutId(h, v) \/ \E u \in Users : id = ActionId(u, h, v)
  BY DEF TurnIds
<1>5. "leave" # "action" /\ "leave" # "timeout" /\ "action" # "timeout"
  OBVIOUS
<1>6. id[1] \in {"action", "timeout"}
  BY <1>2, <1>3, <1>4
<1>7. id \notin LeaveIds
  BY <1>1, <1>5, <1>6 DEF LeaveIds
<1>8. ASSUME NEW other, NEW later, id \in TurnIds(other, later)
      PROVE  hand = other /\ version = later
  <2>1. CASE id[1] = "action"
    <3>1. id[3] = hand /\ id[4] = version
      BY <1>2, <1>3, <1>4, <1>5, <2>1
    <3>2. id[3] = other /\ id[4] = later
      BY <1>2, <1>3, <1>4, <1>5, <1>8, <2>1
    <3> QED BY <3>1, <3>2
  <2>2. CASE id[1] = "timeout"
    <3>1. id[2] = hand /\ id[3] = version
      BY <1>2, <1>3, <1>4, <1>5, <2>2
    <3>2. id[2] = other /\ id[3] = later
      BY <1>2, <1>3, <1>4, <1>5, <1>8, <2>2
    <3> QED BY <3>1, <3>2
  <2> QED BY <1>6, <2>1, <2>2
<1> QED BY <1>7, <1>8

LEMMA ActedOnIds ==
  ASSUME NEW ids, NEW hand, NEW id
  PROVE  id \in ActedOn(ids, hand) <=> id \in ids /\ \E v \in 0..MaxVersion : id \in TurnIds(hand, v)
BY DEF ActedOn, TurnIds

LEMMA OperationsStep ==
  ASSUME ProcessInv, OperationsPast, AppliedOnce, RecordsKept \/ TurnCommitted \/ HandDealt
  PROVE  OperationsPast' /\ AppliedOnce'
<1>1. snapshot \in Hands \cup {NoHand} /\ snapshot.hand \in Nat /\ snapshot.version \in Nat
  BY DEF ProcessInv, TypeOK, Hands, HandRecords, NoHand
<1>2. IsFiniteSet(operations) /\ \A hand : IsFiniteSet(ActedOn(operations, hand))
  <2>1. \A hand : ActedOn(operations, hand) \subseteq operations
    BY DEF ActedOn
  <2> QED BY <2>1, FS_Subset DEF OperationsPast
<1>3. snapshot # NoHand =>
        Cardinality(ActedOn(operations, snapshot.hand)) = snapshot.version - (IF snapshot.live THEN 0 ELSE 1)
  BY DEF AppliedOnce
<1>6. CASE RecordsKept
  <2>1. CASE operations' = operations
    BY <1>6, <2>1 DEF RecordsKept, OperationsPast, AppliedOnce
  <2>2. CASE \E u \in Users : operations' = operations \cup {LeaveId(u)}
    <3>1. PICK u \in Users : operations' = operations \cup {LeaveId(u)}
      BY <2>2
    <3>2. LeaveId(u) \in LeaveIds
      BY DEF LeaveIds
    <3>3. ActedOn(operations', snapshot.hand) = ActedOn(operations, snapshot.hand)
      BY <3>1, <3>2, IdsApart, ActedOnIds
    <3>4. IsFiniteSet(operations')
      BY <1>2, <3>1, FS_AddElement
    <3>5. OperationsPast'
      BY <1>6, <3>1, <3>2, <3>4 DEF RecordsKept, OperationsPast
    <3>6. AppliedOnce'
      BY <1>3, <1>6, <3>3 DEF RecordsKept, AppliedOnce
    <3> QED BY <3>5, <3>6
  <2> QED BY <1>6, <2>1, <2>2 DEF RecordsKept
<1>7. CASE TurnCommitted
  <2>1. PICK h \in Outcomes(snapshot, Bets), id \in TurnIds(snapshot.hand, snapshot.version) :
          CommitAction(id, h)
    BY <1>7 DEF TurnCommitted
  <2>2. /\ h \in Hands /\ h.hand = snapshot.hand
        /\ h.version = snapshot.version + (IF h.live THEN 1 ELSE 2)
    BY <1>7, <2>1, OutcomeType DEF TurnCommitted
  <2>3. /\ snapshot # NoHand /\ snapshot.live
        /\ snapshot.version \in 0..MaxVersion /\ snapshot.hand \in 1..MaxHands
    BY <1>1, <1>7, ServerAssumption DEF TurnCommitted, NoHand, Hands, HandRecords
  <2>4. snapshot' = h /\ operations' = operations \cup {id}
    BY <2>1 DEF CommitAction
  <2>5. id \notin operations
    <3> SUFFICES ASSUME id \in operations PROVE FALSE
      OBVIOUS
    <3>1. PICK hand \in 1..MaxHands, version \in 0..MaxVersion :
            id \in TurnIds(hand, version) /\ (hand = snapshot.hand => version < snapshot.version)
      BY IdsApart DEF OperationsPast
    <3>2. hand = snapshot.hand /\ version = snapshot.version
      BY <3>1, IdsApart
    <3> QED BY <1>1, <3>1, <3>2
  <2>6. ActedOn(operations', snapshot.hand) = ActedOn(operations, snapshot.hand) \cup {id}
    BY <2>3, <2>4, ActedOnIds
  <2>7. Cardinality(ActedOn(operations, snapshot.hand) \cup {id})
          = Cardinality(ActedOn(operations, snapshot.hand)) + 1
    <3>1. id \notin ActedOn(operations, snapshot.hand)
      BY <2>5, ActedOnIds
    <3> QED BY <1>2, <3>1, FS_AddElement
  <2>8. AppliedOnce'
    <3>1. Cardinality(ActedOn(operations', h.hand)) = snapshot.version + 1
      BY <1>1, <1>3, <2>2, <2>3, <2>6, <2>7
    <3>2. snapshot.version + 1 = h.version - (IF h.live THEN 0 ELSE 1)
      BY <1>1, <2>2
    <3> QED BY <2>4, <3>1, <3>2 DEF AppliedOnce
  <2>9. OperationsPast'
    <3>1. IsFiniteSet(operations')
      BY <1>2, <2>4, FS_AddElement
    <3>2. h.version > snapshot.version
      BY <1>1, <2>2
    <3>3. ASSUME NEW old \in operations, old \notin LeaveIds
          PROVE  \E hand \in 1..MaxHands, version \in 0..MaxVersion :
                   /\ old \in TurnIds(hand, version)
                   /\ hand <= h.hand
                   /\ hand = h.hand => version < h.version
      <4>1. PICK hand \in 1..MaxHands, version \in 0..MaxVersion :
              /\ old \in TurnIds(hand, version)
              /\ hand <= snapshot.hand
              /\ hand = snapshot.hand => version < snapshot.version
        BY <3>3 DEF OperationsPast
      <4>2. hand <= h.hand /\ (hand = h.hand => version < h.version)
        BY <1>1, <2>2, <3>2, <4>1
      <4> QED BY <4>1, <4>2
    <3>4. snapshot.hand <= h.hand /\ snapshot.version < h.version
      BY <1>1, <2>2, <3>2
    <3> QED BY <2>1, <2>3, <2>4, <3>1, <3>3, <3>4 DEF OperationsPast
  <2> QED BY <2>8, <2>9
<1>8. CASE HandDealt
  <2>1. PICK h \in Hands : /\ h.version = 0 /\ h.live /\ h.hand = snapshot.hand + 1
                           /\ snapshot' = h /\ operations' = operations
    BY <1>8 DEF HandDealt, CreateHand
  <2>2. \A id \in operations : id \notin LeaveIds =>
          \E hand \in 1..MaxHands, version \in 0..MaxVersion :
            id \in TurnIds(hand, version) /\ hand <= snapshot.hand
    BY DEF OperationsPast
  <2>3. ActedOn(operations, h.hand) = {}
    <3> SUFFICES ASSUME NEW id \in ActedOn(operations, h.hand) PROVE FALSE
      OBVIOUS
    <3>1. PICK v \in 0..MaxVersion : id \in operations /\ id \in TurnIds(h.hand, v)
      BY ActedOnIds
    <3>2. PICK hand \in 1..MaxHands, version \in 0..MaxVersion :
            id \in TurnIds(hand, version) /\ hand <= snapshot.hand
      BY <2>2, <3>1, IdsApart
    <3>3. hand = h.hand
      BY <3>1, <3>2, IdsApart
    <3> QED BY <1>1, <2>1, <3>2, <3>3
  <2>4. AppliedOnce'
    BY <2>1, <2>3, FS_EmptySet DEF AppliedOnce
  <2>5. OperationsPast'
    <3>1. \A hand \in 1..MaxHands : hand <= snapshot.hand => hand <= h.hand /\ hand # h.hand
      BY <1>1, <2>1
    <3> QED BY <1>2, <2>1, <2>2, <3>1 DEF OperationsPast
  <2> QED BY <2>4, <2>5
<1> QED BY <1>6, <1>7, <1>8

------------------------------------------------------------------------------
(* The cache when every recovery holds the lock *)

LEMMA CacheCurrentStep ==
  ASSUME ProcessInv, CacheCurrent, Next
  PROVE  CacheCurrent'
<1> SUFFICES ASSUME ~UnlockedReads, failures' = 0
             PROVE  /\ ~draining' /\ reader' = NoReader
                    /\ \A i \in DOMAIN queue' : ~queue'[i].detached
                    /\ \/ cache' \in {NoHand, snapshot'}
                       \/ queue' # <<>> /\ queue'[1].step \in {"dealt", "committed"}
  BY DEF CacheCurrent, task
<1>1. failures = 0 /\ failures' # failures + 1
  BY FailuresStep DEF ProcessInv, TypeOK
<1>2. /\ ~draining /\ reader = NoReader /\ reader.step = "none"
      /\ \A i \in DOMAIN queue : ~queue[i].detached
      /\ \/ cache \in {NoHand, snapshot}
         \/ queue # <<>> /\ queue[1].step \in {"dealt", "committed"}
  BY <1>1 DEF CacheCurrent, task, NoReader
<1>3. queue \in Seq(Tasks) /\ Waiting(queue)
  BY DEF ProcessInv, TypeOK, OthersWait
<1>4. \A i \in DOMAIN queue' : ~queue'[i].detached
  <2>1. CASE Moves(queue, queue')
    BY <1>2, <1>3, <2>1, MovesKeep
  <2>2. CASE FireNextTimer
    <3> DEFINE t == Task("next", Nobody, nextTimer, 0)
    <3>1. t \in StartTasks /\ ~t.detached
      <4>1. nextTimer \in Nat
        BY DEF ProcessInv, TypeOK
      <4>2. t \in StartTasks
        BY <4>1, TaskType
      <4> QED BY <4>2 DEF StartTasks
    <3>2. queue' = Append(queue, t)
      BY <2>2 DEF FireNextTimer
    <3> QED BY <1>2, <1>3, <3>1, <3>2, ArrivedKeeps
  <2>3. CASE ActionCommitted
    <3>1. queue # <<>> /\ queue[1] \in Tasks
      BY <1>3, <2>3 DEF ActionCommitted, Computed, Acting, Running
    <3>2. /\ DOMAIN queue' = DOMAIN queue /\ queue'[1].detached = queue[1].detached
          /\ \A i \in DOMAIN queue : i # 1 => queue'[i] = queue[i]
      BY <1>3, <2>3, <3>1 DEF ActionCommitted, Tasks, TaskRecords
    <3> QED BY <1>2, <3>2
  <2> QED BY <2>1, <2>2, <2>3, QueueStep
<1>5. ~SnapshotStart /\ ~Reader
  BY <1>2 DEF SnapshotStart, Reader, SnapshotEvents, SnapshotSet
<1>6. CASE \/ Client \/ SnapshotArms \/ FireActionTimer \/ FireOrphan \/ FireNextTimer
           \/ \E u \in Users :
                \/ LeaveQueued(u) \/ Disconnect(u) \/ GraceTimerSet(u)
                \/ \E kind \in {"checks", "plays"} : FireGraceTimer(u, kind)
  <2>1. /\ draining' = draining /\ cache' = cache /\ snapshot' = snapshot /\ reader' = reader
        /\ queue' = queue \/ \E t : queue' = Append(queue, t)
    BY <1>5, <1>6 DEF Client, SnapshotCached, SnapshotArms, FireActionTimer, FireOrphan, Expire,
         FireNextTimer, RequestJoin, RequestAction, RequestLeave, LeaveQueued, Disconnect, GraceTimerSet,
         FireGraceTimer, records, requests
  <2>2. queue # <<>> => queue' # <<>> /\ queue'[1] = queue[1]
    BY <1>3, <2>1
  <2> QED BY <1>2, <1>4, <2>1, <2>2
<1>7. CASE Restart
  BY <1>2, <1>4, <1>7 DEF Restart, Reboots, records
<1>8. CASE Handler
  <2>1. ASSUME queue # <<>>, queue[1].step \notin {"dealt", "committed"}
        PROVE  cache \in {NoHand, snapshot} /\ Recovered = snapshot
    BY <1>2, <2>1 DEF Recovered
  <2>2. queue # <<>> => ~task.detached
    BY <1>2, <1>3 DEF task
  <2>3. ~CommitStale /\ ~CommitFails /\ ~PounceFails
    <3>1. Computed => VersionCurrent
      BY <2>1 DEF Computed, Acting, Running, VersionCurrent
    <3> QED BY <1>1, <3>1 DEF CommitStale, CommitFails, PounceFails
  <2>4. CASE ActionRefused \/ ActionCommitted \/ ActionFinished
    <3>1. draining' = draining /\ reader' = reader
      BY <2>4 DEF ActionRefused, ActionCommitted, ActionFinished, requests
    <3>2. CASE ActionRefused
      BY <1>2, <1>4, <2>1, <3>1, <3>2 DEF ActionRefused, Acting, Running, records
    <3>3. CASE ActionCommitted
      <4>1. queue' # <<>> /\ queue'[1].step = "committed"
        BY <1>3, <3>3 DEF ActionCommitted, Computed, Acting, Running, Tasks, TaskRecords
      <4> QED BY <1>2, <1>4, <3>1, <4>1
    <3>4. CASE ActionFinished
      BY <1>2, <1>4, <2>2, <3>1, <3>4 DEF ActionFinished, CacheAfter, Acting, Running, records
    <3> QED BY <2>4, <3>2, <3>3, <3>4
  <2>5. CASE JoinClaim \/ JoinDeal \/ JoinDealt \/ JoinRearms
    <3>1. draining' = draining /\ reader' = reader
      BY <2>5 DEF JoinClaim, JoinDeal, JoinDealt, JoinRearms, requests
    <3>2. CASE JoinClaim \/ JoinDealt \/ JoinRearms
      <4>1. cache' \in {NoHand, snapshot} /\ snapshot' = snapshot
        BY <2>1, <3>2 DEF JoinClaim, JoinDealt, JoinRearms, Running, SetCache, records
      <4> QED BY <1>2, <1>4, <3>1, <4>1
    <3>3. CASE JoinDeal
      <4>1. queue' # <<>> /\ queue'[1].step = "dealt"
        BY <1>3, <3>3 DEF JoinDeal, Running, Continue, Tasks, TaskRecords
      <4> QED BY <1>2, <1>4, <3>1, <4>1
    <3> QED BY <2>5, <3>2, <3>3
  <2>6. CASE NextDeal \/ NextDealt \/ LeaveClear \/ LeaveRelease
    <3>1. draining' = draining /\ reader' = reader
      BY <2>6 DEF NextDeal, NextDealt, LeaveClear, LeaveRelease, requests
    <3>2. CASE NextDealt \/ LeaveClear \/ LeaveRelease
      <4>1. cache' \in {NoHand, snapshot} /\ snapshot' = snapshot
        BY <2>1, <2>2, <3>2 DEF NextDealt, LeaveClear, LeaveRelease, ClearsRuntime, CacheAfter,
             Running, SetCache, records
      <4> QED BY <1>2, <1>4, <3>1, <4>1
    <3>3. CASE NextDeal
      <4>1. queue # <<>> /\ cache' = snapshot
        BY <2>1, <3>3 DEF NextDeal, Running
      <4>2. CASE Continue("dealt")
        <5>1. queue' # <<>> /\ queue'[1].step = "dealt"
          BY <1>3, <4>1, <4>2 DEF Continue, Tasks, TaskRecords
        <5> QED BY <1>2, <1>4, <3>1, <5>1
      <4>3. CASE UNCHANGED records
        BY <1>2, <1>4, <3>1, <4>1, <4>3 DEF records
      <4> QED BY <3>3, <4>2, <4>3 DEF NextDeal
    <3> QED BY <2>6, <3>2, <3>3
  <2> QED BY <1>8, <2>3, <2>4, <2>5, <2>6 DEF Handler
<1> QED BY <1>5, <1>6, <1>7, <1>8 DEF Next

------------------------------------------------------------------------------
(* The theorems *)

LEMMA ServerInvEq ==
  ServerInv <=> ProcessInv /\ EventsFollow /\ OperationsPast /\ AppliedOnce /\ CacheCurrent
BY DEF ServerInv, ProcessInv

LEMMA NextInv == ServerInv /\ [Next]_vars => ServerInv'
<1> SUFFICES ASSUME ServerInv, [Next]_vars PROVE ServerInv'
  OBVIOUS
<1>1. CASE Next
  <2>1. RecordsKept \/ TurnCommitted \/ HandDealt
    BY <1>1, HistoryStep, ServerInvEq
  <2>2. ProcessInv'
    BY <1>1, ProcessStep, ServerInvEq
  <2>3. EventsFollow'
    BY <2>1, EventsStep, ServerInvEq
  <2>4. OperationsPast' /\ AppliedOnce'
    BY <2>1, OperationsStep, ServerInvEq
  <2>5. CacheCurrent'
    BY <1>1, CacheCurrentStep, ServerInvEq
  <2> QED BY <2>2, <2>3, <2>4, <2>5 DEF ServerInv, ProcessInv
<1>2. CASE UNCHANGED vars
  BY <1>2 DEF vars, money, records, timers, requests, bounds, faults, ServerInv, TypeOK,
     CopiesBehind, Behind, OthersWait, Waiting, NextFollows, NextTasks, Acting, Running,
     EventsFollow, ChainOf, OperationsPast, AppliedOnce, CacheCurrent, task
<1> QED BY <1>1, <1>2

\* The inductive invariant of the table server.
THEOREM ServerInvariant == Spec => []ServerInv
BY InitInv, NextInv, PTL DEF Spec

\* "An action is applied at most once by actionId" (processTableAction and
\* commitDurableAction, retries, timeouts, restarts and failed commits included).
THEOREM ActionsApplyOnce == Spec => []AppliedOnce
<1>1. ServerInv => AppliedOnce
  BY DEF ServerInv
<1> QED BY <1>1, ServerInvariant, PTL

\* What a restart finds at any moment passes the checks of recoverResult.
THEOREM RestartsRecover == Spec => []DurableRecoverable
<1>1. ServerInv => DurableRecoverable
  <2> SUFFICES ASSUME ServerInv, snapshot # NoHand
               PROVE  Recoverable(snapshot, events[snapshot.hand])
    BY DEF DurableRecoverable, HandEvents
  <2>1. snapshot \in Hands /\ events[snapshot.hand] \in Seq(Events)
    BY DEF ServerInv, TypeOK, Hands, HandRecords
  <2> QED BY <2>1, ChainRecovers DEF ServerInv, EventsFollow
<1> QED BY <1>1, ServerInvariant, PTL

\* The runtime cache, whoever filled it, never shows what a crash would undo.
THEOREM CacheNeverAhead == Spec => []CacheNotAhead
<1>1. ServerInv => CacheNotAhead
  BY DEF ServerInv, CopiesBehind, Behind, CacheNotAhead
<1> QED BY <1>1, ServerInvariant, PTL

\* With every recovery under the lock, only a failed commit drains a room.
THEOREM ValidRoomsServed == ASSUME ~UnlockedReads PROVE Spec => []ValidRoomServed
<1>1. ServerInv => ValidRoomServed
  BY DEF ServerInv, CacheCurrent, ValidRoomServed
<1> QED BY <1>1, ServerInvariant, PTL

\* Whatever the process believes, the snapshots of a table are the history of a
\* legal game: turns of the hand in play, and deals from its result.
THEOREM HistoryIsLegal == Spec => LegalHistory
<1> DEFINE Legal ==
      \/ snapshot' = snapshot
      \/ snapshot.live /\ snapshot' \in Outcomes(snapshot, Bets)
      \/ /\ ~snapshot.live
         /\ snapshot'.hand = snapshot.hand + 1
         /\ \/ snapshot = NoHand
            \/ snapshot' \in Dealt(snapshot.hand + 1, snapshot.players, snapshot.chips)
<1>1. ServerInv /\ [Next]_vars => [Legal]_vars
  <2> SUFFICES ASSUME ServerInv, Next PROVE Legal
    OBVIOUS
  <2>1. RecordsKept \/ TurnCommitted \/ HandDealt
    BY HistoryStep, ServerInvEq
  <2> QED BY <2>1 DEF RecordsKept, TurnCommitted, CommitAction, HandDealt, CreateHand
<1> QED BY <1>1, ServerInvariant, PTL DEF Spec, LegalHistory

\* releaseTableSeat never takes a player out of a hand in play, and no commit
\* takes a seat away.
THEOREM NobodyLeavesInHand == Spec => NoCashOutInHand
<1> DEFINE Stays ==
      \/ seat' = seat
      \/ ~snapshot.live
      \/ \A u \in snapshot.players : seat[u] # NoSeat => seat'[u] # NoSeat
<1>1. ServerInv /\ [Next]_vars => [Stays]_vars
  <2> SUFFICES ASSUME ServerInv, Next, snapshot.live
               PROVE  \A u \in snapshot.players : seat[u] # NoSeat => seat'[u] # NoSeat
    OBVIOUS
  <2>1. snapshot.players \subseteq Users
    BY DEF ServerInv, TypeOK, Hands, HandRecords, NoHand
  <2> QED BY <2>1, SeatStep, ServerInvEq
<1> QED BY <1>1, ServerInvariant, PTL DEF Spec, NoCashOutInHand

------------------------------------------------------------------------------
(* The chips on the table *)

\* The seats of a hand's players show its chips.
SeatsShow == \A u \in snapshot.players : seat[u] = snapshot.chips[u]

Total(f) == SumFunctionOnSet(f, Users)

LEMMA TotalMoves ==
  ASSUME NEW f \in [Users -> Nat], NEW g \in [Users -> Nat], NEW x \in Users, NEW d \in Int,
         g[x] = f[x] + d, \A y \in Users : y # x => g[y] = f[y]
  PROVE  Total(f) \in Nat /\ Total(g) = Total(f) + d
<1>1. Total(f) \in Nat /\ Total(g) \in Nat
  BY ServerAssumption, SumNatural DEF Total
<1>2. g[x] + Total(f) = f[x] + Total(g)
  BY ServerAssumption, SumChanged DEF Total
<1>3. \A i, j, m, n \in Nat : m = i + d /\ m + j = i + n => n = j + d
  OBVIOUS
<1> QED BY <1>1, <1>2, <1>3

LEMMA StacksType == ASSUME TypeOK PROVE Stacks \in [Users -> Nat]
BY DEF TypeOK, Stacks, NoSeat

LEMMA HoldingsType ==
  ASSUME TypeOK
  PROVE  /\ Holdings \in [Users -> Nat]
         /\ SeatsShow => Holdings = Stacks
<1>1. snapshot.players \subseteq Users /\ \A u \in snapshot.players : snapshot.chips[u] \in Nat
  BY DEF TypeOK, Hands, HandRecords, NoHand
<1>2. Stacks \in [Users -> Nat]
  BY StacksType
<1>3. ASSUME SeatsShow, NEW u \in snapshot.players PROVE Stacks[u] = snapshot.chips[u]
  BY <1>1, <1>3 DEF SeatsShow, Stacks, NoSeat
<1>4. SeatsShow => \A u \in Users : Holdings[u] = Stacks[u]
  BY <1>3 DEF Holdings
<1>5. Holdings = [u \in Users |-> Holdings[u]] /\ Stacks = [u \in Users |-> Stacks[u]]
  BY DEF Holdings, Stacks
<1>6. Holdings \in [Users -> Nat]
  BY <1>1, <1>2 DEF Holdings
<1> QED BY <1>4, <1>5, <1>6

\* What is held, and what the seats come to, once a hand gives its players chips.
LEMMA HoldingsAfter ==
  ASSUME TypeOK, NEW h \in Hands, snapshot' = h, seat' = SeatsAfter(h),
         snapshot.players \subseteq h.players
  PROVE  /\ Holdings \in [Users -> Nat] /\ Holdings' \in [Users -> Nat]
         /\ \A u \in Users : Holdings'[u] = IF u \in h.players THEN h.chips[u] ELSE Holdings[u]
         /\ SeatsWritten'
         /\ (\A u \in h.players : seat[u] # NoSeat) => SeatsShow'
<1>1. /\ h.players \subseteq Users /\ \A u \in Users : h.chips[u] \in Nat
      /\ \A u \in Users : seat'[u] = IF u \in h.players /\ seat[u] # NoSeat THEN h.chips[u] ELSE seat[u]
  BY DEF Hands, HandRecords, SeatsAfter
<1>2. \A u \in Users : u \notin h.players => Stacks'[u] = Stacks[u]
  BY <1>1 DEF Stacks
<1>3. \A u \in Users : Holdings'[u] = IF u \in h.players THEN h.chips[u] ELSE Holdings[u]
  BY <1>2 DEF Holdings
<1>4. Holdings \in [Users -> Nat]
  BY HoldingsType
<1>5. Holdings' \in [Users -> Nat]
  <2>1. \A u \in Users : Holdings'[u] \in Nat
    BY <1>1, <1>3, <1>4
  <2>2. Holdings' = [u \in Users |-> Holdings'[u]]
    BY DEF Holdings
  <2> QED BY <2>1, <2>2
<1>6. SeatsWritten'
  BY <1>1 DEF SeatsWritten
<1>7. (\A u \in h.players : seat[u] # NoSeat) => SeatsShow'
  BY <1>1 DEF SeatsShow
<1> QED BY <1>3, <1>4, <1>5, <1>6, <1>7

\* A turn moves chips between the holders and the pot.
LEMMA TurnKeepsHeld ==
  ASSUME TypeOK, TurnCommitted
  PROVE  ChipsHeld' = ChipsHeld /\ account' = account /\ SeatsWritten' /\ (SeatsShow => SeatsShow')
<1>1. PICK h \in Outcomes(snapshot, Bets) :
        /\ snapshot' = h /\ seat' = SeatsAfter(h) /\ account' = account
  BY DEF TurnCommitted, CommitAction
<1>2. snapshot \in Hands /\ snapshot.live /\ h \in Hands
  BY <1>1, OutcomeType DEF TurnCommitted
<1>3. /\ snapshot.actor \in snapshot.players /\ snapshot.players \subseteq Users
      /\ snapshot.chips \in [Users -> Nat] /\ snapshot.pot \in Nat
  BY <1>2 DEF Hands, HandRecords
<1>4. PICK bet \in Bets : /\ bet <= snapshot.chips[snapshot.actor]
                          /\ h \in Passed(snapshot, bet) \/ h \in Finished(snapshot, bet)
  BY <1>1 DEF Outcomes
<1>5. bet \in Nat
  BY <1>4 DEF Bets
<1>6. PICK actor : actor = snapshot.actor
  OBVIOUS
<1>7. h.players = snapshot.players
  BY <1>2, <1>4 DEF Passed, Finished, Hands, HandRecords
<1>8. /\ \A u \in Users : Holdings'[u] = IF u \in snapshot.players THEN h.chips[u] ELSE Holdings[u]
      /\ Holdings' \in [Users -> Nat] /\ Holdings \in [Users -> Nat]
      /\ SeatsWritten' /\ ((\A u \in h.players : seat[u] # NoSeat) => SeatsShow')
  BY <1>1, <1>2, <1>7, HoldingsAfter
<1>9. \A u \in snapshot.players : Holdings[u] = snapshot.chips[u]
  BY <1>3 DEF Holdings
<1>10. /\ ChipsHeld = Total(Holdings) + snapshot.pot /\ ChipsHeld' = Total(Holdings') + h.pot
       /\ account' = account /\ SeatsWritten' /\ (SeatsShow => SeatsShow')
  <2>1. SeatsShow => \A u \in h.players : seat[u] # NoSeat
    BY <1>3, <1>7 DEF SeatsShow, NoSeat
  <2> QED BY <1>1, <1>8, <2>1 DEF ChipsHeld, Total
<1>11. CASE h \in Passed(snapshot, bet)
  <2>1. /\ h.chips = [snapshot.chips EXCEPT ![actor] = @ - bet] /\ h.pot = snapshot.pot + bet
    BY <1>2, <1>6, <1>11 DEF Passed, Hands, HandRecords
  <2>2. h.chips[actor] = snapshot.chips[actor] - bet
    BY <1>3, <1>6, <2>1
  <2>3. \A y \in Users : y # actor => Holdings'[y] = Holdings[y]
    <3>1. \A y \in Users : y # actor => h.chips[y] = snapshot.chips[y]
      BY <1>3, <2>1
    <3> QED BY <1>8, <1>9, <3>1
  <2>4. Holdings'[actor] = Holdings[actor] + (-bet) /\ actor \in Users /\ -bet \in Int
    BY <1>3, <1>5, <1>6, <1>8, <1>9, <2>2
  <2>5. PICK f \in [Users -> Nat], g \in [Users -> Nat] : f = Holdings /\ g = Holdings'
    BY <1>8
  <2>6. Total(f) \in Nat /\ Total(g) = Total(f) + (-bet)
    BY <2>3, <2>4, <2>5, TotalMoves
  <2>7. Total(Holdings) \in Nat /\ Total(Holdings') = Total(Holdings) + (-bet)
    BY <2>5, <2>6
  <2>8. \A i, j \in Nat : (i + (-bet)) + (j + bet) = i + j
    BY <1>5
  <2> QED BY <1>3, <1>10, <2>1, <2>7, <2>8
<1>12. CASE h \in Finished(snapshot, bet)
  <2>1. PICK w \in snapshot.players :
          /\ h.chips = [u \in Users |-> snapshot.chips[u] - (IF u = actor THEN bet ELSE 0)
                                          + (IF u = w THEN snapshot.pot + bet ELSE 0)]
          /\ h.pot = 0
    <3>1. PICK w \in snapshot.players :
            h = [snapshot EXCEPT !.version = @ + 2, !.live = FALSE, !.pot = 0, !.actor = Nobody,
                   !.chips = [u \in Users |-> @[u] - (IF u = snapshot.actor THEN bet ELSE 0)
                                                   + (IF u = w THEN snapshot.pot + bet ELSE 0)]]
      BY <1>12 DEF Finished
    <3> DEFINE chips == [u \in Users |-> snapshot.chips[u] - (IF u = actor THEN bet ELSE 0)
                                          + (IF u = w THEN snapshot.pot + bet ELSE 0)]
    <3>2. h = [snapshot EXCEPT !.version = @ + 2, !.live = FALSE, !.pot = 0, !.actor = Nobody,
                               !.chips = chips]
      BY <1>2, <1>6, <3>1 DEF Hands, HandRecords
    <3> HIDE DEF chips
    <3>3. h.chips = chips /\ h.pot = 0
      BY <1>2, <3>2 DEF Hands, HandRecords
    <3> QED BY <3>3 DEF chips
  <2>2. PICK f \in [Users -> Nat], g \in [Users -> Nat] : f = Holdings /\ g = Holdings'
    BY <1>8
  <2> DEFINE between == [f EXCEPT ![actor] = @ - bet]
  <2>3. f[actor] = snapshot.chips[actor] /\ actor \in Users /\ bet <= f[actor]
    BY <1>3, <1>4, <1>6, <1>8, <1>9, <2>2
  <2>4. between \in [Users -> Nat] /\ between[actor] = f[actor] + (-bet)
        /\ \A y \in Users : y # actor => between[y] = f[y]
    BY <1>5, <2>3
  <2>5. g[w] = between[w] + (snapshot.pot + bet) /\ \A y \in Users : y # w => g[y] = between[y]
    <3>1. \A y \in Users : h.chips[y] = (snapshot.chips[y] - (IF y = actor THEN bet ELSE 0))
                                          + (IF y = w THEN snapshot.pot + bet ELSE 0)
      BY <2>1
    <3>2. \A y \in snapshot.players : f[y] = snapshot.chips[y] /\ g[y] = h.chips[y] /\ y \in Users
      BY <1>3, <1>8, <1>9, <2>2
    <3>3. \A y \in snapshot.players :
            g[y] = between[y] + (IF y = w THEN snapshot.pot + bet ELSE 0)
      <4> SUFFICES ASSUME NEW y \in snapshot.players
                   PROVE  g[y] = between[y] + (IF y = w THEN snapshot.pot + bet ELSE 0)
        OBVIOUS
      <4>1. between[y] = f[y] - (IF y = actor THEN bet ELSE 0)
        BY <1>5, <2>3, <3>2
      <4> HIDE DEF between
      <4> QED BY <3>1, <3>2, <4>1
    <3>4. \A y \in Users : y \notin snapshot.players => g[y] = between[y]
      BY <1>3, <1>6, <1>8, <2>2, <2>4
    <3>5. \A y \in snapshot.players : y # w => g[y] = between[y]
      <4> HIDE DEF between
      <4> QED BY <2>4, <3>2, <3>3
    <3> QED BY <3>3, <3>4, <3>5
  <2> HIDE DEF between
  <2>6. Total(f) \in Nat /\ Total(between) = Total(f) + (-bet)
    <3>1. -bet \in Int
      BY <1>5
    <3> QED BY <2>3, <2>4, <3>1, TotalMoves
  <2>7. Total(g) = Total(between) + (snapshot.pot + bet)
    <3>1. snapshot.pot + bet \in Int /\ w \in Users
      BY <1>3, <1>5
    <3> QED BY <2>4, <2>5, <3>1, TotalMoves
  <2>8. \A i, j \in Nat : ((i + (-bet)) + (j + bet)) + 0 = i + j
    BY <1>5
  <2> QED BY <1>3, <1>10, <2>1, <2>2, <2>6, <2>7, <2>8
<1> QED BY <1>4, <1>11, <1>12

\* A blind moves a chip from a holder to the pot.
LEMMA DealKeepsHeld ==
  ASSUME TypeOK, snapshot.pot = 0, NEW hand \in 1..MaxHands, NEW players \in SUBSET Users,
         NEW chips \in [Users -> Nat], NEW h \in Dealt(hand, players, chips), CreateHand(h),
         snapshot.players \subseteq players, \A u \in players : Holdings[u] = chips[u]
  PROVE  /\ ChipsHeld' = ChipsHeld /\ account' = account /\ SeatsWritten'
         /\ (\A u \in players : seat[u] # NoSeat) => SeatsShow'
<1>1. PICK b \in Posters(players, chips) :
        /\ h.chips = [chips EXCEPT ![b] = @ - 1] /\ h.players = players /\ h.pot = 1
  <2>1. OneBlind(players, chips, h)
    BY DealtForm
  <2> QED BY <2>1 DEF OneBlind
<1>2. b \in players /\ b \in Users /\ chips[b] \in Nat /\ chips[b] > 0
  BY <1>1 DEF Posters
<1>3. snapshot' = h /\ seat' = SeatsAfter(h) /\ account' = account /\ h \in Hands
  BY DealtType DEF CreateHand
<1>4. /\ Holdings \in [Users -> Nat] /\ Holdings' \in [Users -> Nat]
      /\ \A u \in Users : Holdings'[u] = IF u \in players THEN h.chips[u] ELSE Holdings[u]
      /\ SeatsWritten' /\ ((\A u \in players : seat[u] # NoSeat) => SeatsShow')
  BY <1>1, <1>3, HoldingsAfter
<1>5. h.chips[b] = chips[b] + (-1) /\ \A u \in Users : u # b => h.chips[u] = chips[u]
  BY <1>1, <1>2
<1>6. Holdings'[b] = Holdings[b] + (-1) /\ \A y \in Users : y # b => Holdings'[y] = Holdings[y]
  BY <1>2, <1>4, <1>5
<1>7. PICK f \in [Users -> Nat], g \in [Users -> Nat] : f = Holdings /\ g = Holdings'
  BY <1>4
<1>8. Total(f) \in Nat /\ Total(g) = Total(f) + (-1)
  BY <1>2, <1>6, <1>7, TotalMoves
<1>9. ChipsHeld = Total(f) + 0 /\ ChipsHeld' = Total(g) + 1
  BY <1>1, <1>3, <1>7 DEF ChipsHeld, Total
<1>10. ChipsHeld' = ChipsHeld
  BY <1>8, <1>9
<1> QED BY <1>3, <1>4, <1>10

\* A seat is bought, or cashed out, for what it holds.
LEMMA SeatIsPaid ==
  ASSUME ProcessInv, SeatMoves
  PROVE  TableChips' - TableChips = account' - account
<1>1. /\ snapshot' = snapshot /\ TypeOK /\ snapshot.pot \in Nat /\ account \in Nat
      /\ Stacks \in [Users -> Nat]
  BY StacksType DEF SeatMoves, JoinClaim, LeaveRelease, records, ProcessInv, TypeOK, Hands, HandRecords, NoHand
<1>2. TableChips = Total(Stacks) + snapshot.pot /\ TableChips' = Total(Stacks') + snapshot.pot
  BY <1>1 DEF TableChips, Total
<1>3. Total(Stacks) \in Nat
  BY <1>1, ServerAssumption, SumNatural DEF Total
<1>4. ASSUME NEW x \in Users, NEW d \in Int, Stacks' \in [Users -> Nat], Stacks'[x] = Stacks[x] + d,
             \A y \in Users : y # x => Stacks'[y] = Stacks[y], account' = account + d
      PROVE  TableChips' - TableChips = account' - account
  <2>1. PICK f \in [Users -> Nat], g \in [Users -> Nat] : f = Stacks /\ g = Stacks'
    BY <1>1, <1>4
  <2>2. Total(g) = Total(f) + d
    BY <1>4, <2>1, TotalMoves
  <2>3. \A i, j, k \in Nat : ((i + d) + j) - (i + j) = (k + d) - k
    BY <1>4
  <2> QED BY <1>1, <1>2, <1>3, <1>4, <2>1, <2>2, <2>3
<1>5. CASE UNCHANGED money
  <2>1. Stacks' = Stacks /\ account' = account
    BY <1>5 DEF money, Stacks
  <2> QED BY <1>1, <1>2, <1>3, <2>1
<1>6. CASE JoinClaim /\ ~draining
  <2>1. /\ task.user \in Users /\ account' = account + BuyInDue
        /\ seat' = [seat EXCEPT ![task.user] = IF @ = NoSeat THEN BuyIn ELSE @]
    BY <1>6, JoinerType DEF JoinClaim
  <2>2. seat \in [Users -> Nat \cup {NoSeat}] /\ BuyIn \in Nat /\ BuyIn # NoSeat
    BY ServerAssumption DEF ProcessInv, TypeOK, NoSeat
  <2>3. CASE seat[task.user] = NoSeat
    <3>1. seat' = [seat EXCEPT ![task.user] = BuyIn] /\ account' = account + BuyIn
      BY <2>1, <2>2, <2>3 DEF BuyInDue, Seated
    <3>2. /\ Stacks'[task.user] = Stacks[task.user] + BuyIn
          /\ \A y \in Users : y # task.user => Stacks'[y] = Stacks[y]
      BY <2>1, <2>2, <2>3, <3>1 DEF Stacks
    <3>3. Stacks' \in [Users -> Nat]
      BY <2>2, <3>1 DEF Stacks, NoSeat
    <3>4. BuyIn \in Int
      BY <2>2
    <3> QED BY <1>4, <2>1, <3>1, <3>2, <3>3, <3>4
  <2>4. CASE seat[task.user] # NoSeat
    <3>1. seat' = seat /\ account' = account
      BY <1>1, <2>1, <2>2, <2>4 DEF BuyInDue, Seated
    <3> QED BY <1>5, <3>1 DEF money
  <2> QED BY <2>3, <2>4
<1>7. CASE LeaveRelease /\ MayLeave
  <2>1. /\ task.user \in Users /\ seat[task.user] # NoSeat
        /\ account' = account - seat[task.user]
        /\ seat' = [seat EXCEPT ![task.user] = NoSeat]
    BY <1>7 DEF LeaveRelease, MayLeave, Seated
  <2>2. seat \in [Users -> Nat \cup {NoSeat}] /\ seat[task.user] \in Nat
    BY <2>1 DEF ProcessInv, TypeOK
  <2>3. /\ Stacks'[task.user] = Stacks[task.user] + (-seat[task.user])
        /\ \A y \in Users : y # task.user => Stacks'[y] = Stacks[y]
    BY <2>1, <2>2 DEF Stacks
  <2>4. Stacks' \in [Users -> Nat]
    BY <2>1, <2>2 DEF Stacks, NoSeat
  <2>5. account' = account + (-seat[task.user]) /\ -seat[task.user] \in Int
    BY <1>1, <2>1, <2>2
  <2> QED BY <1>4, <2>1, <2>3, <2>4, <2>5
<1>8. CASE JoinClaim /\ draining
  BY <1>5, <1>8 DEF JoinClaim
<1> QED BY <1>6, <1>7, <1>8 DEF SeatMoves

\* A hand that is dealt finds no pot, and deals from what its players hold.
LEMMA HandMovesChips ==
  ASSUME ProcessInv, HandMoves
  PROVE  /\ snapshot' # snapshot
         /\ ChipsHeld' = ChipsHeld /\ account' = account /\ SeatsWritten'
         /\ SeatsShow => SeatsShow'
<1>1. TypeOK
  BY DEF ProcessInv
<1>2. CASE TurnCommitted
  <2>1. snapshot' # snapshot
    <3>1. PICK h \in Outcomes(snapshot, Bets) : snapshot' = h
      BY <1>2 DEF TurnCommitted, CommitAction
    <3>2. h.version # snapshot.version
      BY <1>2, OutcomeType DEF TurnCommitted, Hands, HandRecords
    <3> QED BY <3>1, <3>2
  <2> QED BY <1>1, <1>2, <2>1, TurnKeepsHeld
<1>3. CASE JoinDeal
  <2>1. snapshot = NoHand /\ snapshot.pot = 0 /\ snapshot.players = {} /\ 1 \in 1..MaxHands
    BY <1>3, ServerAssumption DEF JoinDeal, FirstHandDue, NoHand
  <2> DEFINE stacks == [u \in Users |-> IF u \in Seated THEN seat[u] ELSE 0]
  <2>2. /\ stacks \in [Users -> Nat] /\ Seated \in SUBSET Users
        /\ \A u \in Seated : Holdings[u] = stacks[u] /\ seat[u] # NoSeat
    BY <1>1, <2>1 DEF TypeOK, Seated, Holdings, Stacks
  <2>3. PICK h \in Dealt(1, Seated, stacks) : CreateHand(h)
    BY <1>3 DEF JoinDeal
  <2> HIDE DEF stacks
  <2>4. ChipsHeld' = ChipsHeld /\ account' = account /\ SeatsWritten' /\ SeatsShow'
    BY <1>1, <2>1, <2>2, <2>3, DealKeepsHeld
  <2>5. snapshot' # snapshot
    BY <2>1, <2>3 DEF CreateHand, Dealt, NoHand
  <2> QED BY <2>4, <2>5
<1>4. CASE NextDeal /\ HandDealt
  <2>1. snapshot # NoHand
    <3>1. 1 \in NextTasks(queue)
      BY <1>4 DEF NextDeal, Running, NextTasks, ProcessInv, TypeOK
    <3> QED BY <3>1 DEF ProcessInv, NextFollows
  <2>2. /\ snapshot \in Hands /\ ~snapshot.live /\ snapshot.pot = 0
        /\ snapshot.players \in SUBSET Users /\ snapshot.chips \in [Users -> Nat]
    BY <1>1, <1>4, <2>1 DEF TypeOK, HandDealt, Hands, HandRecords
  <2>3. PICK h \in Hands :
          /\ h \in Dealt(snapshot.hand + 1, snapshot.players, snapshot.chips)
          /\ CreateHand(h) /\ h.live /\ h.hand = snapshot.hand + 1
    BY <1>4, <2>1 DEF HandDealt
  <2>4. snapshot' # snapshot
    BY <2>2, <2>3 DEF CreateHand
  <2>5. snapshot.hand + 1 \in 1..MaxHands
    BY <2>3 DEF Hands, HandRecords
  <2>6. \A u \in snapshot.players : Holdings[u] = snapshot.chips[u]
    BY <2>2 DEF Holdings
  <2>7. /\ ChipsHeld' = ChipsHeld /\ account' = account /\ SeatsWritten'
        /\ (\A u \in snapshot.players : seat[u] # NoSeat) => SeatsShow'
    BY <1>1, <2>2, <2>3, <2>5, <2>6, DealKeepsHeld
  <2>8. SeatsShow => \A u \in snapshot.players : seat[u] # NoSeat
    BY <2>2 DEF SeatsShow, NoSeat
  <2> QED BY <2>4, <2>7, <2>8
<1> QED BY <1>2, <1>3, <1>4 DEF HandMoves

\* The ledger books what a join seats and what a leave takes away; a deal or a turn
\* books nothing and only moves chips: the sum of what the players of the hand
\* hold, the stacks of the others and the pot stays the same, and the seats are
\* given what the hand says, also when a player of it has left
\* (commitDurableAction, createDurableHand, claimTableSeat, releaseTableSeat).
THEOREM StepsAreBacked == Spec => StepsBacked
<1> DEFINE Backed ==
      \/ UNCHANGED <<money, snapshot>>
      \/ snapshot' = snapshot /\ TableChips' - TableChips = account' - account
      \/ snapshot' # snapshot /\ account' = account /\ ChipsHeld' = ChipsHeld /\ SeatsWritten'
<1>1. ServerInv /\ [Next]_vars => [Backed]_vars
  <2> SUFFICES ASSUME ServerInv, Next PROVE Backed
    OBVIOUS
  <2>1. ProcessInv
    BY ServerInvEq
  <2>2. CASE HandMoves
    BY <2>1, <2>2, HandMovesChips
  <2>3. CASE SeatMoves
    <3>1. snapshot' = snapshot
      BY <2>3 DEF SeatMoves, JoinClaim, LeaveRelease, records
    <3> QED BY <2>1, <2>3, <3>1, SeatIsPaid
  <2> QED BY <2>1, <2>2, <2>3, MoneyStep
<1> QED BY <1>1, ServerInvariant, PTL DEF Spec, StepsBacked

\* Without a leave the seats of a hand's players show its chips, always.
StayInv == ServerInv /\ SeatsShow /\ TableBacked /\ \A i \in DOMAIN queue : queue[i].kind # "leave"

LEMMA StayStep == ASSUME Leavers = {}, StayInv, Next PROVE StayInv'
<1>1. ServerInv' /\ ServerInv /\ ProcessInv /\ TypeOK
  BY NextInv, ServerInvEq DEF StayInv, ProcessInv
<1>2. \A i \in DOMAIN queue' : queue'[i].kind # "leave"
  <2>1. queue' \in Seq(Tasks)
    BY <1>1 DEF ServerInv, TypeOK
  <2> QED BY <2>1 DEF Tasks
<1>3. TableChips = account /\ SeatsShow /\ account \in Nat
  BY <1>1 DEF StayInv, TableBacked, TypeOK
<1>4. CASE UNCHANGED <<money, snapshot>>
  <2>1. SeatsShow' /\ TableBacked'
    BY <1>3, <1>4 DEF money, SeatsShow, TableBacked, TableChips, Stacks
  <2> QED BY <1>1, <1>2, <2>1 DEF StayInv
<1>5. CASE HandMoves
  <2>1. ChipsHeld' = ChipsHeld /\ account' = account /\ SeatsShow'
    BY <1>1, <1>3, <1>5, HandMovesChips
  <2>2. ChipsHeld = TableChips
    BY <1>1, <1>3, HoldingsType DEF ChipsHeld, TableChips
  <2>3. ChipsHeld' = TableChips'
    <3>1. /\ snapshot'.players \subseteq Users
          /\ \A u \in snapshot'.players : seat'[u] = snapshot'.chips[u] /\ seat'[u] # NoSeat
      BY <1>1, <2>1 DEF ServerInv, TypeOK, Hands, HandRecords, NoHand, SeatsShow, NoSeat
    <3>2. Holdings' = Stacks'
      BY <3>1 DEF Holdings, Stacks
    <3> QED BY <3>2 DEF ChipsHeld, TableChips
  <2> QED BY <1>1, <1>2, <1>3, <2>1, <2>2, <2>3 DEF StayInv, TableBacked
<1>6. CASE SeatMoves
  <2>1. JoinClaim
    <3>1. ~LeaveRelease
      <4>1. queue # <<>> => 1 \in DOMAIN queue
        BY <1>1 DEF TypeOK
      <4> QED BY <4>1 DEF LeaveRelease, Running, StayInv
    <3> QED BY <1>6, <3>1 DEF SeatMoves
  <2>2. SeatsShow'
    <3>1. snapshot' = snapshot /\ \A u \in Users : seat[u] # NoSeat => seat'[u] = seat[u]
      BY <1>1, <2>1 DEF JoinClaim, records, money, TypeOK
    <3>2. \A u \in snapshot.players : u \in Users /\ seat[u] # NoSeat
      BY <1>1, <1>3 DEF SeatsShow, TypeOK, Hands, HandRecords, NoHand, NoSeat
    <3> QED BY <1>3, <3>1, <3>2 DEF SeatsShow
  <2>3. TableChips' = account'
    <3>1. TableChips' - TableChips = account' - account
      BY <1>1, <1>6, SeatIsPaid
    <3>2. TableChips' \in Int /\ account' \in Int
      <4>1. Total(Stacks') \in Nat
        <5>1. Stacks' \in [Users -> Nat]
          BY <1>1 DEF ServerInv, TypeOK, Stacks, NoSeat
        <5>2. PICK f \in [Users -> Nat] : f = Stacks'
          BY <5>1
        <5> QED BY <5>2, ServerAssumption, SumNatural DEF Total
      <4>2. snapshot'.pot \in Nat /\ account' \in Nat
        BY <1>1 DEF ServerInv, TypeOK, Hands, HandRecords, NoHand
      <4> QED BY <4>1, <4>2 DEF TableChips, Total
    <3> QED BY <1>3, <3>1, <3>2
  <2> QED BY <1>1, <1>2, <2>2, <2>3 DEF StayInv, TableBacked
<1> QED BY <1>1, <1>4, <1>5, <1>6, MoneyStep

LEMMA StayInit == Init => StayInv
<1> SUFFICES ASSUME Init PROVE StayInv
  OBVIOUS
<1>1. ServerInv /\ TypeOK
  BY InitInv DEF ServerInv
<1>2. SeatsShow /\ \A i \in DOMAIN queue : queue[i].kind # "leave"
  BY DEF Init, SeatsShow, NoHand
<1>3. TableChips = 0
  <2>1. Stacks = [u \in Users |-> 0]
    BY DEF Init, Stacks
  <2>2. Total(Stacks) = 0
    BY <2>1, ServerAssumption, SumZero DEF Total
  <2> QED BY <2>2 DEF Init, TableChips, Total, NoHand
<1> QED BY <1>1, <1>2, <1>3 DEF StayInv, TableBacked, Init

\* "Total table chips equal completed buy-ins minus completed cash-outs for that
\* table": at a table that nobody leaves the account holds what lies on it, and
\* a leave is what can make seats and hand disagree (leaveTable, startNextHand).
THEOREM TablesAreBacked == ASSUME Leavers = {} PROVE Spec => []TableBacked
<1>1. StayInv /\ [Next]_vars => StayInv'
  <2>1. CASE UNCHANGED vars
    <3>1. UNCHANGED <<snapshot, seat, account, queue>>
      BY <2>1 DEF vars, money, records
    <3>2. StayInv => ServerInv'
      BY <2>1, NextInv DEF StayInv
    <3> QED BY <3>1, <3>2 DEF StayInv, SeatsShow, TableBacked, TableChips, Stacks
  <2> QED BY <2>1, StayStep
<1>2. StayInv => TableBacked
  BY DEF StayInv
<1> QED BY <1>1, <1>2, StayInit, PTL DEF Spec
===============================================================================
