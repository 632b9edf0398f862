------------------------------ MODULE TableServer ------------------------------
(***************************************************************************)
(* One room of the table server: the Socket.IO handlers and timers of      *)
(* apps/poker-api/src/game/game.gateway.ts, the runtime cache and per-room *)
(* lock of table-runtime.ts, recovery.service.ts, and the transactions of  *)
(* packages/db/src/game-server.ts they run.                                *)
(*                                                                         *)
(* A step ends where a handler awaits after a state change.  Handlers      *)
(* under the room lock wait in its promise chain, so the head of `queue'   *)
(* is the one that runs; snapshot requests, timers and the first           *)
(* statements of table:leave run outside the lock.  The hand itself is     *)
(* what the server sees of it: who plays, who is to act, the chips, and    *)
(* whether it is over.  The rules are those of module Betting.             *)
(***************************************************************************)
EXTENDS DisconnectGrace, Integers, Sequences, FiniteSets, Functions

CONSTANTS
  BuyIn, MinBuyIn,
  Nobody,       \* no user: the actor of no live hand, the sender of a timer's task
  Leavers,      \* the users who ask to leave the table
  UnlockedReads,  \* whether a table:snapshot may find the cache empty and recover
  MaxHands,     \* bound: hands dealt
  MaxVersion,   \* bound: version of a hand from which it must end
  MaxRequests,  \* bound: requests sent by clients
  MaxCrashes, MaxFailures   \* bounds: restarts, and database commits that fail

ASSUME ServerAssumption ==
  /\ {BuyIn, MinBuyIn, MaxHands, MaxVersion, MaxRequests} \subseteq Nat \ {0}
  /\ MinBuyIn <= BuyIn
  /\ IsFiniteSet(Users) /\ Leavers \subseteq Users /\ Nobody \notin Users
  /\ UnlockedReads \in BOOLEAN
  /\ {MaxCrashes, MaxFailures, MaxDrops, MaxSockets} \subseteq Nat /\ Droppers \subseteq Users

VARIABLES
  \* durable
  seat,         \* Seat rows: the stack of a seated user, or NoSeat
  account,      \* balance of the ledger account table:<room>
  snapshot,     \* latest GameSnapshot: the hand as last committed, or NoHand
  events,       \* HandEvent rows of every hand, in sequence order
  operations,   \* TableOperation rows: the actionIds already committed
  draining,     \* Room.status = DRAINING
  \* of the process
  cache,        \* TableRuntimeStore: the runtime's state, or NoHand
  actionTimer,  \* the timer of the cached runtime, or NoTimer
  orphans,      \* action timers of runtimes no longer in the cache
  nextTimer,    \* nextHandTimers: the completed hand to follow, or 0
  queue,        \* handlers holding (the head) or waiting for the room lock
  leaving,      \* leave requests between clearing nextTimer and the lock
  reader,       \* a table:snapshot request recovering without the lock
  \* bounds
  sent, crashes, failures

money    == <<seat, account>>
records  == <<snapshot, events, operations>>
timers   == <<actionTimer, orphans, nextTimer>>
requests == <<leaving, reader>>
faults   == <<crashes, failures>>
bounds   == <<sent, faults>>
vars == <<money, records, draining, cache, timers, queue, requests, bounds, graceVars>>

NoSeat  == -1
NoTimer == [hand |-> 0, version |-> 0]
NoHand  == [hand |-> 0, version |-> 0, live |-> FALSE, players |-> {},
            chips |-> [u \in Users |-> 0], pot |-> 0, actor |-> Nobody]
NoReader == [step |-> "none", state |-> NoHand]

------------------------------------------------------------------------------
(***************************************************************************)
(* The engine as the server uses it.                                       *)
(***************************************************************************)

\* startHand, advanceHand: somebody posts a blind, somebody is first to act.
Posters(players, chips) == {p \in players : chips[p] > 0}
Dealt(hand, players, chips) ==
  {[hand |-> hand, version |-> 0, live |-> TRUE, players |-> players,
    chips |-> [chips EXCEPT ![b] = @ - 1], pot |-> 1, actor |-> a] :
     a \in players, b \in Posters(players, chips)}

Bets == {0, 1}

\* applyCommandResult then settleIfComplete: the actor commits chips, and the
\* action passes on (version + 1), perhaps to the same player on the next
\* street, or the hand is settled (version + 2) and its actor of no more use.
Passed(h, bet) ==
  {[h EXCEPT !.version = @ + 1, !.chips[h.actor] = @ - bet, !.pot = @ + bet, !.actor = a] :
     a \in h.players}
Finished(h, bet) ==
  {[h EXCEPT !.version = @ + 2, !.live = FALSE, !.pot = 0, !.actor = Nobody,
             !.chips = [u \in Users |-> @[u] - (IF u = h.actor THEN bet ELSE 0)
                                             + (IF u = w THEN h.pot + bet ELSE 0)]] :
     w \in h.players}
Outcomes(h, bets) ==
  UNION {(IF h.version < MaxVersion THEN Passed(h, bet) ELSE {}) \cup Finished(h, bet) :
           bet \in {b \in bets : b <= h.chips[h.actor]}}

\* What scheduleNextHand and startNextHand ask of a completed hand.
NextHandDue(h) ==
  /\ ~h.live
  /\ Cardinality(h.players) >= 2
  /\ \A u \in h.players : h.chips[u] >= MinBuyIn

------------------------------------------------------------------------------
(***************************************************************************)
(* Durable state                                                           *)
(***************************************************************************)
ActionId(user, hand, version) == <<"action", user, hand, version>>
\* Bound: a user leaves once, every further request is a retry of the first.
LeaveId(user) == <<"leave", user>>
TimeoutId(hand, version) == <<"timeout", hand, version>>

Seated == {u \in Users : seat[u] # NoSeat}

\* findTableOperation: the operation of an id was committed.
Operated(id) == id \in operations

\* loadHandEventsAfter, from the first: a hand's events in their order.
HandEvents(hand) == events[hand]

\* setRoomDraining: the room serves no more until somebody looks into it.
DrainsRoom == draining' = TRUE

\* The rows a commit or a new hand updates: only those of users still seated.
SeatsAfter(h) ==
  [u \in Users |-> IF u \in h.players /\ seat[u] # NoSeat THEN h.chips[u] ELSE seat[u]]

\* hasPairedSettlement: of the events of a version, the last alone is a settlement.
PairedSettlement(chain, version) ==
  LET same == {i \in DOMAIN chain : chain[i].version = version}
  IN  \E last \in same :
        /\ same # {last}
        /\ \A i \in same : i <= last /\ (chain[i].settled <=> i = last)

\* recoverResult: the checks on the chain of a hand's events.  Two versions may
\* pass in one step only with a settlement, and the last is the snapshot's.
ChainValid(chain) ==
  \A i \in DOMAIN chain :
    LET prior == IF i = 1 THEN 0 ELSE chain[i - 1].version
    IN  /\ chain[i].version >= prior
        /\ chain[i].version - prior <= 2
        /\ chain[i].version - prior = 2 => PairedSettlement(chain, chain[i].version)
Recoverable(state, chain) ==
  /\ ChainValid(chain)
  /\ chain # <<>> => chain[Len(chain)].version = state.version

\* mutant: the settlement is not written as an event of its own.
CommitWithoutSettlement(id, h) ==
  /\ operations' = operations \cup {id}
  /\ snapshot' = h
  /\ events' = [events EXCEPT ![h.hand] = Append(@, [version |-> h.version, settled |-> FALSE])]
  /\ seat' = SeatsAfter(h)
  /\ UNCHANGED account

\* commitDurableAction, once the expected version is checked.
CommitAction(id, h) ==
  /\ operations' = operations \cup {id}
  /\ snapshot' = h
  /\ events' = [events EXCEPT ![h.hand] =
                  @ \o (IF h.live
                        THEN <<[version |-> h.version, settled |-> FALSE]>>
                        ELSE <<[version |-> h.version, settled |-> FALSE],
                               [version |-> h.version, settled |-> TRUE]>>)]
  /\ seat' = SeatsAfter(h)
  /\ UNCHANGED account

\* mutant: the blinds are not taken from the seats.
CreateHandOnly(h) == snapshot' = h /\ UNCHANGED <<seat, account, events, operations>>

\* createDurableHand: no version is checked.
CreateHand(h) ==
  /\ snapshot' = h
  /\ seat' = SeatsAfter(h)
  /\ UNCHANGED <<account, events, operations>>

------------------------------------------------------------------------------
(***************************************************************************)
(* The lock: a handler is appended on arrival and dropped when it returns. *)
(* Its `step' says what it has done: "start" nothing, "cleared" dropped    *)
(* the cached runtime, "claimed" a seat, "dealt" or "committed" the latest *)
(* snapshot.  What a handler recovers and computes without a change of     *)
(* state is part of the transaction that follows: only the holder of the   *)
(* lock commits, so what it reads is still current.  `detached' says its   *)
(* runtime object is no longer the cached one.                             *)
(***************************************************************************)
Task(kind, user, hand, version) ==
  [kind |-> kind, user |-> user, hand |-> hand, version |-> version,
   step |-> "start", detached |-> FALSE]

\* A client's request, within the bound.
Send == sent < MaxRequests /\ sent' = sent + 1

Running(kind, step) == queue # <<>> /\ queue[1].kind = kind /\ queue[1].step = step
task == queue[1]
Return == queue' = Tail(queue)
Continue(step) == queue' = [queue EXCEPT ![1].step = step]

\* recover under the lock: the cached runtime, or the latest snapshot, which
\* by DurableRecoverable is never refused.
Recovered == IF cache # NoHand THEN cache ELSE snapshot
SetCache(h) ==
  /\ cache' = h
  /\ orphans' = IF actionTimer = NoTimer THEN orphans ELSE orphans \cup {actionTimer}

\* mutant: the runtime does not take the state that was committed.
CacheKept == cache

\* The cached state once a handler assigns what it committed to its runtime.
CacheAfter == IF task.detached THEN cache ELSE snapshot

\* mutant: a runtime with a timer keeps it.
TimerOnce(h, timer) ==
  IF h.live /\ timer = NoTimer THEN [hand |-> h.hand, version |-> h.version] ELSE timer

\* scheduleTimeout for the runtime now cached; complete hands get no timer.
TimerFor(h, timer) ==
  IF h.live THEN [hand |-> h.hand, version |-> h.version] ELSE timer

------------------------------------------------------------------------------
(***************************************************************************)
(* table:join.  A seated user joins again to reconnect.                    *)
(***************************************************************************)
RequestJoin(u) ==
  /\ Send
  /\ queue' = Append(queue, Task("join", u, 0, 0))
  /\ UNCHANGED <<money, records, draining, cache, timers, requests, faults, graceVars>>

\* mutant: a reconnecting player pays again.
BuyInAgain == BuyIn

\* A seated user keeps the seat and pays nothing.
BuyInDue == IF task.user \in Seated THEN 0 ELSE BuyIn

\* claimTableSeat: the buy-in and the seat in one transaction.
JoinClaim ==
  /\ Running("join", "start")
  /\ IF draining THEN Return /\ UNCHANGED <<money, cache>>
     ELSE /\ Continue("claimed")
          /\ cache' = Recovered
          /\ seat' = [seat EXCEPT ![task.user] = IF @ = NoSeat THEN BuyIn ELSE @]
          /\ account' = account + BuyInDue
  /\ UNCHANGED <<records, draining, timers, requests, bounds, graceVars>>

\* The first hand of the room, once two are seated.
FirstHandDue == snapshot = NoHand /\ Cardinality(Seated) >= 2

JoinDeal ==
  /\ Running("join", "claimed")
  /\ FirstHandDue
  /\ \E h \in Dealt(1, Seated, [u \in Users |-> IF u \in Seated THEN seat[u] ELSE 0]) :
       CreateHand(h)
  /\ Welcomes(task.user)
  /\ graceTimers' = Cleared(task.user, graceTimers)
  /\ Continue("dealt")
  /\ UNCHANGED <<draining, cache, timers, requests, bounds, dropping, arming, drops>>

JoinDealt ==
  /\ Running("join", "dealt")
  /\ SetCache(snapshot)
  /\ actionTimer' = TimerFor(snapshot, NoTimer)
  /\ graceTimers' = ArmedFor(snapshot, graces, graceTimers)
  /\ Return
  /\ UNCHANGED <<money, records, draining, nextTimer, requests, bounds, sockets, graces, dropping, arming, drops>>

\* A join to a hand in play arms its timers again.
JoinRearms ==
  /\ Running("join", "claimed")
  /\ ~FirstHandDue
  /\ actionTimer' = TimerFor(cache, actionTimer)
  /\ Welcomes(task.user)
  /\ graceTimers' = ArmedFor(cache, graces', Cleared(task.user, graceTimers))
  /\ Return
  /\ UNCHANGED <<money, records, draining, cache, orphans, nextTimer, requests, bounds, dropping, arming, drops>>

------------------------------------------------------------------------------
(***************************************************************************)
(* table:action, and performAutomaticAction: for an action timer ("auto"), *)
(* which names its turn; for a grace timer ("grace"), which names its      *)
(* user; and for the next actor whose grace is found expired ("pounce").   *)
(* A client sends one action per version it has seen, under one actionId,  *)
(* as often as it likes.                                                   *)
(***************************************************************************)
RequestAction(u) ==
  /\ Send
  /\ snapshot.live
  /\ \E seenVersion \in 0..snapshot.version :
       queue' = Append(queue, Task("action", u, snapshot.hand, seenVersion))
  /\ UNCHANGED <<money, records, draining, cache, timers, requests, faults, graceVars>>

Acting(step) == \E kind \in {"action", "auto", "grace", "pounce"} : Running(kind, step)
ByClient == task.kind = "action"
TaskId ==
  IF ByClient THEN ActionId(task.user, task.hand, task.version)
  ELSE TimeoutId(Recovered.hand, Recovered.version)

\* What is asked before the runtime is recovered, and of the runtime.
Allowed == ByClient => ~Operated(TaskId) /\ ~draining /\ task.user \in Seated

\* mutant: a timeout takes whatever turn it finds.
ExpectedAnyTurn(h) ==
  /\ h.live
  /\ task.kind \in {"action", "auto"} => h.hand = task.hand
  /\ ByClient => h.version = task.version
  /\ task.kind # "auto" => h.actor = task.user
  /\ ~ByClient => ~Operated(TaskId) /\ ~draining

Expected(h) ==
  /\ h.live
  /\ task.kind \in {"action", "auto"} => h.hand = task.hand /\ h.version = task.version
  /\ task.kind # "auto" => h.actor = task.user
  /\ ~ByClient => ~Operated(TaskId) /\ ~draining

ActionRefused ==
  /\ Acting("start")
  /\ ~(Allowed /\ Expected(Recovered))
  /\ cache' = IF Allowed THEN Recovered ELSE cache
  /\ Return
  /\ UNCHANGED <<money, records, draining, timers, requests, bounds, graceVars>>

Computed == Acting("start") /\ Allowed /\ Expected(Recovered)

\* An automatic action checks or folds: it commits no chips.
Results == Outcomes(Recovered, IF ByClient THEN Bets ELSE {0})

\* mutant: the transaction does not check the expected version.
VersionIgnored == snapshot.hand = Recovered.hand

VersionCurrent == snapshot.hand = Recovered.hand /\ snapshot.version = Recovered.version

\* The handler remembers whom it acts for.
ActionCommitted ==
  /\ Computed
  /\ VersionCurrent
  /\ cache' = Recovered
  /\ \E h \in Results : CommitAction(TaskId, h)
  /\ queue' = [queue EXCEPT ![1].step = "committed", ![1].user = Recovered.actor]
  /\ UNCHANGED <<draining, timers, requests, bounds, graceVars>>

\* The transaction throws, before or after it took effect.  An automatic action
\* that fails drains the room, unless nobody catches its failure.
CommitThrows ==
  /\ task.kind # "pounce"
  /\ Return
  /\ draining' = (draining \/ ~ByClient)

CommitStale ==
  /\ Computed
  /\ ~VersionCurrent
  /\ cache' = Recovered
  /\ CommitThrows
  /\ UNCHANGED <<money, records, timers, requests, bounds, graceVars>>

\* mutant: the runtime takes the result before the transaction has succeeded.
CommitFailsCached ==
  /\ Computed
  /\ VersionCurrent
  /\ failures < MaxFailures
  /\ failures' = failures + 1
  /\ \E h \in Results : cache' = h
  /\ CommitThrows
  /\ UNCHANGED <<money, records, timers, requests, sent, crashes, graceVars>>

CommitFails ==
  /\ Computed
  /\ VersionCurrent
  /\ failures < MaxFailures
  /\ failures' = failures + 1
  /\ cache' = Recovered
  /\ \/ \E h \in Results : CommitAction(TaskId, h)
     \/ UNCHANGED <<money, records>>
  /\ CommitThrows
  /\ UNCHANGED <<timers, requests, sent, crashes, graceVars>>

\* A new process, which knows what is durable: a hand in progress is recovered
\* and its timers armed, nothing is done for a completed one.
Reboots(recovered) ==
  /\ cache' = recovered
  /\ actionTimer' = TimerFor(recovered, NoTimer)
  /\ orphans' = {}
  /\ nextTimer' = 0
  /\ queue' = <<>>
  /\ leaving' = {}
  /\ reader' = NoReader
  /\ GraceReboots(recovered)

\* The action of an expired grace is started without a catch: its failure is an
\* unhandled rejection, and the process ends.
PounceFails ==
  /\ Computed
  /\ task.kind = "pounce"
  /\ \/ ~VersionCurrent /\ UNCHANGED <<money, records, failures>>
     \/ /\ VersionCurrent
        /\ failures < MaxFailures
        /\ failures' = failures + 1
        /\ \/ \E h \in Results : CommitAction(TaskId, h)
           \/ UNCHANGED <<money, records>>
  /\ Reboots(IF snapshot'.live THEN snapshot' ELSE NoHand)
  /\ UNCHANGED <<draining, sent, crashes>>

\* After the commit: the runtime takes the new state and the timers follow it.
\* An automatic action ends the grace of its player; after a client's, the next
\* actor is played for at once if its grace has expired.
ActionFinished ==
  /\ Acting("committed")
  /\ cache' = CacheAfter
  /\ nextTimer' = IF NextHandDue(snapshot) THEN snapshot.hand ELSE 0
  /\ actionTimer' = IF snapshot.live THEN TimerFor(CacheAfter, actionTimer) ELSE actionTimer
  /\ IF ByClient
     THEN /\ \E expired \in ExpiredGrace(snapshot.actor) :
               queue' = Tail(queue) \o
                 (IF expired THEN <<Task("pounce", snapshot.actor, 0, 0)>> ELSE <<>>)
          /\ UNCHANGED graceVars
     ELSE Return /\ Excuses(task.user)
  /\ UNCHANGED <<money, records, draining, orphans, requests, bounds>>

------------------------------------------------------------------------------
(***************************************************************************)
(* startNextHand, when the timer of a completed hand fires.                *)
(***************************************************************************)
NextDeal ==
  /\ Running("next", "start")
  /\ cache' = Recovered
  /\ IF Recovered.hand = task.hand /\ NextHandDue(Recovered) /\ task.hand < MaxHands
     THEN /\ \E h \in Dealt(task.hand + 1, Recovered.players, Recovered.chips) : CreateHand(h)
          /\ Continue("dealt")
     ELSE Return /\ UNCHANGED <<money, records>>
  /\ UNCHANGED <<draining, timers, requests, bounds, graceVars>>

NextDealt ==
  /\ Running("next", "dealt")
  /\ cache' = CacheAfter
  /\ actionTimer' = TimerFor(CacheAfter, actionTimer)
  /\ Return
  /\ UNCHANGED <<money, records, draining, orphans, nextTimer, requests, bounds, graceVars>>

------------------------------------------------------------------------------
(***************************************************************************)
(* table:leave.  The timer of the next hand is cleared before the lock.    *)
(***************************************************************************)
RequestLeave(u) ==
  /\ Send
  /\ u \in Leavers \ leaving
  /\ leaving' = leaving \cup {u}
  /\ nextTimer' = 0
  /\ UNCHANGED <<money, records, draining, cache, actionTimer, orphans, queue, reader, faults, graceVars>>

LeaveQueued(u) ==
  /\ u \in leaving
  /\ leaving' = leaving \ {u}
  /\ queue' = IF Operated(LeaveId(u)) THEN queue ELSE Append(queue, Task("leave", u, 0, 0))
  /\ UNCHANGED <<money, records, draining, cache, timers, reader, bounds, graceVars>>

\* runtimes.clear: the cached runtime and its action timer are dropped.
ClearsRuntime == cache' = NoHand /\ actionTimer' = NoTimer

LeaveClear ==
  /\ Running("leave", "start")
  /\ IF Operated(LeaveId(task.user))
     THEN Return /\ UNCHANGED <<cache, actionTimer>>
     ELSE Continue("cleared") /\ ClearsRuntime
  /\ UNCHANGED <<money, records, draining, orphans, nextTimer, requests, bounds, graceVars>>

\* mutant: a leave does not look at the hand.
MayLeaveInHand == task.user \in Seated /\ seat[task.user] <= account

MayLeave == ~snapshot.live /\ task.user \in Seated /\ seat[task.user] <= account

\* releaseTableSeat: cash-out, operation and seat in one transaction, refused
\* when the table account does not hold the stack.
LeaveRelease ==
  /\ Running("leave", "cleared")
  /\ SetCache(snapshot)
  /\ actionTimer' = NoTimer
  /\ IF MayLeave
     THEN /\ account' = account - seat[task.user]
          /\ seat' = [seat EXCEPT ![task.user] = NoSeat]
          /\ operations' = operations \cup {LeaveId(task.user)}
          /\ Departs(task.user)
     ELSE UNCHANGED <<money, operations, sockets>>
  /\ Return
  /\ UNCHANGED <<snapshot, events, draining, nextTimer, requests, bounds,
                 dropping, graces, graceTimers, arming, drops>>

------------------------------------------------------------------------------
(***************************************************************************)
(* table:snapshot, which recovers without the lock: its two reads and the  *)
(* assignment of the cache may each fall between steps of a handler.       *)
(***************************************************************************)
SnapshotCached ==
  /\ Send
  /\ ~draining /\ cache.live
  /\ actionTimer' = TimerFor(cache, actionTimer)
  /\ Finds(cache)
  /\ UNCHANGED <<money, records, draining, cache, orphans, nextTimer, queue, requests, faults>>

\* loadLatestTableSnapshot, which may be an old one by the time of the next read.
LoadsSnapshot == reader' = [step |-> "events", state |-> snapshot]

SnapshotStart ==
  /\ UnlockedReads /\ Send
  /\ ~draining /\ cache = NoHand /\ snapshot # NoHand
  /\ reader = NoReader
  /\ LoadsSnapshot
  /\ UNCHANGED <<money, records, draining, cache, timers, queue, leaving, faults, graceVars>>

SnapshotEvents ==
  /\ reader.step = "events"
  /\ IF Recoverable(reader.state, HandEvents(reader.state.hand))
     THEN reader' = [reader EXCEPT !.step = "set"] /\ UNCHANGED draining
     ELSE reader' = NoReader /\ DrainsRoom
  /\ UNCHANGED <<money, records, cache, timers, queue, leaving, bounds, graceVars>>

\* The handler that runs keeps the runtime it had recovered.
SnapshotSet ==
  /\ reader.step = "set"
  /\ SetCache(reader.state)
  /\ actionTimer' = TimerFor(reader.state, NoTimer)
  /\ queue' = IF queue # <<>> /\ task.step # "start"
              THEN [queue EXCEPT ![1].detached = TRUE] ELSE queue
  /\ reader' = NoReader
  /\ Finds(reader.state)
  /\ UNCHANGED <<money, records, draining, nextTimer, leaving, bounds>>

------------------------------------------------------------------------------
(***************************************************************************)
(* Timers and restarts.                                                    *)
(***************************************************************************)

\* performAutomaticAction, from its timer to the lock.  Bound: it waits until no
\* other for the same turn is in the queue, which would only find it done.
Expire(timer) ==
  LET auto == Task("auto", Nobody, timer.hand, timer.version)
  IN  /\ \A i \in DOMAIN queue :
           <<queue[i].kind, queue[i].hand, queue[i].version>> # <<"auto", auto.hand, auto.version>>
      /\ queue' = Append(queue, auto)

FireActionTimer ==
  /\ actionTimer # NoTimer
  /\ actionTimer' = NoTimer
  /\ Expire(actionTimer)
  /\ UNCHANGED <<money, records, draining, cache, orphans, nextTimer, requests, bounds, graceVars>>

FireOrphan ==
  \E timer \in orphans :
    /\ orphans' = orphans \ {timer}
    /\ Expire(timer)
    /\ UNCHANGED <<money, records, draining, cache, actionTimer, nextTimer, requests, bounds, graceVars>>

FireNextTimer ==
  /\ nextTimer # 0
  /\ nextTimer' = 0
  /\ queue' = Append(queue, Task("next", Nobody, nextTimer, 0))
  /\ UNCHANGED <<money, records, draining, cache, actionTimer, orphans, requests, bounds, graceVars>>

\* Bounds: a socket that drops is one of the requests, and does so before a
\* restart, after which the players are only coming back.
Disconnect(u) ==
  /\ Send /\ crashes = 0
  /\ Disconnects(u)
  /\ UNCHANGED <<money, records, draining, cache, timers, queue, requests, faults>>

\* The sockets, rows and timers of module DisconnectGrace: they wait for no lock.
GraceTimerSet(u) ==
  /\ GraceSet(u)
  /\ UNCHANGED <<money, records, draining, cache, timers, queue, requests, bounds>>

\* performAutomaticAction for a user, from its timer to the lock.  Bound: it
\* waits until no other of the same user is in the queue.
FireGraceTimer(u, kind) ==
  /\ GraceFires(u, kind)
  /\ \A i \in DOMAIN queue : <<queue[i].kind, queue[i].user>> # <<"grace", u>>
  /\ queue' = IF Plays(u, kind) THEN Append(queue, Task("grace", u, 0, 0)) ELSE queue
  /\ UNCHANGED <<money, records, draining, cache, timers, requests, bounds>>

SnapshotArms ==
  /\ Arms(cache)
  /\ UNCHANGED <<money, records, draining, cache, timers, queue, requests, bounds>>

\* A crash, and onApplicationBootstrap.
Restart ==
  /\ crashes < MaxCrashes
  /\ crashes' = crashes + 1
  /\ Reboots(IF snapshot.live /\ ~draining THEN snapshot ELSE NoHand)
  /\ UNCHANGED <<money, records, draining, sent, failures>>

------------------------------------------------------------------------------
Init ==
  /\ seat = [u \in Users |-> NoSeat]
  /\ account = 0
  /\ snapshot = NoHand
  /\ events = [h \in 1..MaxHands |-> <<>>]
  /\ operations = {}
  /\ draining = FALSE
  /\ cache = NoHand
  /\ actionTimer = NoTimer
  /\ orphans = {}
  /\ nextTimer = 0
  /\ queue = <<>>
  /\ leaving = {}
  /\ reader = NoReader
  /\ GraceInit
  /\ sent = 0
  /\ crashes = 0
  /\ failures = 0

Client ==
  \/ \E u \in Users : RequestJoin(u) \/ RequestAction(u) \/ RequestLeave(u)
  \/ SnapshotCached
  \/ SnapshotStart

Handler ==
  \/ JoinClaim \/ JoinDeal \/ JoinDealt \/ JoinRearms
  \/ ActionRefused \/ ActionCommitted \/ CommitStale \/ CommitFails \/ PounceFails \/ ActionFinished
  \/ NextDeal \/ NextDealt
  \/ LeaveClear \/ LeaveRelease

Reader == SnapshotEvents \/ SnapshotSet

Next ==
  \/ Client \/ Handler \/ Reader
  \/ \E u \in Users : LeaveQueued(u)
  \/ FireActionTimer \/ FireOrphan \/ FireNextTimer
  \/ \E u \in Users :
       \/ Disconnect(u) \/ GraceTimerSet(u)
       \/ \E kind \in {"checks", "plays"} : FireGraceTimer(u, kind)
  \/ SnapshotArms
  \/ Restart

\* The event loop runs the handlers and timers; clients owe nothing.
Fairness ==
  /\ WF_vars(Handler)
  /\ WF_vars(Reader)
  /\ WF_vars(FireActionTimer)
  /\ WF_vars(FireOrphan)
  /\ WF_vars(FireNextTimer)
Spec == Init /\ [][Next]_vars /\ Fairness

------------------------------------------------------------------------------
(***************************************************************************)
(* Properties                                                              *)
(***************************************************************************)
\* Of these operations, the actions and timeouts of a hand.
ActedOn(ids, hand) ==
  {id \in ids : \E v \in 0..MaxVersion :
     id = TimeoutId(hand, v) \/ \E u \in Users : id = ActionId(u, hand, v)}

\* "An action is applied at most once by actionId": the version of the latest
\* hand counts its operations, whatever retries, stale caches, timeouts and
\* restarts lie between a commit and its answer.
AppliedOnce ==
  snapshot # NoHand =>
    Cardinality(ActedOn(operations, snapshot.hand))
      = snapshot.version - (IF snapshot.live THEN 0 ELSE 1)

\* The state a restart would find passes recoverResult's checks: no crash
\* between two steps makes the server drain its own room.
DurableRecoverable ==
  snapshot # NoHand => Recoverable(snapshot, HandEvents(snapshot.hand))

\* What the process shows its clients is never ahead of what a crash leaves.
CacheNotAhead ==
  cache # NoHand =>
    \/ cache.hand < snapshot.hand
    \/ cache.hand = snapshot.hand /\ cache.version < snapshot.version
    \/ cache = snapshot

\* Even over a stale cache the durable history is a legal one: the latest
\* snapshot only gives way to an outcome of itself or to the next deal of its
\* own result.
LegalHistory ==
  [][ \/ snapshot' = snapshot
      \/ snapshot.live /\ snapshot' \in Outcomes(snapshot, Bets)
      \/ /\ ~snapshot.live
         /\ snapshot'.hand = snapshot.hand + 1
         /\ \/ snapshot = NoHand
            \/ snapshot' \in Dealt(snapshot.hand + 1, snapshot.players, snapshot.chips)
    ]_vars

\* Nobody is cashed out of a hand in play.
NoCashOutInHand ==
  [][ \/ seat' = seat
      \/ ~snapshot.live
      \/ \A u \in snapshot.players : seat[u] # NoSeat => seat'[u] # NoSeat ]_vars

\* Chips on the table: the stacks of the seats and the pot of the hand in play.
Stacks == [u \in Users |-> IF seat[u] = NoSeat THEN 0 ELSE seat[u]]
TableChips == SumFunctionOnSet(Stacks, Users) + snapshot.pot

\* What is held at the table: by the players of the hand what its snapshot says,
\* by the others what their seats say. Once a player of the latest hand has left,
\* that is more than TableChips.
Holdings == [u \in Users |-> IF u \in snapshot.players THEN snapshot.chips[u] ELSE Stacks[u]]
ChipsHeld == SumFunctionOnSet(Holdings, Users) + snapshot.pot
SeatsWritten == \A u \in snapshot.players : seat[u] \in {NoSeat, snapshot.chips[u]}

\* Joins and leaves bring to the table, or take from it, what the ledger books;
\* a deal or a turn books nothing, moves chips among the holders and the pot and
\* writes them to the seats that are there, whoever has left in the meantime.
StepsBacked ==
  [][ \/ UNCHANGED <<money, snapshot>>
      \/ snapshot' = snapshot /\ TableChips' - TableChips = account' - account
      \/ snapshot' # snapshot /\ account' = account /\ ChipsHeld' = ChipsHeld /\ SeatsWritten' ]_vars

\* "Total table chips equal completed buy-ins minus completed cash-outs for
\* that table" (poker-webapp-design.md, section 7).
TableBacked == TableChips = account

\* "If reconstruction validation fails, the table enters draining": a table
\* whose durable state is valid, and whose database never failed, is served on.
ValidRoomServed == failures = 0 => ~draining

\* "Does not let an expired non-actor grace act for the connected actor": the
\* server takes up to play, by a grace, only for a player who had a socket drop.
PlayedFor ==
  {u \in Users : \E i \in DOMAIN queue :
     queue[i].user = u /\ queue[i].kind \in {"grace", "pounce"} /\ queue[i].step = "start"}
GraceOnlyForDropped == PlayedFor \subseteq Droppers

\* "When their turn expires, the server auto-checks if legal and otherwise
\* auto-folds": no turn of a served table lasts for ever, or its hand, which has
\* MaxVersion + 1 turns at most, would.
TurnsExpire == snapshot.live ~> (draining \/ ~snapshot.live)
===============================================================================
