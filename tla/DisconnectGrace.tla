--------------------------- MODULE DisconnectGrace ---------------------------
(***************************************************************************)
(* Who is connected to a room, and the grace periods of those who are not: *)
(* scheduleDisconnectGrace, armDisconnectGrace and armRecoveredGrace of    *)
(* game.gateway.ts over the DisconnectGrace rows.  A user may have several *)
(* sockets in the room (two tabs, or one that the server has not yet found *)
(* dead), and each that drops starts a grace period for the user.          *)
(***************************************************************************)
EXTENDS Naturals

CONSTANTS
  Users,
  Droppers,     \* bound: the users whose sockets are counted, and may drop
  MaxSockets,   \* bound: sockets of one user in the room
  MaxDrops      \* bound: sockets that drop

VARIABLES
  sockets,      \* the sockets of each dropper that have joined the room
  dropping,     \* users whose grace row is being written
  graces,       \* the users who have a row
  graceTimers,  \* <<user, kind>>: one that "checks" for a reconnect, one that "plays"
  arming,       \* a snapshot request has found a row of the actor, and arms next
  drops

graceVars == <<sockets, dropping, graces, graceTimers, arming, drops>>

GraceInit ==
  /\ sockets = [u \in Droppers |-> 0]
  /\ dropping = {}
  /\ graces = {}
  /\ graceTimers = {}
  /\ arming = FALSE
  /\ drops = 0

\* clearTimeout of the timer that disconnectTimers names: of two, the one that
\* was set after the await of its row.  (That a timer which has played also
\* deletes the name of a later one is left out: it spares a timer, no more.)
Cleared(u, timers) ==
  timers \ {IF <<u, "checks">> \in timers THEN <<u, "checks">> ELSE <<u, "plays">>}

\* armDisconnectGrace: the timer that does not ask who is connected.
Armed(u, timers) == Cleared(u, timers) \cup {<<u, "plays">>}

\* armRecoveredGrace, within the lock.
ArmedFor(hand, rows, timers) ==
  IF hand.live /\ hand.actor \in rows THEN Armed(hand.actor, timers) ELSE timers

\* A join: one more socket of the user, or one that was in the room; its
\* grace is over.
Welcomes(u) ==
  /\ IF u \in Droppers
     THEN \E n \in {sockets[u], sockets[u] + 1} \cap (1..MaxSockets) :
            sockets' = [sockets EXCEPT ![u] = n]
     ELSE UNCHANGED sockets
  /\ graces' = graces \ {u}

\* The socket that left the table is taken out of the room.
Departs(u) ==
  sockets' = [w \in Droppers |-> IF w = u /\ sockets[w] > 0 THEN sockets[w] - 1 ELSE sockets[w]]

\* handleDisconnect, up to the await of its row.
Disconnects(u) ==
  /\ u \in Droppers \ dropping
  /\ sockets[u] > 0
  /\ drops < MaxDrops
  /\ drops' = drops + 1
  /\ sockets' = [sockets EXCEPT ![u] = @ - 1]
  /\ graceTimers' = Cleared(u, graceTimers)
  /\ dropping' = dropping \cup {u}
  /\ UNCHANGED <<graces, arming>>

\* The row is written, whoever has joined meanwhile, and its timer is set.
GraceSet(u) ==
  /\ u \in dropping
  /\ dropping' = dropping \ {u}
  /\ graces' = graces \cup {u}
  /\ graceTimers' = graceTimers \cup {<<u, "checks">>}
  /\ UNCHANGED <<sockets, arming, drops>>

\* A timer fires.  The row stays, also if its user turns out to be connected.
GraceFires(u, kind) ==
  /\ <<u, kind>> \in graceTimers
  /\ graceTimers' = graceTimers \ {<<u, kind>>}
  /\ UNCHANGED <<sockets, dropping, graces, arming, drops>>

\* What the deadline of a row may be found to be: if it has no timer, past or
\* not; with a timer, still to come.
ExpiredGrace(u) ==
  IF u \in graces /\ {<<u, "checks">>, <<u, "plays">>} \cap graceTimers = {}
  THEN BOOLEAN ELSE {FALSE}

\* Whether it goes on to play for its user.
Plays(u, kind) == kind = "checks" => sockets[u] = 0

\* An automatic action ends the grace of the player it was made for.
Excuses(u) ==
  /\ graces' = graces \ {u}
  /\ UNCHANGED <<sockets, dropping, graceTimers, arming, drops>>

\* armRecoveredGrace of a snapshot request, without the lock: it looks for a row
\* of the actor, and arms a timer for the actor there is once it is found.
\* Bound: of one request at a time.
Finds(hand) ==
  /\ arming' = (arming \/ (hand.live /\ hand.actor \in graces))
  /\ UNCHANGED <<sockets, dropping, graces, graceTimers, drops>>

Arms(hand) ==
  /\ arming
  /\ arming' = FALSE
  /\ graceTimers' = IF hand.live THEN Armed(hand.actor, graceTimers) ELSE graceTimers
  /\ UNCHANGED <<sockets, dropping, graces, drops>>

\* A process starts again without sockets; the rows are still there.
GraceReboots(hand) ==
  /\ sockets' = [u \in Droppers |-> 0]
  /\ dropping' = {}
  /\ graceTimers' = ArmedFor(hand, graces, {})
  /\ arming' = FALSE
  /\ UNCHANGED <<graces, drops>>
=============================================================================
