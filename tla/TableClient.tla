----------------------------- MODULE TableClient -----------------------------
(***************************************************************************)
(* One player's page of a table (table-client.tsx) over its socket, with   *)
(* what the server promises it: an operation is applied once under its id, *)
(* an action only at the version it was decided on, and a change is told   *)
(* to the room before the operation that made it is answered.              *)
(*                                                                         *)
(* The page tells the player what became of each click, and offers a retry *)
(* of the one it has no answer for.  The table is one version counter: the *)
(* hand is over at version MaxVersion, and any other player, or the timer, *)
(* may act at any time before.                                             *)
(***************************************************************************)
EXTENDS ManagedSocket, FiniteSets

CONSTANTS MaxVersion,  \* bound: changes of the table
          MaxClicks    \* bound: actions and leaves of the player

Versions == 1..MaxVersion

\* executeAction and executeLeave share one state (pending); restoreJoin
\* and each refresh by a notice await on their own.
Op == <<"op", 0>>
Join == <<"join", 0>>
Refresh(v) == <<"refresh", v>>
PageCalls == {Op, Join} \cup {Refresh(v) : v \in Versions}

ASSUME TableClientAssumption ==
  /\ Calls = PageCalls
  /\ NoCall \notin Calls
  /\ MaxVersion \in Nat \ {0} /\ MaxClicks \in Nat /\ Attempts \in Nat \ {0}

Snapshot == [kind |-> "snapshot", id |-> 0, seen |-> 0]
JoinReq == [kind |-> "join", id |-> 0, seen |-> 0]
Clicks == 1..MaxClicks

VARIABLES
  \* the server
  log,      \* who changed the table: a click, or 0 for anybody else
  leaves,   \* the leaves it has carried out
  seated,   \* the player has a seat, paid for
  inRoom,   \* the current connection is told of changes
  \* the page
  open,     \* FALSE once the player is back in the lobby
  details,  \* joinDetailsRef: the player has asked for a seat
  joined,
  view,     \* the version shown, 0 before the first snapshot
  pending,  \* the operation whose button spins, or NoReq
  retry,    \* the operation offered for a retry, or NoReq
  shown,    \* the page says it is connected
  clicks,   \* what was on the screen at each click so far
  told      \* what the player was told of each click

serverVars == <<log, leaves, seated, inRoom>>
pageVars == <<open, details, joined, view, pending, retry, shown, clicks, told>>
vars == <<socketVars, serverVars, pageVars>>

Version == Len(log) + 1

Init ==
  /\ SocketInit
  /\ log = <<>> /\ leaves = {} /\ seated = FALSE /\ inRoom = FALSE
  /\ open = TRUE /\ details = FALSE /\ joined = FALSE /\ view = 0
  /\ pending = NoReq /\ retry = NoReq /\ shown = FALSE
  /\ clicks = <<>> /\ told = [k \in Clicks |-> "nothing"]

-----------------------------------------------------------------------------
(* The server *)

Notice(v) == [to |-> NoCall, req |-> NoReq, tries |-> 0, says |-> "changed", version |-> v]
Told(v) == IF inRoom THEN <<Notice(v)>> ELSE <<>>
Answers(m, says) ==
  IF ~m.live THEN <<>>
  ELSE <<[to |-> m.from, req |-> m.req, tries |-> m.tries, says |-> says, version |-> Version']>>

OthersAct ==
  /\ open
  /\ Version < MaxVersion
  /\ log' = Append(log, 0)
  /\ inbox' = inbox \o Told(Version')
  /\ UNCHANGED <<link, queue, flushing, calls, wire, drops, timeouts,
                 leaves, seated, inRoom, pageVars>>

ReplayedNever(m) == FALSE

Replayed(m) == \E i \in 1..Len(log) : log[i] = m.req.id

\* What the gateway says of an action: a known id is answered as before.
Verdict(m) ==
  IF Replayed(m) THEN "ok"
  ELSE IF ~seated THEN "refused"
  ELSE IF m.req.seen # Version THEN "stale"
  ELSE "ok"

ServesAction(m) ==
  /\ m.req.kind = "action"
  /\ LET applies == Verdict(m) = "ok" /\ ~Replayed(m) IN
       /\ log' = IF applies THEN Append(log, m.req.id) ELSE log
       /\ inbox' = inbox \o (IF applies THEN Told(Version') ELSE <<>>)
                         \o Answers(m, Verdict(m))
  /\ UNCHANGED <<leaves, seated, inRoom>>

\* A player without a seat is told that the leave is done, which it is.
ServesLeave(m) ==
  /\ m.req.kind = "leave"
  /\ LET leaving == m.req.id \notin leaves /\ seated
         refused == m.req.id \notin leaves /\ Version < MaxVersion
     IN /\ leaves' = IF leaving /\ ~refused THEN leaves \cup {m.req.id} ELSE leaves
        /\ seated' = (seated /\ ~(leaving /\ ~refused))
        /\ inRoom' = (inRoom /\ ~(leaving /\ ~refused /\ m.live))
        /\ UNCHANGED log
        /\ inbox' = inbox \o Answers(m, IF refused THEN "refused" ELSE "ok")

\* Whoever has no seat buys one; the connection is told of changes from now.
ServesJoin(m) ==
  /\ m.req.kind = "join"
  /\ seated' = TRUE
  /\ inRoom' = (inRoom \/ m.live)
  /\ UNCHANGED <<log, leaves>>
  /\ inbox' = inbox \o Answers(m, "ok")

ServesSnapshot(m) ==
  /\ m.req.kind = "snapshot"
  /\ UNCHANGED serverVars
  /\ inbox' = inbox \o Answers(m, "ok")

Serves(m) ==
  /\ m \in wire
  /\ wire' = wire \ {m}
  /\ ServesAction(m) \/ ServesLeave(m) \/ ServesJoin(m) \/ ServesSnapshot(m)
  /\ UNCHANGED <<link, queue, flushing, calls, drops, timeouts, pageVars>>

\* What a lost connection had sent never arrives.
Loses(m) ==
  /\ m \in wire /\ ~m.live
  /\ wire' = wire \ {m}
  /\ UNCHANGED <<link, queue, flushing, calls, inbox, drops, timeouts, serverVars, pageVars>>

-----------------------------------------------------------------------------
(* The player *)

Idles == open /\ pending = NoReq /\ Settled

Operates(req) ==
  /\ pending' = req
  /\ Issue(Op, req)
  /\ UNCHANGED <<link, flushing, inbox, drops, timeouts, serverVars,
                 open, details, joined, view, retry, shown>>

\* The form, whose button is enabled only while the page says "connected".
SubmitsJoin ==
  /\ Idles /\ ~joined /\ shown /\ calls[Join].at = "idle"
  /\ details' = TRUE
  /\ pending' = JoinReq
  /\ Issue(Join, JoinReq)
  /\ UNCHANGED <<link, flushing, inbox, drops, timeouts, serverVars,
                 open, joined, view, retry, shown, clicks, told>>

Clicked(kind) == [kind |-> kind, id |-> Len(clicks) + 1, seen |-> view]

\* A move while the hand shown is on, a leave once it is over.
Offered == IF view < MaxVersion THEN "action" ELSE "leave"

ClicksOffered ==
  /\ Idles /\ joined /\ Len(clicks) < MaxClicks
  /\ clicks' = Append(clicks, view)
  /\ UNCHANGED told
  /\ Operates(Clicked(Offered))

RetryRebased(req) == [req EXCEPT !.seen = view]

\* The same payload again, whatever the page shows by now.
RetryPayload(req) == req

RetriesOperation ==
  /\ Idles /\ retry # NoReq
  /\ UNCHANGED <<clicks, told>>
  /\ Operates(RetryPayload(retry))

-----------------------------------------------------------------------------
(* What reaches the page *)

RestoresShown ==
  /\ Connects
  /\ shown' = TRUE
  /\ UNCHANGED <<calls, wire, queue, flushing, inbox, drops, timeouts, serverVars,
                 open, details, joined, view, pending, retry, clicks, told>>

\* The connection is back: the page joins again by itself.
Restores ==
  /\ Connects
  /\ IF details THEN shown' = FALSE /\ Puts(Join, JoinReq, Attempts)
     ELSE shown' = TRUE /\ UNCHANGED <<calls, wire>>
  /\ UNCHANGED <<queue, flushing, inbox, drops, timeouts, serverVars,
                 open, details, joined, view, pending, retry, clicks, told>>

LinkDrops ==
  /\ \E c \in Calls \cup {NoCall} : Drops(c)
  /\ inRoom' = FALSE
  /\ shown' = FALSE
  /\ UNCHANGED <<log, leaves, seated, open, details, joined, view, pending, retry, clicks, told>>

OpFailsSpinning ==
  /\ calls[Op].at = "failed"
  /\ Returns(Op)
  /\ retry' = pending
  /\ UNCHANGED <<pending, shown>>

\* A refresh that fails is offered as a retry of the operation it followed,
\* though that one was answered.
OpFails ==
  /\ calls[Op].at = "failed"
  /\ Returns(Op)
  /\ retry' = pending
  /\ pending' = NoReq
  /\ UNCHANGED shown

JoinFails ==
  /\ calls[Join].at = "failed"
  /\ Returns(Join)
  /\ IF pending = JoinReq THEN pending' = NoReq /\ UNCHANGED shown
     ELSE shown' = FALSE /\ UNCHANGED pending
  /\ UNCHANGED retry

RefreshFails ==
  /\ \E v \in Versions : calls[Refresh(v)].at = "failed" /\ Returns(Refresh(v))
  /\ UNCHANGED <<pending, retry, shown>>

Fails ==
  /\ OpFails \/ JoinFails \/ RefreshFails
  /\ UNCHANGED <<link, queue, flushing, wire, inbox, drops, timeouts, serverVars,
                 open, details, joined, view, clicks, told>>

-----------------------------------------------------------------------------
(* Answers and notices, in the order of the connection *)

\* An answer nobody waits for any more is dropped by socket.io.
Ignores(a) ==
  /\ a.to \in Calls /\ ~Awaited(a.to, a.req, a.tries)
  /\ UNCHANGED <<calls, wire, queue, flushing, link, pageVars>>

OnNotice(a) ==
  /\ a.to = NoCall
  /\ Issue(Refresh(a.version), Snapshot)
  /\ UNCHANGED <<flushing, link, pageVars>>

OnSnapshot(a) ==
  /\ calls[a.to].req.kind = "snapshot"
  /\ view' = a.version
  /\ pending' = IF a.to = Op THEN NoReq ELSE pending
  /\ Returns(a.to)
  /\ UNCHANGED <<wire, queue, link, open, details, joined, retry, shown, clicks, told>>

OnJoined(a) ==
  /\ calls[a.to].req.kind = "join"
  /\ joined' = TRUE /\ view' = a.version /\ shown' = TRUE
  /\ pending' = IF pending = JoinReq THEN NoReq ELSE pending
  /\ Returns(a.to)
  /\ UNCHANGED <<wire, queue, link, open, details, retry, clicks, told>>

Tells(a) ==
  /\ told' = [told EXCEPT ![pending.id] = a.says]
  /\ retry' = NoReq

\* The page awaits a snapshot before the button stops spinning.
OnActed(a) ==
  /\ calls[a.to].req.kind = "action"
  /\ Tells(a)
  /\ IF a.says = "refused" THEN Returns(Op) /\ pending' = NoReq /\ UNCHANGED <<wire, queue>>
     ELSE Issue(Op, Snapshot) /\ UNCHANGED pending
  /\ UNCHANGED <<link, open, details, joined, view, shown, clicks>>

\* Back to the lobby: the page goes, and its socket with it.
OnLeft(a) ==
  /\ calls[a.to].req.kind = "leave"
  /\ Tells(a)
  /\ pending' = NoReq
  /\ IF a.says = "ok" THEN open' = FALSE ELSE UNCHANGED open
  /\ Returns(Op)
  /\ UNCHANGED <<wire, queue, link, details, joined, view, shown, clicks>>

Receives ==
  /\ inbox # <<>> /\ Settled /\ open
  /\ inbox' = Tail(inbox)
  /\ LET a == Head(inbox) IN
       \/ Ignores(a)
       \/ OnNotice(a)
       \/ /\ a.to \in Calls /\ Awaited(a.to, a.req, a.tries)
          /\ Resumed(a.to)
          /\ OnSnapshot(a) \/ OnJoined(a) \/ OnActed(a) \/ OnLeft(a)
  /\ UNCHANGED <<drops, timeouts, serverVars>>

Unmounts ==
  /\ ~open /\ link # "closed"
  /\ Closes
  /\ inRoom' = FALSE
  /\ UNCHANGED <<drops, timeouts, log, leaves, seated, pageVars>>

\* The steps of the socket that the page does not see.
SocketWorks ==
  /\ open
  /\ FlushSends \/ FlushExpires \/ GivesUp \/ \E c \in Calls : TimesOut(c)
  /\ UNCHANGED <<serverVars, pageVars>>

ServerWorks == \E m \in wire : Serves(m) \/ Loses(m)

PlayerActs == SubmitsJoin \/ ClicksOffered \/ RetriesOperation

Next ==
  \/ OthersAct \/ ServerWorks \/ PlayerActs
  \/ (open /\ (Restores \/ LinkDrops \/ Fails)) \/ Receives \/ Unmounts \/ SocketWorks

\* The browser and the server go on with what is under way; neither the
\* player, nor the loss of a connection or an answer, has to happen.
Fairness ==
  /\ WF_vars(Receives) /\ WF_vars(open /\ Fails) /\ WF_vars(Unmounts)
  /\ WF_vars(open /\ Restores)
  /\ WF_vars(open /\ FlushSends /\ UNCHANGED <<serverVars, pageVars>>)
  /\ WF_vars(\E m \in wire : m.live /\ Serves(m))

Spec == Init /\ [][Next]_vars /\ Fairness

-----------------------------------------------------------------------------
(* Properties *)

\* What a click did, if anything.
Happened(k) == k \in leaves \/ \E i \in 1..Len(log) : log[i] = k

\* The player is never told something else than what happened: a click
\* reported done was carried out, one reported refused or stale never is,
\* not even later by an attempt that was thought lost.
ToldTheTruth ==
  \A k \in Clicks :
    /\ told[k] = "ok" => Happened(k) \/ (clicks[k] = MaxVersion /\ leaves # {})
    /\ told[k] \in {"stale", "refused"} => ~Happened(k)

\* An action, at whatever attempt or retry it arrives, is applied once, and
\* to the very table the player was looking at when deciding on it.
AppliedAsSeen ==
  \A i \in 1..Len(log) : log[i] # 0 =>
    /\ clicks[log[i]] = i
    /\ \A j \in 1..Len(log) : log[j] = log[i] => j = i

\* No button spins for ever, unless socket.io has given up reconnecting.
PendingClears ==
  pending # NoReq ~> (pending = NoReq \/ link \in {"failed", "closed"})

\* The page of a player at the table ends up showing the table as it is,
\* also after changes nobody told it of.
ViewCatchesUp ==
  <>[](~open \/ ~joined \/ link = "failed" \/ view = Version)
=============================================================================
