---------------------------- MODULE ManagedSocket ----------------------------
(***************************************************************************)
(* The browser end of one socket (packages/ws): the connection, the queue  *)
(* of operations that wait for a reconnect, the loop that flushes it, and  *)
(* the requests of the page, each tried at most Attempts times with the    *)
(* same payload (emitAck of the web client).  A request is sent at once    *)
(* while the socket is up, also past the ones that wait in the queue.      *)
(*                                                                         *)
(* socket.io itself is external: it rejects every request that is not yet  *)
(* answered when the connection drops, delivers what one connection sends  *)
(* in order, and gives up reconnecting after a number of attempts.  What a *)
(* lost connection had sent may still reach the server.                    *)
(***************************************************************************)
EXTENDS Naturals, Sequences

CONSTANTS Calls,       \* the places in the page that may await an answer
          NoCall,
          Attempts,    \* of emitAck
          MaxQueued,   \* maxQueuedOperations
          MaxDrops,    \* bound: connections lost
          MaxTimeouts  \* bound: requests given up while the socket is up

VARIABLES link,     \* "up", "down" (reconnecting), "failed" (given up), "closed"
          queue,    \* calls whose operation waits for a connection
          flushing, \* the call that flushQueue awaits, or NoCall
          calls,    \* each call: what it awaits, and with how many tries left
          wire,     \* requests on their way to the server
          inbox,    \* what the server has sent, in the order of the connection
          drops, timeouts

socketVars == <<link, queue, flushing, calls, wire, inbox, drops, timeouts>>

NoReq == [kind |-> "none", id |-> 0, seen |-> 0]
Idle == [at |-> "idle", req |-> NoReq, tries |-> 0]

\* Only operations that carry an id of their own ask to be queued.
Queueable == {"action", "leave"}

\* A snapshot changes nothing: it is of no interest once nobody awaits it.
Harmless == {"snapshot"}

SocketInit ==
  /\ link = "down"
  /\ queue = <<>>
  /\ flushing = NoCall
  /\ calls = [c \in Calls |-> Idle]
  /\ wire = {}
  /\ inbox = <<>>
  /\ drops = 0
  /\ timeouts = 0

-----------------------------------------------------------------------------
(* What becomes of a request: ManagedSocket.emitAck under the retries of   *)
(* emitAck.  Without a connection a request that may not wait fails, and   *)
(* so does its second attempt, at once.                                    *)

Fate(req) ==
  IF link = "up" THEN "sent"
  ELSE IF req.kind \in Queueable /\ Len(queue) < MaxQueued THEN "queued"
  ELSE "failed"

Puts(c, req, tries) ==
  /\ calls' = [calls EXCEPT ![c] = [at |-> "sent", req |-> req, tries |-> tries]]
  /\ wire' = wire \cup {[from |-> c, req |-> req, tries |-> tries, live |-> TRUE]}

Sends(c, req, tries) ==
  IF Fate(req) = "sent" THEN Puts(c, req, tries) /\ UNCHANGED queue
  ELSE /\ calls' = [calls EXCEPT ![c] = [at |-> Fate(req), req |-> req, tries |-> tries]]
       /\ queue' = IF Fate(req) = "queued" THEN Append(queue, c) ELSE queue
       /\ UNCHANGED wire

Issue(c, req) == Sends(c, req, Attempts)

Returns(c) == calls' = [calls EXCEPT ![c] = Idle]

\* One attempt is rejected: the next one, or the rejection reaches the page.
Rejected(c) ==
  IF calls[c].tries > 1 THEN Sends(c, calls[c].req, calls[c].tries - 1)
  ELSE /\ calls' = [calls EXCEPT ![c].at = "failed"]
       /\ UNCHANGED <<queue, wire>>

Awaited(c, req, tries) == calls[c] = [at |-> "sent", req |-> req, tries |-> tries]

\* The page handles a rejection before anything else reaches it.
Settled == \A c \in Calls : calls[c].at # "failed"

-----------------------------------------------------------------------------
(* The queue *)

Flushable == link = "up" /\ flushing = NoCall /\ queue # <<>> /\ Settled

FlushSends ==
  /\ Flushable
  /\ LET c == Head(queue) IN
       /\ Puts(c, calls[c].req, calls[c].tries)
       /\ flushing' = c
  /\ queue' = Tail(queue)
  /\ UNCHANGED <<link, inbox, drops, timeouts>>

\* Its time to live is over, which is found out only here.
FlushExpires ==
  /\ Flushable
  /\ LET c == Head(queue) IN
       IF calls[c].tries > 1 THEN Puts(c, calls[c].req, calls[c].tries - 1)
       ELSE /\ calls' = [calls EXCEPT ![c].at = "failed"]
            /\ UNCHANGED wire
  /\ queue' = Tail(queue)
  /\ UNCHANGED <<link, flushing, inbox, drops, timeouts>>

Resumed(c) == flushing' = IF flushing = c THEN NoCall ELSE flushing

TimesOut(c) ==
  /\ link = "up" /\ Settled
  /\ calls[c].at = "sent"
  /\ timeouts < MaxTimeouts
  /\ timeouts' = timeouts + 1
  /\ Rejected(c)
  /\ Resumed(c)
  /\ UNCHANGED <<link, inbox, drops>>

-----------------------------------------------------------------------------
(* The connection *)

Connects ==
  /\ link = "down" /\ Settled
  /\ link' = "up"

\* reconnect_failed: nothing will be flushed any more, nor expire.
GivesUp ==
  /\ link = "down" /\ Settled
  /\ link' = "failed"
  /\ UNCHANGED <<queue, flushing, calls, wire, inbox, drops, timeouts>>

\* What a call that awaits an answer comes to when the connection drops.
Requeued(c) ==
  /\ calls[c].at = "sent" /\ calls[c].tries > 1
  /\ calls[c].req.kind \in Queueable
  /\ Len(queue) < MaxQueued

Cut(c) ==
  IF calls[c].at # "sent" THEN calls[c]
  ELSE IF Requeued(c) THEN [calls[c] EXCEPT !.at = "queued", !.tries = @ - 1]
  ELSE [calls[c] EXCEPT !.at = "failed"]

\* The requests on the wire whose sender no longer hears of them.
Orphans == {[m EXCEPT !.live = FALSE] : m \in {n \in wire : n.req.kind \notin Harmless}}

Drops(c) ==
  /\ link = "up" /\ Settled
  /\ drops < MaxDrops
  /\ drops' = drops + 1
  /\ link' = "down"
  /\ IF c = NoCall THEN \A d \in Calls : ~Requeued(d) ELSE Requeued(c)
  /\ queue' = IF c = NoCall THEN queue ELSE Append(queue, c)
  /\ calls' = [d \in Calls |-> Cut(d)]
  /\ wire' = Orphans
  /\ inbox' = <<>>
  /\ flushing' = NoCall
  /\ UNCHANGED timeouts

\* disconnect(): whoever waits is rejected, but its page is gone.
Closes ==
  /\ link' = "closed"
  /\ queue' = <<>>
  /\ flushing' = NoCall
  /\ calls' = [c \in Calls |-> Idle]
  /\ wire' = Orphans
  /\ inbox' = <<>>
=============================================================================
