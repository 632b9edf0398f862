-------------------------- MODULE TableClientProofs --------------------------
(***************************************************************************)
(* For any number of clicks, tries, drops and timeouts: an action is       *)
(* applied once, to the table the player was looking at, and the player is *)
(* told the truth about each click.  The argument: whatever copies of a    *)
(* request there are (under a button, offered for a retry, in the queue,   *)
(* on the wire, orphaned), each carries the id and the version of its      *)
(* click; and what the server answers of a click stays true, because a     *)
(* version that has passed does not come back.                             *)
(***************************************************************************)
EXTENDS TableClient, SequenceTheorems, TLAPS

Reqs == [kind : {"none", "action", "leave", "join", "snapshot"}, id : Nat, seen : Nat]
CallRecords == [at : {"idle", "sent", "queued", "failed"}, req : Reqs, tries : Int]
WireRecords == [from : Calls, req : Reqs, tries : Int, live : BOOLEAN]
Messages == [to : Calls \cup {NoCall}, req : Reqs, tries : Int,
             says : {"changed", "ok", "stale", "refused"}, version : Versions]

Types ==
  /\ calls \in [Calls -> CallRecords] /\ wire \subseteq WireRecords
  /\ queue \in Seq(Calls) /\ inbox \in Seq(Messages)
  /\ log \in Seq(Nat) /\ Version <= MaxVersion
  /\ clicks \in Seq(Nat) /\ Len(clicks) <= MaxClicks
  /\ view \in Nat /\ pending \in Reqs /\ retry \in Reqs
  /\ told \in [Clicks -> {"nothing", "ok", "stale", "refused"}]

\* A request speaks of its click: the id, and the version on the screen, which
\* decided between a move and a leave.
Faithful(req) ==
  req.kind \in Queueable =>
    /\ req.id \in 1..Len(clicks) /\ clicks[req.id] = req.seen
    /\ req.kind = "action" => req.seen < MaxVersion
    /\ req.kind = "leave" => req.seen = MaxVersion

RequestsInv == Faithful(pending) /\ Faithful(retry) /\ \A m \in wire : Faithful(m.req)

\* An action or leave that is awaited is the one whose button spins.
OneOperation ==
  \A c \in Calls : calls[c].req.kind \in Queueable => c = Op /\ calls[c].req = pending

\* Nobody has seen a version that is still to come.
SeenInv == view <= Version /\ \A k \in 1..Len(clicks) : clicks[k] <= Version

LogInv == AppliedAsSeen /\ \A i \in 1..Len(log) : log[i] # 0 => log[i] \in 1..Len(clicks)

\* The player has, or had, a seat: it is lost only by a leave, after the hand.
HadSeat == seated \/ leaves # {}

LeavesInv ==
  /\ \A k \in leaves : k \in 1..Len(clicks) /\ clicks[k] = MaxVersion
  /\ leaves # {} => Version = MaxVersion
  /\ joined \/ clicks # <<>> => HadSeat

\* What may be said of a click, and stays true.
Done(k) == Happened(k) \/ (k \in 1..Len(clicks) /\ clicks[k] = MaxVersion /\ leaves # {})
Never(k) == ~Happened(k) /\ k \in 1..Len(clicks) /\ clicks[k] < Version

TrueAnswer(a) ==
  /\ a.version <= Version
  /\ a.req.kind \in Queueable =>
       /\ a.says \in {"ok", "stale", "refused"}
       /\ IF a.says = "ok" THEN Done(a.req.id) ELSE Never(a.req.id)
  /\ a.req.kind = "join" => HadSeat

AnswersInv == \A n \in 1..Len(inbox) : TrueAnswer(inbox[n])

ToldInv ==
  \A k \in Clicks :
    /\ told[k] = "ok" => Done(k)
    /\ told[k] \in {"stale", "refused"} => Never(k)

World == LogInv /\ LeavesInv /\ SeenInv

ClientInv == Types /\ RequestsInv /\ OneOperation /\ World /\ AnswersInv /\ ToldInv

-----------------------------------------------------------------------------
(* The initial state *)

LEMMA InitInv == Init => ClientInv
<1> SUFFICES ASSUME Init PROVE ClientInv
  OBVIOUS
<1>1. NoReq \in Reqs /\ NoReq.kind = "none" /\ "none" \notin Queueable
  BY DEF NoReq, Reqs, Queueable
<1>2. Idle \in CallRecords /\ Idle.req = NoReq
  BY <1>1 DEF Idle, CallRecords
<1>3. Types
  BY <1>1, <1>2, TableClientAssumption DEF Init, SocketInit, Types, Version
<1>4. RequestsInv /\ OneOperation
  BY <1>1, <1>2 DEF Init, SocketInit, RequestsInv, OneOperation, Faithful
<1>5. World
  BY DEF Init, World, LogInv, LeavesInv, SeenInv, AppliedAsSeen, Version
<1>6. AnswersInv /\ ToldInv
  BY DEF Init, SocketInit, AnswersInv, ToldInv
<1> QED
  BY <1>3, <1>4, <1>5, <1>6 DEF ClientInv

-----------------------------------------------------------------------------
(* Steps of the server *)

LEMMA LogGrows ==
  ASSUME NEW s \in Seq(Nat), NEW x \in Nat
  PROVE  /\ Append(s, x) \in Seq(Nat) /\ Len(Append(s, x)) = Len(s) + 1 /\ Len(s) \in Nat
         /\ Append(s, x)[Len(s) + 1] = x
         /\ \A i \in 1..Len(s) : Append(s, x)[i] = s[i]
OBVIOUS

\* The server changes the table by one, or carries a leave out, and tells: what
\* was said of a click stays true, and the rest of the invariant holds.
LEMMA ServerMoves ==
  ASSUME ClientInv,
         UNCHANGED <<clicks, view, joined, pending, retry, told, calls, queue>>, wire' \subseteq wire,
         \/ log' = log
         \/ \E x \in Nat :
              /\ log' = Append(log, x) /\ Version < MaxVersion
              /\ x # 0 => /\ x \in 1..Len(clicks) /\ clicks[x] = Version
                          /\ \A i \in 1..Len(log) : log[i] # x,
         leaves \subseteq leaves',
         \A k \in leaves' \ leaves : k \in 1..Len(clicks) /\ clicks[k] = MaxVersion,
         leaves' # leaves => log' = log /\ Version = MaxVersion,
         HadSeat => HadSeat',
         inbox' \in Seq(Messages),
         \A n \in 1..Len(inbox') : \A a : a = inbox'[n] =>
           (\E k \in 1..Len(inbox) : a = inbox[k]) \/ TrueAnswer(a)'
  PROVE  ClientInv'
<1>1. /\ log \in Seq(Nat) /\ log' \in Seq(Nat) /\ Len(log) \in Nat /\ Len(log') \in Nat
      /\ Version = Len(log) + 1 /\ Version' = Len(log') + 1 /\ Version <= MaxVersion
      /\ MaxVersion \in Nat
  BY LogGrows, TableClientAssumption DEF ClientInv, Types, Version
<1>2. Version <= Version' /\ Version' <= MaxVersion
  <2>1. CASE log' = log
    BY <1>1, <2>1
  <2>2. CASE log' # log
    <3>1. Len(log') = Len(log) + 1 /\ Version < MaxVersion
      BY <1>1, <2>2, LogGrows
    <3> QED
      BY <1>1, <3>1
  <2> QED
    BY <2>1, <2>2
<1>3. \A i \in 1..Len(log) : i \in 1..Len(log') /\ log'[i] = log[i]
  <2>1. CASE log' = log
    BY <2>1
  <2>2. CASE log' # log
    <3>1. Len(log') = Len(log) + 1 /\ \A i \in 1..Len(log) : log'[i] = log[i]
      <4>1. PICK x \in Nat : log' = Append(log, x)
        BY <2>2
      <4> QED
        BY <1>1, <4>1, LogGrows
    <3> QED
      BY <1>1, <3>1
  <2> QED
    BY <2>1, <2>2
<1>4. \A i \in 1..Len(log') : i \in 1..Len(log) \/ (log' # log /\ i = Version)
  <2>1. CASE log' = log
    BY <2>1
  <2>2. CASE log' # log
    <3>1. Len(log') = Len(log) + 1
      BY <1>1, <2>2, LogGrows
    <3> QED
      BY <1>1, <2>2, <3>1
  <2> QED
    BY <2>1, <2>2
<1>5. /\ clicks \in Seq(Nat) /\ Len(clicks) \in Nat
      /\ \A k \in 1..Len(clicks) : clicks[k] \in Nat /\ clicks[k] <= Version
  BY DEF ClientInv, Types, World, SeenInv
<1>6. Types'
  BY <1>1, <1>2 DEF ClientInv, Types
<1>7. RequestsInv' /\ OneOperation'
  BY DEF ClientInv, RequestsInv, OneOperation, Faithful
<1>8. SeenInv'
  <2>1. view \in Nat /\ view <= Version
    BY DEF ClientInv, Types, World, SeenInv
  <2> QED
    BY <1>1, <1>2, <1>5, <2>1 DEF SeenInv
<1>9. LogInv'
  <2>1. \A i \in 1..Len(log) : log[i] # 0 =>
          /\ log[i] \in 1..Len(clicks) /\ clicks[log[i]] = i
          /\ \A j \in 1..Len(log) : log[j] = log[i] => j = i
    BY DEF ClientInv, World, LogInv, AppliedAsSeen
  <2>2. CASE log' = log
    BY <2>1, <2>2 DEF LogInv, AppliedAsSeen
  <2>3. CASE log' # log
    <3>1. PICK x \in Nat :
            /\ log' = Append(log, x)
            /\ x # 0 => /\ x \in 1..Len(clicks) /\ clicks[x] = Version
                        /\ \A i \in 1..Len(log) : log[i] # x
      BY <2>3
    <3>2. /\ Len(log') = Version /\ log'[Version] = x
          /\ \A i \in 1..Len(log) : log'[i] = log[i]
      BY <1>1, <3>1, LogGrows
    <3>3. ASSUME NEW i \in 1..Len(log'), log'[i] # 0
          PROVE  /\ log'[i] \in 1..Len(clicks) /\ clicks[log'[i]] = i
                 /\ \A j \in 1..Len(log') : log'[j] = log'[i] => j = i
      <4>1. CASE i \in 1..Len(log)
        <5>1. log'[i] = log[i] /\ log[i] # 0
          BY <3>2, <3>3, <4>1
        <5>2. log[i] # x
          BY <3>1, <4>1, <5>1
        <5> QED
          BY <1>4, <2>1, <3>2, <4>1, <5>1, <5>2
      <4>2. CASE i = Version
        <5>1. log'[i] = x /\ x # 0
          BY <3>2, <3>3, <4>2
        <5> QED
          BY <1>4, <3>1, <3>2, <4>2, <5>1
      <4> QED
        BY <1>4, <4>1, <4>2
    <3> QED
      BY <3>3 DEF LogInv, AppliedAsSeen
  <2> QED
    BY <2>2, <2>3
<1>10. LeavesInv'
  <2>1. /\ \A k \in leaves' : k \in 1..Len(clicks) /\ clicks[k] = MaxVersion
        /\ joined \/ clicks # <<>> => HadSeat'
    BY DEF ClientInv, World, LeavesInv
  <2>2. leaves' # {} => Version' = MaxVersion
    <3>1. CASE leaves' # leaves
      BY <1>1, <3>1
    <3>2. CASE leaves' = leaves /\ leaves # {}
      BY <1>1, <1>2, <3>2 DEF ClientInv, World, LeavesInv
    <3> QED
      BY <3>1, <3>2
  <2> QED
    BY <2>1, <2>2 DEF LeavesInv
<1>11. \A k : Happened(k) => Happened(k)'
  BY <1>3 DEF Happened
<1>12. \A k : Done(k) => Done(k)'
  BY <1>11 DEF Done
<1>13. \A k : Never(k) => Never(k)'
  <2> SUFFICES ASSUME NEW k, Never(k) PROVE Never(k)'
    OBVIOUS
  <2>1. ~Happened(k) /\ k \in 1..Len(clicks) /\ clicks[k] < Version /\ k # 0
    BY <1>5 DEF Never
  <2>2. k \notin leaves'
    BY <1>1, <2>1 DEF Happened
  <2>3. ASSUME NEW i \in 1..Len(log'), log'[i] = k PROVE FALSE
    <3>1. i \notin 1..Len(log)
      BY <1>3, <2>1, <2>3 DEF Happened
    <3>2. log' # log /\ i = Version
      BY <1>4, <3>1
    <3>3. clicks[k] = i
      BY <1>9, <2>1, <2>3 DEF LogInv, AppliedAsSeen
    <3> QED
      BY <1>1, <1>5, <2>1, <3>2, <3>3
  <2>4. clicks[k] < Version'
    BY <1>1, <1>2, <1>5, <2>1
  <2> QED
    BY <2>1, <2>2, <2>3, <2>4 DEF Never, Happened
<1>14. AnswersInv'
  <2> SUFFICES ASSUME NEW n \in 1..Len(inbox'), NEW a, a = inbox'[n] PROVE TrueAnswer(a)'
    BY DEF AnswersInv, TrueAnswer, Done, Never, Happened, HadSeat, Version
  <2>1. CASE \E k \in 1..Len(inbox) : a = inbox[k]
    <3>1. TrueAnswer(a) /\ a \in Messages
      BY <2>1 DEF ClientInv, AnswersInv, Types
    <3>2. a.version <= Version'
      BY <1>1, <1>2, <3>1 DEF TrueAnswer, Messages, Versions
    <3> QED
      BY <1>12, <1>13, <3>1, <3>2 DEF TrueAnswer
  <2> QED
    BY <2>1
<1>15. ToldInv'
  BY <1>12, <1>13 DEF ClientInv, ToldInv
<1> QED
  BY <1>6, <1>7, <1>8, <1>9, <1>10, <1>14, <1>15 DEF ClientInv, World

\* Every element of u is one of s, or e.
Adds(u, s, e) == \A n \in 1..Len(u) : \A a : a = u[n] => (\E k \in 1..Len(s) : a = s[k]) \/ a = e

LEMMA Appended ==
  ASSUME NEW S, NEW s \in Seq(S), NEW e \in S, NEW t, t = <<>> \/ t = <<e>>, NEW u, u = s \o t
  PROVE  u \in Seq(S) /\ Adds(u, s, e)
<1>1. CASE t = <<>>
  <2>1. u = s
    BY <1>1, ConcatEmptySeq
  <2> QED
    BY <2>1 DEF Adds
<1>2. CASE t = <<e>>
  <2>1. u = Append(s, e)
    BY <1>2, AppendIsConcat
  <2>2. Append(s, e) \in Seq(S) /\ Len(Append(s, e)) = Len(s) + 1 /\ Len(s) \in Nat
    OBVIOUS
  <2>3. \A n \in 1..Len(s) + 1 : Append(s, e)[n] = IF n <= Len(s) THEN s[n] ELSE e
    OBVIOUS
  <2> QED
    BY <2>1, <2>2, <2>3 DEF Adds
<1> QED
  BY <1>1, <1>2

\* What the inbox holds once the server has told the room and answered.
LEMMA InboxAfter ==
  ASSUME Types, NEW m \in WireRecords, NEW says \in {"ok", "stale", "refused"},
         Version' \in Versions, NEW notices, notices = <<>> \/ notices = Told(Version'),
         inbox' = (inbox \o notices) \o Answers(m, says)
  PROVE  /\ inbox' \in Seq(Messages)
         /\ \A n \in 1..Len(inbox') : \A a : a = inbox'[n] =>
              \/ \E k \in 1..Len(inbox) : a = inbox[k]
              \/ a.req.kind = "none" /\ a.version = Version'
              \/ a.req = m.req /\ a.says = says /\ a.version = Version'
<1> DEFINE note == Notice(Version')
           answer == [to |-> m.from, req |-> m.req, tries |-> m.tries, says |-> says,
                      version |-> Version']
<1>1. note \in Messages /\ note.req.kind = "none" /\ note.version = Version'
  BY DEF Notice, NoReq, Messages, Reqs
<1>2. answer \in Messages /\ answer.req = m.req /\ answer.says = says /\ answer.version = Version'
  BY DEF WireRecords, Messages
<1>3. notices = <<>> \/ notices = <<note>>
  BY DEF Told
<1>4. Answers(m, says) = <<>> \/ Answers(m, says) = <<answer>>
  BY DEF Answers
<1> HIDE DEF note, answer
<1>5. inbox \in Seq(Messages)
  BY DEF Types
<1>6. PICK first : first = inbox \o notices
  OBVIOUS
<1>7. first \in Seq(Messages) /\ Adds(first, inbox, note)
  BY <1>1, <1>3, <1>5, <1>6, Appended
<1>8. inbox' \in Seq(Messages) /\ Adds(inbox', first, answer)
  BY <1>2, <1>4, <1>6, <1>7, Appended
<1>9. ASSUME NEW n \in 1..Len(inbox'), NEW a, a = inbox'[n]
      PROVE  (\E k \in 1..Len(inbox) : a = inbox[k]) \/ a = note \/ a = answer
  BY <1>7, <1>8, <1>9 DEF Adds
<1> QED
  BY <1>1, <1>2, <1>8, <1>9

\* Of a request on the wire, and the version that its click has seen.
LEMMA OnTheWire ==
  ASSUME ClientInv, NEW m \in wire
  PROVE  /\ m \in WireRecords /\ m.req \in Reqs
         /\ Version \in Versions /\ Version \in Nat /\ MaxVersion \in Nat
         /\ m.req.kind \in Queueable =>
              /\ HadSeat /\ m.req.id \in 1..Len(clicks) /\ clicks[m.req.id] = m.req.seen
              /\ m.req.seen \in Nat /\ m.req.seen <= Version
         /\ m.req.kind = "action" => m.req.seen < MaxVersion
         /\ m.req.kind = "leave" => m.req.seen = MaxVersion
<1>1. m \in WireRecords /\ m.req \in Reqs /\ Faithful(m.req)
  BY DEF ClientInv, Types, WireRecords, RequestsInv
<1>2. Version \in Nat /\ Version \in Versions /\ MaxVersion \in Nat
  BY TableClientAssumption DEF ClientInv, Types, Version, Versions
<1>3. m.req.seen \in Nat
  BY <1>1 DEF Reqs
<1>4. ASSUME m.req.kind \in Queueable
      PROVE  /\ HadSeat /\ m.req.id \in 1..Len(clicks) /\ clicks[m.req.id] = m.req.seen
             /\ m.req.seen <= Version
  <2>1. m.req.id \in 1..Len(clicks) /\ clicks[m.req.id] = m.req.seen
    BY <1>1, <1>4 DEF Faithful
  <2>2. clicks # <<>>
    BY <2>1
  <2> QED
    BY <2>1, <2>2 DEF ClientInv, World, LeavesInv, SeenInv
<1>5. "action" \in Queueable /\ "leave" \in Queueable
  BY DEF Queueable
<1> QED
  BY <1>1, <1>2, <1>3, <1>4, <1>5 DEF Faithful

LEMMA ServesActionInv ==
  ASSUME ClientInv, NEW m \in wire, Serves(m), ServesAction(m)
  PROVE  ClientInv'
<1> DEFINE applies == Verdict(m) = "ok" /\ ~Replayed(m)
           id == m.req.id
           notices == IF applies THEN Told(Version') ELSE <<>>
<1>1. /\ m \in WireRecords /\ Version \in Nat /\ Version \in Versions /\ MaxVersion \in Nat
      /\ HadSeat /\ id \in 1..Len(clicks) /\ clicks[id] = m.req.seen /\ id \in Nat /\ id # 0
      /\ m.req.seen \in Nat /\ m.req.seen <= Version /\ m.req.seen < MaxVersion
      /\ m.req.kind = "action" /\ m.req.kind \in Queueable
  <2>1. m.req.kind = "action" /\ m.req.kind \in Queueable
    BY DEF ServesAction, Queueable
  <2>2. \A i \in 1..Len(clicks) : i \in Nat /\ i # 0
    BY DEF ClientInv, Types
  <2> QED
    BY <2>1, <2>2, OnTheWire
<1>2. /\ log' = IF applies THEN Append(log, id) ELSE log
      /\ inbox' = (inbox \o notices) \o Answers(m, Verdict(m))
      /\ UNCHANGED <<leaves, seated>>
      /\ wire' = wire \ {m}
      /\ UNCHANGED <<queue, calls, clicks, view, joined, pending, retry, told>>
  <2>1. /\ log' = IF applies THEN Append(log, id) ELSE log
        /\ inbox' = inbox \o notices \o Answers(m, Verdict(m))
        /\ UNCHANGED <<leaves, seated>>
    BY DEF ServesAction
  <2>2. wire' = wire \ {m} /\ UNCHANGED <<queue, calls, clicks, view, joined, pending, retry, told>>
    BY DEF Serves, pageVars
  <2> HIDE DEF notices, applies
  <2> QED
    BY <2>1, <2>2
<1>3. applies => Version < MaxVersion /\ clicks[id] = Version /\ \A i \in 1..Len(log) : log[i] # id
  BY <1>1 DEF Verdict, Replayed
<1>4. log \in Seq(Nat) /\ Len(log) \in Nat /\ Version = Len(log) + 1
  BY DEF ClientInv, Types, Version
<1>5. Version' \in Versions /\ Version' \in Nat /\ Version <= Version'
  <2>1. CASE applies
    <3>1. Version' = Version + 1
      BY <1>1, <1>2, <1>4, <2>1, LogGrows DEF Version
    <3> QED
      BY <1>1, <1>3, <2>1, <3>1 DEF Versions
  <2>2. CASE ~applies
    <3>1. Version' = Version
      BY <1>2, <2>2 DEF Version
    <3> QED
      BY <1>1, <3>1
  <2> QED
    BY <2>1, <2>2
<1>6. Verdict(m) \in {"ok", "stale", "refused"}
  BY DEF Verdict
<1>7. Verdict(m) = "ok" => Happened(id)'
  <2>1. CASE applies
    <3>1. log'[Len(log) + 1] = id /\ Len(log') = Len(log) + 1
      BY <1>1, <1>2, <1>4, <2>1, LogGrows
    <3> QED
      BY <1>4, <3>1 DEF Happened
  <2>2. CASE ~applies
    <3>1. log' = log
      BY <1>2, <2>2
    <3> QED
      BY <2>2, <3>1 DEF Happened, Replayed
  <2> QED
    BY <2>1, <2>2
<1>8. Verdict(m) # "ok" => Never(id)'
  <2> SUFFICES ASSUME Verdict(m) # "ok" PROVE Never(id)'
    OBVIOUS
  <2>1. log' = log /\ leaves' = leaves /\ clicks' = clicks /\ ~Replayed(m)
    BY <1>2 DEF Verdict
  <2>2. id \notin leaves
    BY <1>1 DEF ClientInv, World, LeavesInv
  <2>3. clicks[id] < Version
    <3>1. CASE Verdict(m) = "stale"
      BY <1>1, <3>1 DEF Verdict
    <3>2. CASE Verdict(m) = "refused"
      <4>1. ~seated
        BY <3>2 DEF Verdict
      <4>2. Version = MaxVersion
        BY <1>1, <4>1 DEF HadSeat, ClientInv, World, LeavesInv
      <4> QED
        BY <1>1, <4>2
    <3> QED
      BY <1>6, <3>1, <3>2
  <2>4. ~Happened(id)
    BY <2>1, <2>2 DEF Happened, Replayed
  <2> QED
    BY <1>1, <2>1, <2>3, <2>4 DEF Never, Happened, Version
<1>9. notices = <<>> \/ notices = Told(Version')
  OBVIOUS
<1>10. /\ inbox' \in Seq(Messages)
       /\ \A n \in 1..Len(inbox') : \A a : a = inbox'[n] =>
            \/ \E k \in 1..Len(inbox) : a = inbox[k]
            \/ a.req.kind = "none" /\ a.version = Version'
            \/ a.req = m.req /\ a.says = Verdict(m) /\ a.version = Version'
  <2> HIDE DEF notices
  <2>1. Types
    BY DEF ClientInv
  <2> QED
    BY <1>1, <1>2, <1>5, <1>6, <1>9, <2>1, InboxAfter
<1>11. "none" \notin Queueable /\ "none" # "join" /\ "action" # "join"
  BY DEF Queueable
<1>12. \A a : a.req.kind = "none" /\ a.version = Version' => TrueAnswer(a)'
  BY <1>5, <1>11 DEF TrueAnswer
<1>13. \A a : a.req = m.req /\ a.says = Verdict(m) /\ a.version = Version' => TrueAnswer(a)'
  BY <1>1, <1>5, <1>6, <1>7, <1>8, <1>11 DEF TrueAnswer, Done
<1>14. \/ log' = log
       \/ \E x \in Nat :
            /\ log' = Append(log, x) /\ Version < MaxVersion
            /\ x # 0 => /\ x \in 1..Len(clicks) /\ clicks[x] = Version
                        /\ \A i \in 1..Len(log) : log[i] # x
  BY <1>1, <1>2, <1>3
<1>15. HadSeat => HadSeat'
  BY <1>2 DEF HadSeat
<1>16. \A n \in 1..Len(inbox') : \A a : a = inbox'[n] =>
         (\E k \in 1..Len(inbox) : a = inbox[k]) \/ TrueAnswer(a)'
  BY <1>10, <1>12, <1>13
<1> HIDE DEF applies, notices, id
<1> QED
  BY <1>2, <1>10, <1>14, <1>15, <1>16, ServerMoves

\* A leave, a join or a snapshot: the table is left as it is.
LEMMA ServesRestInv ==
  ASSUME ClientInv, NEW m \in wire, Serves(m), ServesLeave(m) \/ ServesJoin(m) \/ ServesSnapshot(m)
  PROVE  ClientInv'
<1>1. /\ m \in WireRecords /\ Version \in Nat /\ Version \in Versions /\ MaxVersion \in Nat
      /\ m.req.kind \in Queueable =>
           /\ HadSeat /\ m.req.id \in 1..Len(clicks) /\ clicks[m.req.id] = m.req.seen
           /\ m.req.seen <= Version
      /\ m.req.kind = "leave" => m.req.seen = MaxVersion
      /\ Version <= MaxVersion
  BY OnTheWire DEF ClientInv, Types
<1>2. /\ UNCHANGED <<clicks, view, joined, pending, retry, told, calls, queue>>
      /\ wire' \subseteq wire
  BY DEF Serves, pageVars
<1>3. log' = log /\ Version' = Version
  BY DEF ServesLeave, ServesJoin, ServesSnapshot, serverVars, Version
<1>4. "leave" \in Queueable /\ "join" \notin Queueable /\ "snapshot" \notin Queueable
      /\ "none" \notin Queueable
  BY DEF Queueable
<1>5. ASSUME NEW says \in {"ok", "stale", "refused"}, inbox' = inbox \o Answers(m, says),
             HadSeat => HadSeat',
             m.req.kind \in Queueable => says = "ok" /\ Done(m.req.id)',
             m.req.kind = "join" => HadSeat'
      PROVE  /\ inbox' \in Seq(Messages)
             /\ \A n \in 1..Len(inbox') : \A a : a = inbox'[n] =>
                  (\E k \in 1..Len(inbox) : a = inbox[k]) \/ TrueAnswer(a)'
  <2>1. inbox' = (inbox \o <<>>) \o Answers(m, says)
    BY <1>5, ConcatEmptySeq DEF ClientInv, Types
  <2>2. /\ inbox' \in Seq(Messages)
        /\ \A n \in 1..Len(inbox') : \A a : a = inbox'[n] =>
             \/ \E k \in 1..Len(inbox) : a = inbox[k]
             \/ a.req.kind = "none" /\ a.version = Version'
             \/ a.req = m.req /\ a.says = says /\ a.version = Version'
    BY <1>1, <1>3, <2>1, InboxAfter DEF ClientInv
  <2>3. \A a : a.req.kind = "none" /\ a.version = Version' => TrueAnswer(a)'
    BY <1>1, <1>3, <1>4 DEF TrueAnswer
  <2>4. \A a : a.req = m.req /\ a.says = says /\ a.version = Version' => TrueAnswer(a)'
    BY <1>1, <1>3, <1>5 DEF TrueAnswer
  <2> QED
    BY <2>2, <2>3, <2>4
<1>6. CASE ServesLeave(m)
  <2> DEFINE id == m.req.id
             leaving == id \notin leaves /\ seated
  <2>1. m.req.kind = "leave"
    BY <1>6 DEF ServesLeave
  <2>2. ~(Version < MaxVersion) /\ Version = MaxVersion /\ clicks[id] = MaxVersion /\ HadSeat
        /\ id \in 1..Len(clicks)
    BY <1>1, <1>4, <2>1
  <2>3. /\ leaves' = IF leaving THEN leaves \cup {id} ELSE leaves
        /\ seated' = (seated /\ ~leaving)
        /\ inbox' = inbox \o Answers(m, "ok")
    BY <1>6, <2>2 DEF ServesLeave
  <2>4. leaves \subseteq leaves' /\ \A k \in leaves' \ leaves : k \in 1..Len(clicks) /\ clicks[k] = MaxVersion
    BY <2>2, <2>3
  <2>5. HadSeat => HadSeat'
    BY <2>3 DEF HadSeat
  <2>6. Done(id)'
    <3>1. CASE id \in leaves'
      BY <3>1 DEF Done, Happened
    <3>2. CASE id \notin leaves'
      <4>1. leaves' = leaves /\ leaves # {}
        BY <2>2, <2>3, <3>2 DEF HadSeat
      <4> QED
        BY <1>2, <2>2, <4>1 DEF Done
    <3> QED
      BY <3>1, <3>2
  <2>7. /\ inbox' \in Seq(Messages)
        /\ \A n \in 1..Len(inbox') : \A a : a = inbox'[n] =>
             (\E k \in 1..Len(inbox) : a = inbox[k]) \/ TrueAnswer(a)'
    BY <1>5, <2>1, <2>3, <2>5, <2>6
  <2> HIDE DEF id, leaving
  <2> QED
    BY <1>2, <1>3, <2>2, <2>4, <2>5, <2>7, ServerMoves
<1>7. CASE ServesJoin(m) \/ ServesSnapshot(m)
  <2>1. /\ m.req.kind \notin Queueable /\ leaves' = leaves
        /\ inbox' = inbox \o Answers(m, "ok")
        /\ HadSeat => HadSeat' /\ (m.req.kind = "join" => HadSeat')
    BY <1>4, <1>7 DEF ServesJoin, ServesSnapshot, serverVars, HadSeat
  <2>2. /\ inbox' \in Seq(Messages)
        /\ \A n \in 1..Len(inbox') : \A a : a = inbox'[n] =>
             (\E k \in 1..Len(inbox) : a = inbox[k]) \/ TrueAnswer(a)'
    <3>1. HadSeat => HadSeat'
      BY <1>7 DEF ServesJoin, ServesSnapshot, serverVars, HadSeat
    <3>2. m.req.kind = "join" => HadSeat'
      BY <1>7, <1>4 DEF ServesJoin, ServesSnapshot, HadSeat
    <3> QED
      BY <1>5, <2>1, <3>1, <3>2
  <2>3. HadSeat => HadSeat'
    BY <1>7 DEF ServesJoin, ServesSnapshot, serverVars, HadSeat
  <2> QED
    BY <1>2, <1>3, <2>1, <2>2, <2>3, ServerMoves
<1> QED
  BY <1>6, <1>7

LEMMA ServerWorksInv ==
  ASSUME ClientInv, ServerWorks
  PROVE  ClientInv'
<1>1. ASSUME NEW m \in wire, Serves(m) PROVE ClientInv'
  BY <1>1, ServesActionInv, ServesRestInv DEF Serves
<1>2. ASSUME NEW m \in wire, Loses(m) PROVE ClientInv'
  <2>1. /\ UNCHANGED <<clicks, view, joined, pending, retry, told, calls, queue, inbox, log, leaves, seated>>
        /\ wire' \subseteq wire
    BY <1>2 DEF Loses, serverVars, pageVars
  <2>2. inbox' \in Seq(Messages)
    BY <2>1 DEF ClientInv, Types
  <2>3. \A n \in 1..Len(inbox') : \A a : a = inbox'[n] => \E k \in 1..Len(inbox) : a = inbox[k]
    BY <2>1
  <2>4. HadSeat => HadSeat'
    BY <2>1 DEF HadSeat
  <2> QED
    BY <2>1, <2>2, <2>3, <2>4, ServerMoves
<1> QED
  BY <1>1, <1>2 DEF ServerWorks

LEMMA OthersActInv ==
  ASSUME ClientInv, OthersAct
  PROVE  ClientInv'
<1>1. /\ UNCHANGED <<clicks, view, joined, pending, retry, told, calls, queue, wire, leaves, seated>>
      /\ log' = Append(log, 0) /\ Version < MaxVersion
      /\ inbox' = inbox \o Told(Version')
  BY DEF OthersAct, pageVars
<1>2. log \in Seq(Nat) /\ Version = Len(log) + 1 /\ MaxVersion \in Nat
  BY TableClientAssumption DEF ClientInv, Types, Version
<1>3. Version' \in Versions
  <2>1. Version' = Version + 1 /\ Version \in Nat
    BY <1>1, <1>2, LogGrows DEF Version
  <2> QED
    BY <1>1, <1>2, <2>1 DEF Versions
<1>4. PICK note : note = Notice(Version')
  OBVIOUS
<1>5. note \in Messages /\ note.req.kind = "none" /\ note.version = Version'
  BY <1>3, <1>4 DEF Notice, NoReq, Messages, Reqs
<1>6. Told(Version') = <<>> \/ Told(Version') = <<note>>
  BY <1>4 DEF Told
<1>7. inbox' \in Seq(Messages) /\ Adds(inbox', inbox, note)
  BY <1>1, <1>5, <1>6, Appended DEF ClientInv, Types
<1>8. TrueAnswer(note)'
  <2>1. note.version <= Version'
    BY <1>3, <1>5 DEF Versions
  <2>2. note.req.kind \notin Queueable /\ note.req.kind # "join"
    BY <1>5 DEF Queueable
  <2> QED
    BY <2>1, <2>2 DEF TrueAnswer
<1>9. \A n \in 1..Len(inbox') : \A a : a = inbox'[n] =>
        (\E k \in 1..Len(inbox) : a = inbox[k]) \/ TrueAnswer(a)'
  BY <1>7, <1>8 DEF Adds
<1>10. HadSeat => HadSeat'
  BY <1>1 DEF HadSeat
<1> QED
  BY <1>1, <1>7, <1>9, <1>10, ServerMoves

-----------------------------------------------------------------------------
(* Steps of the page and its socket *)

LEMMA Kinds ==
  /\ NoReq \in Reqs /\ Snapshot \in Reqs /\ JoinReq \in Reqs
  /\ NoReq.kind \notin Queueable /\ Snapshot.kind \notin Queueable /\ JoinReq.kind \notin Queueable
  /\ Faithful(NoReq) /\ Faithful(Snapshot) /\ Faithful(JoinReq)
  /\ Idle \in CallRecords /\ Idle.req = NoReq
  /\ Op \in Calls /\ Join \in Calls /\ Op # Join
BY TableClientAssumption DEF NoReq, Snapshot, JoinReq, Reqs, Queueable, Faithful, Idle, CallRecords,
     PageCalls, Op, Join

LEMMA CallFaithful ==
  ASSUME ClientInv, NEW c \in Calls
  PROVE  calls[c] \in CallRecords /\ calls[c].req \in Reqs /\ calls[c].tries \in Int
         /\ Faithful(calls[c].req)
<1>1. calls[c] \in CallRecords
  BY DEF ClientInv, Types
<1>2. Faithful(calls[c].req)
  <2>1. CASE calls[c].req.kind \in Queueable
    BY <2>1 DEF ClientInv, OneOperation, RequestsInv
  <2>2. CASE calls[c].req.kind \notin Queueable
    BY <2>2 DEF Faithful
  <2> QED
    BY <2>1, <2>2
<1> QED
  BY <1>1, <1>2 DEF CallRecords

\* No step of the page changes the table; it keeps requests that are of a
\* click, shows a version that was, and tells what is so.
LEMMA PageMoves ==
  ASSUME ClientInv, UNCHANGED <<log, leaves, seated, clicks>>,
         calls' \in [Calls -> CallRecords], wire' \subseteq WireRecords, queue' \in Seq(Calls),
         inbox' \in Seq(Messages),
         \A n \in 1..Len(inbox') : \E k \in 1..Len(inbox) : inbox'[n] = inbox[k],
         pending' \in Reqs, retry' \in Reqs, Faithful(pending'), Faithful(retry'),
         \A m \in wire' : Faithful(m.req),
         \A c \in Calls : calls'[c].req.kind \in Queueable => c = Op /\ calls'[c].req = pending',
         view' \in Nat, view' <= Version, joined' => HadSeat,
         told' \in [Clicks -> {"nothing", "ok", "stale", "refused"}],
         \A k \in Clicks : \/ told'[k] = told[k]
                           \/ told'[k] = "ok" /\ Done(k)
                           \/ told'[k] # "ok" /\ Never(k)
  PROVE  ClientInv'
<1>1. /\ Version' = Version
      /\ \A req : Faithful(req)' <=> Faithful(req)
      /\ \A k : (Done(k)' <=> Done(k)) /\ (Never(k)' <=> Never(k))
      /\ \A a : TrueAnswer(a)' <=> TrueAnswer(a)
  BY DEF Version, Faithful, Done, Never, Happened, TrueAnswer, HadSeat
<1>2. Types'
  BY <1>1 DEF ClientInv, Types
<1>3. RequestsInv' /\ OneOperation'
  BY DEF RequestsInv, OneOperation, Faithful
<1>4. World'
  <2>1. LogInv'
    BY DEF ClientInv, World, LogInv, AppliedAsSeen
  <2>2. LeavesInv'
    BY <1>1 DEF ClientInv, World, LeavesInv, HadSeat
  <2>3. SeenInv'
    BY <1>1 DEF ClientInv, World, SeenInv
  <2> QED
    BY <2>1, <2>2, <2>3 DEF World
<1>5. AnswersInv'
  <2>1. ASSUME NEW n \in 1..Len(inbox'), NEW a, a = inbox'[n] PROVE TrueAnswer(a)'
    <3>1. TrueAnswer(a)
      BY <2>1 DEF ClientInv, AnswersInv
    <3> QED
      BY <1>1, <3>1
  <2> QED
    BY <2>1 DEF AnswersInv, TrueAnswer, Done, Never, Happened, HadSeat, Version
<1>6. ToldInv'
  <2>1. ASSUME NEW k \in Clicks, NEW tale, tale = told'[k]
        PROVE  /\ tale = "ok" => Done(k)'
               /\ tale \in {"stale", "refused"} => Never(k)'
    BY <1>1, <2>1 DEF ClientInv, ToldInv
  <2> QED
    BY <2>1 DEF ToldInv
<1> QED
  BY <1>2, <1>3, <1>4, <1>5, <1>6 DEF ClientInv

\* A step of the socket that the page does not see: calls keep their requests.
LEMMA SocketMoves ==
  ASSUME ClientInv,
         UNCHANGED <<log, leaves, seated, clicks, view, joined, pending, retry, told>>,
         calls' \in [Calls -> CallRecords], queue' \in Seq(Calls),
         \A c \in Calls : calls'[c].req = calls[c].req \/ calls'[c].req.kind \notin Queueable,
         wire' \subseteq WireRecords, \A m \in wire' : Faithful(m.req),
         inbox' = inbox \/ inbox' = <<>>
  PROVE  ClientInv'
<1>1. inbox' \in Seq(Messages) /\ \A n \in 1..Len(inbox') : \E k \in 1..Len(inbox) : inbox'[n] = inbox[k]
  <2>1. CASE inbox' = inbox
    BY <2>1 DEF ClientInv, Types
  <2>2. CASE inbox' = <<>>
    BY <2>2
  <2> QED
    BY <2>1, <2>2
<1>2. \A c \in Calls : calls'[c].req.kind \in Queueable => c = Op /\ calls'[c].req = pending'
  BY DEF ClientInv, OneOperation
<1>3. /\ pending' \in Reqs /\ retry' \in Reqs /\ Faithful(pending') /\ Faithful(retry')
      /\ told' \in [Clicks -> {"nothing", "ok", "stale", "refused"}] /\ view' \in Nat
  BY DEF ClientInv, Types, RequestsInv
<1>4. view' <= Version /\ (joined' => HadSeat)
  BY DEF ClientInv, World, SeenInv, LeavesInv
<1>5. \A k \in Clicks : told'[k] = told[k]
  OBVIOUS
<1> QED
  BY <1>1, <1>2, <1>3, <1>4, <1>5, PageMoves

\* What a call becomes of, and what goes on the wire.
LEMMA PutsMeans ==
  ASSUME Types, NEW c \in Calls, NEW req \in Reqs, NEW tries \in Int, Puts(c, req, tries)
  PROVE  /\ calls' \in [Calls -> CallRecords]
         /\ \A d \in Calls : calls'[d].req = IF d = c THEN req ELSE calls[d].req
         /\ wire' \subseteq WireRecords /\ \A m \in wire' : m \in wire \/ m.req = req
<1>1. PICK call : call = [at |-> "sent", req |-> req, tries |-> tries]
  OBVIOUS
<1>2. PICK m : m = [from |-> c, req |-> req, tries |-> tries, live |-> TRUE]
  OBVIOUS
<1>3. call \in CallRecords /\ call.req = req
  BY <1>1 DEF CallRecords
<1>4. m \in WireRecords /\ m.req = req
  BY <1>2 DEF WireRecords
<1>5. calls' = [calls EXCEPT ![c] = call] /\ wire' = wire \cup {m}
  BY <1>1, <1>2 DEF Puts
<1>6. calls \in [Calls -> CallRecords] /\ wire \subseteq WireRecords
  BY DEF Types
<1>7. calls' \in [Calls -> CallRecords]
      /\ \A d \in Calls : calls'[d].req = IF d = c THEN req ELSE calls[d].req
  BY <1>3, <1>5, <1>6
<1> QED
  BY <1>4, <1>5, <1>6, <1>7

LEMMA SendsMeans ==
  ASSUME Types, NEW c \in Calls, NEW req \in Reqs, NEW tries \in Int, Sends(c, req, tries)
  PROVE  /\ calls' \in [Calls -> CallRecords]
         /\ \A d \in Calls : calls'[d].req = IF d = c THEN req ELSE calls[d].req
         /\ wire' \subseteq WireRecords /\ \A m \in wire' : m \in wire \/ m.req = req
         /\ queue' \in Seq(Calls)
<1>1. queue \in Seq(Calls) /\ wire \subseteq WireRecords /\ calls \in [Calls -> CallRecords]
  BY DEF Types
<1>2. CASE Fate(req) = "sent"
  BY <1>1, <1>2, PutsMeans DEF Sends
<1>3. CASE Fate(req) # "sent"
  <2>1. Fate(req) \in {"queued", "failed"}
    BY <1>3 DEF Fate
  <2>2. calls' = [calls EXCEPT ![c] = [at |-> Fate(req), req |-> req, tries |-> tries]] /\ wire' = wire
    BY <1>3 DEF Sends
  <2>3. [at |-> Fate(req), req |-> req, tries |-> tries] \in CallRecords
    BY <2>1 DEF CallRecords
  <2>4. queue' = queue \/ queue' = Append(queue, c)
    BY <1>3 DEF Sends
  <2>5. queue' \in Seq(Calls)
    <3>1. Append(queue, c) \in Seq(Calls)
      BY <1>1
    <3> QED
      BY <1>1, <2>4, <3>1
  <2> QED
    BY <1>1, <2>2, <2>3, <2>5
<1> QED
  BY <1>2, <1>3

LEMMA ReturnsMeans ==
  ASSUME Types, NEW c \in Calls, Returns(c)
  PROVE  /\ calls' \in [Calls -> CallRecords]
         /\ \A d \in Calls : calls'[d].req = IF d = c THEN NoReq ELSE calls[d].req
BY Kinds DEF Types, Returns

LEMMA RejectedMeans ==
  ASSUME ClientInv, NEW c \in Calls, Rejected(c)
  PROVE  /\ calls' \in [Calls -> CallRecords]
         /\ \A d \in Calls : calls'[d].req = calls[d].req
         /\ wire' \subseteq WireRecords /\ \A m \in wire' : Faithful(m.req)
         /\ queue' \in Seq(Calls)
<1>1. /\ calls[c] \in CallRecords /\ calls[c].req \in Reqs /\ calls[c].tries \in Int
      /\ Faithful(calls[c].req)
  BY CallFaithful
<1>2. Types /\ \A m \in wire : Faithful(m.req)
  BY DEF ClientInv, RequestsInv
<1>3. CASE calls[c].tries > 1
  <2>1. Sends(c, calls[c].req, calls[c].tries - 1) /\ calls[c].tries - 1 \in Int
    BY <1>1, <1>3 DEF Rejected
  <2> QED
    BY <1>1, <1>2, <2>1, SendsMeans
<1>4. CASE ~(calls[c].tries > 1)
  <2>1. calls' = [calls EXCEPT ![c].at = "failed"] /\ UNCHANGED <<queue, wire>>
    BY <1>4 DEF Rejected
  <2>2. calls' \in [Calls -> CallRecords] /\ \A d \in Calls : calls'[d].req = calls[d].req
    BY <1>2, <2>1 DEF Types, CallRecords
  <2> QED
    BY <1>2, <2>1, <2>2 DEF Types
<1> QED
  BY <1>3, <1>4

LEMMA TailIn ==
  ASSUME NEW S, NEW s \in Seq(S), s # <<>>
  PROVE  /\ Tail(s) \in Seq(S) /\ Head(s) \in S /\ Head(s) = s[1] /\ 1 \in 1..Len(s)
         /\ \A n \in 1..Len(Tail(s)) : n + 1 \in 1..Len(s) /\ Tail(s)[n] = s[n + 1]
OBVIOUS

\* The flush of the queue: a call that waited goes out, or loses a try.
LEMMA FlushInv ==
  ASSUME ClientInv, UNCHANGED <<serverVars, pageVars>>, FlushSends \/ FlushExpires
  PROVE  ClientInv'
<1>1. /\ UNCHANGED <<log, leaves, seated, clicks, view, joined, pending, retry, told, inbox>>
      /\ queue # <<>> /\ queue' = Tail(queue) /\ queue \in Seq(Calls)
  BY DEF serverVars, pageVars, FlushSends, FlushExpires, Flushable, ClientInv, Types
<1>2. PICK c : c = Head(queue)
  OBVIOUS
<1>3. c \in Calls /\ queue' \in Seq(Calls)
  BY <1>1, <1>2, TailIn
<1>4. /\ calls[c] \in CallRecords /\ calls[c].req \in Reqs /\ calls[c].tries \in Int
      /\ Faithful(calls[c].req)
  BY <1>3, CallFaithful
<1>5. /\ Types /\ calls \in [Calls -> CallRecords] /\ wire \subseteq WireRecords
      /\ \A m \in wire : Faithful(m.req)
  BY DEF ClientInv, RequestsInv, Types
<1>6. /\ calls' \in [Calls -> CallRecords]
      /\ \A d \in Calls : calls'[d].req = calls[d].req
      /\ wire' \subseteq WireRecords /\ \A m \in wire' : Faithful(m.req)
  <2>1. ASSUME NEW tries \in Int, Puts(c, calls[c].req, tries)
        PROVE  /\ calls' \in [Calls -> CallRecords]
               /\ \A d \in Calls : calls'[d].req = calls[d].req
               /\ wire' \subseteq WireRecords /\ \A m \in wire' : Faithful(m.req)
    <3>1. /\ calls' \in [Calls -> CallRecords]
          /\ \A d \in Calls : calls'[d].req = IF d = c THEN calls[c].req ELSE calls[d].req
          /\ wire' \subseteq WireRecords /\ \A m \in wire' : m \in wire \/ m.req = calls[c].req
      BY <1>3, <1>4, <1>5, <2>1, PutsMeans
    <3> QED
      BY <1>4, <1>5, <3>1
  <2>2. CASE Puts(c, calls[c].req, calls[c].tries)
    BY <1>4, <2>1, <2>2
  <2>3. CASE calls[c].tries > 1 /\ Puts(c, calls[c].req, calls[c].tries - 1)
    <3>1. calls[c].tries - 1 \in Int
      BY <1>4
    <3> QED
      BY <2>1, <2>3, <3>1
  <2>4. CASE calls' = [calls EXCEPT ![c].at = "failed"] /\ wire' = wire
    BY <1>4, <1>5, <2>4 DEF CallRecords
  <2> QED
    BY <1>2, <2>2, <2>3, <2>4 DEF FlushSends, FlushExpires
<1> QED
  BY <1>1, <1>3, <1>6, SocketMoves

LEMMA SocketWorksInv ==
  ASSUME ClientInv, SocketWorks
  PROVE  ClientInv'
<1>1. /\ UNCHANGED <<serverVars, pageVars>>
      /\ UNCHANGED <<log, leaves, seated, clicks, view, joined, pending, retry, told>>
  BY DEF SocketWorks, serverVars, pageVars
<1>2. CASE FlushSends \/ FlushExpires
  BY <1>1, <1>2, FlushInv
<1>3. CASE GivesUp
  <2>1. UNCHANGED <<calls, wire, queue, inbox>>
    BY <1>3 DEF GivesUp
  <2>2. /\ calls \in [Calls -> CallRecords] /\ wire \subseteq WireRecords /\ queue \in Seq(Calls)
        /\ \A m \in wire : Faithful(m.req)
    BY DEF ClientInv, Types, RequestsInv
  <2> QED
    BY <1>1, <2>1, <2>2, SocketMoves
<1>4. ASSUME NEW c \in Calls, TimesOut(c) PROVE ClientInv'
  <2>1. Rejected(c) /\ inbox' = inbox
    BY <1>4 DEF TimesOut
  <2>2. /\ calls' \in [Calls -> CallRecords]
        /\ \A d \in Calls : calls'[d].req = calls[d].req
        /\ wire' \subseteq WireRecords /\ \A m \in wire' : Faithful(m.req)
        /\ queue' \in Seq(Calls)
    BY <2>1, RejectedMeans
  <2> QED
    BY <1>1, <2>1, <2>2, SocketMoves
<1> QED
  BY <1>2, <1>3, <1>4 DEF SocketWorks

\* A lost connection: what was on the wire is orphaned, and still of its click.
LEMMA OrphansMean ==
  ASSUME ClientInv
  PROVE  Orphans \subseteq WireRecords /\ \A m \in Orphans : Faithful(m.req)
<1>1. \A m \in wire : m \in WireRecords /\ Faithful(m.req)
  BY DEF ClientInv, Types, RequestsInv
<1>2. ASSUME NEW m \in Orphans PROVE m \in WireRecords /\ Faithful(m.req)
  <2>1. PICK n \in wire : m = [n EXCEPT !.live = FALSE]
    BY DEF Orphans
  <2>2. m \in WireRecords /\ m.req = n.req
    BY <1>1, <2>1 DEF WireRecords
  <2> QED
    BY <1>1, <2>2
<1> QED
  BY <1>2

LEMMA LinkDropsInv ==
  ASSUME ClientInv, LinkDrops
  PROVE  ClientInv'
<1>1. PICK c \in Calls \cup {NoCall} : Drops(c)
  BY DEF LinkDrops
<1>2. UNCHANGED <<log, leaves, seated, clicks, view, joined, pending, retry, told>>
  BY DEF LinkDrops
<1>3. /\ calls' = [d \in Calls |-> Cut(d)] /\ wire' = Orphans /\ inbox' = <<>>
      /\ queue' = IF c = NoCall THEN queue ELSE Append(queue, c)
  BY <1>1 DEF Drops
<1>4. queue' \in Seq(Calls)
  <2>1. queue \in Seq(Calls)
    BY DEF ClientInv, Types
  <2>2. c # NoCall => Append(queue, c) \in Seq(Calls)
    BY <2>1
  <2> QED
    BY <1>3, <2>1, <2>2
<1>5. \A d \in Calls : Cut(d) \in CallRecords /\ Cut(d).req = calls[d].req
  <2> SUFFICES ASSUME NEW d \in Calls PROVE Cut(d) \in CallRecords /\ Cut(d).req = calls[d].req
    OBVIOUS
  <2>1. calls[d] \in CallRecords
    BY CallFaithful
  <2>2. PICK less : less = calls[d].tries - 1
    OBVIOUS
  <2>3. less \in Int
    BY <2>1, <2>2 DEF CallRecords
  <2>4. \/ Cut(d) = calls[d]
        \/ Cut(d) = [calls[d] EXCEPT !.at = "queued", !.tries = less]
        \/ Cut(d) = [calls[d] EXCEPT !.at = "failed"]
    BY <2>2 DEF Cut
  <2> QED
    BY <2>1, <2>3, <2>4 DEF CallRecords
<1>6. calls' \in [Calls -> CallRecords] /\ \A d \in Calls : calls'[d].req = calls[d].req
  BY <1>3, <1>5
<1> QED
  BY <1>2, <1>3, <1>4, <1>6, OrphansMean, SocketMoves

LEMMA RestoresInv ==
  ASSUME ClientInv, Restores
  PROVE  ClientInv'
<1>1. UNCHANGED <<log, leaves, seated, clicks, view, joined, pending, retry, told, queue, inbox>>
  BY DEF Restores, serverVars
<1>2. /\ Types /\ calls \in [Calls -> CallRecords] /\ wire \subseteq WireRecords
      /\ queue \in Seq(Calls) /\ \A m \in wire : Faithful(m.req)
  BY DEF ClientInv, RequestsInv, Types
<1>3. CASE Puts(Join, JoinReq, Attempts)
  <2>1. Attempts \in Int
    BY TableClientAssumption
  <2>2. /\ calls' \in [Calls -> CallRecords]
        /\ \A d \in Calls : calls'[d].req = IF d = Join THEN JoinReq ELSE calls[d].req
        /\ wire' \subseteq WireRecords /\ \A m \in wire' : m \in wire \/ m.req = JoinReq
    BY <1>2, <1>3, <2>1, Kinds, PutsMeans
  <2>3. /\ \A m \in wire' : Faithful(m.req)
        /\ \A d \in Calls : calls'[d].req = calls[d].req \/ calls'[d].req.kind \notin Queueable
    BY <1>2, <2>2, Kinds
  <2> QED
    BY <1>1, <1>2, <2>2, <2>3, SocketMoves
<1>4. CASE UNCHANGED <<calls, wire>>
  BY <1>1, <1>2, <1>4, SocketMoves
<1> QED
  BY <1>3, <1>4 DEF Restores

LEMMA UnmountsInv ==
  ASSUME ClientInv, Unmounts
  PROVE  ClientInv'
<1>1. /\ UNCHANGED <<log, leaves, seated, clicks, view, joined, pending, retry, told>>
      /\ calls' = [c \in Calls |-> Idle] /\ wire' = Orphans /\ queue' = <<>> /\ inbox' = <<>>
  BY DEF Unmounts, Closes, pageVars
<1>2. /\ calls' \in [Calls -> CallRecords] /\ queue' \in Seq(Calls)
      /\ \A c \in Calls : calls'[c].req.kind \notin Queueable
  BY <1>1, Kinds
<1> QED
  BY <1>1, <1>2, OrphansMean, SocketMoves

\* A call returns: what is left under the button is still the one operation.
LEMMA ReturnsKeeps ==
  ASSUME ClientInv, NEW c \in Calls, Returns(c),
         pending' = pending \/ c = Op \/ pending.kind \notin Queueable
  PROVE  /\ calls' \in [Calls -> CallRecords]
         /\ \A d \in Calls : calls'[d].req.kind \in Queueable => d = Op /\ calls'[d].req = pending'
<1>1. /\ calls' \in [Calls -> CallRecords]
      /\ \A d \in Calls : calls'[d].req = IF d = c THEN NoReq ELSE calls[d].req
  BY ReturnsMeans DEF ClientInv
<1>2. \A d \in Calls : calls[d].req.kind \in Queueable => d = Op /\ calls[d].req = pending
  BY DEF ClientInv, OneOperation
<1> QED
  BY <1>1, <1>2, Kinds

\* A call is issued with a request of a click, or with one of no click at all.
LEMMA IssueKeeps ==
  ASSUME ClientInv, NEW c \in Calls, NEW req \in Reqs, Issue(c, req),
         req.kind \in Queueable => c = Op /\ req = pending',
         pending' = pending \/ c = Op \/ pending.kind \notin Queueable
  PROVE  /\ calls' \in [Calls -> CallRecords]
         /\ \A d \in Calls : calls'[d].req.kind \in Queueable => d = Op /\ calls'[d].req = pending'
         /\ wire' \subseteq WireRecords /\ \A m \in wire' : m \in wire \/ m.req = req
         /\ queue' \in Seq(Calls)
<1>1. Sends(c, req, Attempts) /\ Attempts \in Int /\ Types
  BY TableClientAssumption DEF Issue, ClientInv
<1>2. /\ calls' \in [Calls -> CallRecords]
      /\ \A d \in Calls : calls'[d].req = IF d = c THEN req ELSE calls[d].req
      /\ wire' \subseteq WireRecords /\ \A m \in wire' : m \in wire \/ m.req = req
      /\ queue' \in Seq(Calls)
  BY <1>1, SendsMeans
<1>3. \A d \in Calls : calls[d].req.kind \in Queueable => d = Op /\ calls[d].req = pending
  BY DEF ClientInv, OneOperation
<1> QED
  BY <1>2, <1>3

\* What the page keeps when a step leaves it alone.
LEMMA PageKeeps ==
  ASSUME ClientInv
  PROVE  /\ wire \subseteq WireRecords /\ queue \in Seq(Calls) /\ \A m \in wire : Faithful(m.req)
         /\ pending \in Reqs /\ retry \in Reqs /\ Faithful(pending) /\ Faithful(retry)
         /\ view \in Nat /\ view <= Version /\ (joined => HadSeat)
         /\ told \in [Clicks -> {"nothing", "ok", "stale", "refused"}]
         /\ inbox \in Seq(Messages)
         /\ \A n \in 1..Len(inbox) : \E k \in 1..Len(inbox) : inbox[n] = inbox[k]
BY DEF ClientInv, Types, RequestsInv, World, SeenInv, LeavesInv

LEMMA FailsInv ==
  ASSUME ClientInv, Fails
  PROVE  ClientInv'
<1>1. UNCHANGED <<queue, wire, inbox, log, leaves, seated, joined, view, clicks, told>>
  BY DEF Fails, serverVars
<1>2. ASSUME NEW c \in Calls, Returns(c),
             pending' = pending \/ c = Op \/ pending.kind \notin Queueable,
             pending' = pending \/ pending' = NoReq, retry' = retry \/ retry' = pending
      PROVE  ClientInv'
  <2>1. /\ pending' \in Reqs /\ retry' \in Reqs /\ Faithful(pending') /\ Faithful(retry')
    BY <1>2, PageKeeps, Kinds
  <2>2. /\ calls' \in [Calls -> CallRecords]
        /\ \A d \in Calls : calls'[d].req.kind \in Queueable => d = Op /\ calls'[d].req = pending'
    BY <1>2, ReturnsKeeps
  <2> QED
    BY <1>1, <2>1, <2>2, PageKeeps, PageMoves
<1>3. CASE OpFails
  BY <1>2, <1>3, Kinds DEF OpFails
<1>4. CASE JoinFails
  BY <1>2, <1>4, Kinds DEF JoinFails
<1>5. CASE RefreshFails
  <2>1. PICK v \in Versions : Returns(Refresh(v))
    BY <1>5 DEF RefreshFails
  <2>2. Refresh(v) \in Calls /\ UNCHANGED <<pending, retry>>
    BY <1>5, TableClientAssumption DEF RefreshFails, PageCalls
  <2> QED
    BY <1>2, <2>1, <2>2
<1> QED
  BY <1>3, <1>4, <1>5 DEF Fails

LEMMA Received ==
  ASSUME ClientInv, inbox # <<>>, inbox' = Tail(inbox)
  PROVE  /\ Head(inbox) \in Messages /\ TrueAnswer(Head(inbox))
         /\ inbox' \in Seq(Messages)
         /\ \A n \in 1..Len(inbox') : \E k \in 1..Len(inbox) : inbox'[n] = inbox[k]
<1>1. inbox \in Seq(Messages)
  BY DEF ClientInv, Types
<1>2. /\ Tail(inbox) \in Seq(Messages) /\ Head(inbox) \in Messages /\ Head(inbox) = inbox[1]
      /\ 1 \in 1..Len(inbox)
      /\ \A n \in 1..Len(Tail(inbox)) : n + 1 \in 1..Len(inbox) /\ Tail(inbox)[n] = inbox[n + 1]
  BY <1>1, TailIn
<1>3. TrueAnswer(Head(inbox))
  BY <1>2 DEF ClientInv, AnswersInv
<1> QED
  BY <1>2, <1>3

\* An answer tells of the operation under the button, and tells the truth.
LEMMA TellsTruth ==
  ASSUME ClientInv, NEW a \in Messages, TrueAnswer(a), a.to \in Calls,
         Awaited(a.to, a.req, a.tries), calls[a.to].req.kind \in Queueable, Tells(a)
  PROVE  /\ a.to = Op /\ a.req = pending /\ retry' = NoReq
         /\ told' \in [Clicks -> {"nothing", "ok", "stale", "refused"}]
         /\ \A k \in Clicks : \/ told'[k] = told[k]
                              \/ told'[k] = "ok" /\ Done(k)
                              \/ told'[k] # "ok" /\ Never(k)
<1>1. calls[a.to].req = a.req
  BY DEF Awaited
<1>2. a.to = Op /\ a.req = pending
  BY <1>1 DEF ClientInv, OneOperation
<1>3. /\ a.says \in {"ok", "stale", "refused"}
      /\ IF a.says = "ok" THEN Done(a.req.id) ELSE Never(a.req.id)
  BY <1>1 DEF TrueAnswer
<1>4. /\ told' = [told EXCEPT ![a.req.id] = a.says] /\ retry' = NoReq
      /\ told \in [Clicks -> {"nothing", "ok", "stale", "refused"}]
  BY <1>2 DEF Tells, ClientInv, Types
<1>5. told' \in [Clicks -> {"nothing", "ok", "stale", "refused"}]
  BY <1>3, <1>4
<1>6. ASSUME NEW k \in Clicks
      PROVE  \/ told'[k] = told[k]
             \/ told'[k] = "ok" /\ Done(k)
             \/ told'[k] # "ok" /\ Never(k)
  <2>1. CASE k = a.req.id
    <3>1. told'[k] = a.says
      BY <1>4, <2>1
    <3> QED
      BY <1>3, <2>1, <3>1
  <2>2. CASE k # a.req.id
    BY <1>4, <2>2
  <2> QED
    BY <2>1, <2>2
<1> QED
  BY <1>2, <1>4, <1>5, <1>6

LEMMA ReceivesInv ==
  ASSUME ClientInv, Receives
  PROVE  ClientInv'
<1>1. PICK a : a = Head(inbox)
  OBVIOUS
<1>2. /\ a \in Messages /\ TrueAnswer(a) /\ inbox' \in Seq(Messages)
      /\ \A n \in 1..Len(inbox') : \E k \in 1..Len(inbox) : inbox'[n] = inbox[k]
  BY <1>1, Received DEF Receives
<1>3. UNCHANGED <<log, leaves, seated>>
  BY DEF Receives, serverVars
<1>4. a.version \in Versions /\ a.version \in Nat /\ a.version <= Version
  BY <1>2 DEF Messages, Versions, TrueAnswer
<1>5. CASE Ignores(a)
  <2>1. /\ UNCHANGED <<calls, wire, queue>>
        /\ UNCHANGED <<clicks, view, joined, pending, retry, told>>
    BY <1>5 DEF Ignores, pageVars
  <2>2. /\ calls' \in [Calls -> CallRecords]
        /\ \A d \in Calls : calls'[d].req.kind \in Queueable => d = Op /\ calls'[d].req = pending'
    BY <2>1 DEF ClientInv, Types, OneOperation
  <2> QED
    BY <1>2, <1>3, <2>1, <2>2, PageKeeps, PageMoves
<1>6. CASE OnNotice(a)
  <2>1. Issue(Refresh(a.version), Snapshot) /\ UNCHANGED <<clicks, view, joined, pending, retry, told>>
    BY <1>6 DEF OnNotice, pageVars
  <2>2. Refresh(a.version) \in Calls
    BY <1>4, TableClientAssumption DEF PageCalls
  <2>3. /\ calls' \in [Calls -> CallRecords]
        /\ \A d \in Calls : calls'[d].req.kind \in Queueable => d = Op /\ calls'[d].req = pending'
        /\ wire' \subseteq WireRecords /\ \A m \in wire' : m \in wire \/ m.req = Snapshot
        /\ queue' \in Seq(Calls)
    BY <2>1, <2>2, Kinds, IssueKeeps
  <2>4. \A m \in wire' : Faithful(m.req)
    BY <2>3, PageKeeps, Kinds
  <2> QED
    BY <1>2, <1>3, <2>1, <2>3, <2>4, PageKeeps, PageMoves
<1>7. ASSUME a.to \in Calls, Awaited(a.to, a.req, a.tries),
             OnSnapshot(a) \/ OnJoined(a) \/ OnActed(a) \/ OnLeft(a)
      PROVE  ClientInv'
  <2>1. calls[a.to].req = a.req
    BY <1>7 DEF Awaited
  <2>2. CASE OnSnapshot(a)
    <3>1. /\ UNCHANGED <<clicks, joined, retry, told, wire, queue>>
          /\ view' = a.version /\ Returns(a.to)
          /\ pending' = IF a.to = Op THEN NoReq ELSE pending
      BY <2>2 DEF OnSnapshot
    <3>2. /\ calls' \in [Calls -> CallRecords]
          /\ \A d \in Calls : calls'[d].req.kind \in Queueable => d = Op /\ calls'[d].req = pending'
      BY <1>7, <3>1, ReturnsKeeps
    <3>3. pending' \in Reqs /\ Faithful(pending') /\ view' \in Nat /\ view' <= Version
      BY <1>4, <3>1, Kinds, PageKeeps
    <3> QED
      BY <1>2, <1>3, <3>1, <3>2, <3>3, PageKeeps, PageMoves
  <2>3. CASE OnJoined(a)
    <3>1. /\ UNCHANGED <<clicks, retry, told, wire, queue>>
          /\ view' = a.version /\ Returns(a.to) /\ a.req.kind = "join"
          /\ pending' = IF pending = JoinReq THEN NoReq ELSE pending
      BY <2>1, <2>3 DEF OnJoined
    <3>2. /\ calls' \in [Calls -> CallRecords]
          /\ \A d \in Calls : calls'[d].req.kind \in Queueable => d = Op /\ calls'[d].req = pending'
      BY <1>7, <3>1, ReturnsKeeps, Kinds
    <3>3. pending' \in Reqs /\ Faithful(pending') /\ view' \in Nat /\ view' <= Version
      BY <1>4, <3>1, Kinds, PageKeeps
    <3>4. HadSeat
      BY <1>2, <3>1 DEF TrueAnswer
    <3> QED
      BY <1>2, <1>3, <3>1, <3>2, <3>3, <3>4, PageKeeps, PageMoves
  <2>4. CASE OnActed(a)
    <3>1. UNCHANGED <<clicks, joined, view>> /\ Tells(a) /\ calls[a.to].req.kind \in Queueable
      BY <2>4 DEF OnActed, Queueable
    <3>2. /\ a.to = Op /\ a.req = pending /\ retry' = NoReq
          /\ told' \in [Clicks -> {"nothing", "ok", "stale", "refused"}]
          /\ \A k \in Clicks : \/ told'[k] = told[k]
                               \/ told'[k] = "ok" /\ Done(k)
                               \/ told'[k] # "ok" /\ Never(k)
      BY <1>2, <1>7, <3>1, TellsTruth
    <3>3. CASE Returns(Op) /\ pending' = NoReq /\ UNCHANGED <<wire, queue>>
      <4>1. /\ calls' \in [Calls -> CallRecords]
            /\ \A d \in Calls : calls'[d].req.kind \in Queueable => d = Op /\ calls'[d].req = pending'
        BY <3>3, ReturnsKeeps, Kinds
      <4> QED
        BY <1>2, <1>3, <3>1, <3>2, <3>3, <4>1, PageKeeps, Kinds, PageMoves
    <3>4. CASE Issue(Op, Snapshot) /\ UNCHANGED pending
      <4>1. /\ calls' \in [Calls -> CallRecords]
            /\ \A d \in Calls : calls'[d].req.kind \in Queueable => d = Op /\ calls'[d].req = pending'
            /\ wire' \subseteq WireRecords /\ \A m \in wire' : m \in wire \/ m.req = Snapshot
            /\ queue' \in Seq(Calls)
        BY <3>4, Kinds, IssueKeeps
      <4>2. \A m \in wire' : Faithful(m.req)
        BY <4>1, PageKeeps, Kinds
      <4> QED
        BY <1>2, <1>3, <3>1, <3>2, <3>4, <4>1, <4>2, PageKeeps, Kinds, PageMoves
    <3> QED
      BY <2>4, <3>3, <3>4 DEF OnActed
  <2>5. CASE OnLeft(a)
    <3>1. /\ UNCHANGED <<clicks, joined, view, wire, queue>> /\ pending' = NoReq
          /\ Tells(a) /\ Returns(Op) /\ calls[a.to].req.kind \in Queueable
      BY <2>5 DEF OnLeft, Queueable
    <3>2. /\ retry' = NoReq
          /\ told' \in [Clicks -> {"nothing", "ok", "stale", "refused"}]
          /\ \A k \in Clicks : \/ told'[k] = told[k]
                               \/ told'[k] = "ok" /\ Done(k)
                               \/ told'[k] # "ok" /\ Never(k)
      BY <1>2, <1>7, <3>1, TellsTruth
    <3>3. /\ calls' \in [Calls -> CallRecords]
          /\ \A d \in Calls : calls'[d].req.kind \in Queueable => d = Op /\ calls'[d].req = pending'
      BY <3>1, ReturnsKeeps, Kinds
    <3> QED
      BY <1>2, <1>3, <3>1, <3>2, <3>3, PageKeeps, Kinds, PageMoves
  <2> QED
    BY <1>7, <2>2, <2>3, <2>4, <2>5
<1> QED
  BY <1>1, <1>5, <1>6, <1>7 DEF Receives

-----------------------------------------------------------------------------
(* Steps of the player *)

\* A request without a new click: the form, or the retry with its old payload.
LEMMA AgainInv ==
  ASSUME ClientInv, SubmitsJoin \/ RetriesOperation
  PROVE  ClientInv'
<1>1. /\ UNCHANGED <<log, leaves, seated, clicks, told, view, joined, retry, inbox>>
      /\ pending = NoReq
  BY DEF SubmitsJoin, RetriesOperation, Operates, Idles, serverVars
<1>2. ASSUME NEW c \in Calls, NEW req \in Reqs, Faithful(req), Issue(c, req), pending' = req,
             req.kind \in Queueable => c = Op
      PROVE  ClientInv'
  <2>1. /\ calls' \in [Calls -> CallRecords]
        /\ \A d \in Calls : calls'[d].req.kind \in Queueable => d = Op /\ calls'[d].req = pending'
        /\ wire' \subseteq WireRecords /\ \A m \in wire' : m \in wire \/ m.req = req
        /\ queue' \in Seq(Calls)
    BY <1>1, <1>2, Kinds, IssueKeeps
  <2>2. \A m \in wire' : Faithful(m.req)
    BY <1>2, <2>1, PageKeeps
  <2> QED
    BY <1>1, <1>2, <2>1, <2>2, PageKeeps, PageMoves
<1>3. CASE SubmitsJoin
  BY <1>2, <1>3, Kinds DEF SubmitsJoin
<1>4. CASE RetriesOperation
  BY <1>2, <1>4, Kinds, PageKeeps DEF RetriesOperation, RetryPayload, Operates
<1> QED
  BY <1>3, <1>4

\* A new click, with the version on the screen.
LEMMA ClicksInv ==
  ASSUME ClientInv, ClicksOffered
  PROVE  ClientInv'
<1>1. /\ UNCHANGED <<log, leaves, seated, told, view, joined, retry, inbox>>
      /\ pending = NoReq /\ joined /\ Len(clicks) < MaxClicks
      /\ clicks' = Append(clicks, view)
  BY DEF ClicksOffered, Operates, Idles, serverVars
<1>2. PICK req : req = Clicked(Offered)
  OBVIOUS
<1>3. pending' = req /\ Issue(Op, req)
  BY <1>2 DEF ClicksOffered, Operates
<1>4. /\ clicks \in Seq(Nat) /\ view \in Nat /\ view <= Version /\ Version <= MaxVersion
      /\ Version \in Nat /\ MaxVersion \in Nat /\ MaxClicks \in Nat /\ HadSeat
  <2>1. Version \in Nat
    BY DEF ClientInv, Types, Version
  <2> QED
    BY <1>1, <2>1, TableClientAssumption DEF ClientInv, Types, World, SeenInv, LeavesInv
<1>5. /\ clicks' \in Seq(Nat) /\ Len(clicks) \in Nat /\ Len(clicks') = Len(clicks) + 1
      /\ clicks'[Len(clicks) + 1] = view
      /\ \A k \in 1..Len(clicks) : clicks'[k] = clicks[k] /\ k \in 1..Len(clicks')
      /\ \A k \in 1..Len(clicks') : k \in 1..Len(clicks) \/ k = Len(clicks) + 1
  <2>1. /\ clicks' \in Seq(Nat) /\ Len(clicks) \in Nat /\ Len(clicks') = Len(clicks) + 1
        /\ clicks'[Len(clicks) + 1] = view /\ \A k \in 1..Len(clicks) : clicks'[k] = clicks[k]
    BY <1>1, <1>4, LogGrows
  <2> QED
    BY <2>1
<1>6. Version' = Version /\ HadSeat' /\ \A k : Happened(k)' <=> Happened(k)
  BY <1>1, <1>4 DEF Version, HadSeat, Happened
<1>7. req \in Reqs /\ req.id = Len(clicks) + 1 /\ req.seen = view
      /\ req.kind = IF view < MaxVersion THEN "action" ELSE "leave"
  BY <1>2, <1>4, <1>5 DEF Clicked, Offered, Reqs
<1>8. Faithful(req)'
  <2>1. /\ req.id \in 1..Len(clicks') /\ clicks'[req.id] = req.seen
        /\ req.kind = "action" => req.seen < MaxVersion
        /\ req.kind = "leave" => req.seen = MaxVersion
    BY <1>4, <1>5, <1>7
  <2> QED
    BY <2>1 DEF Faithful
<1>9. \A r : Faithful(r) => Faithful(r)'
  BY <1>5 DEF Faithful
<1>10. \A k : (Done(k) => Done(k)') /\ (Never(k) => Never(k)')
  BY <1>1, <1>5, <1>6 DEF Done, Never
<1>11. \A a : TrueAnswer(a) => TrueAnswer(a)'
  BY <1>6, <1>10 DEF TrueAnswer
<1>12. /\ calls' \in [Calls -> CallRecords]
       /\ \A d \in Calls : calls'[d].req.kind \in Queueable => d = Op /\ calls'[d].req = pending'
       /\ wire' \subseteq WireRecords /\ \A m \in wire' : m \in wire \/ m.req = req
       /\ queue' \in Seq(Calls)
  BY <1>3, <1>7, Kinds, IssueKeeps
<1>13. Types'
  <2>1. Len(clicks') <= MaxClicks
    BY <1>1, <1>4, <1>5
  <2> QED
    BY <1>1, <1>3, <1>4, <1>5, <1>6, <1>7, <1>12, <2>1 DEF ClientInv, Types
<1>14. RequestsInv'
  <2>1. Faithful(pending)'
    BY <1>3, <1>8 DEF Faithful
  <2>2. Faithful(retry)'
    BY <1>1, <1>9, PageKeeps DEF Faithful
  <2>3. ASSUME NEW m \in wire' PROVE Faithful(m.req)'
    BY <1>8, <1>9, <1>12, PageKeeps
  <2> QED
    BY <2>1, <2>2, <2>3 DEF RequestsInv, Faithful
<1>15. OneOperation'
  BY <1>12 DEF OneOperation
<1>16. World'
  <2>1. LogInv'
    <3>1. \A i \in 1..Len(log) : log[i] # 0 =>
            /\ log[i] \in 1..Len(clicks) /\ clicks[log[i]] = i
            /\ \A j \in 1..Len(log) : log[j] = log[i] => j = i
      BY DEF ClientInv, World, LogInv, AppliedAsSeen
    <3> QED
      BY <1>1, <1>5, <3>1 DEF LogInv, AppliedAsSeen
  <2>2. LeavesInv'
    <3>1. /\ \A k \in leaves : k \in 1..Len(clicks) /\ clicks[k] = MaxVersion
          /\ leaves # {} => Version = MaxVersion
      BY DEF ClientInv, World, LeavesInv
    <3> QED
      BY <1>1, <1>5, <1>6, <3>1 DEF LeavesInv
  <2>3. SeenInv'
    <3>1. \A k \in 1..Len(clicks) : clicks[k] <= Version
      BY DEF ClientInv, World, SeenInv
    <3> QED
      BY <1>1, <1>4, <1>5, <1>6, <3>1 DEF SeenInv
  <2> QED
    BY <2>1, <2>2, <2>3 DEF World
<1>17. AnswersInv'
  <2>1. ASSUME NEW n \in 1..Len(inbox'), NEW a, a = inbox'[n] PROVE TrueAnswer(a)'
    <3>1. TrueAnswer(a)
      BY <1>1, <2>1 DEF ClientInv, AnswersInv
    <3> QED
      BY <1>11, <3>1
  <2> QED
    BY <2>1 DEF AnswersInv, TrueAnswer, Done, Never, Happened, HadSeat, Version
<1>18. ToldInv'
  BY <1>1, <1>10 DEF ClientInv, ToldInv
<1> QED
  BY <1>13, <1>14, <1>15, <1>16, <1>17, <1>18 DEF ClientInv

-----------------------------------------------------------------------------
(* The theorems *)

LEMMA NextInv == ClientInv /\ [Next]_vars => ClientInv'
<1> SUFFICES ASSUME ClientInv, [Next]_vars PROVE ClientInv'
  OBVIOUS
<1>1. CASE OthersAct
  BY <1>1, OthersActInv
<1>2. CASE ServerWorks
  BY <1>2, ServerWorksInv
<1>3. CASE PlayerActs
  BY <1>3, AgainInv, ClicksInv DEF PlayerActs
<1>4. CASE Restores \/ LinkDrops \/ Fails
  BY <1>4, RestoresInv, LinkDropsInv, FailsInv
<1>5. CASE Receives
  BY <1>5, ReceivesInv
<1>6. CASE Unmounts \/ SocketWorks
  BY <1>6, UnmountsInv, SocketWorksInv
<1>7. CASE UNCHANGED vars
  <2>1. UNCHANGED <<log, leaves, seated, clicks, view, joined, pending, retry, told,
                    calls, queue, wire, inbox>>
    BY <1>7 DEF vars, socketVars, serverVars, pageVars
  <2>2. calls \in [Calls -> CallRecords]
    BY DEF ClientInv, Types
  <2> QED
    BY <2>1, <2>2, PageKeeps, SocketMoves
<1> QED
  BY <1>1, <1>2, <1>3, <1>4, <1>5, <1>6, <1>7 DEF Next

\* The invariant of the page, its socket and the server: requests are of their
\* click, answers and what the player was told are true (table-client.tsx,
\* executeAction and executeLeave, over handleAction of the gateway).
THEOREM ClientInvariant == Spec => []ClientInv
BY InitInv, NextInv, PTL DEF Spec

\* However often an action is tried again, by the socket or by the player, it is
\* applied at most once, and to the version that was on the screen at its click
\* (expectedVersion and the operation id of a game action).
THEOREM ActionsAppliedAsSeen == Spec => []AppliedAsSeen
<1>1. ClientInv => AppliedAsSeen
  BY DEF ClientInv, World, LogInv
<1> QED
  BY <1>1, ClientInvariant, PTL

\* Whatever connections, requests and answers are lost, what the page tells of
\* a click is what became of it, and stays so (executeAction, executeLeave).
THEOREM PlayerToldTheTruth == Spec => []ToldTheTruth
<1>1. ClientInv => ToldTheTruth
  BY DEF ClientInv, ToldInv, ToldTheTruth, Done, Never
<1> QED
  BY <1>1, ClientInvariant, PTL
===============================================================================
