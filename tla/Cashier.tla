------------------------------- MODULE Cashier -------------------------------
(***************************************************************************)
(* The requests that move points or prove an identity, as transactions of  *)
(* the database: a guest is created with a grant, a wallet logs in with a  *)
(* nonce, a seat is bought and cashed out, a posting is made under a       *)
(* reference of the caller.                                                *)
(*                                                                         *)
(* Each runs as a serializable transaction: it decides on what it has read *)
(* and commits only if that still holds.  Otherwise the database aborts it *)
(* (P2034), and the code tries again, MaxAttempts times in all; or an      *)
(* insert meets a row with the same unique key (P2002), and each request   *)
(* has its own answer to that.  The process may die before the commit, and *)
(* the answer of a commit may be lost: the caller may then ask again.      *)
(*                                                                         *)
(* The room lock of the gateway is left out: it holds within one process   *)
(* and for one room, the database must do without it.                      *)
(***************************************************************************)
EXTENDS Ledger

CONSTANTS Guests, Wallets, Rooms, Nonces,
          Treasury, Elsewhere,  \* accounts that are nobody's and no table's
          Requests,             \* the requests under way at one time
          NoOp,
          GrantAmount, BuyIn,
          SeatCount,            \* of each room
          Actions,              \* the ids clients give to their leaves
          References, Amounts,  \* of postings under a caller's reference
          MaxAttempts,          \* MAX_SERIALIZABLE_ATTEMPTS
          MaxAsked,             \* bound: requests in all
          MaxPlays              \* bound: chips won at a table

\* A row of the nonce table is never the mark of its absence.
ASSUME CashierAssumption ==
  \A w \in Wallets, s \in {"issued", "consumed", "expired"} : NoOp # [address |-> w, state |-> s]

\* Accounts of different owners are different (their type is part of the key);
\* amounts are whole numbers, and the grant and the buy-in are not negative.
ASSUME AccountsAssumption ==
  /\ Guests \cap Rooms = {}
  /\ {Treasury, Elsewhere} \cap (Guests \cup Rooms) = {} /\ Treasury # Elsewhere
  /\ GrantAmount \in Nat /\ BuyIn \in Nat \ {0} /\ Amounts \subseteq Int

VARIABLES
  users,     \* names and wallet addresses with a user row
  nonces,    \* [address, state] of each nonce, or NoOp
  sessions,  \* [who, by, token]: by is the nonce it was created for, or NoOp
  seats,     \* [who, room, stack, id]
  left,      \* the LEAVE operations: [action, who, room]
  postings,
  runs,      \* each request: its operation, what it has read, its tries left
  asked,     \* requests so far
  plays,
  answers    \* the operations that were answered with success

rows == <<users, nonces, sessions, seats, left, postings>>
vars == <<rows, runs, asked, plays, answers>>

Init ==
  /\ users = {}
  /\ nonces = [n \in Nonces |-> NoOp]
  /\ sessions = {}
  /\ seats = {}
  /\ left = {}
  /\ postings = {}
  /\ runs = [r \in Requests |-> NoOp]
  /\ asked = 0
  /\ plays = 0
  /\ answers = {}

-----------------------------------------------------------------------------
(* The operations, each with the posting it makes *)

GuestOp(g) == [kind |-> "guest", who |-> g]
LoginOp(w, n) == [kind |-> "login", who |-> w, nonce |-> n]
JoinOp(g, room) == [kind |-> "join", who |-> g, room |-> room]
LeaveOp(g, room, a) == [kind |-> "leave", who |-> g, room |-> room, action |-> a]
PostOp(g, ref, amount) == [kind |-> "post", who |-> g, ref |-> ref, amount |-> amount]

Grant(g) == Posting(<<"grant", g>>, Treasury, g, GrantAmount)
\* claimTableSeat makes up a reference of its own at every call.
SeatBought(op, id) == Posting(<<"buy-in", id>>, op.who, op.room, BuyIn)
CashOut(seat) == Posting(<<"cash-out", seat.id>>, seat.room, seat.who, seat.stack)
Transfer(op) == Posting(<<"post", op.ref>>, op.who, Elsewhere, op.amount)

\* Every seat comes with a posting, so this has not been an id before.
FreshId == Cardinality(postings)

SeatsOf(op) == {s \in seats : s.who = op.who /\ s.room = op.room}
Full(room) == Cardinality({s \in seats : s.room = room}) >= SeatCount[room]

\* What the transaction of an operation reads.
Reads(op) ==
  CASE op.kind = "guest" -> [user |-> op.who \in users]
    [] op.kind = "login" -> [user |-> op.who \in users, nonce |-> nonces[op.nonce]]
    [] op.kind = "join" ->
         [seat |-> SeatsOf(op), full |-> Full(op.room), funds |-> Balance(postings, op.who)]
    [] op.kind = "leave" ->
         [seat |-> SeatsOf(op), left |-> {l \in left : l.action = op.action},
          funds |-> Balance(postings, op.room)]
    [] op.kind = "post" ->
         [found |-> WithReference(postings, <<"post", op.ref>>),
          funds |-> Balance(postings, op.who)]

-----------------------------------------------------------------------------
(* What it decides on it: "writes", or an answer without a write *)

\* The name is taken: P2002 on the user, answered as a conflict.
GuestOutcome(op, read) == IF read.user THEN "refused" ELSE "writes"

\* mutant: a consumed nonce is as good as an issued one.
NonceUsableTwice(op, nonce) == nonce # NoOp /\ nonce.address = op.who /\ nonce.state # "expired"

NonceUsable(op, nonce) == nonce = [address |-> op.who, state |-> "issued"]

LoginOutcome(op, read) == IF NonceUsable(op, read.nonce) THEN "writes" ELSE "refused"

JoinOutcome(op, read) ==
  IF read.seat # {} THEN "done"
  ELSE IF read.full \/ read.funds < BuyIn THEN "refused"
  ELSE "writes"

\* A user without a seat is told that the leave is done.
LeaveOutcome(op, read) ==
  IF read.left # {}
  THEN IF \E l \in read.left : l.who = op.who /\ l.room = op.room THEN "done" ELSE "refused"
  ELSE IF \A s \in read.seat : s.stack <= read.funds
       THEN IF read.seat = {} THEN "done" ELSE "writes"
       ELSE "refused"

Outcome(op, read) ==
  CASE op.kind = "guest" -> GuestOutcome(op, read)
    [] op.kind = "login" -> LoginOutcome(op, read)
    [] op.kind = "join" -> JoinOutcome(op, read)
    [] op.kind = "leave" -> LeaveOutcome(op, read)
    [] op.kind = "post" -> PostOutcome(Transfer(op), read.found, read.funds)

-----------------------------------------------------------------------------
(* What it writes *)

\* Every session has a random token of its own.
Session(user, by) == [who |-> user, by |-> by, token |-> Cardinality(sessions)]

WritesGuest(op) ==
  /\ op.kind = "guest"
  /\ users' = users \cup {op.who}
  /\ sessions' = sessions \cup {Session(op.who, NoOp)}
  /\ postings' = postings \cup {Grant(op.who)}
  /\ UNCHANGED <<nonces, seats, left>>

\* The nonce is consumed together with the session it pays for.
WritesLogin(op) ==
  /\ op.kind = "login"
  /\ nonces' = [nonces EXCEPT ![op.nonce].state = "consumed"]
  /\ users' = users \cup {op.who}
  /\ sessions' = sessions \cup {Session(op.who, op.nonce)}
  /\ UNCHANGED <<seats, left, postings>>

WritesJoin(op) ==
  /\ op.kind = "join"
  /\ seats' = seats \cup {[who |-> op.who, room |-> op.room, stack |-> BuyIn, id |-> FreshId]}
  /\ postings' = postings \cup {SeatBought(op, FreshId)}
  /\ UNCHANGED <<users, nonces, sessions, left>>

\* A seat that has lost everything is given back without a posting.
WritesLeave(op, read) ==
  /\ op.kind = "leave"
  /\ seats' = seats \ read.seat
  /\ left' = left \cup {[action |-> op.action, who |-> op.who, room |-> op.room]}
  /\ postings' = postings \cup {CashOut(s) : s \in {t \in read.seat : t.stack > 0}}
  /\ UNCHANGED <<users, nonces, sessions>>

WritesPost(op) ==
  /\ op.kind = "post"
  /\ postings' = postings \cup {Transfer(op)}
  /\ UNCHANGED <<users, nonces, sessions, seats, left>>

Writes(op, read) ==
  WritesGuest(op) \/ WritesLogin(op) \/ WritesJoin(op) \/ WritesLeave(op, read) \/ WritesPost(op)

-----------------------------------------------------------------------------
(* A request from its arrival to its answer *)

Operations ==
  {GuestOp(g) : g \in Guests}
    \cup {LoginOp(w, n) : w \in Wallets, n \in Nonces}
    \cup {JoinOp(g, room) : g \in users \cap Guests, room \in Rooms}
    \cup {LeaveOp(g, room, a) : g \in users \cap Guests, room \in Rooms, a \in Actions}
    \cup {PostOp(g, ref, m) : g \in users \cap Guests, ref \in References, m \in Amounts}

Asks(r) ==
  /\ runs[r] = NoOp
  /\ asked < MaxAsked
  /\ asked' = asked + 1
  /\ \E op \in Operations :
       runs' = [runs EXCEPT ![r] = [op |-> op, read |-> Reads(op), tries |-> MaxAttempts]]
  /\ UNCHANGED <<rows, plays, answers>>

Ends(r) == runs' = [runs EXCEPT ![r] = NoOp]

\* Success may not reach the caller; then the caller knows nothing.
Succeeds(r) ==
  /\ Ends(r)
  /\ answers' \in {answers, answers \cup {runs[r].op}}

\* mutant: a weaker isolation.
HoldsAnyway(r) == TRUE

\* Serializable isolation.
StillHolds(r) == Reads(runs[r].op) = runs[r].read

Decided(r) == Outcome(runs[r].op, runs[r].read)

Commits(r) ==
  /\ runs[r] # NoOp
  /\ Decided(r) = "writes"
  /\ StillHolds(r)
  /\ Writes(runs[r].op, runs[r].read)
  /\ Succeeds(r)
  /\ UNCHANGED <<asked, plays>>

\* Nothing to write: the answer follows from what was read.
Answers(r) ==
  /\ runs[r] # NoOp
  /\ Decided(r) # "writes"
  /\ IF Decided(r) = "done" THEN Succeeds(r) ELSE Ends(r) /\ UNCHANGED answers
  /\ UNCHANGED <<rows, asked, plays>>

\* P2034: the next attempt reads again.
Aborts(r) ==
  /\ runs[r] # NoOp
  /\ Decided(r) = "writes"
  /\ ~StillHolds(r)
  /\ IF runs[r].tries > 1
     THEN runs' = [runs EXCEPT ![r].tries = @ - 1, ![r].read = Reads(runs[r].op)]
     ELSE Ends(r)
  /\ UNCHANGED <<rows, asked, plays, answers>>

\* The row that the transaction inserts is there by now.
Taken(op) ==
  CASE op.kind = "guest" -> op.who \in users
    [] op.kind = "login" -> op.who \in users
    [] op.kind = "join" -> SeatsOf(op) # {} \/ Full(op.room)
    [] op.kind = "leave" -> \E l \in left : l.action = op.action
    [] op.kind = "post" -> WithReference(postings, <<"post", op.ref>>) # {}

\* P2002: a posting and a leave look at the row that was first and answer as
\* it deserves; a taken name is a conflict, anything else a failure.
MeetsDuplicate(r) ==
  /\ runs[r] # NoOp
  /\ Decided(r) = "writes"
  /\ ~StillHolds(r)
  /\ Taken(runs[r].op)
  /\ LET op == runs[r].op IN
       IF \/ op.kind = "post" /\ Matches(Reads(op).found, Transfer(op))
          \/ op.kind = "leave" /\ LeaveOutcome(op, Reads(op)) = "done"
       THEN Succeeds(r)
       ELSE Ends(r) /\ UNCHANGED answers
  /\ UNCHANGED <<rows, asked, plays>>

\* The process dies, or the connection to the database is lost, before the
\* commit.
Dies(r) ==
  /\ runs[r] # NoOp
  /\ Ends(r)
  /\ UNCHANGED <<rows, asked, plays, answers>>

-----------------------------------------------------------------------------
(* Around the requests *)

IssuesNonce(n, w) ==
  /\ nonces[n] = NoOp
  /\ nonces' = [nonces EXCEPT ![n] = [address |-> w, state |-> "issued"]]
  /\ UNCHANGED <<users, sessions, seats, left, postings, runs, asked, plays, answers>>

NonceExpires(n) ==
  /\ nonces[n] # NoOp /\ nonces[n].state = "issued"
  /\ nonces' = [nonces EXCEPT ![n].state = "expired"]
  /\ UNCHANGED <<users, sessions, seats, left, postings, runs, asked, plays, answers>>

\* The table moves chips between two seats in a transaction of its own.
Plays ==
  /\ plays < MaxPlays
  /\ plays' = plays + 1
  /\ \E s, t \in seats :
       /\ s # t /\ s.room = t.room /\ s.stack > 0
       /\ seats' = (seats \ {s, t})
                     \cup {[s EXCEPT !.stack = @ - 1], [t EXCEPT !.stack = @ + 1]}
  /\ UNCHANGED <<users, nonces, sessions, left, postings, runs, asked, answers>>

Next ==
  \/ \E r \in Requests :
       Asks(r) \/ Commits(r) \/ Answers(r) \/ Aborts(r) \/ MeetsDuplicate(r) \/ Dies(r)
  \/ \E n \in Nonces : NonceExpires(n) \/ \E w \in Wallets : IssuesNonce(n, w)
  \/ Plays

Spec == Init /\ [][Next]_vars

-----------------------------------------------------------------------------
(* Properties *)

Table(room) == {s \in seats : s.room = room}
Chips(table) == SumFunctionOnSet([s \in table |-> s.stack], table)
Stakes(room) == Chips(Table(room))

\* No interleaving of requests, aborts and retries overdraws an account, in
\* one room or across rooms, and a table's account always holds exactly what
\* lies on the table: the "completed buy-ins minus completed cash-outs".
FundsKept ==
  /\ \A account \in Guests \cup Rooms \cup {Elsewhere} : Balance(postings, account) >= 0
  /\ \A room \in Rooms : Balance(postings, room) = Stakes(room)

\* A nonce opens at most one session, and that for the address it was issued
\* to: not even two verifications at once, or one after an answer was lost,
\* get two out of it.
NonceOnce ==
  \A s, t \in sessions :
    s.by # NoOp =>
      /\ nonces[s.by] = [address |-> s.who, state |-> "consumed"]
      /\ s.by = t.by => s = t

\* Whoever is told that a request succeeded finds it done as asked for, also
\* when another request under the same name, nonce or reference was first.
DoneAsAsked ==
  \A op \in answers :
    /\ op.kind = "guest" => Grant(op.who) \in postings
    /\ op.kind = "login" => \E s \in sessions : s.who = op.who /\ s.by = op.nonce
    /\ op.kind = "join" => \E t \in postings : t.from = op.who /\ t.to = op.room
    /\ op.kind = "post" => Transfer(op) \in postings
=============================================================================
