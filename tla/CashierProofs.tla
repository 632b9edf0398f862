---------------------------- MODULE CashierProofs ----------------------------
(***************************************************************************)
(* For any number of guests, wallets, rooms, requests and attempts: a      *)
(* nonce opens at most one session, a request is answered with success     *)
(* only for what was done, and no account is overdrawn while the account   *)
(* of each room holds what lies on its table.  The argument is the same    *)
(* for all: what a commit relies on still holds (serializable isolation),  *)
(* and what an answer without a write relies on never goes away (rows of   *)
(* the ledger and sessions are only added).                                *)
(***************************************************************************)
EXTENDS Cashier, FiniteSums, TLAPS

NonceStates == [address : Wallets, state : {"issued", "consumed", "expired"}]

\* A request under way remembers an operation, what it read and its tries.
RunShape(run) ==
  /\ DOMAIN run = {"op", "read", "tries"}
  /\ run.op.kind \in {"guest", "login", "join", "leave", "post"}
  /\ run.op.kind = "login" => run.op.nonce \in Nonces /\ run.op.who \in Wallets

RunsShape ==
  /\ runs = [r \in Requests |-> runs[r]]
  /\ \A r \in Requests : runs[r] # NoOp => RunShape(runs[r])

NoncesInv ==
  /\ nonces \in [Nonces -> NonceStates \cup {NoOp}]
  /\ \A s \in sessions : s.by # NoOp => s.by \in Nonces /\ s.who \in Wallets
  /\ NonceOnce

Bought(who, room) == \E t \in postings : t.from = who /\ t.to = room

SeatsPaid ==
  \A s \in seats : DOMAIN s = {"who", "room", "stack", "id"} /\ Bought(s.who, s.room)

\* What a request has read of rows that are never taken away.
ReadStays(run) ==
  /\ run.op.kind = "join" /\ run.read.seat # {} => Bought(run.op.who, run.op.room)
  /\ run.op.kind = "post" => run.read.found \subseteq postings

ReadsStay == \A r \in Requests : runs[r] # NoOp => ReadStays(runs[r])

CashierInv == RunsShape /\ NoncesInv /\ SeatsPaid /\ ReadsStay /\ DoneAsAsked

\* A success names something that was done.
Done(op) ==
  /\ op.kind = "guest" => Grant(op.who) \in postings
  /\ op.kind = "login" => \E s \in sessions : s.who = op.who /\ s.by = op.nonce
  /\ op.kind = "join" => Bought(op.who, op.room)
  /\ op.kind = "post" => Transfer(op) \in postings

-----------------------------------------------------------------------------
(* The initial state *)

LEMMA InitInv == Init => CashierInv
<1> SUFFICES ASSUME Init PROVE CashierInv
  OBVIOUS
<1>1. RunsShape
  BY DEF Init, RunsShape
<1>2. NoncesInv
  BY DEF Init, NoncesInv, NonceOnce
<1>3. SeatsPaid
  BY DEF Init, SeatsPaid
<1>4. ReadsStay
  BY DEF Init, ReadsStay
<1>5. DoneAsAsked
  BY DEF Init, DoneAsAsked
<1> QED BY <1>1, <1>2, <1>3, <1>4, <1>5 DEF CashierInv

-----------------------------------------------------------------------------
(* Lemmas: what the requests rely on *)

\* DoneAsAsked in terms of Done.
LEMMA DoneDef == DoneAsAsked <=> \A op \in answers : Done(op)
BY DEF DoneAsAsked, Done, Bought

\* Rows that are only added: what was done stays done, and what was read and
\* is relied on stays true.
LEMMA RowsGrow ==
  ASSUME postings \subseteq postings', sessions \subseteq sessions'
  PROVE  /\ \A op : Done(op) => Done(op)'
         /\ \A run : ReadStays(run) => ReadStays(run)'
         /\ \A who, room : Bought(who, room) => Bought(who, room)'
<1>1. \A who, room : Bought(who, room) => Bought(who, room)'
  BY DEF Bought
<1>2. \A op : Done(op) => Done(op)'
  BY <1>1 DEF Done
<1>3. \A run : ReadStays(run) => ReadStays(run)'
  BY <1>1 DEF ReadStays
<1> QED BY <1>1, <1>2, <1>3

\* What a transaction reads has the shape the invariant asks for.
LEMMA ReadsAreTrue ==
  ASSUME SeatsPaid, NEW op, NEW tries
  PROVE  ReadStays([op |-> op, read |-> Reads(op), tries |-> tries])
<1> DEFINE run == [op |-> op, read |-> Reads(op), tries |-> tries]
<1>1. ASSUME op.kind = "join", Reads(op).seat # {}
      PROVE  Bought(op.who, op.room)
  <2>1. Reads(op).seat = SeatsOf(op)
    BY <1>1 DEF Reads
  <2> QED BY <1>1, <2>1 DEF SeatsOf, SeatsPaid
<1>2. ASSUME op.kind = "post"
      PROVE  Reads(op).found \subseteq postings
  BY <1>2 DEF Reads, WithReference
<1>3. run.op = op /\ run.read = Reads(op)
  OBVIOUS
<1> QED BY <1>1, <1>2, <1>3 DEF ReadStays

\* One request moves on, or ends; the rows only grow.
LEMMA RunMoves ==
  ASSUME RunsShape, ReadsStay,
         postings \subseteq postings', sessions \subseteq sessions',
         NEW r \in Requests, NEW run,
         runs' = [runs EXCEPT ![r] = run],
         run # NoOp => RunShape(run) /\ ReadStays(run)
  PROVE  RunsShape' /\ ReadsStay'
<1>1. /\ runs' = [q \in Requests |-> runs'[q]]
      /\ \A q \in Requests : runs'[q] = IF q = r THEN run ELSE runs[q]
  BY DEF RunsShape
<1>2. \A q \in Requests : runs'[q] # NoOp => RunShape(runs'[q])
  BY <1>1 DEF RunsShape
<1>3. ASSUME NEW q \in Requests, runs'[q] # NoOp
      PROVE  ReadStays(runs[q])'
  <2>1. CASE q = r
    BY <1>1, <1>3, <2>1 DEF ReadStays, Bought
  <2>2. CASE q # r
    BY <1>1, <1>3, <2>2 DEF ReadsStay, ReadStays, Bought
  <2> QED BY <2>1, <2>2
<1>4. RunsShape'
  BY <1>1, <1>2 DEF RunsShape, RunShape
<1>5. ReadsStay'
  BY <1>3 DEF ReadsStay
<1> QED BY <1>4, <1>5

\* A success is answered only for what is done by then.
LEMMA AnswerIsTrue ==
  ASSUME DoneAsAsked, postings \subseteq postings', sessions \subseteq sessions',
         NEW op, answers' \subseteq answers \cup {op}, op \in answers' => Done(op)'
  PROVE  DoneAsAsked'
<1>1. \A o \in answers' : Done(o)'
  BY DoneDef, RowsGrow
<1> QED BY <1>1 DEF DoneAsAsked, Done, Bought

LEMMA AnswersStay ==
  ASSUME DoneAsAsked, postings \subseteq postings', sessions \subseteq sessions',
         UNCHANGED answers
  PROVE  DoneAsAsked'
<1>1. \A o \in answers' : Done(o)'
  BY DoneDef, RowsGrow
<1> QED BY <1>1 DEF DoneAsAsked, Done, Bought

\* Nothing about the nonces and seats changes.
LEMMA RowsUnchanged ==
  ASSUME NoncesInv, SeatsPaid, UNCHANGED rows
  PROVE  NoncesInv' /\ SeatsPaid' /\ postings \subseteq postings' /\ sessions \subseteq sessions'
BY DEF rows, NoncesInv, NonceOnce, SeatsPaid, Bought

-----------------------------------------------------------------------------
(* The steps *)

LEMMA OperationShape ==
  ASSUME NEW op \in Operations
  PROVE  /\ op.kind \in {"guest", "login", "join", "leave", "post"}
         /\ op.kind = "login" => op.nonce \in Nonces /\ op.who \in Wallets
BY DEF Operations, GuestOp, LoginOp, JoinOp, LeaveOp, PostOp

LEMMA AsksInv ==
  ASSUME CashierInv, NEW r \in Requests, Asks(r)
  PROVE  CashierInv'
<1>1. PICK op \in Operations :
        runs' = [runs EXCEPT ![r] = [op |-> op, read |-> Reads(op), tries |-> MaxAttempts]]
  BY DEF Asks
<1> DEFINE run == [op |-> op, read |-> Reads(op), tries |-> MaxAttempts]
<1>2. RunShape(run)
  BY OperationShape DEF RunShape
<1>3. ReadStays(run)
  BY ReadsAreTrue DEF CashierInv
<1>4. NoncesInv' /\ SeatsPaid' /\ postings \subseteq postings' /\ sessions \subseteq sessions'
  BY RowsUnchanged DEF CashierInv, Asks
<1> HIDE DEF run
<1>5. RunsShape' /\ ReadsStay'
  BY <1>1, <1>2, <1>3, <1>4, RunMoves DEF CashierInv, run
<1>6. DoneAsAsked'
  BY <1>4, AnswersStay DEF CashierInv, Asks
<1> QED BY <1>4, <1>5, <1>6 DEF CashierInv

\* A request ends without a write; op is its operation if that is a success.
LEMMA EndsInv ==
  ASSUME CashierInv, NEW r \in Requests, Ends(r), UNCHANGED rows,
         NEW op, answers' \subseteq answers \cup {op}, op \in answers' => Done(op)
  PROVE  CashierInv'
<1>1. NoncesInv' /\ SeatsPaid' /\ postings \subseteq postings' /\ sessions \subseteq sessions'
  BY RowsUnchanged DEF CashierInv
<1>2. RunsShape' /\ ReadsStay'
  BY <1>1, RunMoves DEF CashierInv, Ends
<1>3. Done(op) => Done(op)'
  BY <1>1, RowsGrow
<1>4. DoneAsAsked'
  BY <1>1, <1>3, AnswerIsTrue DEF CashierInv
<1> QED BY <1>1, <1>2, <1>4 DEF CashierInv

\* An answer without a write is a success only if what was read shows it.
LEMMA AnswersInv ==
  ASSUME CashierInv, NEW r \in Requests, Answers(r)
  PROVE  CashierInv'
<1>1. PICK op, read : op = runs[r].op /\ read = runs[r].read
  OBVIOUS
<1>2. /\ op.kind \in {"guest", "login", "join", "leave", "post"}
      /\ op.kind = "join" /\ read.seat # {} => Bought(op.who, op.room)
      /\ op.kind = "post" => read.found \subseteq postings
  BY <1>1 DEF Answers, CashierInv, RunsShape, RunShape, ReadsStay, ReadStays
<1>3. Outcome(op, read) = "done" => Done(op)
  <2>1. CASE op.kind = "guest"
    BY <2>1 DEF Outcome, GuestOutcome, Done
  <2>2. CASE op.kind = "login"
    BY <2>2 DEF Outcome, LoginOutcome, Done
  <2>3. CASE op.kind = "join"
    BY <2>3, <1>2 DEF Outcome, JoinOutcome, Done
  <2>4. CASE op.kind = "leave"
    BY <2>4 DEF Done
  <2>5. CASE op.kind = "post"
    BY <2>5, <1>2 DEF Outcome, PostOutcome, Matches, Done
  <2> QED BY <1>2, <2>1, <2>2, <2>3, <2>4, <2>5
<1>4. /\ Ends(r) /\ UNCHANGED rows
      /\ answers' \subseteq answers \cup {op}
      /\ op \in answers' => op \in answers \/ Outcome(op, read) = "done"
  BY <1>1 DEF Answers, Decided, Succeeds
<1>5. op \in answers' => Done(op)
  BY <1>3, <1>4, DoneDef DEF CashierInv
<1> QED BY <1>4, <1>5, EndsInv

\* P2034: the request reads again, or is given up.
LEMMA AbortsInv ==
  ASSUME CashierInv, NEW r \in Requests, Aborts(r)
  PROVE  CashierInv'
<1>1. CASE Ends(r)
  <2>1. UNCHANGED rows /\ UNCHANGED answers
    BY DEF Aborts
  <2>2. \A op : answers' \subseteq answers \cup {op} /\ (op \in answers' => Done(op))
    BY <2>1, DoneDef DEF CashierInv
  <2> QED BY <1>1, <2>1, <2>2, EndsInv
<1>2. CASE runs' = [runs EXCEPT ![r].tries = @ - 1, ![r].read = Reads(runs[r].op)]
  <2>1. PICK run : run = [runs[r] EXCEPT !.tries = @ - 1, !.read = Reads(runs[r].op)]
    OBVIOUS
  <2>2. PICK op : op = runs[r].op
    OBVIOUS
  <2>3. runs[r] # NoOp /\ RunShape(runs[r])
    BY DEF Aborts, CashierInv, RunsShape
  <2>4. /\ DOMAIN run = {"op", "read", "tries"}
        /\ run.op = op /\ run.read = Reads(op)
    BY <2>1, <2>2, <2>3 DEF RunShape
  <2>5. RunShape(run)
    BY <2>2, <2>3, <2>4 DEF RunShape
  <2>6. ReadStays(run)
    <3>1. ReadStays([op |-> op, read |-> Reads(op), tries |-> 0])
      BY ReadsAreTrue DEF CashierInv
    <3> QED BY <2>4, <3>1 DEF ReadStays
  <2>7. runs' = [runs EXCEPT ![r] = run]
    BY <1>2, <2>1
  <2>8. NoncesInv' /\ SeatsPaid' /\ postings \subseteq postings' /\ sessions \subseteq sessions'
    BY RowsUnchanged DEF CashierInv, Aborts
  <2>9. RunsShape' /\ ReadsStay'
    BY <2>5, <2>6, <2>7, <2>8, RunMoves DEF CashierInv
  <2>10. DoneAsAsked'
    BY <2>8, AnswersStay DEF CashierInv, Aborts
  <2> QED BY <2>8, <2>9, <2>10 DEF CashierInv
<1> QED BY <1>1, <1>2 DEF Aborts

\* P2002: a posting or a leave succeeds only if the row that was first is the
\* one it asked for.
LEMMA MeetsDuplicateInv ==
  ASSUME CashierInv, NEW r \in Requests, MeetsDuplicate(r)
  PROVE  CashierInv'
<1>1. PICK op : op = runs[r].op
  OBVIOUS
<1>2. /\ Ends(r) /\ UNCHANGED rows
      /\ answers' \subseteq answers \cup {op}
      /\ op \in answers' =>
           \/ op \in answers
           \/ op.kind = "post" /\ Matches(Reads(op).found, Transfer(op))
           \/ op.kind = "leave"
  BY <1>1 DEF MeetsDuplicate, Succeeds
<1>3. op.kind = "post" /\ Matches(Reads(op).found, Transfer(op)) => Done(op)
  BY DEF Reads, WithReference, Matches, Done
<1>4. op.kind = "leave" => Done(op)
  BY DEF Done
<1>5. op \in answers' => Done(op)
  BY <1>2, <1>3, <1>4, DoneDef DEF CashierInv
<1> QED BY <1>2, <1>5, EndsInv

LEMMA DiesInv ==
  ASSUME CashierInv, NEW r \in Requests, Dies(r)
  PROVE  CashierInv'
<1>1. \A op : answers' \subseteq answers \cup {op} /\ (op \in answers' => Done(op))
  BY DoneDef DEF CashierInv, Dies
<1> QED BY <1>1, EndsInv DEF Dies

\* What a commit writes: rows are added, the nonce of a login is consumed with
\* its session, a seat comes with its posting, and what was asked is done.
LEMMA WritesKeep ==
  ASSUME NoncesInv, SeatsPaid, NEW op, NEW read,
         op.kind = "login" => op.nonce \in Nonces /\ op.who \in Wallets,
         Reads(op) = read, Outcome(op, read) = "writes", Writes(op, read)
  PROVE  /\ NoncesInv' /\ SeatsPaid' /\ Done(op)'
         /\ postings \subseteq postings' /\ sessions \subseteq sessions'
<1>1. CASE WritesGuest(op)
  <2>1. /\ nonces' = nonces /\ seats' = seats /\ op.kind = "guest"
        /\ postings' = postings \cup {Grant(op.who)}
        /\ sessions' = sessions \cup {Session(op.who, NoOp)}
    BY <1>1 DEF WritesGuest
  <2>2. Session(op.who, NoOp).by = NoOp
    BY DEF Session
  <2>3. NoncesInv'
    BY <2>1, <2>2 DEF NoncesInv, NonceOnce
  <2>4. SeatsPaid'
    BY <2>1 DEF SeatsPaid, Bought
  <2>5. Done(op)'
    BY <2>1 DEF Done, Grant
  <2> QED BY <2>1, <2>3, <2>4, <2>5
<1>2. CASE WritesLogin(op)
  <2>1. /\ seats' = seats /\ postings' = postings /\ op.kind = "login"
        /\ nonces' = [nonces EXCEPT ![op.nonce].state = "consumed"]
        /\ sessions' = sessions \cup {Session(op.who, op.nonce)}
    BY <1>2 DEF WritesLogin
  <2>2. nonces[op.nonce] = [address |-> op.who, state |-> "issued"]
    BY <2>1 DEF Reads, Outcome, LoginOutcome, NonceUsable
  <2>3. op.nonce \in Nonces /\ op.who \in Wallets
    BY <2>1
  <2>4. /\ nonces' \in [Nonces -> NonceStates \cup {NoOp}]
        /\ nonces'[op.nonce] = [address |-> op.who, state |-> "consumed"]
        /\ \A n \in Nonces : n # op.nonce => nonces'[n] = nonces[n]
    BY <2>1, <2>2, <2>3 DEF NoncesInv, NonceStates
  <2>5. Session(op.who, op.nonce).by = op.nonce /\ Session(op.who, op.nonce).who = op.who
    BY DEF Session
  \* Before this commit no session had this nonce.
  <2>6. \A s \in sessions : s.by # NoOp => s.by # op.nonce
    <3>1. ASSUME NEW s \in sessions, s.by # NoOp
          PROVE  s.by # op.nonce
      <4>1. nonces[s.by] = [address |-> s.who, state |-> "consumed"]
        BY <3>1 DEF NoncesInv, NonceOnce
      <4>2. nonces[s.by].state = "consumed"
        BY <4>1
      <4>3. nonces[op.nonce].state = "issued"
        BY <2>2
      <4> QED BY <4>2, <4>3
    <3> QED BY <3>1
  <2>7. NonceOnce'
    BY <2>1, <2>4, <2>5, <2>6 DEF NoncesInv, NonceOnce
  <2>8. NoncesInv'
    BY <2>1, <2>3, <2>4, <2>5, <2>7 DEF NoncesInv
  <2>9. SeatsPaid'
    BY <2>1 DEF SeatsPaid, Bought
  <2>10. Done(op)'
    BY <2>1, <2>5 DEF Done
  <2> QED BY <2>1, <2>8, <2>9, <2>10
<1>3. CASE WritesJoin(op)
  <2>1. /\ nonces' = nonces /\ sessions' = sessions /\ op.kind = "join"
        /\ seats' = seats \cup {[who |-> op.who, room |-> op.room, stack |-> BuyIn, id |-> FreshId]}
        /\ postings' = postings \cup {SeatBought(op, FreshId)}
    BY <1>3 DEF WritesJoin
  <2>2. Bought(op.who, op.room)'
    <3>1. SeatBought(op, FreshId).from = op.who /\ SeatBought(op, FreshId).to = op.room
      BY DEF SeatBought, Posting
    <3>2. SeatBought(op, FreshId) \in postings'
      BY <2>1
    <3> QED BY <3>1, <3>2 DEF Bought
  <2>3. NoncesInv'
    BY <2>1 DEF NoncesInv, NonceOnce
  <2>4. SeatsPaid'
    BY <2>1, <2>2 DEF SeatsPaid, Bought
  <2>5. Done(op)'
    BY <2>1, <2>2 DEF Done
  <2> QED BY <2>1, <2>3, <2>4, <2>5
<1>4. CASE WritesLeave(op, read)
  <2>1. /\ nonces' = nonces /\ sessions' = sessions /\ op.kind = "leave"
        /\ seats' \subseteq seats /\ postings \subseteq postings'
    BY <1>4 DEF WritesLeave
  <2>2. NoncesInv'
    BY <2>1 DEF NoncesInv, NonceOnce
  <2>3. SeatsPaid'
    BY <2>1 DEF SeatsPaid, Bought
  <2>4. Done(op)'
    BY <2>1 DEF Done
  <2> QED BY <2>1, <2>2, <2>3, <2>4
<1>5. CASE WritesPost(op)
  <2>1. /\ nonces' = nonces /\ sessions' = sessions /\ seats' = seats /\ op.kind = "post"
        /\ postings' = postings \cup {Transfer(op)}
    BY <1>5 DEF WritesPost
  <2>2. NoncesInv'
    BY <2>1 DEF NoncesInv, NonceOnce
  <2>3. SeatsPaid'
    BY <2>1 DEF SeatsPaid, Bought
  <2>4. Done(op)'
    BY <2>1 DEF Done, Transfer
  <2> QED BY <2>1, <2>2, <2>3, <2>4
<1> QED BY <1>1, <1>2, <1>3, <1>4, <1>5 DEF Writes

LEMMA CommitsInv ==
  ASSUME CashierInv, NEW r \in Requests, Commits(r)
  PROVE  CashierInv'
<1>1. PICK op, read : op = runs[r].op /\ read = runs[r].read
  OBVIOUS
<1>2. /\ Reads(op) = read /\ Outcome(op, read) = "writes" /\ Writes(op, read)
      /\ runs' = [runs EXCEPT ![r] = NoOp]
      /\ answers' \subseteq answers \cup {op}
  BY <1>1 DEF Commits, StillHolds, Decided, Succeeds, Ends
<1>3. op.kind = "login" => op.nonce \in Nonces /\ op.who \in Wallets
  BY <1>1 DEF Commits, CashierInv, RunsShape, RunShape
<1>4. /\ NoncesInv' /\ SeatsPaid' /\ Done(op)'
      /\ postings \subseteq postings' /\ sessions \subseteq sessions'
  BY <1>2, <1>3, WritesKeep DEF CashierInv
<1>5. RunsShape' /\ ReadsStay'
  BY <1>2, <1>4, RunMoves DEF CashierInv
<1>6. DoneAsAsked'
  BY <1>2, <1>4, AnswerIsTrue DEF CashierInv
<1> QED BY <1>4, <1>5, <1>6 DEF CashierInv

LEMMA IssuesNonceInv ==
  ASSUME CashierInv, NEW n \in Nonces, NEW w \in Wallets, IssuesNonce(n, w)
  PROVE  CashierInv'
<1>1. /\ nonces[n] = NoOp
      /\ nonces' = [nonces EXCEPT ![n] = [address |-> w, state |-> "issued"]]
      /\ UNCHANGED <<sessions, seats, postings, runs, answers>>
  BY DEF IssuesNonce
<1>2. nonces' \in [Nonces -> NonceStates \cup {NoOp}]
  BY <1>1 DEF CashierInv, NoncesInv, NonceStates
\* A nonce that is not issued has opened no session.
<1>3. \A s \in sessions : s.by # NoOp => s.by # n
  <2>1. ASSUME NEW s \in sessions, s.by # NoOp, s.by = n
        PROVE  FALSE
    <3>1. NoOp = [address |-> s.who, state |-> "consumed"]
      BY <1>1, <2>1 DEF CashierInv, NoncesInv, NonceOnce
    <3>2. n \in Nonces /\ nonces[n] \in NonceStates \cup {NoOp}
      BY DEF CashierInv, NoncesInv
    <3>3. s.who \in Wallets
      BY <2>1 DEF CashierInv, NoncesInv
    <3> QED BY <3>1, <3>3, CashierAssumption
  <2> QED BY <2>1
<1>4. NoncesInv'
  BY <1>1, <1>2, <1>3 DEF CashierInv, NoncesInv, NonceOnce
<1>5. RunsShape' /\ ReadsStay' /\ SeatsPaid' /\ DoneAsAsked'
  BY <1>1 DEF CashierInv, RunsShape, ReadsStay, ReadStays, SeatsPaid, Bought, DoneAsAsked
<1> QED BY <1>4, <1>5 DEF CashierInv

LEMMA NonceExpiresInv ==
  ASSUME CashierInv, NEW n \in Nonces, NonceExpires(n)
  PROVE  CashierInv'
<1>1. /\ nonces[n] # NoOp /\ nonces[n].state = "issued"
      /\ nonces' = [nonces EXCEPT ![n].state = "expired"]
      /\ UNCHANGED <<sessions, seats, postings, runs, answers>>
  BY DEF NonceExpires
<1>2. nonces[n] \in NonceStates
  BY <1>1 DEF CashierInv, NoncesInv
<1>3. nonces' \in [Nonces -> NonceStates \cup {NoOp}]
  BY <1>1, <1>2 DEF CashierInv, NoncesInv, NonceStates
\* A nonce that is still issued has opened no session.
<1>4. \A s \in sessions : s.by # NoOp => s.by # n
  <2>1. ASSUME NEW s \in sessions, s.by # NoOp, s.by = n
        PROVE  FALSE
    <3>1. nonces[n] = [address |-> s.who, state |-> "consumed"]
      BY <2>1 DEF CashierInv, NoncesInv, NonceOnce
    <3> QED BY <1>1, <3>1
  <2> QED BY <2>1
<1>5. NoncesInv'
  BY <1>1, <1>3, <1>4 DEF CashierInv, NoncesInv, NonceOnce
<1>6. RunsShape' /\ ReadsStay' /\ SeatsPaid' /\ DoneAsAsked'
  BY <1>1 DEF CashierInv, RunsShape, ReadsStay, ReadStays, SeatsPaid, Bought, DoneAsAsked
<1> QED BY <1>5, <1>6 DEF CashierInv

\* Chips change hands at a table; every seat stays one that was paid for.
LEMMA PlaysInv ==
  ASSUME CashierInv, Plays
  PROVE  CashierInv'
<1>1. UNCHANGED <<nonces, sessions, postings, runs, answers>>
  BY DEF Plays
<1>2. PICK s \in seats, t \in seats :
        seats' = (seats \ {s, t}) \cup {[s EXCEPT !.stack = @ - 1], [t EXCEPT !.stack = @ + 1]}
  BY DEF Plays
<1>3. ASSUME NEW x \in seats, NEW n
      PROVE  LET y == [x EXCEPT !.stack = n] IN
               DOMAIN y = {"who", "room", "stack", "id"} /\ y.who = x.who /\ y.room = x.room
  BY DEF CashierInv, SeatsPaid
<1>4. SeatsPaid'
  BY <1>1, <1>2, <1>3 DEF CashierInv, SeatsPaid, Bought
<1>5. NoncesInv' /\ RunsShape' /\ ReadsStay' /\ DoneAsAsked'
  BY <1>1 DEF CashierInv, NoncesInv, NonceOnce, RunsShape, ReadsStay, ReadStays, Bought, DoneAsAsked
<1> QED BY <1>4, <1>5 DEF CashierInv

-----------------------------------------------------------------------------
(* Theorems *)

LEMMA NextInv == CashierInv /\ [Next]_vars => CashierInv'
<1> SUFFICES ASSUME CashierInv, [Next]_vars
             PROVE  CashierInv'
  OBVIOUS
<1>1. CASE UNCHANGED vars
  BY <1>1 DEF vars, rows, CashierInv, NoncesInv, NonceOnce, RunsShape, SeatsPaid, Bought,
              ReadsStay, ReadStays, DoneAsAsked
<1>2. ASSUME NEW r \in Requests, Asks(r) PROVE CashierInv'
  BY <1>2, AsksInv
<1>3. ASSUME NEW r \in Requests, Commits(r) PROVE CashierInv'
  BY <1>3, CommitsInv
<1>4. ASSUME NEW r \in Requests, Answers(r) PROVE CashierInv'
  BY <1>4, AnswersInv
<1>5. ASSUME NEW r \in Requests, Aborts(r) PROVE CashierInv'
  BY <1>5, AbortsInv
<1>6. ASSUME NEW r \in Requests, MeetsDuplicate(r) PROVE CashierInv'
  BY <1>6, MeetsDuplicateInv
<1>7. ASSUME NEW r \in Requests, Dies(r) PROVE CashierInv'
  BY <1>7, DiesInv
<1>8. ASSUME NEW n \in Nonces, NonceExpires(n) PROVE CashierInv'
  BY <1>8, NonceExpiresInv
<1>9. ASSUME NEW n \in Nonces, NEW w \in Wallets, IssuesNonce(n, w) PROVE CashierInv'
  BY <1>9, IssuesNonceInv
<1>10. CASE Plays
  BY <1>10, PlaysInv
<1> QED
  BY <1>1, <1>2, <1>3, <1>4, <1>5, <1>6, <1>7, <1>8, <1>9, <1>10 DEF Next

\* The inductive invariant of the cashier holds in every reachable state.
THEOREM CashierInvariant == Spec => []CashierInv
BY InitInv, NextInv, PTL DEF Spec

\* A nonce opens at most one session, for the address it was issued to,
\* whatever verifications, aborts and lost answers interleave
\* (consumeWalletNonceAndCreateSession).
THEOREM NoncesOpenOneSession == Spec => []NonceOnce
<1>1. CashierInv => NonceOnce
  BY DEF CashierInv, NoncesInv
<1> QED BY <1>1, CashierInvariant, PTL

\* Success is only ever answered for what was done as it was asked for, also
\* under duplicates, retries and lost answers (postTransactionWithSource,
\* claimTableSeat, verify, createOrReuse).
THEOREM SuccessesAreTrue == Spec => []DoneAsAsked
<1>1. CashierInv => DoneAsAsked
  BY DEF CashierInv
<1> QED BY <1>1, CashierInvariant, PTL

-----------------------------------------------------------------------------
(* The money.  What a commit has read still holds, so the proof looks at    *)
(* rows only, and of a request only at the operation.                       *)

Askable ==
  {GuestOp(g) : g \in Guests}
    \cup {LoginOp(w, n) : w \in Wallets, n \in Nonces}
    \cup {JoinOp(g, room) : g \in Guests, room \in Rooms}
    \cup {LeaveOp(g, room, a) : g \in Guests, room \in Rooms, a \in Actions}
    \cup {PostOp(g, ref, m) : g \in Guests, ref \in References, m \in Amounts}

AskedInv == \A r \in Requests : runs[r] # NoOp => runs[r].op \in Askable

PostingsInv == IsFiniteSet(postings) /\ \A t \in postings : t.amount \in Nat

SeatRecords == [who : Guests, room : Rooms, stack : Nat, id : Nat]

\* One seat of a guest in a room, and one under an id.
SeatsInv ==
  /\ IsFiniteSet(seats) /\ seats \subseteq SeatRecords
  /\ \A s, t \in seats : (s.who = t.who /\ s.room = t.room) \/ s.id = t.id => s = t

\* The next id is that of no posting, and a seat on the table is not cashed out.
IdsInv ==
  /\ \A t \in postings, n \in Nat : t.ref \in {<<"buy-in", n>>, <<"cash-out", n>>} => n < FreshId
  /\ \A s \in seats : s.id < FreshId /\ \A t \in postings : t.ref # <<"cash-out", s.id>>

RowsInv == PostingsInv /\ SeatsInv /\ IdsInv /\ FundsKept

MoneyInv == AskedInv /\ RowsInv

-----------------------------------------------------------------------------
(* Lemmas about balances and stakes *)

LEMMA TotalAdded ==
  ASSUME NEW P, IsFiniteSet(P), NEW p, p \notin P, \A t \in P \cup {p} : t.amount \in Nat
  PROVE  Total(P \cup {p}) = p.amount + Total(P) /\ Total(P) \in Nat
<1> DEFINE f == [t \in P |-> t.amount]
           g == [t \in P \cup {p} |-> t.amount]
<1>1. \A t \in P : f[t] = g[t] /\ f[t] \in Nat
  OBVIOUS
<1>2. \A t \in P \cup {p} : g[t] \in Nat
  OBVIOUS
<1>3. g[p] = p.amount
  OBVIOUS
<1>4. Total(P \cup {p}) = SumFunctionOnSet(g, P \cup {p}) /\ Total(P) = SumFunctionOnSet(f, P)
  BY DEF Total
<1> HIDE DEF f, g
<1>5. SumFunctionOnSet(g, P \cup {p}) = g[p] + SumFunctionOnSet(g, P)
  BY <1>2, SumAdded
<1>6. SumFunctionOnSet(f, P) = SumFunctionOnSet(g, P)
  BY <1>1, SumSame
<1>7. SumFunctionOnSet(f, P) \in Nat
  BY <1>1, SumNatural
<1> QED
  BY <1>3, <1>4, <1>5, <1>6, <1>7

LEMMA BalanceWhole ==
  ASSUME PostingsInv, NEW account
  PROVE  Balance(postings, account) \in Int
<1>1. ASSUME NEW P \in SUBSET postings PROVE Total(P) \in Nat
  <2>1. IsFiniteSet(P) /\ \A t \in P : [u \in P |-> u.amount][t] \in Nat
    BY FS_Subset DEF PostingsInv
  <2> QED
    BY <2>1, SumNatural DEF Total
<1> QED
  BY <1>1 DEF Balance

\* A posting that is new moves its amount.
LEMMA BalanceMoved ==
  ASSUME NEW P, IsFiniteSet(P), NEW p, p \notin P, \A t \in P \cup {p} : t.amount \in Nat,
         p.from # p.to, NEW account
  PROVE  /\ Balance(P, account) \in Int
         /\ account = p.to => Balance(P \cup {p}, account) = Balance(P, account) + p.amount
         /\ account = p.from => Balance(P \cup {p}, account) = Balance(P, account) - p.amount
         /\ account \notin {p.from, p.to} => Balance(P \cup {p}, account) = Balance(P, account)
<1> DEFINE In(Q) == {t \in Q : t.to = account}
           Out(Q) == {t \in Q : t.from = account}
<1>1. /\ IsFiniteSet(In(P)) /\ IsFiniteSet(Out(P))
      /\ p \notin In(P) /\ p \notin Out(P)
      /\ \A t \in In(P) \cup {p} : t.amount \in Nat
      /\ \A t \in Out(P) \cup {p} : t.amount \in Nat
  BY FS_Subset
<1>2. /\ In(P \cup {p}) = IF p.to = account THEN In(P) \cup {p} ELSE In(P)
      /\ Out(P \cup {p}) = IF p.from = account THEN Out(P) \cup {p} ELSE Out(P)
  OBVIOUS
<1>3. \A Q : Balance(Q, account) = Total(In(Q)) - Total(Out(Q))
  BY DEF Balance
<1> HIDE DEF In, Out
<1>4. Total(In(P) \cup {p}) = p.amount + Total(In(P)) /\ Total(In(P)) \in Nat
  BY <1>1, TotalAdded
<1>5. Total(Out(P) \cup {p}) = p.amount + Total(Out(P)) /\ Total(Out(P)) \in Nat
  BY <1>1, TotalAdded
<1>6. p.amount \in Nat
  OBVIOUS
<1> QED
  BY <1>2, <1>3, <1>4, <1>5, <1>6

LEMMA ChipsAdded ==
  ASSUME NEW S, IsFiniteSet(S), NEW s, s \notin S, \A t \in S \cup {s} : t.stack \in Nat
  PROVE  Chips(S \cup {s}) = s.stack + Chips(S) /\ Chips(S) \in Nat
<1> DEFINE f == [t \in S |-> t.stack]
           g == [t \in S \cup {s} |-> t.stack]
<1>1. \A t \in S : f[t] = g[t] /\ f[t] \in Nat
  OBVIOUS
<1>2. \A t \in S \cup {s} : g[t] \in Nat
  OBVIOUS
<1>3. g[s] = s.stack
  OBVIOUS
<1>4. Chips(S \cup {s}) = SumFunctionOnSet(g, S \cup {s}) /\ Chips(S) = SumFunctionOnSet(f, S)
  BY DEF Chips
<1> HIDE DEF f, g
<1>5. SumFunctionOnSet(g, S \cup {s}) = g[s] + SumFunctionOnSet(g, S)
  BY <1>2, SumAdded
<1>6. SumFunctionOnSet(f, S) = SumFunctionOnSet(g, S)
  BY <1>1, SumSame
<1>7. SumFunctionOnSet(f, S) \in Nat
  BY <1>1, SumNatural
<1> QED
  BY <1>3, <1>4, <1>5, <1>6, <1>7

\* The stakes of a table with a seat, and without it.
LEMMA StakesOfSeat ==
  ASSUME SeatsInv, NEW s \in seats, NEW table, table \subseteq seats, s \in table
  PROVE  Chips(table) = s.stack + Chips(table \ {s}) /\ Chips(table \ {s}) \in Nat
<1>1. IsFiniteSet(table \ {s}) /\ s \notin table \ {s} /\ (table \ {s}) \cup {s} = table
  BY FS_Subset DEF SeatsInv
<1>2. \A t \in table : t.stack \in Nat
  BY DEF SeatsInv, SeatRecords
<1> QED
  BY <1>1, <1>2, ChipsAdded

\* What it means for the books that a new posting is written.
LEMMA Posted ==
  ASSUME RowsInv, NEW p, p \notin postings, p.amount \in Nat, p.from # p.to,
         postings' = postings \cup {p}
  PROVE  /\ PostingsInv' /\ FreshId \in Nat /\ FreshId' = FreshId + 1
         /\ \A account :
              /\ Balance(postings, account) \in Int
              /\ account = p.to => Balance(postings', account) = Balance(postings, account) + p.amount
              /\ account = p.from => Balance(postings', account) = Balance(postings, account) - p.amount
              /\ account \notin {p.from, p.to} => Balance(postings', account) = Balance(postings, account)
<1>1. IsFiniteSet(postings) /\ \A t \in postings \cup {p} : t.amount \in Nat
  BY DEF RowsInv, PostingsInv
<1>2. IsFiniteSet(postings') /\ Cardinality(postings') = Cardinality(postings) + 1
  BY <1>1, FS_AddElement
<1>3. Cardinality(postings) \in Nat
  BY <1>1, FS_CardinalityType
<1>4. \A account :
        /\ Balance(postings, account) \in Int
        /\ account = p.to => Balance(postings', account) = Balance(postings, account) + p.amount
        /\ account = p.from => Balance(postings', account) = Balance(postings, account) - p.amount
        /\ account \notin {p.from, p.to} => Balance(postings', account) = Balance(postings, account)
  BY <1>1, BalanceMoved
<1> QED
  BY <1>1, <1>2, <1>3, <1>4 DEF PostingsInv, FreshId

\* Nothing about seats and postings changes.
LEMMA RowsRest ==
  ASSUME RowsInv, UNCHANGED <<seats, postings>>
  PROVE  RowsInv'
BY DEF RowsInv, PostingsInv, SeatsInv, IdsInv, FreshId, FundsKept, Stakes, Table

-----------------------------------------------------------------------------
(* What a commit does to the rows *)

\* A posting between accounts that are no tables, out of sufficient funds.
LEMMA TransferKeeps ==
  ASSUME RowsInv, UNCHANGED seats, NEW p, postings' = postings \cup {p},
         p.amount \in Nat, p.from # p.to, p.from \notin Rooms, p.to \notin Rooms,
         p.from # Treasury => Balance(postings, p.from) >= p.amount,
         \A n \in Nat : p.ref \notin {<<"buy-in", n>>, <<"cash-out", n>>}
  PROVE  RowsInv'
<1>1. CASE p \in postings
  <2>1. postings' = postings
    BY <1>1
  <2> QED
    BY <2>1, RowsRest
<1>2. CASE p \notin postings
  <2>1. /\ PostingsInv' /\ FreshId \in Nat /\ FreshId' = FreshId + 1
        /\ \A account :
             /\ Balance(postings, account) \in Int
             /\ account = p.to => Balance(postings', account) = Balance(postings, account) + p.amount
             /\ account = p.from => Balance(postings', account) = Balance(postings, account) - p.amount
             /\ account \notin {p.from, p.to} => Balance(postings', account) = Balance(postings, account)
    BY <1>2, Posted
  <2>2. SeatsInv'
    BY DEF RowsInv, SeatsInv
  <2>3. \A s \in seats : s.id \in Nat
    BY DEF RowsInv, SeatsInv, SeatRecords
  <2>4. IdsInv'
    <3>1. \A t \in postings', n \in Nat : t.ref \in {<<"buy-in", n>>, <<"cash-out", n>>} => n < FreshId + 1
      BY <2>1 DEF RowsInv, IdsInv
    <3>2. \A s \in seats : s.id < FreshId + 1
      BY <2>1, <2>3 DEF RowsInv, IdsInv
    <3>3. \A s \in seats, t \in postings' : t.ref # <<"cash-out", s.id>>
      BY <2>3 DEF RowsInv, IdsInv
    <3> QED
      BY <2>1, <3>1, <3>2, <3>3 DEF IdsInv
  <2>5. ASSUME NEW account \in Guests \cup Rooms \cup {Elsewhere}
        PROVE  Balance(postings', account) >= 0
    <3>1. Balance(postings, account) >= 0 /\ Balance(postings, account) \in Int
      BY <2>1 DEF RowsInv, FundsKept
    <3>2. account # Treasury
      BY AccountsAssumption
    <3> QED
      BY <2>1, <3>1, <3>2
  <2>6. ASSUME NEW room \in Rooms
        PROVE  Balance(postings', room) = Stakes(room)'
    <3>1. Stakes(room)' = Stakes(room)
      BY DEF Stakes, Table
    <3>2. Balance(postings, room) = Stakes(room)
      BY DEF RowsInv, FundsKept
    <3> QED
      BY <2>1, <3>1, <3>2
  <2> QED
    BY <2>1, <2>2, <2>4, <2>5, <2>6 DEF RowsInv, FundsKept
<1> QED
  BY <1>1, <1>2

\* A seat is bought: its posting is new because its id is.
LEMMA SeatTaken ==
  ASSUME RowsInv, NEW who \in Guests, NEW room \in Rooms,
         \A s \in seats : ~(s.who = who /\ s.room = room),
         Balance(postings, who) >= BuyIn,
         seats' = seats \cup {[who |-> who, room |-> room, stack |-> BuyIn, id |-> FreshId]},
         postings' = postings \cup {Posting(<<"buy-in", FreshId>>, who, room, BuyIn)}
  PROVE  RowsInv'
<1> DEFINE x == [who |-> who, room |-> room, stack |-> BuyIn, id |-> FreshId]
           p == Posting(<<"buy-in", FreshId>>, who, room, BuyIn)
<1>1. FreshId \in Nat
  BY FS_CardinalityType DEF FreshId, RowsInv, PostingsInv
<1>2. p \notin postings
  BY <1>1 DEF RowsInv, IdsInv, Posting
<1>3. /\ p.amount = BuyIn /\ p.from = who /\ p.to = room /\ p.ref = <<"buy-in", FreshId>>
      /\ BuyIn \in Nat /\ who # room
  BY AccountsAssumption DEF Posting
<1>4. /\ PostingsInv' /\ FreshId' = FreshId + 1
      /\ \A account :
           /\ Balance(postings, account) \in Int
           /\ account = room => Balance(postings', account) = Balance(postings, account) + BuyIn
           /\ account = who => Balance(postings', account) = Balance(postings, account) - BuyIn
           /\ account \notin {who, room} => Balance(postings', account) = Balance(postings, account)
  <2> HIDE DEF p
  <2> QED
    BY <1>2, <1>3, Posted DEF p
<1>5. x \in SeatRecords /\ x.who = who /\ x.room = room /\ x.stack = BuyIn /\ x.id = FreshId
  BY <1>1, <1>3 DEF SeatRecords
<1>6. \A s \in seats : s.id \in Nat /\ s.id < FreshId /\ s.stack \in Nat
  BY DEF RowsInv, SeatsInv, SeatRecords, IdsInv
<1>7. x \notin seats
  BY <1>1, <1>5, <1>6
<1> HIDE DEF x, p
<1>8. SeatsInv'
  <2>1. IsFiniteSet(seats') /\ seats' \subseteq SeatRecords
    BY <1>5, FS_AddElement DEF RowsInv, SeatsInv, x
  <2>2. \A s \in seats : s.id # x.id
    BY <1>1, <1>5, <1>6
  <2>3. \A s, t \in seats' : (s.who = t.who /\ s.room = t.room) \/ s.id = t.id => s = t
    BY <1>5, <2>2 DEF RowsInv, SeatsInv, x
  <2> QED
    BY <2>1, <2>3 DEF SeatsInv
<1>9. IdsInv'
  <2>1. \A t \in postings', n \in Nat : t.ref \in {<<"buy-in", n>>, <<"cash-out", n>>} => n < FreshId + 1
    BY <1>1, <1>3 DEF RowsInv, IdsInv, p
  <2>2. ASSUME NEW s \in seats', NEW t \in postings', t.ref = <<"cash-out", s.id>> PROVE FALSE
    <3>1. t \in postings
      BY <1>3, <2>2 DEF p
    <3>2. CASE s \in seats
      BY <2>2, <3>1, <3>2 DEF RowsInv, IdsInv
    <3>3. CASE s = x
      BY <1>1, <1>5, <2>2, <3>1, <3>3 DEF RowsInv, IdsInv
    <3> QED
      BY <3>2, <3>3 DEF x
  <2>3. \A s \in seats' : s.id < FreshId + 1
    BY <1>1, <1>5, <1>6 DEF x
  <2> QED
    BY <1>4, <2>1, <2>2, <2>3 DEF IdsInv
<1>10. ASSUME NEW account \in Guests \cup Rooms \cup {Elsewhere}
       PROVE  Balance(postings', account) >= 0
  <2>1. Balance(postings, account) >= 0 /\ Balance(postings, account) \in Int
    BY <1>4 DEF RowsInv, FundsKept
  <2>2. CASE account = who
    BY <1>3, <1>4, <2>1, <2>2
  <2>3. CASE account = room
    BY <1>3, <1>4, <2>1, <2>3
  <2>4. CASE account \notin {who, room}
    BY <1>4, <2>1, <2>4
  <2> QED
    BY <2>2, <2>3, <2>4
<1>11. ASSUME NEW r \in Rooms
       PROVE  Balance(postings', r) = Stakes(r)'
  <2>1. Balance(postings, r) = Chips(Table(r)) /\ Balance(postings, r) \in Int /\ r # who
    BY <1>4, AccountsAssumption DEF RowsInv, FundsKept, Stakes
  <2>2. CASE r = room
    <3>1. Table(r)' = Table(r) \cup {x} /\ x \notin Table(r)
      BY <1>5, <1>7, <2>2 DEF Table, x
    <3>2. IsFiniteSet(Table(r)) /\ \A s \in Table(r) \cup {x} : s.stack \in Nat
      BY <1>3, <1>5, <1>6, FS_Subset DEF RowsInv, SeatsInv, Table
    <3>3. Chips(Table(r) \cup {x}) = BuyIn + Chips(Table(r)) /\ Chips(Table(r)) \in Nat
      BY <1>5, <3>1, <3>2, ChipsAdded
    <3>4. Stakes(r)' = BuyIn + Chips(Table(r))
      BY <3>1, <3>3 DEF Stakes
    <3>5. Balance(postings', r) = Chips(Table(r)) + BuyIn
      BY <1>4, <2>1, <2>2
    <3> QED
      BY <1>3, <3>3, <3>4, <3>5
  <2>3. CASE r # room
    <3>1. Table(r)' = Table(r)
      BY <1>5, <2>3 DEF Table, x
    <3> QED
      BY <1>4, <2>1, <2>3, <3>1 DEF Stakes
  <2> QED
    BY <2>2, <2>3
<1> QED
  BY <1>4, <1>8, <1>9, <1>10, <1>11 DEF RowsInv, FundsKept

\* A seat is given back: with what is on it, if that is anything.
LEMMA SeatLeft ==
  ASSUME RowsInv, NEW s \in seats, seats' = seats \ {s},
         postings' = postings \cup {CashOut(u) : u \in {t \in {s} : t.stack > 0}}
  PROVE  RowsInv'
<1> DEFINE p == CashOut(s)
<1>1. /\ s.who \in Guests /\ s.room \in Rooms /\ s.stack \in Nat /\ s.id \in Nat /\ s.id < FreshId
      /\ s.who # s.room
  BY AccountsAssumption DEF RowsInv, SeatsInv, SeatRecords, IdsInv
<1>2. SeatsInv'
  <2>1. IsFiniteSet(seats')
    BY FS_Subset DEF RowsInv, SeatsInv
  <2> QED
    BY <2>1 DEF RowsInv, SeatsInv
<1>3. \A room \in Rooms : /\ room # s.room => Table(room)' = Table(room)
                          /\ room = s.room => Table(room)' = Table(room) \ {s} /\ s \in Table(room)
  BY DEF Table
<1>4. \A room \in Rooms : Balance(postings, room) = Chips(Table(room))
  BY DEF RowsInv, FundsKept, Stakes
<1>5. Chips(Table(s.room)) = s.stack + Chips(Table(s.room) \ {s}) /\ Chips(Table(s.room) \ {s}) \in Nat
  <2>1. Table(s.room) \subseteq seats /\ s \in Table(s.room)
    BY DEF Table
  <2> QED
    BY <2>1, StakesOfSeat DEF RowsInv
<1>6. CASE s.stack = 0
  <2>1. postings' = postings
    BY <1>6
  <2>2. PostingsInv' /\ IdsInv'
    BY <2>1 DEF RowsInv, PostingsInv, IdsInv, FreshId
  <2>3. \A room \in Rooms : Balance(postings, room) = Stakes(room)'
    BY <1>3, <1>4, <1>5, <1>6 DEF Stakes
  <2> QED
    BY <1>2, <2>1, <2>2, <2>3 DEF RowsInv, FundsKept
<1>7. CASE s.stack > 0
  <2>1. p \notin postings /\ postings' = postings \cup {p}
    BY <1>7 DEF RowsInv, IdsInv, CashOut, Posting
  <2>2. p.amount = s.stack /\ p.from = s.room /\ p.to = s.who /\ p.ref = <<"cash-out", s.id>>
    BY DEF CashOut, Posting
  <2> HIDE DEF p
  <2>3. /\ PostingsInv' /\ FreshId \in Nat /\ FreshId' = FreshId + 1
        /\ \A account :
             /\ Balance(postings, account) \in Int
             /\ account = s.who => Balance(postings', account) = Balance(postings, account) + s.stack
             /\ account = s.room => Balance(postings', account) = Balance(postings, account) - s.stack
             /\ account \notin {s.who, s.room} => Balance(postings', account) = Balance(postings, account)
    BY <1>1, <2>1, <2>2, Posted
  <2>4. IdsInv'
    <3>1. \A t \in postings', n \in Nat : t.ref \in {<<"buy-in", n>>, <<"cash-out", n>>} => n < FreshId + 1
      BY <1>1, <2>1, <2>2, <2>3 DEF RowsInv, IdsInv
    <3>2. \A u \in seats' : u.id \in Nat /\ u.id < FreshId /\ u.id # s.id
      BY DEF RowsInv, SeatsInv, SeatRecords, IdsInv
    <3>3. \A u \in seats', t \in postings' : t.ref # <<"cash-out", u.id>>
      BY <2>1, <2>2, <3>2 DEF RowsInv, IdsInv
    <3>4. \A u \in seats' : u.id < FreshId + 1
      BY <2>3, <3>2
    <3> QED
      BY <2>3, <3>1, <3>3, <3>4 DEF IdsInv
  <2>5. ASSUME NEW room \in Rooms PROVE Balance(postings', room) = Stakes(room)'
    <3>1. CASE room = s.room
      <4>1. Stakes(room)' = Chips(Table(room) \ {s})
        BY <1>3, <3>1 DEF Stakes
      <4>2. Balance(postings', room) = Balance(postings, room) - s.stack
        BY <2>3, <3>1
      <4> QED
        BY <1>1, <1>4, <1>5, <3>1, <4>1, <4>2
    <3>2. CASE room # s.room
      <4>1. Stakes(room)' = Chips(Table(room))
        BY <1>3, <3>2 DEF Stakes
      <4>2. room # s.who
        BY <1>1, AccountsAssumption
      <4> QED
        BY <1>4, <2>3, <3>2, <4>1, <4>2
    <3> QED
      BY <3>1, <3>2
  <2>6. ASSUME NEW account \in Guests \cup Rooms \cup {Elsewhere}
        PROVE  Balance(postings', account) >= 0
    <3>1. Balance(postings, account) >= 0 /\ Balance(postings, account) \in Int
      BY <2>3 DEF RowsInv, FundsKept
    <3>2. CASE account = s.who
      BY <1>1, <2>3, <3>1, <3>2
    <3>3. CASE account = s.room
      BY <1>1, <1>4, <1>5, <2>3, <3>3
    <3>4. CASE account \notin {s.who, s.room}
      BY <2>3, <3>1, <3>4
    <3> QED
      BY <3>2, <3>3, <3>4
  <2> QED
    BY <1>2, <2>3, <2>4, <2>5, <2>6 DEF RowsInv, FundsKept
<1> QED
  BY <1>1, <1>6, <1>7

\* A chip passes from one seat to another of the table.
LEMMA ChipsMoved ==
  ASSUME RowsInv, UNCHANGED postings, NEW s \in seats, NEW t \in seats,
         s # t, s.room = t.room, s.stack > 0,
         seats' = (seats \ {s, t}) \cup {[s EXCEPT !.stack = @ - 1], [t EXCEPT !.stack = @ + 1]}
  PROVE  RowsInv'
<1>1. PICK u, v : /\ u = [who |-> s.who, room |-> s.room, stack |-> s.stack - 1, id |-> s.id]
                  /\ v = [who |-> t.who, room |-> t.room, stack |-> t.stack + 1, id |-> t.id]
  OBVIOUS
<1>2. /\ s \in SeatRecords /\ t \in SeatRecords
      /\ s.stack \in Nat /\ t.stack \in Nat
  BY DEF RowsInv, SeatsInv, SeatRecords
<1>3. seats' = (seats \ {s, t}) \cup {u, v}
  <2>1. u = [s EXCEPT !.stack = @ - 1] /\ v = [t EXCEPT !.stack = @ + 1]
    BY <1>1, <1>2 DEF SeatRecords
  <2> QED
    BY <2>1
<1>4. /\ u \in SeatRecords /\ v \in SeatRecords
      /\ u.who = s.who /\ u.room = s.room /\ u.id = s.id /\ u.stack = s.stack - 1
      /\ v.who = t.who /\ v.room = t.room /\ v.id = t.id /\ v.stack = t.stack + 1
  BY <1>1, <1>2 DEF SeatRecords
<1>5. /\ s.id # t.id /\ ~(s.who = t.who /\ s.room = t.room)
      /\ \A x \in seats \ {s, t} :
           /\ x.id # s.id /\ x.id # t.id
           /\ ~(x.who = s.who /\ x.room = s.room) /\ ~(x.who = t.who /\ x.room = t.room)
  BY DEF RowsInv, SeatsInv
<1>6. SeatsInv'
  <2>1. IsFiniteSet(seats')
    <3>1. IsFiniteSet(seats \ {s, t})
      BY FS_Subset DEF RowsInv, SeatsInv
    <3>2. IsFiniteSet(((seats \ {s, t}) \cup {u}) \cup {v})
      BY <3>1, FS_AddElement
    <3>3. seats' = ((seats \ {s, t}) \cup {u}) \cup {v}
      BY <1>3
    <3> QED
      BY <3>2, <3>3
  <2>2. seats' \subseteq SeatRecords
    BY <1>3, <1>4 DEF RowsInv, SeatsInv
  <2>3. \A x, y \in seats' : (x.who = y.who /\ x.room = y.room) \/ x.id = y.id => x = y
    <3>1. \A x \in seats \ {s, t} :
            /\ x.id # u.id /\ x.id # v.id
            /\ ~(x.who = u.who /\ x.room = u.room) /\ ~(x.who = v.who /\ x.room = v.room)
      BY <1>4, <1>5
    <3>2. u.id # v.id /\ ~(u.who = v.who /\ u.room = v.room)
      BY <1>4, <1>5
    <3>3. \A x, y \in seats \ {s, t} : (x.who = y.who /\ x.room = y.room) \/ x.id = y.id => x = y
      BY DEF RowsInv, SeatsInv
    <3> QED
      BY <1>3, <3>1, <3>2, <3>3
  <2> QED
    BY <2>1, <2>2, <2>3 DEF SeatsInv
<1>7. IdsInv'
  <2>1. \A x \in seats' : \E y \in seats : x.id = y.id
    BY <1>3, <1>4
  <2> QED
    BY <2>1 DEF RowsInv, IdsInv, FreshId
<1>8. ASSUME NEW room \in Rooms PROVE Stakes(room)' = Stakes(room)
  <2>1. CASE room # s.room
    <3>1. Table(room)' = Table(room)
      BY <1>3, <1>4, <2>1 DEF Table
    <3> QED
      BY <3>1 DEF Stakes
  <2>2. CASE room = s.room
    <3> DEFINE rest == (Table(room) \ {s}) \ {t}
    <3>1. /\ Table(room)' = (rest \cup {u}) \cup {v}
          /\ Table(room) \subseteq seats /\ s \in Table(room) /\ t \in Table(room) \ {s}
      BY <1>3, <1>4, <2>2 DEF Table
    <3>2. u \notin rest /\ v \notin rest \cup {u}
      BY <1>4, <1>5, <3>1
    <3>3. IsFiniteSet(rest) /\ \A x \in (rest \cup {u}) \cup {v} : x.stack \in Nat
      <4>1. IsFiniteSet(rest)
        BY <3>1, FS_Subset DEF RowsInv, SeatsInv
      <4>2. u.stack \in Nat /\ v.stack \in Nat
        BY <1>4 DEF SeatRecords
      <4>3. \A x \in rest : x.stack \in Nat
        BY <3>1 DEF RowsInv, SeatsInv, SeatRecords
      <4> HIDE DEF rest
      <4> QED
        BY <4>1, <4>2, <4>3
    <3>4. Chips(Table(room)) = s.stack + Chips(Table(room) \ {s})
      BY <3>1, StakesOfSeat DEF RowsInv
    <3>5. Chips(Table(room) \ {s}) = t.stack + Chips(rest)
      BY <3>1, StakesOfSeat DEF RowsInv
    <3> HIDE DEF rest
    <3>6. Chips(rest \cup {u}) = u.stack + Chips(rest) /\ Chips(rest) \in Nat
      BY <3>2, <3>3, ChipsAdded
    <3>7. Chips((rest \cup {u}) \cup {v}) = v.stack + Chips(rest \cup {u})
      <4>1. IsFiniteSet(rest \cup {u})
        BY <3>3, FS_AddElement
      <4> QED
        BY <3>2, <3>3, <4>1, ChipsAdded
    <3>8. Chips(Table(room)) = s.stack + (t.stack + Chips(rest))
      BY <3>4, <3>5
    <3>9. Stakes(room)' = (t.stack + 1) + ((s.stack - 1) + Chips(rest))
      BY <1>4, <3>1, <3>6, <3>7 DEF Stakes
    <3>10. \A i, j, k \in Nat : (j + 1) + ((i - 1) + k) = i + (j + k)
      OBVIOUS
    <3> QED
      BY <1>2, <3>6, <3>8, <3>9, <3>10 DEF Stakes
  <2> QED
    BY <2>1, <2>2
<1>9. FundsKept'
  BY <1>8 DEF RowsInv, FundsKept
<1> QED
  BY <1>6, <1>7, <1>9 DEF RowsInv, PostingsInv

\* Whatever a request commits, it has read what it relies on.
LEMMA WritesKeepFunds ==
  ASSUME RowsInv, NEW op \in Askable, NEW read,
         Reads(op) = read, Outcome(op, read) = "writes", Writes(op, read)
  PROVE  RowsInv'
<1>1. CASE WritesGuest(op)
  <2>1. op.who \in Guests
    BY <1>1 DEF WritesGuest, Askable, GuestOp, LoginOp, JoinOp, LeaveOp, PostOp
  <2>2. PICK p : p = Grant(op.who)
    OBVIOUS
  <2>3. /\ UNCHANGED seats /\ postings' = postings \cup {p}
        /\ p.amount = GrantAmount /\ p.from = Treasury /\ p.to = op.who /\ p.ref = <<"grant", op.who>>
    BY <1>1, <2>2 DEF WritesGuest, Grant, Posting
  <2>4. p.from # p.to /\ p.from \notin Rooms /\ p.to \notin Rooms /\ p.amount \in Nat
    BY <2>1, <2>3, AccountsAssumption
  <2> QED
    BY <2>3, <2>4, TransferKeeps
<1>2. CASE WritesLogin(op)
  BY <1>2, RowsRest DEF WritesLogin
<1>3. CASE WritesJoin(op)
  <2>1. op.kind = "join" /\ op.who \in Guests /\ op.room \in Rooms
    BY <1>3 DEF WritesJoin, Askable, GuestOp, LoginOp, JoinOp, LeaveOp, PostOp
  <2>2. SeatsOf(op) = {} /\ ~(Balance(postings, op.who) < BuyIn)
    BY <2>1 DEF Reads, Outcome, JoinOutcome
  <2>3. Balance(postings, op.who) >= BuyIn
    <3>1. Balance(postings, op.who) \in Int /\ BuyIn \in Int
      BY BalanceWhole, AccountsAssumption DEF RowsInv
    <3> QED
      BY <2>2, <3>1
  <2> QED
    BY <1>3, <2>1, <2>2, <2>3, SeatTaken DEF WritesJoin, SeatBought, SeatsOf
<1>4. CASE WritesLeave(op, read)
  <2>1. read.seat = SeatsOf(op) /\ read.seat # {}
    BY <1>4 DEF WritesLeave, Reads, Outcome, LeaveOutcome
  <2>2. PICK s \in seats : read.seat = {s}
    BY <2>1 DEF SeatsOf, RowsInv, SeatsInv
  <2> QED
    BY <1>4, <2>2, SeatLeft DEF WritesLeave
<1>5. CASE WritesPost(op)
  <2>1. /\ op.kind = "post" /\ op.who \in Guests /\ op.amount \in Int
        /\ UNCHANGED seats /\ postings' = postings \cup {Transfer(op)}
    BY <1>5, AccountsAssumption DEF WritesPost, Askable, GuestOp, LoginOp, JoinOp, LeaveOp, PostOp
  <2>2. PICK p : p = Transfer(op)
    OBVIOUS
  <2>3. p.amount = op.amount /\ p.from = op.who /\ p.to = Elsewhere /\ p.ref = <<"post", op.ref>>
    BY <2>2 DEF Transfer, Posting
  <2>4. op.amount > 0
    BY <2>1, <2>2, <2>3 DEF Outcome, PostOutcome, WellFormed
  <2>5. Reads(op).funds = Balance(postings, op.who)
    BY <2>1 DEF Reads
  <2>6. ~(Balance(postings, op.who) < op.amount)
    BY <2>1, <2>2, <2>3, <2>5 DEF Outcome, PostOutcome
  <2>7. Balance(postings, op.who) \in Int
    BY BalanceWhole DEF RowsInv
  <2>8. p.from # p.to /\ p.from \notin Rooms /\ p.to \notin Rooms /\ p.amount \in Nat
    BY <2>1, <2>3, <2>4, AccountsAssumption
  <2>9. Balance(postings, p.from) >= p.amount
    BY <2>1, <2>3, <2>6, <2>7
  <2> QED
    BY <2>1, <2>2, <2>3, <2>8, <2>9, TransferKeeps
<1> QED
  BY <1>1, <1>2, <1>3, <1>4, <1>5 DEF Writes

-----------------------------------------------------------------------------
(* The steps *)

LEMMA InitMoney == Init => MoneyInv
<1> SUFFICES ASSUME Init PROVE MoneyInv
  OBVIOUS
<1>1. AskedInv
  BY DEF Init, AskedInv
<1>2. PostingsInv /\ SeatsInv /\ IdsInv
  BY FS_EmptySet DEF Init, PostingsInv, SeatsInv, IdsInv
<1>3. \A account : Balance(postings, account) = 0
  <2> SUFFICES ASSUME NEW account PROVE Balance(postings, account) = 0
    OBVIOUS
  <2>1. {t \in postings : t.to = account} = {} /\ {t \in postings : t.from = account} = {}
    BY DEF Init
  <2>2. Total({}) = 0
    BY SumOfNone DEF Total
  <2> QED
    BY <2>1, <2>2 DEF Balance
<1>4. \A room \in Rooms : Stakes(room) = 0
  <2> SUFFICES ASSUME NEW room \in Rooms PROVE Stakes(room) = 0
    OBVIOUS
  <2>1. Table(room) = {}
    BY DEF Init, Table
  <2>2. Chips({}) = 0
    BY SumOfNone DEF Chips
  <2> QED
    BY <2>1, <2>2 DEF Stakes
<1>5. FundsKept
  BY <1>3, <1>4 DEF FundsKept
<1> QED
  BY <1>1, <1>2, <1>5 DEF MoneyInv, RowsInv

\* A request keeps its operation until it ends.
LEMMA StillAsked ==
  ASSUME AskedInv, RunsShape, NEW r \in Requests, NEW run, runs' = [runs EXCEPT ![r] = run],
         run # NoOp => run.op \in Askable
  PROVE  AskedInv'
BY DEF AskedInv, RunsShape, Askable

LEMMA NextMoney == CashierInv /\ MoneyInv /\ [Next]_vars => MoneyInv'
<1> SUFFICES ASSUME CashierInv, MoneyInv, [Next]_vars PROVE MoneyInv'
  OBVIOUS
<1>1. AskedInv /\ RowsInv /\ RunsShape
  BY DEF CashierInv, MoneyInv
<1>2. ASSUME UNCHANGED rows PROVE RowsInv'
  BY <1>1, <1>2, RowsRest DEF rows
<1>3. ASSUME UNCHANGED runs PROVE AskedInv'
  BY <1>1, <1>3 DEF AskedInv, Askable
<1>4. ASSUME NEW r \in Requests, Ends(r) PROVE AskedInv'
  BY <1>1, <1>4, StillAsked DEF Ends
<1>5. ASSUME NEW r \in Requests, Asks(r) PROVE MoneyInv'
  <2>1. PICK op \in Operations :
          runs' = [runs EXCEPT ![r] = [op |-> op, read |-> Reads(op), tries |-> MaxAttempts]]
    BY <1>5 DEF Asks
  <2>2. op \in Askable
    BY DEF Operations, Askable
  <2>3. AskedInv'
    BY <1>1, <2>1, <2>2, StillAsked
  <2> QED
    BY <1>2, <1>5, <2>3 DEF Asks, MoneyInv
<1>6. ASSUME NEW r \in Requests, Commits(r) PROVE MoneyInv'
  <2>1. PICK op, read : op = runs[r].op /\ read = runs[r].read
    OBVIOUS
  <2>2. /\ Reads(op) = read /\ Outcome(op, read) = "writes" /\ Writes(op, read)
        /\ op \in Askable /\ Ends(r)
    BY <1>1, <1>6, <2>1 DEF Commits, StillHolds, Decided, Succeeds, AskedInv
  <2>3. RowsInv'
    BY <1>1, <2>2, WritesKeepFunds
  <2> QED
    BY <1>4, <2>2, <2>3 DEF MoneyInv
<1>7. ASSUME NEW r \in Requests, Answers(r) \/ MeetsDuplicate(r) \/ Dies(r) PROVE MoneyInv'
  <2>1. Ends(r) /\ UNCHANGED rows
    BY <1>7 DEF Answers, MeetsDuplicate, Dies, Succeeds
  <2> QED
    BY <1>2, <1>4, <2>1 DEF MoneyInv
<1>8. ASSUME NEW r \in Requests, Aborts(r) PROVE MoneyInv'
  <2>1. UNCHANGED rows /\ runs[r] # NoOp
    BY <1>8 DEF Aborts
  <2>2. CASE Ends(r)
    BY <1>2, <1>4, <2>1, <2>2 DEF MoneyInv
  <2>3. CASE runs' = [runs EXCEPT ![r].tries = @ - 1, ![r].read = Reads(runs[r].op)]
    <3>1. PICK run : run = [runs[r] EXCEPT !.tries = @ - 1, !.read = Reads(runs[r].op)]
      OBVIOUS
    <3>2. runs' = [runs EXCEPT ![r] = run]
      BY <2>3, <3>1
    <3>3. run.op = runs[r].op
      BY <1>1, <2>1, <3>1 DEF RunsShape, RunShape
    <3>4. AskedInv'
      BY <1>1, <2>1, <3>2, <3>3, StillAsked DEF AskedInv
    <3> QED
      BY <1>2, <2>1, <3>4 DEF MoneyInv
  <2> QED
    BY <1>8, <2>2, <2>3 DEF Aborts
<1>9. ASSUME NEW n \in Nonces, NonceExpires(n) \/ \E w \in Wallets : IssuesNonce(n, w) PROVE MoneyInv'
  <2>1. UNCHANGED <<runs, seats, postings>>
    BY <1>9 DEF NonceExpires, IssuesNonce
  <2> QED
    BY <1>1, <1>3, <2>1, RowsRest DEF MoneyInv
<1>10. ASSUME Plays PROVE MoneyInv'
  <2>1. UNCHANGED <<runs, postings>>
    BY <1>10 DEF Plays
  <2>2. RowsInv'
    BY <1>1, <1>10, ChipsMoved DEF Plays
  <2> QED
    BY <1>3, <2>1, <2>2 DEF MoneyInv
<1>11. CASE UNCHANGED vars
  BY <1>2, <1>3, <1>11 DEF vars, MoneyInv
<1> QED
  BY <1>5, <1>6, <1>7, <1>8, <1>9, <1>10, <1>11 DEF Next

\* What the books rest on: seats and postings are numbered once, and a seat
\* that is cashed out is gone.
THEOREM CashierBooks == Spec => []MoneyInv
BY InitMoney, NextMoney, CashierInvariant, PTL DEF Spec

\* No account is overdrawn and the account of a room holds what lies on its
\* table, whatever buy-ins, cash-outs and postings of several rooms and
\* requests interleave, abort and are tried again (postTransactionWithSource,
\* claimTableSeat, releaseTableSeat).
THEOREM FundsAreKept == Spec => []FundsKept
<1>1. MoneyInv => FundsKept
  BY DEF MoneyInv, RowsInv
<1> QED BY <1>1, CashierBooks, PTL
===============================================================================
