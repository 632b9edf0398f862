-------------------------- MODULE Publication --------------------------
(* What the translation desk promises of its dictionaries, the English and   *)
(* the Chinese one: an approval is published in both, in one step, or in      *)
(* neither, whatever fails; a new entry never takes the code of another; and  *)
(* only an interruption leaves the English of an approval published alone.    *)
EXTENDS Functions

CONSTANTS Codes, Texts, Wordings, None, Requests,
          Halves       \* may an interruption leave half an approval behind

VARIABLES
  english,     \* the published English: [Codes -> Wordings or None]
  chinese,     \* the published Chinese: [Codes -> Texts or None]
  submitted    \* the approval each request is publishing, or None

vars == <<english, chinese, submitted>>

\* The entries of one approval; fresh: they were given codes of their own.
Approvals ==
  {a \in [entries : UNION {[S -> [en : Wordings, zh : Texts]] : S \in SUBSET Codes}, fresh : BOOLEAN] :
     a.entries # << >>}

\* Every code is in both dictionaries or in none.
Complete(en, zh) == \A c \in Codes : en[c] = None <=> zh[c] = None

NewEnglish(a) == [c \in Codes |-> IF c \in DOMAIN a.entries THEN a.entries[c].en ELSE english[c]]
NewChinese(a) == [c \in Codes |-> IF c \in DOMAIN a.entries THEN a.entries[c].zh ELSE chinese[c]]

\* A new entry needs a free code, and no text may miss its other language.
Publishable(a) ==
  /\ a # None
  /\ a.fresh => \A c \in DOMAIN a.entries : english[c] = None /\ chinese[c] = None
  /\ Complete(NewEnglish(a), NewChinese(a))

Init ==
  /\ english \in [Codes -> Wordings \union {None}]
  /\ chinese \in [Codes -> Texts \union {None}]
  /\ Complete(english, chinese)
  /\ submitted = [r \in Requests |-> None]

Submit(r) ==
  /\ submitted[r] = None /\ submitted'[r] \in Approvals
  /\ submitted' = [submitted EXCEPT ![r] = submitted'[r]]
  /\ UNCHANGED <<english, chinese>>

Publish(r) ==
  /\ Publishable(submitted[r])
  /\ english' = NewEnglish(submitted[r])
  /\ chinese' = NewChinese(submitted[r])
  /\ submitted' = [submitted EXCEPT ![r] = None]

\* Approvals are refused or fail, or are lost when the desk stops.
GivenUp == \A r \in Requests : submitted'[r] \in {submitted[r], None}

Drop ==
  /\ GivenUp /\ submitted' # submitted
  /\ UNCHANGED <<english, chinese>>

\* An interruption leaves the English of the approval at work behind.
Halve(r) ==
  /\ Halves
  /\ Publishable(submitted[r])
  /\ english' = NewEnglish(submitted[r])
  /\ GivenUp /\ submitted'[r] = None
  /\ UNCHANGED chinese

Next == Drop \/ \E r \in Requests : Submit(r) \/ Publish(r) \/ Halve(r)

Spec == Init /\ [][Next]_vars
=======================================================================
