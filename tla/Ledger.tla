------------------------------- MODULE Ledger -------------------------------
(***************************************************************************)
(* The double-entry ledger (packages/db/src/ledger.ts): postings that move *)
(* an amount from one account to another, each under a reference that is   *)
(* unique, and what a transaction makes of a posting it is asked for, from *)
(* the postings it has read.                                               *)
(***************************************************************************)
EXTENDS Integers, FiniteSets, FiniteSetsExt

Posting(ref, from, to, amount) == [ref |-> ref, from |-> from, to |-> to, amount |-> amount]

Total(postings) == SumFunctionOnSet([t \in postings |-> t.amount], postings)
Balance(postings, account) ==
  Total({t \in postings : t.to = account}) - Total({t \in postings : t.from = account})

WithReference(postings, ref) == {t \in postings : t.ref = ref}

\* mutant: any posting under the reference will do.
MatchesAnything(found, posting) == TRUE

\* assertMatchingPayload: the reference stands for this very transfer.
Matches(found, posting) == found = {posting}

\* An account normalised away, or a transfer of nothing, is no posting.
WellFormed(posting) == posting.amount > 0 /\ posting.from # posting.to

\* found: the postings with the reference; funds: what the source holds.
\* "writes" inserts the posting, "done" has nothing to do any more.
PostOutcome(posting, found, funds) ==
  IF ~WellFormed(posting) THEN "refused"
  ELSE IF found # {} THEN IF Matches(found, posting) THEN "done" ELSE "refused"
  ELSE IF funds < posting.amount THEN "refused"
  ELSE "writes"
=============================================================================
