-------------------------- MODULE TranslationsProofs --------------------------
(* For any providers, texts, codes, jobs and requests: the translation desk    *)
(* pays an agent only when that was confirmed, and publishes an approval in    *)
(* both files in one step, as Publication promises, or its English alone where *)
(* an interruption between the two renames is possible; what it records as     *)
(* published stays, and a damage is that of one approval.                      *)
(*                                                                             *)
(* The argument: the files change only under the request at the head of the    *)
(* queue, which still holds what it read of them; a job's codes never change,  *)
(* however stale the copy of it that is written back; and the Chinese file     *)
(* only gains codes.                                                           *)
EXTENDS Translations, FiniteSums, SequenceTheorems

Calls == [requested : Requestable, approved : BOOLEAN, provider : Providers \union {NoProvider}]

\* A command line that has looked for a provider it named has its consent.
Consented ==
  /\ pc = [r \in Requests |-> pc[r]] /\ agent = [r \in Requests |-> agent[r]]
  /\ \A r \in Requests : pc[r] \in {"prepared", "calling"} => agent[r] \in Calls
  /\ \A r \in Requests : pc[r] = "prepared" =>
       (agent[r].requested # Automatic /\ Paid(agent[r].requested) => agent[r].approved)
  /\ PaidOnlyConfirmed

-------------------------------------------------------------------------------
(* What the desk holds *)

EnglishDicts == [Codes -> Wordings \union {None}]
Dicts  == [Codes -> Texts \union {None}]
Works  == [id : JobIds, job : JobRecords \union {None}]
Asked  == [texts : SUBSET Texts, en : (SUBSET Codes) \union {None}, zh : Dicts \union {None},
           held : (SUBSET Codes) \union {None}]
Copies == [en : EnglishDicts, zh : Dicts]

AtWork == {"writing", "english", "chinese"}
Steps  == {"idle", "allotting", "saving", "calling", "prepared", "queued"} \union AtWork

TypeOK ==
  /\ en \in EnglishDicts /\ zh \in Dicts
  /\ jobs \in [JobIds -> JobRecords \union {None}]
  /\ pc \in [Requests -> Steps]
  /\ work \in [Requests -> Works \union {None}]
  /\ seen = [r \in Requests |-> seen[r]]
  /\ updates \in Seq(Requests)
  /\ \A r \in Requests :
       /\ pc[r] = "allotting" => seen[r] \in Asked
       /\ pc[r] \in AtWork => seen[r] \in Copies
       /\ pc[r] = "calling" /\ work[r] # None => seen[r] \in [work[r].job.codes -> Texts]

\* New texts are drafted under the codes they were given; other codes are known.
Shaped(job) ==
  /\ DOMAIN job.proposals \subseteq job.codes
  /\ IF Sourced(job) THEN DOMAIN job.sources = job.codes ELSE job.codes \subseteq Defined(zh)

Listed(job) == job.status = "PUBLISHED" => Approved(job) \subseteq Defined(zh)

JobsInv == \A i \in JobIds : jobs[i] # None => Shaped(jobs[i]) /\ Listed(jobs[i])

\* A request holds a job of its own that is not saved yet, or a copy, perhaps an
\* old one, of a job that is.
Owns(r) ==
  IF work[r] = None THEN pc[r] \in {"idle", "prepared", "calling"}
  ELSE IF jobs[work[r].id] = None
  THEN /\ pc[r] \in {"allotting", "saving"}
       /\ \A q \in Requests \ {r} : work[q] # None => work[q].id # work[r].id
  ELSE /\ pc[r] \notin {"idle", "prepared", "allotting"}
       /\ work[r].job.codes = jobs[work[r].id].codes

Holds(r) ==
  work[r] # None =>
    IF pc[r] = "allotting" THEN work[r].job = None
    ELSE work[r].job \in JobRecords /\ Shaped(work[r].job) /\ Listed(work[r].job)

WorkInv == \A r \in Requests : Owns(r) /\ Holds(r)

\* Only the first of the queue is at work.
QueueInv ==
  /\ \A n \in 1..Len(updates) : pc[updates[n]] = "queued" \/ (n = 1 /\ pc[updates[n]] \in AtWork)
  /\ \A m, n \in 1..Len(updates) : updates[m] = updates[n] => m = n
  /\ \A r \in Requests : pc[r] \in AtWork => Len(updates) > 0 /\ updates[1] = r

Damage(english, chinese) ==
  /\ Defined(chinese) \subseteq Defined(english)
  /\ Defined(english) # Defined(chinese) =>
       \E i \in JobIds : jobs[i] # None /\ Defined(english) \ Defined(chinese) \subseteq jobs[i].codes

\* What the request at work read is what the files were when it began.
Replacing(r) ==
  LET entries == Approval(work[r].job).entries IN
  /\ pc[r] \in {"queued", "writing", "english"} => MayApprove(work[r].job)
  /\ pc[r] \in {"writing", "english"} =>
       /\ zh = seen[r].zh
       /\ Defined(WithEnglish(seen[r].en, entries)) = Defined(WithChinese(zh, entries))
       /\ Sourced(work[r].job) => Approved(work[r].job) \cap (Defined(seen[r].en) \union Defined(zh)) = {}
       /\ Damage(seen[r].en, zh)
       /\ en = IF pc[r] = "writing" THEN seen[r].en ELSE WithEnglish(seen[r].en, entries)
  /\ pc[r] = "chinese" => Approved(work[r].job) \subseteq Defined(zh)

FilesInv == Damage(en, zh) /\ \A r \in Requests : Replacing(r)

DeskInv == TypeOK /\ JobsInv /\ WorkInv /\ QueueInv /\ FilesInv

-------------------------------------------------------------------------------
(* Choices *)

\* A request that names a provider is offered that one or none.
LEMMA OfferedAsNamed ==
  ASSUME NEW requested, requested # Automatic, NEW available
  PROVE  Offered(requested, available) \in {requested, NoProvider}
<1> DEFINE open == Open(requested, available)
<1>1. open \in SUBSET Nat /\ \A n \in open : ProviderOrder[n] = requested
  BY ProvidersAssumption, LenProperties DEF Open
<1>2. open # {} => Min(open) \in open
  <2> HIDE DEF open
  <2> QED
    BY <1>1, Smallest
<1> QED
  BY <1>1, <1>2 DEF Offered

LEMMA OfferedTyped ==
  ASSUME NEW requested, NEW available
  PROVE  Offered(requested, available) \in Providers \union {NoProvider}
<1> DEFINE open == Open(requested, available)
<1>1. open \in SUBSET Nat /\ \A n \in open : ProviderOrder[n] \in Providers
  BY ProvidersAssumption, LenProperties DEF Open, Providers, Range
<1>2. open # {} => Min(open) \in open
  <2> HIDE DEF open
  <2> QED
    BY <1>1, Smallest
<1> QED
  BY <1>1, <1>2 DEF Offered

\* What the runner selects was named, costs nothing or is approved.
LEMMA SelectedPaid ==
  ASSUME NEW requested, NEW approved \in BOOLEAN, NEW available,
         requested # Automatic /\ Paid(requested) => approved
  PROVE  LET provider == Selected(requested, approved, available)
         IN  /\ provider \in Providers \union {NoProvider}
             /\ provider = NoProvider \/ (Paid(provider) => approved)
BY OfferedAsNamed, OfferedTyped DEF Selected

-------------------------------------------------------------------------------
(* One request moves *)

LEMMA DeskInit == Init => DeskInv
<1> SUFFICES ASSUME Init PROVE DeskInv
  OBVIOUS
<1>1. TypeOK
  BY EmptySeq DEF Init, TypeOK, EnglishDicts, Dicts, Steps, AtWork
<1>2. JobsInv /\ WorkInv
  BY DEF Init, JobsInv, WorkInv, Owns, Holds
<1>3. QueueInv
  BY DEF Init, QueueInv, AtWork
<1>4. FilesInv
  BY DEF Init, FilesInv, Damage, Defined, Replacing
<1> QED
  BY <1>1, <1>2, <1>3, <1>4 DEF DeskInv

Others(r) ==
  \A q \in Requests \ {r} : pc'[q] = pc[q] /\ work'[q] = work[q] /\ seen'[q] = seen[q]

Typed(r) ==
  /\ pc[r] \in Steps /\ work[r] \in Works \union {None}
  /\ pc[r] = "allotting" => seen[r] \in Asked
  /\ pc[r] \in AtWork => seen[r] \in Copies
  /\ pc[r] = "calling" /\ work[r] # None => seen[r] \in [work[r].job.codes -> Texts]

\* The id of what a request holds: kept, of a job that is saved, or a free one.
IdKept(r) ==
  work'[r] # None =>
    \/ work[r] # None /\ work'[r].id = work[r].id
    \/ jobs[work'[r].id] # None
    \/ work'[r].id \in FreeIds

\* A step of one request: the others hold what they held, also when the files
\* change under the one at work, as the Chinese one only gains codes.
LEMMA FilesMove ==
  ASSUME DeskInv, NEW r \in Requests, UNCHANGED jobs, Others(r),
         en' \in EnglishDicts, zh' \in Dicts, Defined(zh) \subseteq Defined(zh'), Damage(en, zh)',
         UNCHANGED <<en, zh>> \/ pc[r] \in AtWork,
         pc' = [q \in Requests |-> pc'[q]], work' = [q \in Requests |-> work'[q]],
         seen' = [q \in Requests |-> seen'[q]], updates' \in Seq(Requests),
         Typed(r)', IdKept(r), Owns(r)', Holds(r)', Replacing(r)', QueueInv'
  PROVE  DeskInv'
<1>1. TypeOK'
  <2>1. \A q \in Requests : Typed(q)'
    BY DEF DeskInv, TypeOK, Typed, Others
  <2> QED
    BY <2>1 DEF DeskInv, TypeOK, Typed
<1>2. ASSUME NEW q \in Requests \ {r} PROVE Owns(q)' /\ Holds(q)' /\ Replacing(q)'
  <2>1. Owns(q) /\ Holds(q) /\ Replacing(q) /\ Owns(r)
    BY DEF DeskInv, WorkInv, FilesInv
  <2>2. pc'[q] = pc[q] /\ work'[q] = work[q] /\ seen'[q] = seen[q]
    BY DEF Others
  <2>3. Holds(q)'
    BY <2>1, <2>2 DEF Holds, Shaped, Listed
  <2>4. Replacing(q)'
    <3>1. CASE UNCHANGED <<en, zh>>
      BY <2>1, <2>2, <3>1 DEF Replacing, Damage
    <3>2. CASE pc[r] \in AtWork
      <4>1. pc[q] \notin AtWork
        BY <3>2 DEF DeskInv, QueueInv
      <4> QED
        BY <2>1, <2>2, <4>1 DEF Replacing, AtWork
    <3> QED
      BY <3>1, <3>2
  <2>5. Owns(q)'
    <3>1. CASE work[q] = None
      BY <2>1, <2>2, <3>1 DEF Owns
    <3>2. CASE work[q] # None /\ jobs[work[q].id] # None
      BY <2>1, <2>2, <3>2 DEF Owns
    <3>3. CASE work[q] # None /\ jobs[work[q].id] = None
      <4>1. pc[q] \in {"allotting", "saving"}
            /\ \A p \in Requests \ {q} : work[p] # None => work[p].id # work[q].id
        BY <2>1, <3>3 DEF Owns
      <4>2. work'[r] # None => work'[r].id # work[q].id
        BY <3>3, <4>1 DEF IdKept, FreeIds
      <4>3. \A p \in Requests \ {q} : work'[p] # None => work'[p].id # work'[q].id
        BY <2>2, <4>1, <4>2 DEF Others
      <4> QED
        BY <2>2, <3>3, <4>1, <4>3 DEF Owns
    <3> QED
      BY <3>1, <3>2, <3>3
  <2> QED
    BY <2>3, <2>4, <2>5
<1>3. JobsInv'
  BY DEF DeskInv, JobsInv, Shaped, Listed
<1> QED
  BY <1>1, <1>2, <1>3 DEF DeskInv, WorkInv, FilesInv

\* With the files as they are, only the request that moves matters.
LEMMA OneMoves ==
  ASSUME DeskInv, NEW r \in Requests, UNCHANGED <<en, zh, jobs>>, Others(r),
         pc' = [q \in Requests |-> pc'[q]], work' = [q \in Requests |-> work'[q]],
         seen' = [q \in Requests |-> seen'[q]], updates' \in Seq(Requests),
         Typed(r)', IdKept(r), Owns(r)', Holds(r)', Replacing(r)', QueueInv'
  PROVE  DeskInv'
<1>1. en' \in EnglishDicts /\ zh' \in Dicts /\ Defined(zh) \subseteq Defined(zh') /\ Damage(en, zh)'
  BY DEF DeskInv, TypeOK, FilesInv, Damage
<1> QED
  BY <1>1, FilesMove

\* The queue, when a request moves that is not in it before or after.
LEMMA QueueAside ==
  ASSUME TypeOK, QueueInv, NEW r \in Requests, updates' = updates, Others(r),
         pc[r] \notin {"queued"} \union AtWork, pc'[r] \notin {"queued"} \union AtWork
  PROVE  QueueInv'
<1>1. \A n \in 1..Len(updates) : updates[n] \in Requests /\ updates[n] # r
  BY ElementOfSeq DEF TypeOK, QueueInv
<1> QED
  BY <1>1 DEF QueueInv, Others

\* The queue, when the request at its head goes on, still at its head.
LEMMA QueueHead ==
  ASSUME TypeOK, QueueInv, NEW r \in Requests, updates' = updates, Others(r),
         Len(updates) > 0, updates[1] = r, pc'[r] \in AtWork
  PROVE  QueueInv'
<1>1. \A n \in 1..Len(updates) : updates[n] \in Requests /\ (n # 1 => updates[n] # r)
  BY ElementOfSeq, LenProperties DEF TypeOK, QueueInv
<1> QED
  BY <1>1 DEF QueueInv, Others

\* The queue, when the request at its head leaves it.
LEMMA QueueLeft ==
  ASSUME TypeOK, QueueInv, NEW r \in Requests, updates' = Tail(updates), Others(r),
         Len(updates) > 0, updates[1] = r, pc'[r] \notin {"queued"} \union AtWork
  PROVE  QueueInv' /\ updates' \in Seq(Requests)
<1>0. updates \in Seq(Requests) /\ updates # <<>> /\ Len(updates) \in Nat
  BY LenProperties, EmptySeq DEF TypeOK
<1>1. /\ updates' \in Seq(Requests) /\ Len(updates') = Len(updates) - 1
      /\ \A n \in 1..Len(updates') : updates'[n] = updates[n + 1]
  BY <1>0, HeadTailProperties
<1>2. \A n \in 1..Len(updates') :
        n + 1 \in 1..Len(updates) /\ n + 1 # 1 /\ updates'[n] \in Requests /\ updates'[n] # r
  BY <1>0, <1>1, ElementOfSeq DEF QueueInv
<1>3. \A n \in 1..Len(updates') : pc'[updates'[n]] = "queued"
  BY <1>1, <1>2 DEF QueueInv, Others
<1>4. \A m, n \in 1..Len(updates') : updates'[m] = updates'[n] => m = n
  <2> SUFFICES ASSUME NEW m \in 1..Len(updates'), NEW n \in 1..Len(updates'), updates'[m] = updates'[n]
               PROVE  m = n
    OBVIOUS
  <2>1. m + 1 \in 1..Len(updates) /\ n + 1 \in 1..Len(updates) /\ updates[m + 1] = updates[n + 1]
    BY <1>1, <1>2
  <2>2. m + 1 = n + 1
    BY <2>1 DEF QueueInv
  <2> QED
    BY <2>2
<1>5. ASSUME NEW q \in Requests, pc'[q] \in AtWork PROVE FALSE
  BY <1>5 DEF Others, QueueInv
<1> QED
  BY <1>1, <1>3, <1>4, <1>5 DEF QueueInv

\* The queue, when a request joins it.
LEMMA QueueJoined ==
  ASSUME TypeOK, QueueInv, NEW r \in Requests, updates' = Append(updates, r), Others(r),
         pc[r] \notin {"queued"} \union AtWork, pc'[r] = "queued"
  PROVE  QueueInv' /\ updates' \in Seq(Requests)
<1>0. updates \in Seq(Requests) /\ Len(updates) \in Nat
  BY LenProperties DEF TypeOK
<1>1. /\ updates' \in Seq(Requests) /\ Len(updates') = Len(updates) + 1
      /\ \A n \in 1..Len(updates) : updates'[n] = updates[n]
      /\ updates'[Len(updates) + 1] = r
  BY <1>0, AppendProperties
<1>2. \A n \in 1..Len(updates) : updates[n] \in Requests /\ updates[n] # r
  BY <1>0, ElementOfSeq DEF QueueInv
<1>3. \A n \in 1..Len(updates') : n \in 1..Len(updates) \/ n = Len(updates) + 1
  BY <1>0, <1>1
<1>4. \A n \in 1..Len(updates') :
        pc'[updates'[n]] = "queued" \/ (n = 1 /\ pc'[updates'[n]] \in AtWork)
  BY <1>1, <1>2, <1>3 DEF QueueInv, Others
<1>5. \A m, n \in 1..Len(updates') : updates'[m] = updates'[n] => m = n
  BY <1>1, <1>2, <1>3 DEF QueueInv
<1>6. ASSUME NEW q \in Requests, pc'[q] \in AtWork PROVE Len(updates') > 0 /\ updates'[1] = q
  <2>1. q # r
    BY <1>6 DEF AtWork
  <2>2. Len(updates) > 0 /\ updates[1] = q
    BY <1>6, <2>1 DEF Others, QueueInv
  <2> QED
    BY <1>0, <1>1, <2>2
<1> QED
  BY <1>1, <1>4, <1>5, <1>6 DEF QueueInv

LEMMA Shapes ==
  ASSUME DeskInv
  PROVE  /\ pc = [q \in Requests |-> pc[q]] /\ work = [q \in Requests |-> work[q]]
         /\ seen = [q \in Requests |-> seen[q]] /\ updates \in Seq(Requests)
         /\ TypeOK /\ QueueInv
BY DEF DeskInv, TypeOK

\* A request that ends leaves nothing behind.
LEMMA EndsSafely ==
  ASSUME DeskInv, NEW r \in Requests, Ends(r), UNCHANGED <<en, zh, jobs>>,
         updates' \in Seq(Requests), QueueInv'
  PROVE  DeskInv'
<1>1. /\ Others(r) /\ pc'[r] = "idle" /\ work'[r] = None
      /\ pc' = [q \in Requests |-> pc'[q]] /\ work' = [q \in Requests |-> work'[q]]
      /\ seen' = [q \in Requests |-> seen'[q]]
  BY Shapes DEF Ends, Others
<1>2. Typed(r)' /\ IdKept(r) /\ Owns(r)' /\ Holds(r)' /\ Replacing(r)'
  BY <1>1 DEF Typed, IdKept, Owns, Holds, Replacing, Steps, AtWork
<1> QED
  BY <1>1, <1>2, OneMoves

LEMMA EndsAside ==
  ASSUME DeskInv, NEW r \in Requests, Ends(r), UNCHANGED <<en, zh, jobs, updates>>,
         pc[r] \notin {"queued"} \union AtWork
  PROVE  DeskInv'
<1>1. Others(r) /\ pc'[r] = "idle" /\ updates' \in Seq(Requests)
  BY Shapes DEF Ends, Others
<1>2. QueueInv'
  BY <1>1, Shapes, QueueAside DEF AtWork
<1> QED
  BY <1>1, <1>2, EndsSafely

-------------------------------------------------------------------------------
(* Intake *)

LEMMA FreeId ==
  ASSUME FreeIds # {}
  PROVE  Min(FreeIds) \in FreeIds
BY Smallest, DeskAssumption DEF FreeIds, JobIds

LEMMA EmptyByCode == ASSUME NEW values PROVE Nothing \in ByCode(values) /\ DOMAIN Nothing = {}
<1>1. Nothing \in [{} -> values]
  BY DEF Nothing
<1> QED
  BY <1>1 DEF ByCode

LEMMA InByCode ==
  ASSUME NEW S \in SUBSET Codes, NEW values, NEW f \in [S -> values]
  PROVE  f \in ByCode(values)
BY DEF ByCode

LEMMA DeskBatchArrives ==
  ASSUME DeskInv, NEW r \in Requests, NEW texts \in SUBSET Texts, BatchArrives(r, texts)
  PROVE  DeskInv'
<1> DEFINE id == Min(FreeIds)
<1>0. id \in FreeIds /\ id \in JobIds
  BY FreeId DEF BatchArrives, FreeIds
<1> HIDE DEF id
<1>1. /\ pc[r] = "idle" /\ Others(r) /\ pc'[r] = "allotting" /\ work'[r] = [id |-> id, job |-> None]
      /\ seen'[r] = [texts |-> texts, en |-> None, zh |-> None, held |-> None]
      /\ pc' = [q \in Requests |-> pc'[q]] /\ work' = [q \in Requests |-> work'[q]]
      /\ seen' = [q \in Requests |-> seen'[q]] /\ UNCHANGED <<en, zh, jobs, updates>>
  BY Shapes DEF BatchArrives, Goes, Others, id
<1>2. Typed(r)'
  <2>1. work'[r] \in Works
    BY <1>0, <1>1 DEF Works
  <2>2. [texts |-> texts, en |-> None, zh |-> None, held |-> None] \in Asked
    BY DEF Asked
  <2>3. seen'[r] \in Asked
    BY <1>1, <2>2
  <2> QED
    BY <1>1, <2>1, <2>3 DEF Typed, Steps, AtWork
<1>3. IdKept(r) /\ Holds(r)' /\ Replacing(r)'
  BY <1>0, <1>1 DEF IdKept, Holds, Replacing
<1>4. Owns(r)'
  <2>1. work'[r] # None
    <3>1. work'[r] \in [id : JobIds, job : JobRecords \union {None}]
      BY <1>0, <1>1
    <3> QED
      BY <3>1, NoneAssumption
  <2>2. jobs'[work'[r].id] = None
    BY <1>0, <1>1 DEF FreeIds
  <2>3. \A q \in Requests \ {r} : work'[q] # None => work'[q].id # work'[r].id
    BY <1>0, <1>1 DEF FreeIds, Others
  <2> QED
    BY <1>1, <2>1, <2>2, <2>3 DEF Owns
<1>5. QueueInv'
  BY <1>1, Shapes, QueueAside DEF AtWork
<1> QED
  BY <1>1, <1>2, <1>3, <1>4, <1>5, Shapes, OneMoves

\* A step of a request that keeps its job, outside the queue.
LEMMA SameJob ==
  ASSUME DeskInv, NEW r \in Requests, Others(r), UNCHANGED <<en, zh, jobs, updates>>,
         pc' = [q \in Requests |-> pc'[q]], seen' = [q \in Requests |-> seen'[q]], work' = work,
         Typed(r)', Owns(r)', pc[r] \notin {"queued"} \union AtWork,
         pc'[r] \notin {"queued"} \union AtWork, (pc[r] = "allotting") <=> (pc'[r] = "allotting")
  PROVE  DeskInv'
<1>1. IdKept(r) /\ Replacing(r)'
  BY DEF IdKept, Replacing, AtWork
<1>2. Holds(r)'
  <2>1. Holds(r)
    BY DEF DeskInv, WorkInv
  <2> QED
    BY <2>1 DEF Holds, Shaped, Listed
<1>3. QueueInv'
  BY Shapes, QueueAside
<1> QED
  BY <1>1, <1>2, <1>3, Shapes, OneMoves

LEMMA DeskBatchReads ==
  ASSUME DeskInv, NEW r \in Requests, BatchReads(r)
  PROVE  DeskInv'
<1>1. pc[r] = "allotting" /\ seen[r] \in Asked
      /\ UNCHANGED <<en, zh, jobs, pc, work, updates>>
  BY DEF BatchReads, DeskInv, TypeOK
<1>2. Defined(en) \in SUBSET Codes /\ zh \in Dicts /\ Held \in SUBSET Codes
  BY DEF Defined, Held, DeskInv, TypeOK, JobRecords
<1>3. seen' = [q \in Requests |-> seen'[q]] /\ Others(r) /\ seen'[r] \in Asked
  <2>1. CASE seen' = [seen EXCEPT ![r].en = Defined(en)]
    BY <1>1, <1>2, <2>1, Shapes DEF Others, Asked
  <2>2. CASE seen' = [seen EXCEPT ![r].zh = zh]
    BY <1>1, <1>2, <2>2, Shapes DEF Others, Asked
  <2>3. CASE seen' = [seen EXCEPT ![r].held = Held]
    BY <1>1, <1>2, <2>3, Shapes DEF Others, Asked
  <2> QED
    BY <2>1, <2>2, <2>3 DEF BatchReads
<1>4. Typed(r)' /\ Owns(r)'
  BY <1>1, <1>3 DEF Typed, Owns, AtWork, DeskInv, WorkInv, TypeOK
<1> QED
  BY <1>1, <1>3, <1>4, Shapes, SameJob DEF AtWork

LEMMA DeskBatchFails ==
  ASSUME DeskInv, NEW r \in Requests, BatchFails(r)
  PROVE  DeskInv'
BY EndsAside DEF BatchFails, AtWork

LEMMA DeskBatchAllots ==
  ASSUME DeskInv, NEW r \in Requests, BatchAllots(r)
  PROVE  DeskInv'
<1> DEFINE additions == {t \in seen[r].texts : \A c \in Codes : seen[r].zh[c] # t}
           free == LowestFree(Cardinality(additions),
                              seen[r].en \union Defined(seen[r].zh) \union seen[r].held)
           allotted == additions # {} /\ Cardinality(free) = Cardinality(additions)
<1>1. /\ pc[r] = "allotting" /\ seen[r].texts \subseteq Texts
      /\ UNCHANGED <<en, zh, jobs, updates>>
  BY DEF BatchAllots, DeskInv, TypeOK, Asked
<1>2. CASE ~allotted
  <2>1. Ends(r)
    BY <1>2 DEF BatchAllots
  <2> QED
    BY <1>1, <2>1, EndsAside DEF AtWork
<1>3. CASE allotted
  <2>0. additions \subseteq Texts /\ additions # {} /\ free \in SUBSET Codes
    BY <1>1, <1>3 DEF LowestFree
  <2>1. PICK sources \in [free -> additions], mode \in Modes :
          /\ Range(sources) = additions
          /\ work' = [work EXCEPT ![r].job = NewJob(free, mode, sources)]
          /\ Goes(r, "saving") /\ UNCHANGED <<seen, agent, allocations>>
    BY <1>3 DEF BatchAllots
  <2> DEFINE job == NewJob(free, mode, sources)
  <2> HIDE DEF additions, free
  <2>2. job \in JobRecords
    <3>1. sources \in [free -> Texts]
      BY <2>0
    <3> QED
      BY <2>0, <3>1, InByCode, EmptyByCode DEF NewJob, JobRecords
  <2>3. /\ job.codes = free /\ job.sources = sources /\ job.proposals = Nothing
        /\ job.status = "QUEUED" /\ DOMAIN sources = free /\ free # {}
    BY <2>0, <2>1 DEF NewJob, Range
  <2>4. Shaped(job) /\ Listed(job)
    BY <2>3, EmptyByCode DEF Shaped, Sourced, Listed
  <2>6. /\ work[r] \in Works /\ work[r] # None /\ Owns(r)
        /\ work[r].id \in JobIds
    BY <1>1 DEF DeskInv, TypeOK, WorkInv, Owns, Works
  <2> HIDE DEF job
  <2>7. /\ Others(r) /\ pc'[r] = "saving" /\ seen' = seen
        /\ work'[r] = [id |-> work[r].id, job |-> job]
        /\ pc' = [q \in Requests |-> pc'[q]] /\ work' = [q \in Requests |-> work'[q]]
    <3>1. work' = [work EXCEPT ![r].job = job]
      BY <2>1 DEF job
    <3> QED
      BY <2>1, <2>6, <3>1, Shapes DEF Goes, Others, Works
  <2>8. work'[r] \in Works /\ work'[r] # None
    <3>1. work'[r] \in Works
      BY <2>2, <2>6, <2>7 DEF Works
    <3> QED
      BY <3>1, NoneAssumption DEF Works
  <2>9. Typed(r)' /\ IdKept(r) /\ Replacing(r)'
    BY <2>6, <2>7, <2>8 DEF Typed, IdKept, Replacing, Steps, AtWork
  <2>10. Holds(r)'
    BY <1>1, <2>2, <2>4, <2>7 DEF Holds, Shaped, Listed
  <2>11. Owns(r)'
    <3>1. jobs[work[r].id] = None /\ \A q \in Requests \ {r} : work[q] # None => work[q].id # work[r].id
      BY <1>1, <2>6 DEF Owns
    <3> QED
      BY <1>1, <2>7, <2>8, <3>1 DEF Owns, Others
  <2>12. QueueInv'
    BY <1>1, <2>7, Shapes, QueueAside DEF AtWork
  <2> QED
    BY <1>1, <2>7, <2>9, <2>10, <2>11, <2>12, Shapes, OneMoves
<1> QED
  BY <1>2, <1>3

-------------------------------------------------------------------------------
(* The agents, and the edits of their drafts *)

\* A request takes a copy of a saved job.
LEMMA CopyTaken ==
  ASSUME DeskInv, NEW r \in Requests, NEW i \in JobIds, jobs[i] # None,
         NEW job \in JobRecords, job.codes = jobs[i].codes, Shaped(job), Listed(job),
         NEW step, step \in {"calling", "saving", "queued"},
         work' = [work EXCEPT ![r] = [id |-> i, job |-> job]], Goes(r, step),
         UNCHANGED <<en, zh, jobs>>, QueueInv', updates' \in Seq(Requests),
         NEW read, seen' = seen \/ seen' = [seen EXCEPT ![r] = read],
         step = "calling" => seen'[r] \in [job.codes -> Texts],
         step = "queued" => MayApprove(job)
  PROVE  DeskInv'
<1>1. /\ Others(r) /\ pc'[r] = step /\ work'[r] = [id |-> i, job |-> job]
      /\ pc' = [q \in Requests |-> pc'[q]] /\ work' = [q \in Requests |-> work'[q]]
      /\ seen' = [q \in Requests |-> seen'[q]]
  BY Shapes DEF Goes, Others
<1>2. work'[r] \in Works /\ work'[r] # None
  <2>1. work'[r] \in Works
    BY <1>1 DEF Works
  <2> QED
    BY <2>1, NoneAssumption DEF Works
<1>3. Typed(r)' /\ IdKept(r) /\ Owns(r)'
  BY <1>1, <1>2 DEF Typed, IdKept, Owns, Steps, AtWork
<1>4. Holds(r)'
  BY <1>1 DEF Holds, Shaped, Listed
<1>5. Replacing(r)'
  BY <1>1 DEF Replacing
<1> QED
  BY <1>1, <1>3, <1>4, <1>5, Shapes, OneMoves

LEMMA JobTyped ==
  ASSUME DeskInv, NEW i \in JobIds, jobs[i] # None
  PROVE  jobs[i] \in JobRecords /\ Shaped(jobs[i]) /\ Listed(jobs[i])
BY DEF DeskInv, TypeOK, JobsInv

\* What the agent is asked to translate: the new texts, or the known ones.
LEMMA SourcesKnown ==
  ASSUME DeskInv, NEW job \in JobRecords, Shaped(job), NEW c \in job.codes
  PROVE  (IF Sourced(job) THEN job.sources[c] ELSE zh[c]) \in Texts
<1>1. CASE Sourced(job)
  <2>1. PICK S \in SUBSET Codes : job.sources \in [S -> Texts]
    BY DEF JobRecords, ByCode
  <2> QED
    BY <1>1, <2>1 DEF Shaped
<1>2. CASE ~Sourced(job)
  <2>1. c \in Defined(zh)
    BY <1>2 DEF Shaped
  <2> QED
    BY <1>2, <2>1 DEF Defined, DeskInv, TypeOK, Dicts
<1> QED
  BY <1>1, <1>2

LEMMA DeskRunStarts ==
  ASSUME DeskInv, NEW r \in Requests, NEW i \in JobIds, NEW available, RunStarts(r, i, available)
  PROVE  DeskInv'
<1> DEFINE sources == [c \in jobs[i].codes |-> IF Sourced(jobs[i]) THEN jobs[i].sources[c] ELSE zh[c]]
<1>1. /\ pc[r] = "idle" /\ jobs[i] # None /\ Goes(r, "calling")
      /\ work' = [work EXCEPT ![r] = [id |-> i, job |-> jobs[i]]]
      /\ seen' = [seen EXCEPT ![r] = sources] /\ UNCHANGED <<en, zh, jobs, updates>>
  BY DEF RunStarts
<1>2. jobs[i] \in JobRecords /\ Shaped(jobs[i]) /\ Listed(jobs[i])
  BY <1>1, JobTyped
<1>3. sources \in [jobs[i].codes -> Texts]
  BY <1>2, SourcesKnown
<1> HIDE DEF sources
<1>4. seen'[r] = sources
  BY <1>1, Shapes
<1>5. QueueInv'
  BY <1>1, Shapes, QueueAside DEF AtWork, Goes, Others
<1> QED
  BY <1>1, <1>2, <1>3, <1>4, <1>5, Shapes, CopyTaken

LEMMA DeskEdit ==
  ASSUME DeskInv, NEW r \in Requests, NEW i \in JobIds, NEW c \in Codes, NEW approved \in BOOLEAN,
         Edit(r, i, c, approved)
  PROVE  DeskInv'
<1>1. /\ pc[r] = "idle" /\ jobs[i] # None /\ Goes(r, "saving") /\ c \in DOMAIN jobs[i].proposals
      /\ jobs[i].status = "PENDING_REVIEW" /\ UNCHANGED <<en, zh, jobs, seen, updates>>
  BY DEF Edit
<1>2. PICK entry \in Rewrites \union {jobs[i].proposals[c].entry} :
        work' = [work EXCEPT ![r] = [id |-> i, job |->
                   [jobs[i] EXCEPT !.proposals[c] = Proposal(approved, entry)]]]
  BY DEF Edit
<1> DEFINE drafts == [jobs[i].proposals EXCEPT ![c] = Proposal(approved, entry)]
           job == [jobs[i] EXCEPT !.proposals = drafts]
<1>3. jobs[i] \in JobRecords /\ Shaped(jobs[i])
  BY <1>1, JobTyped
<1>4. PICK S \in SUBSET Codes : jobs[i].proposals \in [S -> Proposals]
  BY <1>3 DEF JobRecords, ByCode
<1>5. drafts \in ByCode(Proposals) /\ DOMAIN drafts = DOMAIN jobs[i].proposals
  <2>1. entry \in Entries
    BY <1>1, <1>4, DeskAssumption DEF Proposals, Entries
  <2>2. Proposal(approved, entry) \in Proposals
    BY <2>1 DEF Proposal, Proposals
  <2>3. drafts \in [S -> Proposals]
    BY <1>1, <1>4, <2>2
  <2> HIDE DEF drafts
  <2> QED
    BY <1>4, <2>3, InByCode
<1>6. work' = [work EXCEPT ![r] = [id |-> i, job |-> job]]
  BY <1>2, <1>3 DEF JobRecords
<1> HIDE DEF drafts
<1>7. /\ job \in JobRecords /\ job.codes = jobs[i].codes /\ job.sources = jobs[i].sources
      /\ job.status = "PENDING_REVIEW" /\ job.proposals = drafts
  BY <1>1, <1>3, <1>5 DEF JobRecords
<1> HIDE DEF job
<1>8. Shaped(job) /\ Listed(job)
  BY <1>3, <1>5, <1>7 DEF Shaped, Listed, Sourced
<1>9. QueueInv'
  BY <1>1, Shapes, QueueAside DEF AtWork, Goes, Others, Edit
<1> QED
  BY <1>1, <1>6, <1>7, <1>8, <1>9, Shapes, CopyTaken

LEMMA DeskCliPrepares ==
  ASSUME DeskInv, NEW r \in Requests, NEW requested, NEW flag, NEW confirmed, NEW available,
         CliPrepares(r, requested, flag, confirmed, available)
  PROVE  DeskInv'
<1>1. /\ pc[r] = "idle" /\ Others(r) /\ pc'[r] = "prepared" /\ pc' = [q \in Requests |-> pc'[q]]
      /\ UNCHANGED <<en, zh, jobs, work, seen, updates>>
  BY Shapes DEF CliPrepares, Goes, Others
<1>2. Typed(r)' /\ Owns(r)'
  BY <1>1 DEF Typed, Owns, Steps, AtWork, DeskInv, TypeOK, WorkInv
<1> QED
  BY <1>1, <1>2, Shapes, SameJob DEF AtWork

LEMMA DeskCliExecutes ==
  ASSUME DeskInv, NEW r \in Requests, NEW available, CliExecutes(r, available)
  PROVE  DeskInv'
<1>1. pc[r] = "prepared" /\ UNCHANGED <<en, zh, jobs, updates>>
  BY DEF CliExecutes
<1>2. CASE Ends(r)
  BY <1>1, <1>2, EndsAside DEF AtWork
<1>3. CASE Goes(r, "calling") /\ UNCHANGED <<work, seen>>
  <2>1. Others(r) /\ pc'[r] = "calling" /\ pc' = [q \in Requests |-> pc'[q]]
    BY <1>3, Shapes DEF Goes, Others
  <2>2. Typed(r)' /\ Owns(r)'
    BY <1>1, <1>3, <2>1 DEF Typed, Owns, Steps, AtWork, DeskInv, TypeOK, WorkInv
  <2> QED
    BY <1>1, <1>3, <2>1, <2>2, Shapes, SameJob DEF AtWork
<1> QED
  BY <1>2, <1>3 DEF CliExecutes

LEMMA DeskAgentAnswers ==
  ASSUME DeskInv, NEW r \in Requests, AgentAnswers(r)
  PROVE  DeskInv'
<1>1. pc[r] = "calling" /\ UNCHANGED <<en, zh, jobs, updates>>
  BY DEF AgentAnswers
<1>2. CASE Ends(r)
  BY <1>1, <1>2, EndsAside DEF AtWork
<1>3. CASE Drafts(r)
  <2> DEFINE english == IF Sourced(work[r].job) THEN FirstDrafts ELSE Redrafts
  <2>1. PICK answer \in [work[r].job.codes -> english] :
          work' = [work EXCEPT ![r].job = [work[r].job EXCEPT !.status = "PENDING_REVIEW",
            !.proposals = [c \in work[r].job.codes |-> Proposal(FALSE, Entry(answer[c], seen[r][c]))]]]
    BY <1>3 DEF Drafts
  <2> DEFINE drafts == [c \in work[r].job.codes |-> Proposal(FALSE, Entry(answer[c], seen[r][c]))]
             job == [work[r].job EXCEPT !.status = "PENDING_REVIEW", !.proposals = drafts]
  <2>2. /\ work[r] \in Works /\ work[r] # None /\ jobs[work[r].id] # None
        /\ work[r].job.codes = jobs[work[r].id].codes
        /\ work[r].job \in JobRecords /\ Shaped(work[r].job)
        /\ seen[r] \in [work[r].job.codes -> Texts] /\ work[r].job.codes \in SUBSET Codes
    BY <1>1, <1>3 DEF Drafts, DeskInv, TypeOK, WorkInv, Owns, Holds, JobRecords
  <2>3. drafts \in ByCode(Proposals) /\ DOMAIN drafts = work[r].job.codes
    <3>1. english \subseteq Wordings
      BY DeskAssumption
    <3>2. \A c \in work[r].job.codes : Proposal(FALSE, Entry(answer[c], seen[r][c])) \in Proposals
      <4> HIDE DEF english
      <4> QED
        BY <2>1, <2>2, <3>1 DEF Proposal, Entry, Proposals, Entries
    <3>3. drafts \in [work[r].job.codes -> Proposals]
      BY <3>2
    <3> HIDE DEF drafts
    <3> QED
      BY <2>2, <3>3, InByCode
  <2> HIDE DEF drafts
  <2>4. /\ job \in JobRecords /\ job.codes = work[r].job.codes /\ job.sources = work[r].job.sources
        /\ job.status = "PENDING_REVIEW" /\ job.proposals = drafts
    BY <2>2, <2>3 DEF JobRecords
  <2>5. work' = [work EXCEPT ![r].job = job]
    BY <2>1 DEF drafts
  <2> HIDE DEF job
  <2>6. /\ Others(r) /\ pc'[r] = "saving" /\ work'[r] = [id |-> work[r].id, job |-> job]
        /\ pc' = [q \in Requests |-> pc'[q]] /\ work' = [q \in Requests |-> work'[q]]
        /\ seen' = [q \in Requests |-> seen'[q]]
    BY <1>3, <2>2, <2>5, Shapes DEF Drafts, Goes, Others, Works
  <2>7. work'[r] \in Works /\ work'[r] # None
    <3>1. work'[r] \in Works
      BY <2>2, <2>4, <2>6 DEF Works
    <3> QED
      BY <3>1, NoneAssumption DEF Works
  <2>8. Typed(r)' /\ IdKept(r) /\ Owns(r)' /\ Replacing(r)'
    BY <1>1, <2>2, <2>4, <2>6, <2>7 DEF Typed, IdKept, Owns, Replacing, Steps, AtWork
  <2>9. Shaped(job) /\ Listed(job)
    BY <2>2, <2>3, <2>4 DEF Shaped, Listed, Sourced
  <2>10. Holds(r)'
    BY <1>1, <2>4, <2>6, <2>9 DEF Holds, Shaped, Listed
  <2>11. QueueInv'
    BY <1>1, <2>6, Shapes, QueueAside DEF AtWork
  <2> QED
    BY <1>1, <2>6, <2>8, <2>10, <2>11, Shapes, OneMoves
<1> QED
  BY <1>2, <1>3 DEF AgentAnswers

-------------------------------------------------------------------------------
(* Jobs are written: created, or saved by a request that then ends *)

LEMMA JobWritten ==
  ASSUME DeskInv, NEW r \in Requests, NEW i \in JobIds, NEW job \in JobRecords,
         Shaped(job), Listed(job), jobs' = [jobs EXCEPT ![i] = job],
         jobs[i] # None => job.codes = jobs[i].codes,
         jobs[i] = None => \A q \in Requests \ {r} : work[q] # None => work[q].id # i,
         UNCHANGED <<en, zh, updates>>, Others(r), pc'[r] = "idle", work'[r] = None, QueueInv',
         pc' = [q \in Requests |-> pc'[q]], work' = [q \in Requests |-> work'[q]],
         seen' = [q \in Requests |-> seen'[q]]
  PROVE  DeskInv'
<1>0. /\ jobs \in [JobIds -> JobRecords \union {None}] /\ None \notin JobRecords
      /\ jobs'[i] = job /\ \A k \in JobIds \ {i} : jobs'[k] = jobs[k]
      /\ jobs' \in [JobIds -> JobRecords \union {None}]
  BY NoneAssumption DEF DeskInv, TypeOK
<1>1. \A k \in JobIds : jobs[k] # None => jobs'[k] # None /\ jobs'[k].codes = jobs[k].codes
  BY <1>0
<1>2. TypeOK'
  <2>1. \A q \in Requests : Typed(q)'
    BY DEF DeskInv, TypeOK, Typed, Others, Steps, AtWork
  <2> QED
    BY <1>0, <2>1 DEF DeskInv, TypeOK, Typed
<1>3. JobsInv'
  BY <1>0 DEF DeskInv, JobsInv, Shaped, Listed
<1>4. Damage(en, zh)'
  BY <1>1 DEF DeskInv, FilesInv, Damage
<1>5. ASSUME NEW q \in Requests \ {r} PROVE Owns(q)' /\ Holds(q)' /\ Replacing(q)'
  <2>1. Owns(q) /\ Holds(q) /\ Replacing(q) /\ work[q] \in Works \union {None}
    BY DEF DeskInv, WorkInv, FilesInv, TypeOK
  <2>2. pc'[q] = pc[q] /\ work'[q] = work[q] /\ seen'[q] = seen[q]
    BY DEF Others
  <2>3. Holds(q)'
    BY <2>1, <2>2 DEF Holds, Shaped, Listed
  <2>4. Replacing(q)'
    BY <1>1, <2>1, <2>2 DEF Replacing, Damage
  <2>5. Owns(q)'
    <3>1. CASE work[q] = None
      BY <2>1, <2>2, <3>1 DEF Owns
    <3>2. CASE work[q] # None /\ jobs[work[q].id] # None
      <4>1. work[q].id \in JobIds
        BY <2>1, <3>2 DEF Works
      <4> QED
        BY <1>1, <2>1, <2>2, <3>2, <4>1 DEF Owns
    <3>3. CASE work[q] # None /\ jobs[work[q].id] = None
      <4>1. work[q].id \in JobIds /\ work[q].id # i
        BY <2>1, <3>3 DEF Works
      <4>2. pc[q] \in {"allotting", "saving"} /\ jobs'[work[q].id] = None
        BY <1>0, <2>1, <3>3, <4>1 DEF Owns
      <4>3. \A p \in Requests \ {q} : work'[p] # None => work'[p].id # work'[q].id
        BY <2>1, <2>2, <3>3 DEF Owns, Others
      <4> QED
        BY <2>2, <3>3, <4>2, <4>3 DEF Owns
    <3> QED
      BY <3>1, <3>2, <3>3
  <2> QED
    BY <2>3, <2>4, <2>5
<1>6. Owns(r)' /\ Holds(r)' /\ Replacing(r)'
  BY DEF Owns, Holds, Replacing
<1> QED
  BY <1>2, <1>3, <1>4, <1>5, <1>6 DEF DeskInv, WorkInv, FilesInv

LEMMA DeskCreateSelected ==
  ASSUME DeskInv, NEW r \in Requests, NEW codes \in SUBSET Codes, NEW mode \in Modes,
         CreateSelected(r, codes, mode)
  PROVE  DeskInv'
<1> DEFINE id == Min(FreeIds)
           job == NewJob(codes, mode, Nothing)
<1>0. id \in FreeIds
  BY FreeId DEF CreateSelected
<1>1. /\ pc[r] = "idle" /\ KnownCodes(codes) /\ jobs' = [jobs EXCEPT ![id] = job]
      /\ UNCHANGED <<en, zh, pc, work, seen, updates>>
  BY DEF CreateSelected
<1> HIDE DEF id
<1>2. job \in JobRecords
  BY EmptyByCode DEF NewJob, JobRecords
<1>3. job.codes = codes /\ job.sources = Nothing /\ job.proposals = Nothing /\ job.status = "QUEUED"
  BY DEF NewJob
<1> HIDE DEF job
<1>4. Shaped(job) /\ Listed(job)
  BY <1>1, <1>3, EmptyByCode DEF Shaped, Sourced, Listed, KnownCodes
<1>5. /\ id \in JobIds /\ jobs[id] = None
      /\ \A q \in Requests \ {r} : work[q] # None => work[q].id # id
  BY <1>0 DEF FreeIds
<1>6. Others(r) /\ pc'[r] = "idle" /\ work'[r] = None
  BY <1>1 DEF Others, DeskInv, WorkInv, Owns
<1>7. QueueInv'
  BY <1>1, <1>6, Shapes, QueueAside DEF AtWork
<1> QED
  BY <1>1, <1>2, <1>4, <1>5, <1>6, <1>7, Shapes, JobWritten

LEMMA DeskSaveJob ==
  ASSUME DeskInv, NEW r \in Requests, SaveJob(r)
  PROVE  DeskInv'
<1>1. /\ pc[r] = "saving" /\ Ends(r) /\ jobs' = [jobs EXCEPT ![work[r].id] = work[r].job]
      /\ UNCHANGED <<en, zh, updates>>
  BY DEF SaveJob
<1>2. /\ work[r] \in Works /\ work[r] # None /\ Owns(r) /\ work[r].id \in JobIds
      /\ work[r].job \in JobRecords /\ Shaped(work[r].job) /\ Listed(work[r].job)
  BY <1>1 DEF DeskInv, TypeOK, WorkInv, Owns, Holds, Works
<1>3. /\ jobs[work[r].id] # None => work[r].job.codes = jobs[work[r].id].codes
      /\ jobs[work[r].id] = None => \A q \in Requests \ {r} : work[q] # None => work[q].id # work[r].id
  BY <1>2 DEF Owns
<1>4. /\ Others(r) /\ pc'[r] = "idle" /\ work'[r] = None
      /\ pc' = [q \in Requests |-> pc'[q]] /\ work' = [q \in Requests |-> work'[q]]
      /\ seen' = [q \in Requests |-> seen'[q]]
  BY <1>1, Shapes DEF Ends, Others
<1>5. QueueInv'
  BY <1>1, <1>4, Shapes, QueueAside DEF AtWork
<1> QED
  BY <1>1, <1>2, <1>3, <1>4, <1>5, JobWritten

LEMMA StatusSet ==
  ASSUME NEW held \in Works, held.job \in JobRecords, NEW status
  PROVE  [held EXCEPT !.job.status = status] =
           [id |-> held.id, job |-> [held.job EXCEPT !.status = status]]
BY DEF Works

LEMMA DeskSaveFails ==
  ASSUME DeskInv, NEW r \in Requests, SaveFails(r)
  PROVE  DeskInv'
<1>1. pc[r] = "saving" /\ UNCHANGED <<en, zh, jobs, updates>>
  BY DEF SaveFails
<1>2. CASE Ends(r)
  BY <1>1, <1>2, EndsAside DEF AtWork
<1>3. CASE /\ work' = [work EXCEPT ![r].job.status = "PUBLISH_FAILED"]
           /\ UNCHANGED <<pc, seen, agent, allocations>>
  <2> DEFINE job == [work[r].job EXCEPT !.status = "PUBLISH_FAILED"]
  <2>1. /\ work[r] \in Works /\ work[r] # None /\ Owns(r)
        /\ work[r].job \in JobRecords /\ Shaped(work[r].job)
    BY <1>1 DEF DeskInv, TypeOK, WorkInv, Owns, Holds
  <2>2. /\ job \in JobRecords /\ job.codes = work[r].job.codes /\ job.sources = work[r].job.sources
        /\ job.proposals = work[r].job.proposals /\ job.status = "PUBLISH_FAILED"
    BY <2>1 DEF JobRecords
  <2>3. work' = [work EXCEPT ![r] = [id |-> work[r].id, job |-> job]]
    BY <1>3, <2>1, Shapes, StatusSet
  <2> HIDE DEF job
  <2>4. /\ Others(r) /\ work'[r] = [id |-> work[r].id, job |-> job] /\ pc'[r] = "saving"
        /\ pc' = [q \in Requests |-> pc'[q]] /\ work' = [q \in Requests |-> work'[q]]
        /\ seen' = [q \in Requests |-> seen'[q]]
    BY <1>1, <1>3, <2>3, Shapes DEF Others
  <2>5. work'[r] \in Works /\ work'[r] # None
    <3>1. work'[r] \in Works
      BY <2>1, <2>2, <2>4 DEF Works
    <3> QED
      BY <3>1, NoneAssumption DEF Works
  <2>6. Typed(r)' /\ IdKept(r) /\ Replacing(r)'
    BY <2>1, <2>4, <2>5 DEF Typed, IdKept, Replacing, Steps, AtWork
  <2>7. Holds(r)'
    BY <1>1, <2>1, <2>2, <2>4 DEF Holds, Shaped, Listed, Sourced
  <2>8. Owns(r)'
    BY <1>1, <2>1, <2>2, <2>4, <2>5 DEF Owns, Others
  <2>9. QueueInv'
    BY <1>1, <2>4, Shapes, QueueAside DEF AtWork
  <2> QED
    BY <1>1, <2>4, <2>6, <2>7, <2>8, <2>9, Shapes, OneMoves
<1> QED
  BY <1>2, <1>3 DEF SaveFails

-------------------------------------------------------------------------------
(* Approvals *)

LEMMA DeskApproveArrives ==
  ASSUME DeskInv, NEW r \in Requests, NEW i \in JobIds, ApproveArrives(r, i)
  PROVE  DeskInv'
<1>1. /\ pc[r] = "idle" /\ jobs[i] # None /\ MayApprove(jobs[i]) /\ Goes(r, "queued")
      /\ work' = [work EXCEPT ![r] = [id |-> i, job |-> jobs[i]]]
      /\ updates' = Append(updates, r) /\ UNCHANGED <<en, zh, jobs, seen>>
  BY DEF ApproveArrives
<1>2. jobs[i] \in JobRecords /\ Shaped(jobs[i]) /\ Listed(jobs[i])
  BY <1>1, JobTyped
<1>3. Others(r) /\ pc'[r] = "queued"
  BY <1>1, Shapes DEF Goes, Others
<1>4. QueueInv' /\ updates' \in Seq(Requests)
  BY <1>1, <1>3, Shapes, QueueJoined DEF AtWork
<1> QED
  BY <1>1, <1>2, <1>4, CopyTaken

\* A request in the queue has a copy of a saved job, as it was when approved.
LEMMA Approving ==
  ASSUME DeskInv, NEW r \in Requests, pc[r] \in {"queued"} \union AtWork
  PROVE  /\ work[r] \in Works /\ work[r] # None /\ work[r].id \in JobIds
         /\ jobs[work[r].id] # None /\ work[r].job.codes = jobs[work[r].id].codes
         /\ work[r].job \in JobRecords /\ Shaped(work[r].job) /\ Listed(work[r].job)
         /\ pc[r] # "chinese" => MayApprove(work[r].job)
<1>1. Owns(r) /\ Holds(r) /\ Replacing(r) /\ work[r] \in Works \union {None}
  BY DEF DeskInv, TypeOK, WorkInv, FilesInv
<1>2. work[r] # None /\ jobs[work[r].id] # None /\ work[r].job.codes = jobs[work[r].id].codes
  BY <1>1 DEF Owns, AtWork
<1>3. work[r] \in Works /\ work[r].id \in JobIds
  BY <1>1, <1>2 DEF Works
<1>4. work[r].job \in JobRecords /\ Shaped(work[r].job) /\ Listed(work[r].job)
  BY <1>1, <1>2 DEF Holds, AtWork
<1> QED
  BY <1>1, <1>2, <1>3, <1>4 DEF Replacing, AtWork

LEMMA AtHead ==
  ASSUME DeskInv, NEW r \in Requests, MyTurn(r) \/ pc[r] \in AtWork
  PROVE  Len(updates) > 0 /\ updates[1] = r
<1>1. CASE MyTurn(r)
  BY <1>1, Shapes, EmptySeq, LenProperties DEF MyTurn
<1> QED
  BY <1>1 DEF DeskInv, QueueInv

\* The approved entries are those of codes of the job.
LEMMA EntriesOf ==
  ASSUME NEW job \in JobRecords, Shaped(job)
  PROVE  /\ Approval(job).entries = [c \in Approved(job) |-> job.proposals[c].entry]
         /\ Approval(job).fresh = Sourced(job)
         /\ DOMAIN Approval(job).entries = Approved(job)
         /\ Approved(job) \subseteq job.codes /\ job.codes \subseteq Codes
         /\ \A c \in Approved(job) : Approval(job).entries[c] \in Entries
<1>1. PICK S \in SUBSET Codes : job.proposals \in [S -> Proposals]
  BY DEF JobRecords, ByCode
<1>2. Approved(job) \subseteq job.codes /\ job.codes \subseteq Codes
      /\ \A c \in Approved(job) : job.proposals[c].entry \in Entries
  BY <1>1 DEF Approved, Shaped, JobRecords, Proposals
<1> QED
  BY <1>2 DEF Approval

\* What the files hold with an approval written over them.
LEMMA Written ==
  ASSUME NEW english \in EnglishDicts, NEW chinese \in Dicts, NEW job \in JobRecords, Shaped(job)
  PROVE  LET entries == Approval(job).entries
         IN  /\ WithEnglish(english, entries) \in EnglishDicts
             /\ Defined(WithEnglish(english, entries)) = Defined(english) \union Approved(job)
             /\ WithChinese(chinese, entries) \in Dicts
             /\ Defined(WithChinese(chinese, entries)) = Defined(chinese) \union Approved(job)
<1> DEFINE entries == Approval(job).entries
           newEn == WithEnglish(english, entries)
           newZh == WithChinese(chinese, entries)
<1>1. /\ DOMAIN entries = Approved(job) /\ Approved(job) \subseteq Codes
      /\ None \notin Texts /\ None \notin Wordings
      /\ \A c \in Approved(job) : entries[c].en \in Wordings /\ entries[c].zh \in Texts
  BY EntriesOf, DeskAssumption DEF Entries
<1> HIDE DEF entries
<1>2. /\ newEn = [c \in Codes |-> IF c \in Approved(job) THEN entries[c].en ELSE english[c]]
      /\ newZh = [c \in Codes |-> IF c \in Approved(job) THEN entries[c].zh ELSE chinese[c]]
  BY <1>1 DEF WithEnglish, WithChinese
<1>3. newEn \in EnglishDicts /\ newZh \in Dicts
  BY <1>1, <1>2 DEF EnglishDicts, Dicts
<1>4. \A c \in Codes : /\ newEn[c] # None <=> c \in Approved(job) \/ english[c] # None
                       /\ newZh[c] # None <=> c \in Approved(job) \/ chinese[c] # None
  BY <1>1, <1>2
<1>5. /\ Defined(newEn) = Defined(english) \union Approved(job)
      /\ Defined(newZh) = Defined(chinese) \union Approved(job)
  <2> HIDE DEF newEn, newZh
  <2> QED
    BY <1>1, <1>4 DEF Defined
<1> QED
  BY <1>3, <1>5 DEF entries

\* The request at the head ends its update: its job is to be saved as it came out.
LEMMA UpdateLeaves ==
  ASSUME DeskInv, NEW r \in Requests, pc[r] \in {"queued"} \union AtWork,
         Len(updates) > 0, updates[1] = r, pc[r] \in AtWork \/ UNCHANGED en,
         NEW status \in {"PUBLISHED", "PUBLISH_FAILED"}, status = "PUBLISHED" => pc[r] = "chinese",
         work' = [work EXCEPT ![r].job.status = status], seen' = [seen EXCEPT ![r] = None],
         Goes(r, "saving"), LeavesUpdates, UNCHANGED <<zh, jobs>>, en' \in EnglishDicts, Damage(en, zh)'
  PROVE  DeskInv'
<1> DEFINE job == [work[r].job EXCEPT !.status = status]
<1>1. /\ work[r] \in Works /\ work[r] # None /\ jobs[work[r].id] # None
      /\ work[r].job.codes = jobs[work[r].id].codes
      /\ work[r].job \in JobRecords /\ Shaped(work[r].job)
  BY Approving
<1>2. /\ job \in JobRecords /\ job.codes = work[r].job.codes /\ job.sources = work[r].job.sources
      /\ job.proposals = work[r].job.proposals /\ job.status = status
  BY <1>1 DEF JobRecords
<1>3. work' = [work EXCEPT ![r] = [id |-> work[r].id, job |-> job]]
  BY <1>1, Shapes, StatusSet
<1> HIDE DEF job
<1>4. /\ Others(r) /\ work'[r] = [id |-> work[r].id, job |-> job] /\ pc'[r] = "saving"
      /\ pc' = [q \in Requests |-> pc'[q]] /\ work' = [q \in Requests |-> work'[q]]
      /\ seen' = [q \in Requests |-> seen'[q]]
  BY <1>3, Shapes DEF Goes, Others
<1>5. work'[r] \in Works /\ work'[r] # None
  <2>1. work'[r] \in Works
    BY <1>1, <1>2, <1>4 DEF Works
  <2> QED
    BY <2>1, NoneAssumption DEF Works
<1>6. Typed(r)' /\ IdKept(r) /\ Replacing(r)' /\ Owns(r)'
  BY <1>1, <1>2, <1>4, <1>5 DEF Typed, IdKept, Replacing, Owns, Steps, AtWork
<1>7. Shaped(job) /\ Listed(job)
  <2>1. Shaped(job) /\ Approved(job) = Approved(work[r].job)
    BY <1>1, <1>2 DEF Shaped, Sourced, Approved
  <2>2. status = "PUBLISHED" => Approved(work[r].job) \subseteq Defined(zh)
    BY DEF DeskInv, FilesInv, Replacing
  <2> QED
    BY <1>2, <2>1, <2>2 DEF Listed
<1>8. Holds(r)'
  BY <1>2, <1>4, <1>7 DEF Holds, Shaped, Listed
<1>9. QueueInv' /\ updates' \in Seq(Requests)
  BY <1>4, Shapes, QueueLeft DEF AtWork, LeavesUpdates
<1>10. zh' \in Dicts /\ Defined(zh) \subseteq Defined(zh')
  BY DEF DeskInv, TypeOK
<1> QED
  BY <1>4, <1>6, <1>8, <1>9, <1>10, Shapes, FilesMove

LEMMA DeskUpdateReads ==
  ASSUME DeskInv, NEW r \in Requests, UpdateReads(r)
  PROVE  DeskInv'
<1> DEFINE job == work[r].job
           entries == Approval(job).entries
<1>1. pc[r] = "queued" /\ MyTurn(r) /\ UNCHANGED <<en, zh, jobs>>
  BY DEF UpdateReads
<1>2. Len(updates) > 0 /\ updates[1] = r
  BY <1>1, AtHead
<1>3. CASE Ends(r) /\ LeavesUpdates
  <2>1. Others(r) /\ pc'[r] = "idle"
    BY <1>3, Shapes DEF Ends, Others
  <2>2. QueueInv' /\ updates' \in Seq(Requests)
    BY <1>2, <1>3, <2>1, Shapes, QueueLeft DEF AtWork, LeavesUpdates
  <2> QED
    BY <1>1, <1>3, <2>2, EndsSafely
<1>4. CASE /\ Goes(r, "writing") /\ seen' = [seen EXCEPT ![r] = [en |-> en, zh |-> zh]]
           /\ UNCHANGED <<work, agent, updates>>
           /\ ~Taken(job) /\ Consistent(WithEnglish(en, entries), WithChinese(zh, entries))
  <2>1. /\ Others(r) /\ pc'[r] = "writing" /\ seen'[r] = [en |-> en, zh |-> zh]
        /\ pc' = [q \in Requests |-> pc'[q]] /\ work' = [q \in Requests |-> work'[q]]
        /\ seen' = [q \in Requests |-> seen'[q]] /\ work' = work
    BY <1>4, Shapes DEF Goes, Others
  <2>2. /\ work[r] \in Works /\ work[r] # None /\ jobs[work[r].id] # None
        /\ job.codes = jobs[work[r].id].codes
        /\ job \in JobRecords /\ Shaped(job) /\ Listed(job) /\ MayApprove(job)
    BY <1>1, Approving
  <2>3. Typed(r)' /\ IdKept(r) /\ Owns(r)'
    <3>1. seen'[r] \in Copies
      BY <2>1 DEF Copies, DeskInv, TypeOK
    <3> QED
      BY <1>1, <2>1, <2>2, <3>1 DEF Typed, IdKept, Owns, Steps, AtWork
  <2>4. Holds(r)'
    BY <1>1, <2>1, <2>2 DEF Holds, Shaped, Listed
  <2>5. Replacing(r)'
    <3>1. Defined(WithEnglish(en, entries)) = Defined(WithChinese(zh, entries))
      BY <1>4 DEF Consistent
    <3>2. Sourced(job) => Approved(job) \cap (Defined(en) \union Defined(zh)) = {}
      BY <1>4 DEF Taken
    <3>3. Damage(en, zh)
      BY DEF DeskInv, FilesInv
    <3> QED
      BY <1>1, <2>1, <2>2, <3>1, <3>2, <3>3 DEF Replacing, Damage
  <2>6. QueueInv'
    BY <1>2, <1>4, <2>1, Shapes, QueueHead DEF AtWork
  <2> QED
    BY <1>1, <1>4, <2>1, <2>3, <2>4, <2>5, <2>6, Shapes, OneMoves
<1>5. CASE UpdateFails(r)
  <2>1. en' \in EnglishDicts /\ Damage(en, zh)'
    BY <1>1 DEF DeskInv, TypeOK, FilesInv, Damage
  <2> QED
    BY <1>1, <1>2, <1>5, <2>1, UpdateLeaves DEF UpdateFails
<1> QED
  BY <1>3, <1>4, <1>5 DEF UpdateReads

LEMMA DeskWriteFails ==
  ASSUME DeskInv, NEW r \in Requests, WriteFails(r)
  PROVE  DeskInv'
<1>1. en' \in EnglishDicts /\ Damage(en, zh)'
  BY DEF WriteFails, DeskInv, TypeOK, FilesInv, Damage
<1> QED
  BY <1>1, AtHead, UpdateLeaves DEF WriteFails, UpdateFails, AtWork

LEMMA DeskChineseFails ==
  ASSUME DeskInv, NEW r \in Requests, ChineseFails(r)
  PROVE  DeskInv'
<1>1. seen[r] \in Copies /\ Damage(seen[r].en, zh) /\ Damage(en, zh) /\ en \in EnglishDicts
  BY DEF ChineseFails, DeskInv, TypeOK, FilesInv, Replacing, AtWork
<1>2. en' \in EnglishDicts
  BY <1>1 DEF ChineseFails, Copies
<1>3. Damage(en, zh)'
  BY <1>1 DEF ChineseFails, Damage
<1> QED
  BY <1>2, <1>3, AtHead, UpdateLeaves DEF ChineseFails, UpdateFails, AtWork

LEMMA DeskUpdateEnds ==
  ASSUME DeskInv, NEW r \in Requests, UpdateEnds(r)
  PROVE  DeskInv'
<1>1. en' \in EnglishDicts /\ Damage(en, zh)'
  BY DEF UpdateEnds, DeskInv, TypeOK, FilesInv, Damage
<1>2. CASE UpdateFails(r)
  BY <1>1, <1>2, AtHead, UpdateLeaves DEF UpdateEnds, UpdateFails, AtWork
<1>3. CASE ~UpdateFails(r)
  BY <1>1, <1>3, AtHead, UpdateLeaves DEF UpdateEnds, AtWork
<1> QED
  BY <1>2, <1>3

LEMMA DeskReplaceEnglish ==
  ASSUME DeskInv, NEW r \in Requests, ReplaceEnglish(r)
  PROVE  DeskInv'
<1> DEFINE job == work[r].job
           entries == Approval(job).entries
<1>1. /\ pc[r] = "writing" /\ pc'[r] = "english" /\ en' = WithEnglish(seen[r].en, entries)
      /\ pc' = [q \in Requests |-> pc'[q]] /\ Others(r)
      /\ UNCHANGED <<zh, jobs, work, seen, updates>>
  BY Shapes DEF ReplaceEnglish, EnglishReplaced, Goes, Others
<1>2. /\ work[r] \in Works /\ work[r] # None /\ jobs[work[r].id] # None /\ work[r].id \in JobIds
      /\ job.codes = jobs[work[r].id].codes
      /\ job \in JobRecords /\ Shaped(job) /\ Listed(job) /\ MayApprove(job)
  BY <1>1, Approving DEF AtWork
<1>3. /\ seen[r] \in Copies /\ zh = seen[r].zh /\ en = seen[r].en /\ zh \in Dicts
      /\ Defined(WithEnglish(seen[r].en, entries)) = Defined(WithChinese(zh, entries))
      /\ Sourced(job) => Approved(job) \cap (Defined(seen[r].en) \union Defined(zh)) = {}
      /\ Damage(seen[r].en, zh)
  BY <1>1 DEF DeskInv, TypeOK, FilesInv, Replacing, AtWork
<1>4. seen[r].en \in EnglishDicts
  BY <1>3 DEF Copies
<1>5. /\ en' \in EnglishDicts /\ Defined(en') = Defined(seen[r].en) \union Approved(job)
      /\ Defined(en') = Defined(zh) \union Approved(job)
  BY <1>1, <1>2, <1>3, <1>4, Written
<1>6. Damage(en, zh)'
  <2>1. Defined(en') \ Defined(zh) \subseteq jobs[work[r].id].codes
    BY <1>2, <1>5, EntriesOf
  <2> QED
    BY <1>1, <1>2, <1>5, <2>1 DEF Damage
<1>7. Typed(r)' /\ IdKept(r) /\ Owns(r)' /\ Holds(r)'
  <2>1. Holds(r)'
    BY <1>1, <1>2 DEF Holds, Shaped, Listed
  <2> QED
    BY <1>1, <1>2, <1>3, <2>1 DEF Typed, IdKept, Owns, Steps, AtWork
<1>8. Replacing(r)'
  BY <1>1, <1>2, <1>3 DEF Replacing, Damage
<1>9. QueueInv'
  <2>1. Len(updates) > 0 /\ updates[1] = r
    BY <1>1, AtHead DEF AtWork
  <2> QED
    BY <1>1, <2>1, Shapes, QueueHead DEF AtWork
<1>10. zh' \in Dicts /\ Defined(zh) \subseteq Defined(zh') /\ pc[r] \in AtWork
  BY <1>1, <1>3 DEF AtWork
<1> QED
  BY <1>1, <1>5, <1>6, <1>7, <1>8, <1>9, <1>10, Shapes, FilesMove

LEMMA DeskReplaceChinese ==
  ASSUME DeskInv, NEW r \in Requests, ReplaceChinese(r)
  PROVE  DeskInv'
<1> DEFINE job == work[r].job
           entries == Approval(job).entries
<1>1. /\ pc[r] = "english" /\ pc'[r] = "chinese" /\ zh' = WithChinese(seen[r].zh, entries)
      /\ pc' = [q \in Requests |-> pc'[q]] /\ Others(r)
      /\ UNCHANGED <<en, jobs, work, seen, updates>>
  BY Shapes DEF ReplaceChinese, Goes, Others
<1>2. /\ work[r] \in Works /\ work[r] # None /\ jobs[work[r].id] # None
      /\ job.codes = jobs[work[r].id].codes
      /\ job \in JobRecords /\ Shaped(job) /\ Listed(job)
  BY <1>1, Approving DEF AtWork
<1>3. /\ seen[r] \in Copies /\ zh = seen[r].zh /\ en = WithEnglish(seen[r].en, entries) /\ zh \in Dicts
      /\ Defined(WithEnglish(seen[r].en, entries)) = Defined(WithChinese(zh, entries)) /\ en \in EnglishDicts
  BY <1>1 DEF DeskInv, TypeOK, FilesInv, Replacing, AtWork
<1>4. zh' \in Dicts /\ Defined(zh') = Defined(zh) \union Approved(job) /\ Defined(en) = Defined(zh')
  BY <1>1, <1>2, <1>3, Written DEF Copies
<1>5. Damage(en, zh)'
  BY <1>1, <1>4 DEF Damage
<1>6. Typed(r)' /\ IdKept(r) /\ Owns(r)' /\ Holds(r)'
  <2>1. Holds(r)'
    BY <1>1, <1>2, <1>4 DEF Holds, Shaped, Listed
  <2> QED
    BY <1>1, <1>2, <1>3, <2>1 DEF Typed, IdKept, Owns, Steps, AtWork
<1>7. Replacing(r)'
  BY <1>1, <1>4 DEF Replacing
<1>8. QueueInv'
  <2>1. Len(updates) > 0 /\ updates[1] = r
    BY <1>1, AtHead DEF AtWork
  <2> QED
    BY <1>1, <2>1, Shapes, QueueHead DEF AtWork
<1>9. en' \in EnglishDicts /\ Defined(zh) \subseteq Defined(zh') /\ pc[r] \in AtWork
  BY <1>1, <1>3, <1>4 DEF AtWork
<1> QED
  BY <1>1, <1>4, <1>5, <1>6, <1>7, <1>8, <1>9, Shapes, FilesMove

-------------------------------------------------------------------------------
(* Every step *)

LEMMA DeskCrash ==
  ASSUME DeskInv, Crash
  PROVE  DeskInv'
<1>1. /\ \A r \in Requests : work'[r] = None /\ pc'[r] \in {pc[r], "idle"}
      /\ \A r \in Requests : pc'[r] # "idle" => pc'[r] = pc[r] /\ work[r] = None
      /\ pc' \in [Requests -> Steps] /\ work' \in [Requests -> Works \union {None}]
      /\ seen' = [r \in Requests |-> seen'[r]] /\ updates' = << >> /\ UNCHANGED <<en, zh, jobs>>
  BY DEF Crash, OwnProcess, DeskInv, TypeOK, Steps
<1>2. \A r \in Requests : pc'[r] \in {"idle", "prepared", "calling"}
  BY <1>1 DEF DeskInv, WorkInv, Owns
<1>3. TypeOK'
  BY <1>1, <1>2, EmptySeq DEF DeskInv, TypeOK, AtWork
<1>4. JobsInv' /\ WorkInv'
  BY <1>1, <1>2 DEF DeskInv, JobsInv, Shaped, Listed, WorkInv, Owns, Holds
<1>5. QueueInv'
  <2>1. Len(updates') = 0
    BY <1>1, EmptySeq
  <2> QED
    BY <1>2, <2>1 DEF QueueInv, AtWork
<1>6. FilesInv'
  BY <1>1, <1>2 DEF DeskInv, FilesInv, Replacing, Damage
<1> QED
  BY <1>3, <1>4, <1>5, <1>6 DEF DeskInv

LEMMA DeskAsks ==
  ASSUME DeskInv, NEW r \in Requests, Asks(r)
  PROVE  DeskInv'
<1>1. ASSUME NEW T \in SUBSET Texts, BatchArrives(r, T) PROVE DeskInv'
  BY <1>1, DeskBatchArrives
<1>2. ASSUME NEW S \in Batches, NEW mode \in Modes, CreateSelected(r, S, mode) PROVE DeskInv'
  BY <1>2, DeskCreateSelected DEF Batches
<1>3. ASSUME NEW i \in JobIds, NEW available, RunStarts(r, i, available) PROVE DeskInv'
  BY <1>3, DeskRunStarts
<1>4. ASSUME NEW i \in JobIds, NEW c \in Codes, NEW approved \in BOOLEAN, Edit(r, i, c, approved)
      PROVE  DeskInv'
  BY <1>4, DeskEdit
<1>5. ASSUME NEW i \in JobIds, ApproveArrives(r, i) PROVE DeskInv'
  BY <1>5, DeskApproveArrives
<1>6. ASSUME NEW requested, NEW flag, NEW confirmed, NEW available,
             CliPrepares(r, requested, flag, confirmed, available)
      PROVE  DeskInv'
  BY <1>6, DeskCliPrepares
<1>7. ASSUME AgentAnswers(r) PROVE DeskInv'
  BY <1>7, DeskAgentAnswers
<1> QED
  BY <1>1, <1>2, <1>3, <1>4, <1>5, <1>6, <1>7 DEF Asks

LEMMA DeskServes ==
  ASSUME DeskInv, NEW r \in Requests, Serves(r)
  PROVE  DeskInv'
BY DeskBatchReads, DeskBatchFails, DeskBatchAllots, DeskCliExecutes, DeskUpdateReads, DeskReplaceEnglish,
   DeskWriteFails, DeskReplaceChinese, DeskChineseFails, DeskUpdateEnds, DeskSaveJob,
   DeskSaveFails DEF Serves

LEMMA DeskNext == DeskInv /\ [Next]_vars => DeskInv'
<1> SUFFICES ASSUME DeskInv, [Next]_vars PROVE DeskInv'
  OBVIOUS
<1>1. CASE UNCHANGED vars
  <2>1. UNCHANGED <<en, zh, jobs, pc, work, seen, updates>>
    BY <1>1 DEF vars
  <2>2. TypeOK'
    BY <2>1 DEF DeskInv, TypeOK
  <2>3. JobsInv' /\ WorkInv'
    BY <2>1 DEF DeskInv, JobsInv, WorkInv, Owns, Holds, Shaped, Listed
  <2>4. QueueInv' /\ FilesInv'
    BY <2>1 DEF DeskInv, QueueInv, FilesInv, Replacing, Damage
  <2> QED
    BY <2>2, <2>3, <2>4 DEF DeskInv
<1>2. CASE Next
  BY <1>2, DeskAsks, DeskServes, DeskCrash DEF Next
<1> QED
  BY <1>1, <1>2

\* In every reachable state the desk's requests hold jobs of their own or copies
\* of saved ones, in the shape their codes had, only the head of the queue is at
\* work on the files, and what it read of them is what they were.
THEOREM DeskInvariant == Spec => []DeskInv
BY DeskInit, DeskNext, PTL DEF Spec

\* Every code of a job saved as PUBLISHED is in both files and stays there: no
\* stale copy of a job written back, rollback or crash can undo it.
THEOREM PublishedStays == Spec => []PublishedIsWritten
<1>1. DeskInv => PublishedIsWritten
  BY DEF DeskInv, JobsInv, Listed, FilesInv, Damage, PublishedIsWritten
<1> QED
  BY <1>1, DeskInvariant, PTL

\* No Chinese text lacks its English, and a failed replacement and a failed
\* rollback leave behind codes of a single job.
THEOREM DamageContained == Spec => []DamageIsOneApproval
<1>1. DeskInv => DamageIsOneApproval
  BY DEF DeskInv, FilesInv, Damage, DamageIsOneApproval
<1> QED
  BY <1>1, DeskInvariant, PTL

-------------------------------------------------------------------------------
(* The desk publishes as Publication promises *)

Underway == {"queued", "writing", "english"}

\* What the abstract English is, read off the request between the two renames.
Settled ==
  /\ \A r \in Requests : pc[r] = "english" => SettledEnglish = seen[r].en
  /\ (\A r \in Requests : pc[r] # "english") => SettledEnglish = en

LEMMA SettledInDesk == DeskInv => Settled
<1> SUFFICES ASSUME DeskInv PROVE Settled
  OBVIOUS
<1> DEFINE halfway == CHOOSE r \in Requests : pc[r] = "english"
<1>1. ASSUME NEW r \in Requests, pc[r] = "english" PROVE SettledEnglish = seen[r].en
  <2>1. halfway \in Requests /\ pc[halfway] = "english"
    BY <1>1
  <2>2. halfway = r
    BY <1>1, <2>1 DEF DeskInv, QueueInv, AtWork
  <2> QED
    BY <1>1, <2>2 DEF SettledEnglish
<1>2. ASSUME \A r \in Requests : pc[r] # "english" PROVE SettledEnglish = en
  BY <1>2 DEF SettledEnglish
<1> QED
  BY <1>1, <1>2 DEF Settled

\* The abstract English is moved only by a request between the renames.
LEMMA SameEnglish ==
  ASSUME Settled, Settled', NEW r \in Requests, en' = en, Others(r),
         pc[r] # "english", pc'[r] # "english"
  PROVE  SettledEnglish' = SettledEnglish
<1>1. CASE \A q \in Requests : pc[q] # "english"
  <2>1. \A q \in Requests : pc'[q] # "english"
    BY <1>1 DEF Others
  <2> QED
    BY <1>1, <2>1 DEF Settled
<1>2. CASE \E q \in Requests : pc[q] = "english"
  <2>1. PICK q \in Requests : pc[q] = "english"
    BY <1>2
  <2>2. pc'[q] = "english" /\ seen'[q] = seen[q]
    BY <2>1 DEF Others
  <2> QED
    BY <2>1, <2>2 DEF Settled
<1> QED
  BY <1>1, <1>2

\* Approvals that are given up, or go on, or were none.
LEMMA Dropped ==
  ASSUME SettledEnglish' = SettledEnglish, zh' = zh,
         \A q \in Requests : Publishing(q)' \in {Publishing(q), None}
  PROVE  [Dictionary!Next]_(Dictionary!vars)
<1> DEFINE submitted == [q \in Requests |-> Publishing(q)]
<1>1. \A q \in Requests : submitted'[q] \in {submitted[q], None}
  OBVIOUS
<1>2. CASE submitted' = submitted
  BY <1>2 DEF Dictionary!vars
<1>3. CASE submitted' # submitted
  BY <1>1, <1>3 DEF Dictionary!Next, Dictionary!Drop, Dictionary!GivenUp
<1> QED
  BY <1>2, <1>3

LEMMA OneKeeps ==
  ASSUME NEW r \in Requests, Others(r),
         pc'[r] \notin Underway \/ (pc[r] \in Underway /\ work'[r] = work[r])
  PROVE  \A q \in Requests : Publishing(q)' \in {Publishing(q), None}
<1>1. \A q \in Requests \ {r} : Publishing(q)' = Publishing(q)
  BY DEF Others, Publishing, Approval, Approved, Sourced
<1>2. Publishing(r)' \in {Publishing(r), None}
  BY DEF Publishing, Approval, Approved, Sourced, Underway
<1> QED
  BY <1>1, <1>2

LEMMA OneGivesUp ==
  ASSUME Settled, Settled', NEW r \in Requests, en' = en, zh' = zh, Others(r),
         pc[r] # "english", pc'[r] # "english",
         pc'[r] \notin Underway \/ (pc[r] \in Underway /\ work'[r] = work[r])
  PROVE  [Dictionary!Next]_(Dictionary!vars)
BY SameEnglish, OneKeeps, Dropped

LEMMA Submits ==
  ASSUME DeskInv, Settled, Settled', NEW r \in Requests, NEW i \in JobIds, ApproveArrives(r, i)
  PROVE  [Dictionary!Next]_(Dictionary!vars)
<1> DEFINE submitted == [q \in Requests |-> Publishing(q)]
<1>1. /\ pc[r] = "idle" /\ jobs[i] # None /\ MayApprove(jobs[i]) /\ en' = en /\ zh' = zh
      /\ Others(r) /\ pc'[r] = "queued" /\ work'[r] = [id |-> i, job |-> jobs[i]]
  BY Shapes DEF ApproveArrives, Goes, Others
<1>2. jobs[i] \in JobRecords /\ Shaped(jobs[i])
  BY <1>1, JobTyped
<1>3. submitted[r] = None
  BY <1>1 DEF Publishing
<1>4. submitted'[r] = Approval(jobs[i])
  BY <1>1 DEF Publishing, Approval, Approved, Sourced
<1>5. Approval(jobs[i]) \in Dictionary!Approvals
  <2> DEFINE entries == Approval(jobs[i]).entries
             fresh == Approval(jobs[i]).fresh
  <2>1. /\ Approval(jobs[i]) = [entries |-> entries, fresh |-> fresh] /\ fresh \in BOOLEAN
        /\ entries \in [Approved(jobs[i]) -> Entries] /\ DOMAIN entries # {}
        /\ Approved(jobs[i]) \in SUBSET Codes
    <3>1. Approval(jobs[i]) = [entries |-> entries, fresh |-> fresh]
      BY DEF Approval
    <3>2. fresh = Sourced(jobs[i]) /\ DOMAIN entries = Approved(jobs[i])
      BY <1>2, EntriesOf
    <3>3. entries = [c \in Approved(jobs[i]) |-> entries[c]]
      BY DEF Approval
    <3>4. \A c \in Approved(jobs[i]) : entries[c] \in Entries
      BY <1>2, EntriesOf
    <3>5. Approved(jobs[i]) # {} /\ Approved(jobs[i]) \in SUBSET Codes
      BY <1>1, <1>2, EntriesOf DEF MayApprove
    <3> HIDE DEF entries, fresh
    <3> QED
      BY <3>1, <3>2, <3>3, <3>4, <3>5 DEF Sourced
  <2> HIDE DEF entries, fresh
  <2>2. entries # << >>
    BY <2>1, EmptySeq
  <2> QED
    BY <2>1, <2>2 DEF Dictionary!Approvals, Entries
<1>6. \A q \in Requests \ {r} : submitted'[q] = submitted[q]
  BY <1>1 DEF Others, Publishing, Approval, Approved, Sourced
<1>7. submitted' = [submitted EXCEPT ![r] = submitted'[r]]
  BY <1>6
<1>8. SettledEnglish' = SettledEnglish
  BY <1>1, SameEnglish
<1>9. Dictionary!Submit(r)
  BY <1>1, <1>3, <1>4, <1>5, <1>7, <1>8 DEF Dictionary!Submit
<1> QED
  BY <1>9 DEF Dictionary!Next

\* Between the renames the approval at work is one that may be published, and
\* the files hold its English already.
LEMMA Halfway ==
  ASSUME DeskInv, Settled, NEW r \in Requests, pc[r] = "english"
  PROVE  /\ Publishing(r) = Approval(work[r].job) /\ SettledEnglish = seen[r].en
         /\ Dictionary!Publishable(Publishing(r))
         /\ Dictionary!NewEnglish(Publishing(r)) = en
         /\ Dictionary!NewChinese(Publishing(r)) = WithChinese(zh, Approval(work[r].job).entries)
<1> DEFINE job == work[r].job
           entries == Approval(job).entries
<1>1. job \in JobRecords /\ Shaped(job)
  BY Approving DEF AtWork
<1>2. /\ zh = seen[r].zh /\ en = WithEnglish(seen[r].en, entries)
      /\ Defined(WithEnglish(seen[r].en, entries)) = Defined(WithChinese(zh, entries))
      /\ Sourced(job) => Approved(job) \cap (Defined(seen[r].en) \union Defined(zh)) = {}
  BY DEF DeskInv, FilesInv, Replacing
<1>3. Publishing(r) = Approval(job) /\ SettledEnglish = seen[r].en
  BY DEF Publishing, Settled
<1>4. /\ DOMAIN entries = Approved(job) /\ Approved(job) \subseteq Codes
      /\ Approval(job).fresh = Sourced(job)
  BY <1>1, EntriesOf
<1>5. Publishing(r) # None
  <2>1. Approval(job) = [entries |-> entries, fresh |-> Sourced(job)]
    BY DEF Approval
  <2>2. entries \in [Approved(job) -> Entries]
    BY <1>1, EntriesOf
  <2> HIDE DEF entries
  <2>3. entries \in ByCode(Entries)
    BY <1>4, <2>2, InByCode
  <2>4. Approval(job) \in [entries : ByCode(Entries), fresh : BOOLEAN]
    BY <2>1, <2>3 DEF Sourced
  <2> QED
    BY <1>3, <2>4, NoneAssumption
<1>6. /\ Dictionary!NewEnglish(Publishing(r)) = WithEnglish(seen[r].en, entries)
      /\ Dictionary!NewChinese(Publishing(r)) = WithChinese(zh, entries)
  BY <1>3 DEF Dictionary!NewEnglish, Dictionary!NewChinese, WithEnglish, WithChinese
<1>7. Publishing(r).fresh =>
        \A c \in DOMAIN Publishing(r).entries : SettledEnglish[c] = None /\ zh[c] = None
  BY <1>2, <1>3, <1>4 DEF Defined
<1>8. Dictionary!Complete(Dictionary!NewEnglish(Publishing(r)), Dictionary!NewChinese(Publishing(r)))
  BY <1>2, <1>6 DEF Dictionary!Complete, Defined
<1> QED
  BY <1>2, <1>3, <1>5, <1>6, <1>7, <1>8 DEF Dictionary!Publishable

LEMMA Publishes ==
  ASSUME DeskInv, Settled, Settled', NEW r \in Requests, ReplaceChinese(r)
  PROVE  [Dictionary!Next]_(Dictionary!vars)
<1> DEFINE submitted == [q \in Requests |-> Publishing(q)]
<1>1. /\ pc[r] = "english" /\ pc'[r] = "chinese" /\ en' = en /\ Others(r)
      /\ zh' = WithChinese(seen[r].zh, Approval(work[r].job).entries)
  BY Shapes DEF ReplaceChinese, Goes, Others
<1>2. /\ zh = seen[r].zh
      /\ Dictionary!Publishable(submitted[r]) /\ Dictionary!NewEnglish(submitted[r]) = en
      /\ Dictionary!NewChinese(submitted[r]) = WithChinese(zh, Approval(work[r].job).entries)
  BY <1>1, Halfway DEF DeskInv, FilesInv, Replacing
<1>3. SettledEnglish' = en'
  <2>1. \A q \in Requests : pc'[q] # "english"
    BY <1>1 DEF DeskInv, QueueInv, Others, AtWork
  <2> QED
    BY <2>1 DEF Settled
<1>4. submitted' = [submitted EXCEPT ![r] = None]
  <2>1. \A q \in Requests \ {r} : submitted'[q] = submitted[q]
    BY <1>1 DEF Others, Publishing, Approval, Approved, Sourced
  <2>2. submitted'[r] = None
    BY <1>1 DEF Publishing
  <2> QED
    BY <2>1, <2>2
<1>5. Dictionary!Publish(r)
  BY <1>1, <1>2, <1>3, <1>4 DEF Dictionary!Publish
<1> QED
  BY <1>5 DEF Dictionary!Next

\* An interruption between the renames: the English stays, the Chinese as it was.
LEMMA Halves ==
  ASSUME DeskInv, Settled, Settled', Interrupted, NEW r \in Requests, pc[r] = "english",
         en' = en, zh' = zh, \A q \in Requests : pc'[q] # "english",
         \A q \in Requests : Publishing(q)' \in {Publishing(q), None}, Publishing(r)' = None
  PROVE  [Dictionary!Next]_(Dictionary!vars)
<1> DEFINE submitted == [q \in Requests |-> Publishing(q)]
<1>1. Dictionary!Publishable(submitted[r]) /\ Dictionary!NewEnglish(submitted[r]) = en
  BY Halfway
<1>2. SettledEnglish' = en'
  BY DEF Settled
<1>3. \A q \in Requests : submitted'[q] \in {submitted[q], None}
  OBVIOUS
<1>4. Dictionary!Halve(r)
  BY <1>1, <1>2, <1>3 DEF Dictionary!Halve, Dictionary!GivenUp
<1> QED
  BY <1>4 DEF Dictionary!Next

LEMMA ChineseFailsAsPromised ==
  ASSUME DeskInv, Settled, Settled', NEW r \in Requests, ChineseFails(r)
  PROVE  [Dictionary!Next]_(Dictionary!vars)
<1>1. pc[r] = "english" /\ pc'[r] = "saving" /\ Others(r) /\ zh' = zh
  BY Shapes DEF ChineseFails, UpdateFails, Goes, Others
<1>2. \A q \in Requests : pc'[q] # "english"
  BY <1>1 DEF DeskInv, QueueInv, Others, AtWork
<1>3. /\ \A q \in Requests : Publishing(q)' \in {Publishing(q), None}
      /\ Publishing(r)' = None
  BY <1>1, OneKeeps DEF Underway, Publishing
<1>4. CASE en' = seen[r].en
  BY <1>1, <1>2, <1>3, <1>4, Dropped DEF Settled
<1>5. CASE Interrupted /\ en' = en
  BY <1>1, <1>2, <1>3, <1>5, Halves
<1> QED
  BY <1>4, <1>5 DEF ChineseFails

LEMMA ReplaceEnglishAsPromised ==
  ASSUME DeskInv, Settled, Settled', NEW r \in Requests, ReplaceEnglish(r)
  PROVE  [Dictionary!Next]_(Dictionary!vars)
<1>1. /\ Others(r) /\ zh' = zh /\ pc[r] = "writing" /\ pc'[r] = "english"
      /\ work'[r] = work[r] /\ seen'[r] = seen[r]
  BY Shapes DEF ReplaceEnglish, EnglishReplaced, Goes, Others
<1>2. en = seen[r].en
  BY <1>1 DEF DeskInv, FilesInv, Replacing
<1>3. \A q \in Requests : pc[q] # "english"
  BY <1>1 DEF DeskInv, QueueInv, AtWork
<1>4. SettledEnglish' = SettledEnglish
  BY <1>1, <1>2, <1>3 DEF Settled
<1> QED
  BY <1>1, <1>4, OneKeeps, Dropped DEF Underway

LEMMA CrashAsPromised ==
  ASSUME DeskInv, Settled, Settled', Crash
  PROVE  [Dictionary!Next]_(Dictionary!vars)
<1>1. /\ en' = en /\ zh' = zh
      /\ \A q \in Requests : pc'[q] = "idle" \/ (pc'[q] = pc[q] /\ work[q] = None)
  BY Shapes DEF Crash, OwnProcess
<1>2. \A q \in Requests : pc'[q] \notin Underway
  BY <1>1 DEF DeskInv, WorkInv, Owns, Underway
<1>3. \A q \in Requests : Publishing(q)' = None /\ pc'[q] # "english"
  BY <1>2 DEF Publishing, Underway
<1>4. CASE \E r \in Requests : pc[r] = "english"
  <2>1. PICK r \in Requests : pc[r] = "english"
    BY <1>4
  <2>2. Interrupted
    BY <2>1 DEF Crash
  <2> QED
    BY <1>1, <1>3, <2>1, <2>2, Halves
<1>5. CASE \A r \in Requests : pc[r] # "english"
  <2>1. SettledEnglish' = SettledEnglish
    BY <1>1, <1>3, <1>5 DEF Settled
  <2> QED
    BY <1>1, <1>3, <2>1, Dropped
<1> QED
  BY <1>4, <1>5

LEMMA AsksAsPromised ==
  ASSUME DeskInv, Settled, Settled', NEW r \in Requests, Asks(r)
  PROVE  [Dictionary!Next]_(Dictionary!vars)
<1>1. ASSUME NEW i \in JobIds, ApproveArrives(r, i) PROVE [Dictionary!Next]_(Dictionary!vars)
  BY <1>1, Submits
<1>2. CASE \E T \in SUBSET Texts : BatchArrives(r, T)
  <2>1. Others(r) /\ en' = en /\ zh' = zh /\ pc[r] = "idle" /\ pc'[r] = "allotting"
    BY <1>2, Shapes DEF BatchArrives, Goes, Others
  <2> QED
    BY <2>1, OneGivesUp DEF Underway
<1>3. CASE \E S \in Batches, mode \in Modes : CreateSelected(r, S, mode)
  <2>1. Others(r) /\ en' = en /\ zh' = zh /\ pc[r] = "idle" /\ pc'[r] = "idle"
    BY <1>3 DEF CreateSelected, Others
  <2> QED
    BY <2>1, OneGivesUp DEF Underway
<1>4. CASE \E i \in JobIds : \E available \in SUBSET Providers : RunStarts(r, i, available)
  <2>1. Others(r) /\ en' = en /\ zh' = zh /\ pc[r] = "idle" /\ pc'[r] = "calling"
    BY <1>4, Shapes DEF RunStarts, Goes, Others
  <2> QED
    BY <2>1, OneGivesUp DEF Underway
<1>5. CASE \E i \in JobIds : \E c \in Codes, approved \in BOOLEAN : Edit(r, i, c, approved)
  <2>1. Others(r) /\ en' = en /\ zh' = zh /\ pc[r] = "idle" /\ pc'[r] = "saving"
    BY <1>5, Shapes DEF Edit, Goes, Others
  <2> QED
    BY <2>1, OneGivesUp DEF Underway
<1>6. CASE \E requested \in Wanted, flag, confirmed \in BOOLEAN, available \in SUBSET Providers :
             CliPrepares(r, requested, flag, confirmed, available)
  <2>1. Others(r) /\ en' = en /\ zh' = zh /\ pc[r] = "idle" /\ pc'[r] = "prepared"
    BY <1>6, Shapes DEF CliPrepares, Goes, Others
  <2> QED
    BY <2>1, OneGivesUp DEF Underway
<1>7. CASE AgentAnswers(r)
  <2>1. Others(r) /\ en' = en /\ zh' = zh /\ pc[r] = "calling" /\ pc'[r] \in {"saving", "idle"}
    BY <1>7, Shapes DEF AgentAnswers, Drafts, Ends, Goes, Others
  <2> QED
    BY <2>1, OneGivesUp DEF Underway
<1> QED
  BY <1>1, <1>2, <1>3, <1>4, <1>5, <1>6, <1>7 DEF Asks

LEMMA ServesAsPromised ==
  ASSUME DeskInv, Settled, Settled', NEW r \in Requests, Serves(r)
  PROVE  [Dictionary!Next]_(Dictionary!vars)
<1>1. CASE ReplaceChinese(r)
  BY <1>1, Publishes
<1>2. CASE BatchReads(r)
  <2>1. Others(r) /\ en' = en /\ zh' = zh /\ pc[r] = "allotting" /\ pc'[r] = "allotting"
    BY <1>2, Shapes DEF BatchReads, Others
  <2> QED
    BY <2>1, OneGivesUp DEF Underway
<1>3. CASE BatchAllots(r)
  <2>1. Others(r) /\ en' = en /\ zh' = zh /\ pc[r] = "allotting" /\ pc'[r] \in {"saving", "idle"}
    BY <1>3, Shapes DEF BatchAllots, Ends, Goes, Others
  <2> QED
    BY <2>1, OneGivesUp DEF Underway
<1>4. CASE \E available \in SUBSET Providers : CliExecutes(r, available)
  <2>1. Others(r) /\ en' = en /\ zh' = zh /\ pc[r] = "prepared" /\ pc'[r] \in {"calling", "idle"}
    BY <1>4, Shapes DEF CliExecutes, Ends, Goes, Others
  <2> QED
    BY <2>1, OneGivesUp DEF Underway
<1>5. CASE UpdateReads(r)
  <2>1. /\ Others(r) /\ en' = en /\ zh' = zh /\ pc[r] = "queued"
        /\ pc'[r] \in {"idle", "saving"} \/ (pc'[r] = "writing" /\ work'[r] = work[r])
    BY <1>5, Shapes DEF UpdateReads, UpdateFails, Ends, Goes, Others
  <2> QED
    BY <2>1, OneGivesUp DEF Underway
<1>6. CASE ReplaceEnglish(r)
  BY <1>6, ReplaceEnglishAsPromised
<1>7. CASE WriteFails(r) \/ UpdateEnds(r)
  <2>1. /\ Others(r) /\ en' = en /\ zh' = zh
        /\ pc[r] \in {"writing", "chinese"} /\ pc'[r] = "saving"
    BY <1>7, Shapes DEF WriteFails, UpdateEnds, UpdateFails, Goes, Others
  <2> QED
    BY <2>1, OneGivesUp DEF Underway
<1>8. CASE SaveJob(r) \/ SaveFails(r)
  <2>1. Others(r) /\ en' = en /\ zh' = zh /\ pc[r] = "saving" /\ pc'[r] \in {"saving", "idle"}
    BY <1>8, Shapes DEF SaveJob, SaveFails, Ends, Others
  <2> QED
    BY <2>1, OneGivesUp DEF Underway
<1>9. CASE BatchFails(r)
  <2>1. Others(r) /\ en' = en /\ zh' = zh /\ pc[r] = "allotting" /\ pc'[r] = "idle"
    BY <1>9, Shapes DEF BatchFails, Ends, Others
  <2> QED
    BY <2>1, OneGivesUp DEF Underway
<1>10. CASE ChineseFails(r)
  BY <1>10, ChineseFailsAsPromised
<1> QED
  BY <1>1, <1>2, <1>3, <1>4, <1>5, <1>6, <1>7, <1>8, <1>9, <1>10 DEF Serves

\* The two-file replacement implements Publication: both files gain an approval
\* in one step, under codes that were free in both if it is a new one, or neither
\* does; and only where an interruption between the two renames is possible may
\* the English one gain it alone, which no other failure leaves behind.
THEOREM PublishesInOneStep == Spec => PublishesAtOnce
<1>1. Init => Dictionary!Init
  <2> SUFFICES ASSUME Init PROVE Dictionary!Init
    OBVIOUS
  <2>1. SettledEnglish = en
    BY DEF Init, SettledEnglish
  <2> QED
    BY <2>1 DEF Init, Dictionary!Init, Dictionary!Complete, Publishing
<1>2. DeskInv /\ Settled /\ Settled' /\ [Next]_vars => [Dictionary!Next]_(Dictionary!vars)
  <2> SUFFICES ASSUME DeskInv, Settled, Settled', [Next]_vars
               PROVE  [Dictionary!Next]_(Dictionary!vars)
    OBVIOUS
  <2>1. CASE UNCHANGED vars
    <3>1. UNCHANGED <<en, zh, pc, work, seen>>
      BY <2>1 DEF vars
    <3>2. \A q \in Requests : Publishing(q)' = Publishing(q)
      BY <3>1 DEF Publishing, Approval, Approved, Sourced
    <3>3. SettledEnglish' = SettledEnglish
      BY <3>1 DEF SettledEnglish
    <3> QED
      BY <3>1, <3>2, <3>3, Dropped
  <2> QED
    BY <2>1, AsksAsPromised, ServesAsPromised, CrashAsPromised DEF Next
<1> QED
  BY <1>1, <1>2, SettledInDesk, DeskInvariant, PTL DEF Spec, PublishesAtOnce, Dictionary!Spec

-------------------------------------------------------------------------------
(* Consent *)

LEMMA ConsentedInit == Init => Consented
BY DEF Init, Consented, PaidOnlyConfirmed

\* Only the request that moves matters.
LEMMA ConsentOfOne ==
  ASSUME Consented, NEW r \in Requests,
         pc' = [q \in Requests |-> pc'[q]], agent' = [q \in Requests |-> agent'[q]],
         \A q \in Requests \ {r} : pc'[q] = pc[q] /\ agent'[q] = agent[q],
         pc'[r] \in {"prepared", "calling"} => agent'[r] \in Calls,
         pc'[r] = "prepared" => (agent'[r].requested # Automatic /\ Paid(agent'[r].requested) => agent'[r].approved),
         pc'[r] = "calling" => (Paid(agent'[r].provider) => agent'[r].approved)
  PROVE  Consented'
BY DEF Consented, PaidOnlyConfirmed

LEMMA AllShaped ==
  ASSUME Consented
  PROVE  pc = [q \in Requests |-> pc[q]] /\ agent = [q \in Requests |-> agent[q]]
BY DEF Consented

\* A request that neither looks for an agent nor calls one has nothing to confirm.
LEMMA ConsentAside ==
  ASSUME Consented, NEW r \in Requests,
         Ends(r) \/ (\E step \in Steps \ {"prepared", "calling"} : Goes(r, step)
                     /\ (agent' = agent \/ agent' = [agent EXCEPT ![r] = None]))
  PROVE  Consented'
<1>1. /\ pc'[r] \notin {"prepared", "calling"}
      /\ \A q \in Requests \ {r} : pc'[q] = pc[q] /\ agent'[q] = agent[q]
      /\ pc' = [q \in Requests |-> pc'[q]] /\ agent' = [q \in Requests |-> agent'[q]]
  BY AllShaped DEF Ends, Goes
<1> QED
  BY <1>1, ConsentOfOne

LEMMA ConsentStutters == ASSUME Consented, UNCHANGED <<pc, agent>> PROVE Consented'
BY DEF Consented, PaidOnlyConfirmed

LEMMA ConsentRunStarts ==
  ASSUME Consented, TypeOK, NEW r \in Requests, NEW i \in JobIds, NEW available,
         RunStarts(r, i, available)
  PROVE  Consented'
<1> DEFINE mode == jobs[i].mode
           provider == Selected(mode.provider, mode.paid, available)
<1>1. mode \in [provider : Requestable, paid : BOOLEAN]
  BY DeskAssumption DEF RunStarts, TypeOK, JobRecords
<1>2. mode.provider # Automatic /\ Paid(mode.provider) => mode.paid
  BY DEF RunStarts, ExecutorRefuses
<1>3. /\ provider \in Providers \union {NoProvider}
      /\ provider = NoProvider \/ (Paid(provider) => mode.paid)
  BY <1>1, <1>2, SelectedPaid
<1>4. /\ provider # NoProvider /\ Goes(r, "calling")
      /\ agent' = [agent EXCEPT ![r] =
                     [requested |-> mode.provider, approved |-> mode.paid, provider |-> provider]]
  BY DEF RunStarts
<1> HIDE DEF mode, provider
<1>5. /\ pc'[r] = "calling"
      /\ agent'[r] = [requested |-> mode.provider, approved |-> mode.paid, provider |-> provider]
      /\ \A q \in Requests \ {r} : pc'[q] = pc[q] /\ agent'[q] = agent[q]
      /\ pc' = [q \in Requests |-> pc'[q]] /\ agent' = [q \in Requests |-> agent'[q]]
  BY <1>4, AllShaped DEF Goes
<1>6. agent'[r] \in Calls /\ (Paid(agent'[r].provider) => agent'[r].approved)
  BY <1>1, <1>3, <1>4, <1>5 DEF Calls
<1> QED
  BY <1>5, <1>6, ConsentOfOne

LEMMA ConsentCliPrepares ==
  ASSUME Consented, NEW r \in Requests, NEW requested \in Wanted,
         NEW flag \in BOOLEAN, NEW confirmed \in BOOLEAN, NEW available,
         CliPrepares(r, requested, flag, confirmed, available)
  PROVE  Consented'
<1> DEFINE offered == Offered(requested, available)
           approved == flag \/ (Paid(offered) /\ confirmed)
<1>1. /\ offered # NoProvider /\ (Paid(offered) => flag \/ confirmed) /\ Goes(r, "prepared")
      /\ agent' = [agent EXCEPT ![r] =
                     [requested |-> requested, provider |-> NoProvider, approved |-> approved]]
  BY DEF CliPrepares
<1>2. requested # Automatic => offered = requested
  BY <1>1, OfferedAsNamed
<1>3. approved \in BOOLEAN /\ (Paid(offered) => approved)
  BY <1>1
<1> HIDE DEF approved, offered
<1>4. /\ pc'[r] = "prepared"
      /\ agent'[r] = [requested |-> requested, provider |-> NoProvider, approved |-> approved]
      /\ \A q \in Requests \ {r} : pc'[q] = pc[q] /\ agent'[q] = agent[q]
      /\ pc' = [q \in Requests |-> pc'[q]] /\ agent' = [q \in Requests |-> agent'[q]]
  BY <1>1, AllShaped DEF Goes
<1>5. /\ agent'[r] \in Calls
      /\ agent'[r].requested # Automatic /\ Paid(agent'[r].requested) => agent'[r].approved
  BY <1>2, <1>3, <1>4, DeskAssumption DEF Calls
<1> QED
  BY <1>4, <1>5, ConsentOfOne

LEMMA ConsentCliExecutes ==
  ASSUME Consented, NEW r \in Requests, NEW available, CliExecutes(r, available)
  PROVE  Consented'
<1> DEFINE provider == Selected(agent[r].requested, agent[r].approved, available)
<1>1. /\ pc[r] = "prepared" /\ agent[r] \in Calls
      /\ agent[r].requested # Automatic /\ Paid(agent[r].requested) => agent[r].approved
  BY DEF CliExecutes, Consented
<1>2. /\ provider \in Providers \union {NoProvider}
      /\ provider = NoProvider \/ (Paid(provider) => agent[r].approved)
  BY <1>1, SelectedPaid DEF Calls
<1>3. CASE provider = NoProvider
  BY <1>3, ConsentAside DEF CliExecutes
<1>4. CASE provider # NoProvider
  <2>1. Goes(r, "calling") /\ agent' = [agent EXCEPT ![r].provider = provider]
    BY <1>4 DEF CliExecutes
  <2> HIDE DEF provider
  <2>2. /\ pc'[r] = "calling" /\ agent'[r] = [agent[r] EXCEPT !.provider = provider]
        /\ \A q \in Requests \ {r} : pc'[q] = pc[q] /\ agent'[q] = agent[q]
        /\ pc' = [q \in Requests |-> pc'[q]] /\ agent' = [q \in Requests |-> agent'[q]]
    BY <2>1, AllShaped DEF Goes
  <2>3. agent'[r] \in Calls /\ (Paid(agent'[r].provider) => agent'[r].approved)
    BY <1>1, <1>2, <1>4, <2>2 DEF Calls
  <2> QED
    BY <2>2, <2>3, ConsentOfOne
<1> QED
  BY <1>3, <1>4

LEMMA ConsentAsks ==
  ASSUME Consented, TypeOK, NEW r \in Requests, Asks(r)
  PROVE  Consented'
<1>1. ASSUME NEW T, BatchArrives(r, T) PROVE Consented'
  BY <1>1, ConsentAside DEF BatchArrives, Steps
<1>2. ASSUME NEW S, NEW mode, CreateSelected(r, S, mode) PROVE Consented'
  BY <1>2, ConsentStutters DEF CreateSelected
<1>3. ASSUME NEW i \in JobIds, NEW available, RunStarts(r, i, available) PROVE Consented'
  BY <1>3, ConsentRunStarts
<1>4. ASSUME NEW i, NEW c, NEW approved, Edit(r, i, c, approved) PROVE Consented'
  BY <1>4, ConsentAside DEF Edit, Steps
<1>5. ASSUME NEW i, ApproveArrives(r, i) PROVE Consented'
  BY <1>5, ConsentAside DEF ApproveArrives, Steps
<1>6. ASSUME NEW requested \in Wanted, NEW flag \in BOOLEAN, NEW confirmed \in BOOLEAN, NEW available,
             CliPrepares(r, requested, flag, confirmed, available)
      PROVE  Consented'
  BY <1>6, ConsentCliPrepares
<1>7. ASSUME AgentAnswers(r) PROVE Consented'
  BY <1>7, ConsentAside DEF AgentAnswers, Drafts, Steps
<1> QED
  BY <1>1, <1>2, <1>3, <1>4, <1>5, <1>6, <1>7 DEF Asks

LEMMA ConsentServes ==
  ASSUME Consented, NEW r \in Requests, Serves(r)
  PROVE  Consented'
<1>1. ASSUME BatchReads(r) \/ BatchFails(r) PROVE Consented'
  BY <1>1, ConsentStutters, ConsentAside DEF BatchReads, BatchFails
<1>2. ASSUME BatchAllots(r) PROVE Consented'
  BY <1>2, ConsentAside DEF BatchAllots, Steps
<1>3. ASSUME NEW available, CliExecutes(r, available) PROVE Consented'
  BY <1>3, ConsentCliExecutes
<1>4. ASSUME UpdateReads(r) PROVE Consented'
  BY <1>4, ConsentAside DEF UpdateReads, UpdateFails, Steps, AtWork
<1>5. ASSUME ReplaceEnglish(r) \/ ReplaceChinese(r) PROVE Consented'
  BY <1>5, ConsentAside DEF ReplaceEnglish, ReplaceChinese, Steps, AtWork
<1>6. ASSUME WriteFails(r) \/ ChineseFails(r) \/ UpdateEnds(r) PROVE Consented'
  BY <1>6, ConsentAside DEF WriteFails, ChineseFails, UpdateEnds, UpdateFails, Steps
<1>7. ASSUME SaveJob(r) \/ SaveFails(r) PROVE Consented'
  BY <1>7, ConsentAside, ConsentStutters DEF SaveJob, SaveFails
<1> QED
  BY <1>1, <1>2, <1>3, <1>4, <1>5, <1>6, <1>7 DEF Serves

LEMMA ConsentedNext == TypeOK /\ Consented /\ [Next]_vars => Consented'
<1> SUFFICES ASSUME TypeOK, Consented, [Next]_vars PROVE Consented'
  OBVIOUS
<1>1. CASE UNCHANGED vars
  BY <1>1, ConsentStutters DEF vars
<1>2. CASE Crash
  BY <1>2 DEF Crash, Consented, PaidOnlyConfirmed
<1> QED
  BY <1>1, <1>2, ConsentAsks, ConsentServes DEF Next

\* No paid agent is called that was not confirmed, whichever agents come and go
\* between the confirmation and the call, on the desk and on the command line.
THEOREM PaidIsConfirmed == Spec => []PaidOnlyConfirmed
<1>1. DeskInv => TypeOK
  BY DEF DeskInv
<1>2. Consented => PaidOnlyConfirmed
  BY DEF Consented
<1> QED
  BY <1>1, <1>2, ConsentedInit, ConsentedNext, DeskInvariant, PTL DEF Spec
===============================================================================
