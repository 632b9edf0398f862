------------------------- MODULE Translations -------------------------
(* The translation desk (apps/tms-api): jobs kept in one JSON file, codes    *)
(* allotted one batch at a time, an agent that drafts the English, reviews,  *)
(* and approvals that replace the two locale files one after the other.      *)
(* Every request is a process that may be overtaken at each of its awaits;   *)
(* the command line of packages/agents shares the agents with the desk.      *)
EXTENDS Agents, FiniteSetsExt, Integers

CONSTANTS
  MaxCode,     \* the last message code (P999999 in the code)
  Texts,       \* normalised Chinese texts
  Wordings,    \* English texts
  FirstDrafts, \* bound: those the agents give new texts
  Redrafts,    \* bound: those they give texts that are translated again
  None,        \* no entry, no job, nothing
  MaxJobs,     \* bound: jobs created in a run of the model
  MaxBatch,    \* bound: texts or codes of one job
  Modes,       \* the providers and confirmations jobs are created with
  Wanted,      \* the providers a command line may ask for
  Rewrites,    \* the entries a reviewer may put in place of a draft's
  Interrupted, \* may the server stop, or the rollback fail, between the two renames
  Requests,    \* concurrent requests and command lines
  Shells       \* those of them that may be a command line

ASSUME DeskAssumption ==
  /\ MaxCode \in Nat \ {0} /\ MaxJobs \in Nat \ {0} /\ MaxBatch \in Nat \ {0}
  /\ None \notin Texts /\ None \notin Wordings /\ None \notin Requests
  /\ Modes \subseteq [provider : Requestable, paid : BOOLEAN] /\ Wanted \subseteq Requestable
  /\ FirstDrafts \subseteq Wordings /\ Redrafts \subseteq Wordings
  /\ Rewrites \subseteq [en : Wordings, zh : Texts] /\ Shells \subseteq Requests /\ Interrupted \in BOOLEAN

VARIABLES
  en, zh,       \* the two locale files: the text each code holds in English, in Chinese
  jobs,         \* pending-jobs.json
  pc,           \* where each request stands
  work,         \* the job a request read, or is about to save
  seen,         \* what a request read of the files, or sent to the agent
  agent,        \* the agent a request is calling
  allocations,  \* allocationQueue: requests allotting codes, the first one at work
  updates       \* localeUpdateQueue: requests publishing, the first one at work

files == <<en, zh>>
vars == <<en, zh, jobs, pc, work, seen, agent, allocations, updates>>

Codes == 1 .. MaxCode
JobIds == 1 .. MaxJobs
Batches == {S \in SUBSET Codes : S # {} /\ Cardinality(S) <= MaxBatch}

Nothing == [c \in {} |-> None]

\* A job.  sources holds the new Chinese texts by code, proposals the drafts; the
\* empty function where the code leaves them out.  A proposal is approved, or it
\* is not (undecided and rejected ones are treated alike by everything here).
ByCode(values) == UNION {[S -> values] : S \in SUBSET Codes}
Entries == [en : Wordings, zh : Texts]
Proposals == [approved : BOOLEAN, entry : Entries]
JobRecords ==
  [status    : {"QUEUED", "PENDING_REVIEW", "PUBLISHED", "PUBLISH_FAILED"},
   codes     : SUBSET Codes,
   mode      : Modes,
   sources   : ByCode(Texts),
   proposals : ByCode(Proposals)]

ASSUME NoneAssumption ==
  /\ None \notin JobRecords
  /\ None \notin [id : JobIds, job : JobRecords \union {None}]
  /\ None \notin [entries : ByCode(Entries), fresh : BOOLEAN]

NewJob(codes, mode, sources) ==
  [status |-> "QUEUED", codes |-> codes, mode |-> mode, sources |-> sources, proposals |-> Nothing]

Entry(english, chinese) == [en |-> english, zh |-> chinese]
Proposal(approved, entry) == [approved |-> approved, entry |-> entry]

Init ==
  /\ en = [c \in Codes |-> None]
  /\ zh = [c \in Codes |-> None]
  /\ jobs = [i \in JobIds |-> None]
  /\ pc = [r \in Requests |-> "idle"]
  /\ work = [r \in Requests |-> None]
  /\ seen = [r \in Requests |-> None]
  /\ agent = [r \in Requests |-> None]
  /\ allocations = << >>
  /\ updates = << >>

Defined(dict) == {c \in Codes : dict[c] # None}
FreeIds == {i \in JobIds : jobs[i] = None /\ \A r \in Requests : work[r] # None => work[r].id # i}
Sourced(job) == DOMAIN job.sources # {}

\* A request ends: its answer is sent and its memory dropped.
Ends(r) ==
  /\ pc' = [pc EXCEPT ![r] = "idle"]
  /\ work' = [work EXCEPT ![r] = None]
  /\ seen' = [seen EXCEPT ![r] = None]
  /\ agent' = [agent EXCEPT ![r] = None]

Goes(r, step) == pc' = [pc EXCEPT ![r] = step]

-----------------------------------------------------------------------
(* Intake: POST /v1/jobs *)

\* createBatch waits for its turn to allot codes (the new job gets an unused id).
BatchArrives(r, texts) ==
  /\ pc[r] = "idle" /\ FreeIds # {}
  /\ Goes(r, "allotting")
  /\ work' = [work EXCEPT ![r] = [id |-> Min(FreeIds), job |-> None]]
  /\ seen' = [seen EXCEPT ![r] = [texts |-> texts, en |-> None, zh |-> None, held |-> None]]
  /\ allocations' = Append(allocations, r)
  /\ UNCHANGED <<en, zh, jobs, agent, updates>>

\* Codes of every job that is not published are taken.
Held == UNION {jobs[i].codes : i \in {k \in JobIds : jobs[k] # None /\ jobs[k].status # "PUBLISHED"}}

\* The lowest n codes that are not occupied.
LowestFree(n, occupied) ==
  {c \in Codes \ occupied : Cardinality({k \in Codes \ occupied : k < c}) < n}

\* Its three reads are concurrent: they return in any order.
BatchReads(r) ==
  /\ pc[r] = "allotting" /\ Head(allocations) = r
  /\ \/ seen[r].en = None /\ seen' = [seen EXCEPT ![r].en = Defined(en)]
     \/ seen[r].zh = None /\ seen' = [seen EXCEPT ![r].zh = zh]
     \/ seen[r].held = None /\ seen' = [seen EXCEPT ![r].held = Held]
  /\ UNCHANGED <<en, zh, jobs, pc, work, agent, allocations, updates>>

AllRead(r) == seen[r].en # None /\ seen[r].zh # None /\ seen[r].held # None

\* Mutant: the turn is given up by a batch that made a job only.
EndsTurnWithJob(r) ==
  allocations' = IF work[r].job = None THEN allocations ELSE SelectSeq(allocations, LAMBDA q : q # r)

\* The next batch may allot, however this one ended.
EndsTurn(r) == allocations' = SelectSeq(allocations, LAMBDA q : q # r)

\* One of them fails, and the batch with it.
BatchFails(r) ==
  /\ pc[r] = "allotting" /\ Head(allocations) = r /\ ~AllRead(r)
  /\ Ends(r) /\ EndsTurn(r)
  /\ UNCHANGED <<en, zh, jobs, updates>>

\* The new texts get the lowest free codes, in the order they were entered; with
\* nothing new, or no code left, the batch ends at once.
BatchAllots(r) ==
  /\ pc[r] = "allotting" /\ Head(allocations) = r
  /\ AllRead(r)
  /\ LET additions == {t \in seen[r].texts : \A c \in Codes : seen[r].zh[c] # t}
         free == LowestFree(Cardinality(additions),
                            seen[r].en \union Defined(seen[r].zh) \union seen[r].held)
     IN  IF additions # {} /\ Cardinality(free) = Cardinality(additions)
         THEN \E sources \in [free -> additions], mode \in Modes :
                /\ Range(sources) = additions
                /\ work' = [work EXCEPT ![r].job = NewJob(free, mode, sources)]
                /\ Goes(r, "saving")
                /\ UNCHANGED <<seen, agent, allocations>>
         ELSE Ends(r) /\ EndsTurn(r)
  /\ UNCHANGED <<en, zh, jobs, updates>>

\* assertKnownCodes
KnownCodes(codes) == codes \subseteq Defined(zh)

\* A job for codes the dictionary has: they are translated again.
CreateSelected(r, codes, mode) ==
  /\ pc[r] = "idle" /\ FreeIds # {}
  /\ KnownCodes(codes)
  /\ jobs' = [jobs EXCEPT ![Min(FreeIds)] = NewJob(codes, mode, Nothing)]
  /\ UNCHANGED <<en, zh, pc, work, seen, agent, allocations, updates>>

-----------------------------------------------------------------------
(* The agents: POST /v1/jobs/:id/run and the command line *)

\* The job and the Chinese sources are read, whatever the job's status, and
\* the executor picks a provider among those that are available now.
RunStarts(r, i, available) ==
  /\ pc[r] = "idle" /\ jobs[i] # None
  /\ ~ExecutorRefuses(jobs[i].mode.provider, jobs[i].mode.paid)
  /\ LET provider == Selected(jobs[i].mode.provider, jobs[i].mode.paid, available)
         sources == [c \in jobs[i].codes |-> IF Sourced(jobs[i]) THEN jobs[i].sources[c] ELSE zh[c]]
     IN  /\ provider # NoProvider
         /\ agent' = [agent EXCEPT ![r] =
              [requested |-> jobs[i].mode.provider, approved |-> jobs[i].mode.paid, provider |-> provider]]
         /\ seen' = [seen EXCEPT ![r] = sources]
  /\ work' = [work EXCEPT ![r] = [id |-> i, job |-> jobs[i]]]
  /\ Goes(r, "calling")
  /\ UNCHANGED <<en, zh, jobs, allocations, updates>>

\* The command line looks which provider is available, shows it, and goes on
\* when it costs nothing, or was approved by flag or at the prompt.
CliPrepares(r, requested, flag, confirmed, available) ==
  /\ pc[r] = "idle" /\ r \in Shells
  /\ LET offered == Offered(requested, available)
     IN  /\ offered # NoProvider
         /\ Paid(offered) => flag \/ confirmed
         /\ agent' = [agent EXCEPT ![r] = [requested |-> requested, provider |-> NoProvider,
                        approved |-> flag \/ (Paid(offered) /\ confirmed)]]
  /\ Goes(r, "prepared")
  /\ UNCHANGED <<en, zh, jobs, work, seen, allocations, updates>>

\* The runner then selects anew: availability may have changed meanwhile.
CliExecutes(r, available) ==
  /\ pc[r] = "prepared"
  /\ LET provider == Selected(agent[r].requested, agent[r].approved, available)
     IN  IF provider = NoProvider THEN Ends(r)
         ELSE /\ agent' = [agent EXCEPT ![r].provider = provider]
              /\ Goes(r, "calling")
              /\ UNCHANGED <<work, seen>>
  /\ UNCHANGED <<en, zh, jobs, allocations, updates>>

\* The desk checks that the answer is for the job's codes, and saves the drafts:
\* each source with the English the agent gave it.
Drafts(r) ==
  /\ work[r] # None
  /\ \E drafts \in [work[r].job.codes -> IF Sourced(work[r].job) THEN FirstDrafts ELSE Redrafts] :
       work' = [work EXCEPT ![r].job = [work[r].job EXCEPT !.status = "PENDING_REVIEW",
                  !.proposals = [c \in work[r].job.codes |-> Proposal(FALSE, Entry(drafts[c], seen[r][c]))]]]
  /\ Goes(r, "saving")
  /\ seen' = [seen EXCEPT ![r] = None]
  /\ agent' = [agent EXCEPT ![r] = None]

\* The agent answers: the desk goes on, the command line writes its own output; a
\* call that fails, or whose answer is refused, is reported and changes nothing.
AgentAnswers(r) ==
  /\ pc[r] = "calling"
  /\ Drafts(r) \/ Ends(r)
  /\ UNCHANGED <<en, zh, jobs, allocations, updates>>

-----------------------------------------------------------------------
(* Review: PATCH /v1/jobs/:id/proposals/:code and POST /v1/jobs/:id/approve *)

\* A decision, with the texts the reviewer sends, on one proposal of the job
\* that was read; the whole job is then written back.
Edit(r, i, c, approved) ==
  /\ pc[r] = "idle" /\ jobs[i] # None
  /\ jobs[i].status = "PENDING_REVIEW" /\ c \in DOMAIN jobs[i].proposals
  /\ \E entry \in Rewrites \union {jobs[i].proposals[c].entry} :
       work' = [work EXCEPT ![r] = [id |-> i, job |->
                 [jobs[i] EXCEPT !.proposals[c] = Proposal(approved, entry)]]]
  /\ Goes(r, "saving")
  /\ UNCHANGED <<en, zh, jobs, seen, agent, allocations, updates>>

Approved(job) == {c \in DOMAIN job.proposals : job.proposals[c].approved}

\* What the approval of a job publishes; fresh: under codes of its own.
Approval(job) ==
  [entries |-> [c \in Approved(job) |-> job.proposals[c].entry], fresh |-> Sourced(job)]

\* The checks on the job that was read; a new text must be the reserved one.
MayApprove(job) ==
  /\ job.status = "PENDING_REVIEW" /\ Approved(job) # {}
  /\ Sourced(job) => \A c \in Approved(job) : job.proposals[c].entry.zh = job.sources[c]

ApproveArrives(r, i) ==
  /\ pc[r] = "idle" /\ jobs[i] # None /\ MayApprove(jobs[i])
  /\ work' = [work EXCEPT ![r] = [id |-> i, job |-> jobs[i]]]
  /\ updates' = Append(updates, r)
  /\ Goes(r, "queued")
  /\ UNCHANGED <<en, zh, jobs, seen, agent, allocations>>

\* Mutant: an update starts without waiting for the one before it.
MyTurnAtOnce(r) == updates # << >>

\* Locale updates run one after the other, in the order they were queued.
MyTurn(r) == updates # << >> /\ Head(updates) = r

\* The queue goes on, whether the update at work succeeded or failed.
LeavesUpdates == updates' = Tail(updates)

\* A dictionary with an approval written over it.
WithEnglish(dict, entries) == [c \in Codes |-> IF c \in DOMAIN entries THEN entries[c].en ELSE dict[c]]
WithChinese(dict, entries) == [c \in Codes |-> IF c \in DOMAIN entries THEN entries[c].zh ELSE dict[c]]
Consistent(english, chinese) == Defined(english) = Defined(chinese)

\* Mutant: a code that was published meanwhile is taken over.
TakenNever(job) == FALSE

\* A new text's code is in the dictionaries already.
Taken(job) == Sourced(job) /\ Approved(job) \cap (Defined(en) \union Defined(zh)) # {}

\* An error that is not a refusal: the job is saved as PUBLISH_FAILED.
UpdateFails(r) ==
  /\ work' = [work EXCEPT ![r].job.status = "PUBLISH_FAILED"]
  /\ seen' = [seen EXCEPT ![r] = None]
  /\ Goes(r, "saving")
  /\ LeavesUpdates
  /\ UNCHANGED agent

\* Both files are read, unless that fails, and checked: a code that exists already,
\* or dictionaries that would not have the same codes, refuse the approval (BadRequest).
UpdateReads(r) ==
  /\ pc[r] = "queued" /\ MyTurn(r)
  /\ LET entries == Approval(work[r].job).entries
     IN  \/ IF Taken(work[r].job) \/ ~Consistent(WithEnglish(en, entries), WithChinese(zh, entries))
            THEN Ends(r) /\ LeavesUpdates
            ELSE /\ Goes(r, "writing")
                 /\ seen' = [seen EXCEPT ![r] = [en |-> en, zh |-> zh]]
                 /\ UNCHANGED <<work, agent, updates>>
         \/ UpdateFails(r)
  /\ UNCHANGED <<en, zh, jobs, allocations>>

\* Mutant: the Chinese file is replaced first.
ChineseFirst(r) ==
  /\ pc[r] = "writing"
  /\ zh' = WithChinese(seen[r].zh, Approval(work[r].job).entries)
  /\ UNCHANGED en

\* The temporary files are written and the English one renamed into place.
EnglishReplaced(r) ==
  /\ pc[r] = "writing"
  /\ en' = WithEnglish(seen[r].en, Approval(work[r].job).entries)
  /\ UNCHANGED zh

ReplaceEnglish(r) ==
  /\ EnglishReplaced(r)
  /\ Goes(r, "english")
  /\ UNCHANGED <<jobs, work, seen, agent, allocations, updates>>

ReplaceChinese(r) ==
  /\ pc[r] = "english"
  /\ zh' = WithChinese(seen[r].zh, Approval(work[r].job).entries)
  /\ Goes(r, "chinese")
  /\ UNCHANGED <<en, jobs, work, seen, agent, allocations, updates>>

\* Writing the temporary files or the first rename fails: nothing was replaced.
WriteFails(r) ==
  /\ pc[r] = "writing"
  /\ UpdateFails(r)
  /\ UNCHANGED <<en, zh, jobs, allocations>>

\* The second rename fails: the English file is replaced by a copy of what it
\* was, unless that fails too.
ChineseFails(r) ==
  /\ pc[r] = "english"
  /\ en' = seen[r].en \/ (Interrupted /\ UNCHANGED en)
  /\ UpdateFails(r)
  /\ UNCHANGED <<zh, jobs, allocations>>

\* The directories are synchronised and the job becomes PUBLISHED; when that
\* fails the files stay replaced, and the job is saved as failed.
UpdateEnds(r) ==
  /\ pc[r] = "chinese"
  /\ \/ /\ work' = [work EXCEPT ![r].job.status = "PUBLISHED"]
        /\ seen' = [seen EXCEPT ![r] = None]
        /\ Goes(r, "saving")
        /\ LeavesUpdates
        /\ UNCHANGED agent
     \/ UpdateFails(r)
  /\ UNCHANGED <<en, zh, jobs, allocations>>

\* The repository's write queue makes the read of the jobs file and its
\* replacement one step: the whole job is written, over whatever it has become.
SaveJob(r) ==
  /\ pc[r] = "saving"
  /\ jobs' = [jobs EXCEPT ![work[r].id] = work[r].job]
  /\ Ends(r)
  /\ EndsTurn(r)
  /\ UNCHANGED <<en, zh, updates>>

\* A save that fails: after a publication the job is saved as failed instead.
SaveFails(r) ==
  /\ pc[r] = "saving"
  /\ IF work[r].job.status = "PUBLISHED"
     THEN /\ work' = [work EXCEPT ![r].job.status = "PUBLISH_FAILED"]
          /\ UNCHANGED <<pc, seen, agent, allocations>>
     ELSE Ends(r) /\ EndsTurn(r)
  /\ UNCHANGED <<en, zh, jobs, updates>>

\* The server stops and starts again: requests and queues are lost, files and
\* jobs are not; a command line is a process of its own and goes on.
OwnProcess(r) == agent[r] # None /\ work[r] = None
Crash ==
  /\ \E r \in Requests : pc[r] # "idle" /\ ~OwnProcess(r)
  /\ Interrupted \/ \A r \in Requests : pc[r] # "english"
  /\ pc' = [r \in Requests |-> IF OwnProcess(r) THEN pc[r] ELSE "idle"]
  /\ work' = [r \in Requests |-> None]
  /\ seen' = [r \in Requests |-> None]
  /\ agent' = [r \in Requests |-> IF OwnProcess(r) THEN agent[r] ELSE None]
  /\ allocations' = << >>
  /\ updates' = << >>
  /\ UNCHANGED <<en, zh, jobs>>

-----------------------------------------------------------------------
\* What users and agents may do at any time, and need not do.
Asks(r) ==
  \/ \E T \in (SUBSET Texts) \ {{}} : Cardinality(T) <= MaxBatch /\ BatchArrives(r, T)
  \/ \E S \in Batches, mode \in Modes : CreateSelected(r, S, mode)
  \/ \E i \in JobIds :
       \/ \E available \in SUBSET Providers : RunStarts(r, i, available)
       \/ \E c \in Codes, approved \in BOOLEAN : Edit(r, i, c, approved)
       \/ ApproveArrives(r, i)
  \/ \E requested \in Wanted, flag, confirmed \in BOOLEAN, available \in SUBSET Providers :
       CliPrepares(r, requested, flag, confirmed, available)
  \/ AgentAnswers(r)

\* What the server goes on with by itself.
Serves(r) ==
  \/ BatchReads(r) \/ BatchFails(r) \/ BatchAllots(r)
  \/ \E available \in SUBSET Providers : CliExecutes(r, available)
  \/ UpdateReads(r)
  \/ ReplaceEnglish(r) \/ WriteFails(r)
  \/ ReplaceChinese(r) \/ ChineseFails(r)
  \/ UpdateEnds(r)
  \/ SaveJob(r) \/ SaveFails(r)

Next == (\E r \in Requests : Asks(r) \/ Serves(r)) \/ Crash

\* The event loop runs what is ready; users, agents and crashes owe nothing.
Fairness == \A r \in Requests : WF_vars(Serves(r))

Spec == Init /\ [][Next]_vars /\ Fairness

-----------------------------------------------------------------------
(* Properties *)

\* A paid agent is called only for a request that confirmed paying, whichever
\* agents were available when it was confirmed and when it was called
\* (agents.executor.ts:36, runner.ts:129, cli.ts:60).
PaidOnlyConfirmed ==
  \A r \in Requests : pc[r] = "calling" /\ Paid(agent[r].provider) => agent[r].approved

\* A job saved as PUBLISHED has every approved code in both files: no other
\* approval, rollback or crash takes them out again (approval.service.ts:110).
PublishedIsWritten ==
  \A i \in JobIds : jobs[i] # None /\ jobs[i].status = "PUBLISHED" =>
    Approved(jobs[i]) \subseteq Defined(en) \cap Defined(zh)

\* Whatever fails between the two renames, no Chinese text lacks its English,
\* and the codes that lack their Chinese are those of one job
\* (approval.service.ts:148-164 refuses to publish over such a damage).
DamageIsOneApproval ==
  /\ Defined(zh) \subseteq Defined(en)
  /\ Defined(en) # Defined(zh) =>
       \E i \in JobIds : jobs[i] # None /\ Defined(en) \ Defined(zh) \subseteq jobs[i].codes

\* Every request the server works on by itself ends, also when the ones queued
\* before it fail (translations.service.ts:103, approval.service.ts:128-135).
RequestsEnd ==
  \A r \in Requests : []<>(pc[r] \in {"idle", "calling"})

\* The approval a request is publishing: until the Chinese file is replaced.
Publishing(r) ==
  IF pc[r] \in {"queued", "writing", "english"} THEN Approval(work[r].job) ELSE None

\* The English file without a replacement whose Chinese half is still to come.
SettledEnglish ==
  IF \E r \in Requests : pc[r] = "english"
  THEN seen[CHOOSE r \in Requests : pc[r] = "english"].en ELSE en

Dictionary == INSTANCE Publication WITH
  Halves <- Interrupted,
  english <- SettledEnglish, chinese <- zh, submitted <- [r \in Requests |-> Publishing(r)]

\* The two-file replacement implements a publication in one step: an approval is
\* in both files entirely or in neither, never under a code that another text
\* has, and complete with what was there, whatever fails; only an interruption
\* between the two renames publishes the English of one approval without its
\* Chinese (approval.service.ts:166-212).
PublishesAtOnce == Dictionary!Spec
=======================================================================
