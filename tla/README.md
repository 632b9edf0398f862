# Formal models of the poker monorepo

TLA+ specifications of the poker system in `src/`, the TLC runs that check them on small instances, and
TLAPS proofs, for every instance, of the safety properties those runs check. The code is the reference:
each definition names, in `PROJECT.json` under `map`, the lines it stands for.

## The system

A browser plays a room over Socket.IO. The server (`apps/poker-api`) keeps one runtime per room, drives the
pure engine (`packages/poker-engine`), and writes every accepted action through Prisma transactions
(`packages/db`) before it answers. Chips enter and leave a table through a double-entry ledger; the ledger
is fed by deposits read from a chain and drained by signed withdrawal vouchers. A second, unrelated product
manages translations (`apps/tms-*`, `packages/agents`, `packages/i18n`).

| Component | State | Operations | Talks to | What is hard | What makes it correct |
|---|---|---|---|---|---|
| Engine: betting (`state.ts`, `reducer.ts`, `lifecycle.ts`) | `TableState` of one hand | `startHand`, `applyCommand`, `resolveTimeout`, `legalActions` | called by the server | incomplete raises, short blinds, folds with nothing to call, who acts next | turn order, raise rights, no unmatched showdown, its own assertions, termination |
| Engine: settlement (`pots.ts`, `lifecycle.ts`) | stacks and commitments between hands | `settleShowdown`, `advanceHand`, `addOn` | called by the server | side pots, refunds, odd chips, busted seats in the ring | table stakes, conservation of chips |
| Engine: cards (`cards.ts`, `evaluator.ts`) | none | `evaluateSeven` | settlement | a pure function of seven cards | a total order of hands |
| Table server (`game.gateway.ts`, `table-runtime.ts`, `recovery.service.ts`, `game-server.ts`) | runtime cache, per-room lock, action and next-hand timers; durable seats, snapshots, events, operations | join, action, leave, snapshot, timeouts, next hand, restart | engine, ledger, clients | interleaving of lock, timers and unlocked reads; retries; crashes between commit and cache; failed commits | an action applies once, a legal durable history, recoverable state, turns that end, chips backed by the ledger |
| Disconnect grace (`game.gateway.ts:112-236, 843-857`) | grace rows, per-user timers, connected sockets | disconnect, reconnect, expiry | table server | rows written after an await; several sockets of a user | no connected player is played for; an absent one is |
| Ledger (`ledger.ts`) | accounts, transactions by reference | `postTransaction` | server, withdrawals, indexer | concurrent posts of one reference, serialization retries | one posting per reference, balanced, no overdraft |
| Withdrawals (`withdrawal.ts`, `settlement/`, `PokerEscrow.sol`) | reserved amounts, nonces, vouchers | request, sign, complete, release | ledger, chain | a voucher at its deadline, retries, reorganisations | never both paid and released |
| Chain indexer (`chain.ts`, `chain/`) | checkpoints, deposits, fence | index a range, rewind, take the lease | chain, ledger | reorganisations, two indexers | each canonical deposit credited once |
| Identity (`identity/`) | nonces, sessions | nonce, verify, guest login | ledger (grant) | a nonce used twice | one login per nonce, one grant per guest |
| Rooms (`rooms/`) | room rows | create, list | table server | - | valid stakes |
| Browser socket (`packages/ws`) | queue, pending operations, connection state | emit, flush, expire | table server | a disconnect in the middle of a flush, expiry, retries with one `actionId` | no operation lost without a rejection |
| Web client (`table-client.tsx`) | last snapshot, pending action | act, leave, request a snapshot | browser socket | retries after lost answers, notices out of step with refreshes | the player is told what happened, a click acts on the table that was shown |
| Translation API (`tms-api`) | the jobs file, two locale files, queues of allocations and updates | create, run, edit, approve | agents | replacing two files, requests that overtake each other at their awaits, crashes | both locales or neither, no code for two texts |
| Agents (`packages/agents`) | none | select and run a provider | translation API, command line | availability that changes between a confirmation and a call | no paid provider unasked |
| Traces, health, i18n, tms-web, deck audit | none that others depend on | - | - | - | - |

`PROJECT.json` lists them all with what is and is not modelled, and under `hazards` the places in the code
that are hard to test, each with the properties that would catch it going wrong.

## Modules

| Module | Models |
|---|---|
| `Seating` | the ring of seats and clockwise walks used by dealing, turn order and odd chips |
| `Betting` (extends `Seating`) | one hand: the deal, every command, street closing, timeouts, offered actions |
| `Pots` (extends `Seating`) | side pots, refunds and odd chips, as operators on commitments and ranks |
| `Hand` (extends `Betting`, `Pots`) | the life of a table: hands, settlement, next hand, add-ons |
| `MCHand` | instance of `Hand` for TLC |
| `HandProofs` (extends `Hand`, `FiniteSums`) | lemmas and theorems about `Betting!Spec` and `Hand!HandSpec` |
| `DisconnectGrace` | sockets of a room, grace rows and their timers |
| `TableServer` (extends `DisconnectGrace`) | one room of the server with its durable state, lock, cache, timers, crashes |
| `MCTableServer` | instance of `TableServer` for TLC, with symmetry of users |
| `TableServerProofs` (extends `TableServer`, `FiniteSums`) | lemmas and theorems about `TableServer!Spec` |
| `ManagedSocket` | the browser's end of a socket: connection, queue, flush, timeouts, retries |
| `TableClient` (extends `ManagedSocket`) | a player's page over that socket, with what the server promises it |
| `MCTableClient` | instance of `TableClient` for TLC |
| `TableClientProofs` (extends `TableClient`) | lemmas and theorems about `TableClient!Spec` |
| `Ledger` | postings under a reference, and what a transaction makes of one |
| `Cashier` (extends `Ledger`) | the requests that move points or prove an identity, as serializable transactions |
| `MCCashier` | instance of `Cashier` for TLC |
| `CashierProofs` (extends `Cashier`, `FiniteSums`) | lemmas and theorems about `Cashier!Spec` |
| `ChainIndexer` | the deposit indexers, the chain they read and the transactions they write |
| `MCChainIndexer` | instance of `ChainIndexer` for TLC |
| `ChainIndexerProofs` (extends `ChainIndexer`) | lemmas and theorems about `ChainIndexer!Spec` |
| `Withdrawal` | the withdrawals of a wallet: requests, vouchers, the escrow contract, reconciliation |
| `MCWithdrawal` | instance of `Withdrawal` for TLC |
| `WithdrawalProofs` (extends `Withdrawal`, `FiniteSums`) | lemmas and theorems about `Withdrawal!Spec` |
| `Agents` | how a translation agent is chosen, by the API and by the command line |
| `Translations` (extends `Agents`) | the translation desk: jobs, codes, drafts, reviews, the two locale files |
| `Publication` | what the desk promises of the dictionary: the abstract specification of an approval |
| `MCTranslations` | instance of `Translations` for TLC |
| `TranslationsProofs` (extends `Translations`, `FiniteSums`) | lemmas and theorems about `Translations!Spec`, with the refinement of `Publication` |
| `FiniteSums` | lemmas about sums over finite sets, which the proofs about chips and points share |

How the components meet: `TableServer` contains the grace periods and the seats' ledger account; `TableClient` sees a
room through the three promises `TableServer` is checked for (an id is applied once, an action only at the
version it names, a change is told before it is answered); `Cashier` drops the room lock, because it holds within one
process, and asks the database alone for what `TableServer` takes as one step.

### Betting and Hand against the engine

The record `TableState` is split into variables with the same names (`actorId` is `actor`,
`actedPlayerIds` is `acted`). A player is its seat number. A command computes the street commitments, the
wager, the minimum raise, the acted players and the raise rights, and hands them to `FinishOrPass`, which like
`finishOrPassAction` ends the hand, closes the street or passes the action; the three are disjuncts whose
guards are the code's early returns in order. `Bet` and `Raise` are split by what the code computes for
them: a full wager, a short bet, a short raise.

Abstractions: the board is a number of cards, because no betting rule looks at a card; `version` is kept
by `TableServer`, its only reader; the strength of hands is a ranking of the seats over which `Settle`
quantifies, because the settlement uses only the order of scores. `advanceHand` and `addOn` share the
precondition that the last hand is settled. `addOn` is an exported operation of the engine although the
gateway does not call it. The constants carry the code's own validation: `SmallBlind < BigBlind`
and positive stacks (`state.ts`), two to nine seats.

### TableServer against the server

A room is modelled as the process and the database see it. Of the engine it keeps what the server uses:
the players of the hand, whose turn it is, chips, pot and version; `Outcomes` is what a command followed by
`settleIfComplete` may produce. The actor may act again at once, as on a new street. The rules themselves
are `Betting`.

* **The lock.** `withLock` chains handlers on a promise. `queue` holds them in the order of their calls; the
  head runs, and its `step` says how far it is. A step ends where the handler awaits after a state change.
  What a handler only computes belongs to the transaction that follows: while it holds the lock only it
  commits, so what it read is still current, and `CommitStale` is what happens when it computed from a stale
  cache.
* **Outside the lock** run the first statements of `table:leave` (`leaving`), a `table:snapshot` that finds no
  runtime and recovers (`reader`, whose two reads and assignment are separate steps), and the timers.
* **Runtimes.** `cache` is the runtime's state. A recovery that replaces it leaves the old object's timer
  armed (`orphans`) and detaches the handler that was holding the object (`detached`): that handler's later
  assignments do not reach the cache. `LeaveClear` drops both runtime and timer.
* **Durable state.** `seat`, `account`, `snapshot`, `events`, `operations`, `draining` survive `Restart`.
  `CommitAction` is `commitDurableAction`: one or two events (a settlement is an event of its own and
  advances the version once more), the snapshot, the operation and the seats, in one transaction.
  `CommitFails` is a transaction that throws whether or not it took effect.
* **Recovery.** `Recoverable` holds the checks of `recoverResult` on a chain of events. A recovery under the lock
  reads a consistent pair, and by `DurableRecoverable` is never refused, so only the unlocked one has the branch.
* **Clients** may join, act on the version they have seen, leave or ask for a snapshot at any time and repeat any of
  these; a retry carries the same `actionId` and is one more task in the queue. An action names the hand in play and its
  version or an earlier one, so a retry may first arrive after a restart; one that names an earlier hand is refused
  for its hand (`game.gateway.ts:756-757`) and is left out. The web client asks for a
  snapshot on every state change, which is why an unlocked recovery can meet any step of a handler.
* **Grace periods.** A user may have several `sockets` in the room. One that drops cancels the user's timer at once and
  writes the row after an await (`dropping`), whoever has joined meanwhile. There are two kinds of timer, as in the
  code: the one of `scheduleDisconnectGrace` looks for a connected socket before it plays (`"checks"`), the one that
  `armDisconnectGrace` sets for a row that a join, a snapshot or a restart finds does not (`"plays"`). A snapshot
  request looks for the row and then arms, with an await in between (`arming`). A fired timer becomes a
  `"grace"` task that names its user. After a client's action a next actor whose row has expired is played for at once
  (`"pounce"`): nobody catches the failure of that, and `PounceFails` ends the process.

`MaxVersion` bounds how long a hand runs: from that version on the outcome of an action is its settlement. Hands
that are complete as dealt do not occur: rooms have `smallBlind < bigBlind <= minBuyIn`
(`packages/shared/src/rooms.ts:16-22`) and a next hand is dealt only to players who still hold the
minimum buy-in. Two `Leave` requests of one user are the same request; two commands of one user at one version are the
same command. `Droppers` are the users whose sockets are counted, up to `MaxSockets` each; a drop is one of the
requests, and happens before a restart. Left out are two details of a timer map: a timer that has fired deletes the
entry of one set after it (which spares a timer), and the user whom the deleted row of a completed hand belonged to.

### ChainIndexer against the indexer

A block is the set of deposits in it and its hash is the sequence of blocks up to it, so comparing hashes
compares chains. Between any two remote calls of a sync the chain may grow or lose blocks. The steps of a sync are
its remote calls and its transactions; the calls of `findCommonAncestor` are one step.

* **Lock and fence.** `lock` is the advisory lock, `lease` the indexer that took the latest generation; the
  holder stands for the number, which only ever is compared for equality. `LoseConnection` releases the lock
  while the sync goes on, so that another indexer may poll; `NoticeLoss` is the rejection that ends the poll. What
  a process still runs of a sync whose loss it has noticed is refused by `assertActive`, whatever the
  generation, and is taken as ended. `Fail` is a failed call or a restart at any step, also right after a commit.
* **Deposits.** The revision of an event distinguishes the ledger references of its credits and reversals;
  `credits` and `reversals` are those references. A deposit whose wallet has no user is recorded as
  `UNATTRIBUTED`, and is credited only if a reorganisation makes it be indexed again after `Register`.
* **Settled blocks.** With `DeepReorgs` FALSE, the blocks under the confirmed tip of the running sync and under the
  checkpoint it has compared stay: this is what `confirmations` is configured for. Between
  syncs any block may be dropped. With TRUE nothing is assumed.

### Withdrawal against the settlement code

`Reserve` is the serializable transaction of `reserveWithdrawal` with the signature inside it; the nonce of a row is its
place in `withdrawals`. The answer may be lost: a retry with the same key, or a lookup, returns the voucher
(`Answer`); a request without a key becomes a second withdrawal. `Mine` is the contract: a voucher is
paid in a block not later than its deadline and once per nonce; a block may pay several. A block with fewer than
`Confirmations` successors may be dropped, and `final` is the highest that no longer can.
`reconcilePending` is a step per transaction and per read of a nonce; a confirmed block does not change, so its
number and timestamp are read in one step. Time is the timestamps of blocks; the server's clock enters only by
the deadline, which may be any of `Deadlines`, before or after the latest block.

### TableClient and ManagedSocket against the browser

`calls` are the places in the page that may await an answer: the operation under its button (`Op`), the automatic
join, and one refresh per notice. A request is `Fate`: sent, queued or failed, as `ManagedSocket.emitAck` decides, under the two attempts
of the page's own `emitAck` (`Sends`, `Rejected`). `FlushSends` and `FlushExpires` are the loop of `flushQueue`, which awaits one answer
at a time; a request made while the socket is up overtakes the queue. socket.io is external: it rejects what is
unanswered when the connection drops, keeps the order of one connection, and gives up after a number of attempts. What a
lost connection had sent may still be served (`wire` with `live` FALSE).

The page's variables are the state of `table-client.tsx`: what it shows (`view`), the pending operation, the one it
offers to retry, whether it says it is connected. The table itself is a version counter that others may advance at any
time, because the page's duty is to its version. `told` is what the player was told of each click and `clicks` what was on the screen
then; they are history, for the properties.

The server of this model is an environment with an assumption: it serves every snapshot and every automatic join that reaches it. The real one may
refuse them (`game.gateway.ts:573-607` and `979-997`: a draining or closed room, no hand yet, a full room), and the page then shows the refusal and
its old table; `ViewCatchesUp` is claimed for rooms in service only. Answers to clicks may be refusals.

### Cashier and Ledger against the transactions

A request reads what its transaction reads (`Reads`), decides (`Outcome`), and commits only if it would read the same again
(`StillHolds`): serializable isolation. Otherwise it is aborted and tried again, or meets the row that
was first (`MeetsDuplicate`), for which each request has its own answer. It may die before the commit, and the answer of a
commit may be lost. A posting is a transfer between two accounts, which all callers here make; its payload hash is its
content. An account's balance is the sum of its postings. Seats carry the id of the buy-in that paid for them.

Two simplifications have the effect of a step that is there anyway. `NonceExpires` changes the row, where the code
compares `expiresAt` with the time its request started: no property depends on an expiry. The unique conflict of two joins on one
seat number of a room that is not full ends a request without a commit, as `Dies` does.

### Translations against the desk

A request stands at one of its awaits (`pc`), with what it has read (`work`, `seen`). The three reads of `createBatch`
return in any order, or one fails; allotting and publishing have their queues, whose heads run. The two renames of an approval are two steps,
each of which may fail or be the last before a crash; the rollback may fail too. The jobs file is written whole, over what
another request has made of the job meanwhile. Chinese texts are compared after normalisation, so they are values, and so is the
English an agent gives one (`Wordings`): a job for known codes may publish new English under an unchanged Chinese text. A provider's
availability is read anew by each call and is any set; the agent's answer is a draft or a failure.

`Publication` is the desk's promise of the two dictionaries together: an approval is published in both in one step, or in neither, and a
new entry finds its code free in both. `PublishesAtOnce` is the refinement. Its submitted approvals are those between their queueing and the
second rename; its Chinese is the Chinese file, and its English the English file, except that a replacement whose Chinese half is still to come does not
count yet (`SettledEnglish`): that is the one abstraction, and the step that ends it must settle it, with both files new or both as they were.

The code does not settle it when the process dies between the two renames, or when the second rename and the rollback both fail: the new English
is then live beside the old Chinese, or beside none. `Interrupted` says whether that may happen, and `Publication!Halve` is what the
desk promises then: the English of that one approval, nothing else. With `Interrupted` FALSE the promise is strict. (The plan says "atomically
replacing both reviewed dictionary and catalog files" and that a "simulated write failure leaves both original files unchanged",
`docs/superpowers/plans/2026-07-17-tms-review.md:16` and `:91`. That is true of any one failure and not of a crash between the renames,
of which the plan does not speak.) `DamageIsOneApproval` says what such a crash leaves of codes: an approval that would leave a code
without one of its languages is refused, so the damage does not grow.

## Runs

| Run | Instance | Shows |
|---|---|---|
| `hand3` | 3 seats, stacks 1 or 4 with blinds 1/2, add-ons of 1 up to 5 chips | the safety of the engine over several hands, and that every hand ends and is settled |
| `server` | 2 users, 2 hands, 5 requests, 1 crash, 1 failed commit | durable history, exactly-once actions, recovery, cash-outs, all with unlocked recoveries and leaves |
| `serverlive` | the same with 4 requests, one of which may be Ann's socket dropping, without leaves and unlocked recoveries | hands end, chips are backed, a valid room stays in service |
| `idleturn` | leaves allowed, one hand, 3 requests | a violation: a refused leave stops the turn's timer |
| `ghosthand` | Ann may leave, two hands, 4 requests | a violation: a hand is dealt to a player already cashed out |
| `disconnect` | 2 users, one socket of one of them drops, one hand, 4 requests | a violation: a player who never dropped is played for |
| `client` | 2 clicks, a table of 3 versions, 2 attempts, a queue of 1, 1 drop, 1 timeout | clicks are applied once and as seen, the player is told the truth, buttons and views recover |
| `cashier` | 2 guests and a wallet, rooms of 1 and 2 seats, 1 nonce, 2 requests at once and 5 in all, 2 attempts | no overdraft, tables hold what was paid in, a nonce opens one session, successes are true |
| `indexer` | 2 indexers, chains of up to 3 blocks, 7 changes of the chain, 1 failure, 1 confirmation | what counts is what the checkpoint's blocks contain, once on the ledger, and the indexers catch up |
| `deepreorg` | 1 indexer, blocks may be dropped at any depth at any time | a violation: a checkpoint of the new chain over a range of the old one |
| `withdrawal` | 2 reconcilers, 2 withdrawals of 1 or 2 chips, 3 blocks, 1 reorganisation, 1 failure | releases and payments exclude each other, and reservations end |
| `translations` | 2 requests at once, 2 jobs of one text or code, 2 texts, 2 English wordings (one in first drafts, one in later ones), 2 codes, a free and a paid agent, interruptions | approvals are published in both files at once, or half by an interruption, published jobs stay, paid agents need a confirmation, requests end |

**Why the bounds are enough.** Three seats are the least at which side pots, incomplete raises by
somebody other than the opponents of the last raiser, and a bust that leaves a playable ring occur. Stacks
of 1 and 4, and of 2, 3 and 5 after a settlement and an add-on, against blinds of 1 and 2 put a blind all-in, make a call all-in below the wager, and give
raises of one chip, less than the minimum, and of two, the minimum. The proofs below do not depend on these numbers.
In `server`, five requests are two joins, an action, and two more that may be a retry, a leave, a second
action or a snapshot; one crash and one failure can fall at each step. With `BuyIn` 1 one bet
empties a stack and with `MaxVersion` 1 a hand has an action that passes the turn and an action that
settles, so versions advance by one and by two. Two hands let everything about a first hand (timers,
stale runtimes, retries) meet the second. In `serverlive`, after two joins and a drop one request is left for the action,
the reconnect or the snapshot that finds the row; the crash lets a row be recovered, and the failed commit ends a pounce or drains the room.
In `client`, two attempts and one drop or timeout let an operation be sent twice, be requeued, expire, and be retried by the player after an answer was lost;
one queue place lets it be full. With as many timeouts as attempts a refresh may fail for good, and a page that nobody tells of
anything later shows an old table: `ViewCatchesUp` needs `MaxTimeouts < Attempts`.
In `cashier`, two requests at once are what conflicts, retries and duplicates are made of; two rooms share a guest's points, and
the room of one seat is full while the other is not. Five requests are two guests, a seat for each, and a leave, a posting or a login.
In `indexer`, three blocks with one confirmation let two ranges be committed, so that a rewind may stop at a common
ancestor or go back to the start, and seven changes replace the chain by another of three blocks, or twice in part. One deposit is enough because no two of them meet: each has its own event,
references and place on the chain. In `withdrawal`, three blocks with one confirmation let a voucher be paid, confirmed
and completed, or expire and be released, before or after a second one is requested with what came back.
In `translations`, two jobs are what can compete for a code, be published in either order, or be written over by a stale copy of one of them;
the files start empty, so that codes are first allotted, published, and then translated again, with other English. Reviewers do not rewrite
texts in this instance (`Rewrites` is empty; the proofs have any). `Interrupted` is TRUE, the weaker promise; the instance with FALSE and one text holds too.

**Fairness.** `hand3` assumes that an idle actor is timed out (`WF(Timeout)`: the server arms an action timer
for each turn; `TableServer` examines that) and that a complete hand is settled (`WF(Settle)`: the
gateway settles in the same handler). `serverlive` assumes weak fairness of handlers, readers and action timers: the
Node.js event loop runs what is due. Nothing is assumed of the grace timers, which may only shorten a turn.
Clients owe nothing: no joining, acting or retrying is assumed. Crashes
and failures are bounded and not fair. `TurnsExpire` says that a hand in play ends unless its room drains; as a hand has a bounded
number of turns (`MaxVersion + 1`), it ends exactly if no turn lasts for ever.
`client` assumes that the browser handles what has arrived and reconnects or gives up, that the queue is flushed while the socket is up, and that the server serves
what reaches it over a living connection; not that a player clicks, nor that a drop or a timeout happens or does not. A
queue that waits for a connection when socket.io gives up is never flushed nor expired, so `PendingClears` ends there.
`translations` assumes that the event loop goes on with each request; users, agents and
crashes owe nothing, and a call to an agent may last for ever.
`indexer` and `withdrawal` assume that the steps of each process are
weakly fair: polls are repeated at an interval and a remote call returns or throws. Nothing is assumed of the
chain, of wallets or of requests; once the bounds are used up the chain rests, and `Converges` and
`ReservationsEnd` say what the processes must then have reached.

**Deadlock** is checked in `hand3` (a table on which one player has all the chips still allows the add-on of another), in `indexer`, where polling never stops,
and in `translations`. It is not in the server's runs, where a room may be idle and clients are
bounded, nor in `client` (the page is closed, or everything bounded is used up), `cashier` (all requests made),
`withdrawal` (reconcilers wait for a first confirmed block) and `deepreorg`.

**Why `serverlive` is restricted.** With `UnlockedReads` its three properties fail, so the run shows what
holds without them. A snapshot request that reads the snapshot, is overtaken by a commit, and then reads the events
sees an event newer than its snapshot, and the room is drained although its state is valid. One that ends
late puts an old hand back into the cache, with a timer for a turn that was already timed out: that automatic
action finds its id committed and returns, and the turn in play is left without a timer. With leaves
allowed the first two findings below apply.

## Findings

1. `idleturn`: `leave` clears the runtime, and with it the action timer, before it finds that a hand is in
   progress (`game.gateway.ts:915-919`). Nothing arms the timer again until a client joins or
   asks for a snapshot. The design says the server acts when a turn expires
   (`docs/superpowers/specs/2026-07-16-poker-webapp-design.md:195`). The web client offers Leave only when the
   hand is complete, so on the wire it is a race of Leave with the deal of the next hand.
2. `ghosthand`: `leave` clears the next-hand timer before it takes the lock (`game.gateway.ts:880`). When
   the action that ends the hand is ahead of it, the timer is set again afterwards, the leave cashes the player out, and
   `startNextHand` deals from the players of the old hand. The departed player posts and wins chips
   that the ledger has paid back; the design requires table chips to equal buy-ins minus cash-outs
   (the same document, line 205). `StepsBacked` says where such chips come from: a deal or a turn conserves what is *held*, the chips of the hand's
   players with the pot and the other stacks (`ChipsHeld`), and a departed player's are still among them. That property holds in the
   ghost hand too; it is `TableBacked`, on the seats and the ledger, that the ghost hand breaks.
3. `deepreorg`: a sync compares the stored checkpoint with the chain once and then commits range after range
   (`indexer.service.ts:78-102`). When a reorganisation deeper than the confirmations falls between two ranges,
   the checkpoint becomes one of the new chain above a range of the old one. Later syncs find the checkpoint
   canonical; the deposits of the stale range stay credited and those that replaced them are never read. The plan
   promises that a mismatch is detected and rewound (`docs/superpowers/plans/2026-07-16-04-web3-testnet.md:136`).
   A read of the parent hash of each range would notice. The two other reads that trust the chain not to change
   under them are of the same kind: `rewindLocked` reads the ancestor's hash again, and `processRange` takes equal hashes
   around `getLogs` for a chain that did not change.
4. `disconnect`: `armRecoveredGrace` looks for the grace row of `runtime.state.actorId`, and after the await arms a timer for
   `runtime.state.actorId`, which it reads again (`game.gateway.ts:228-233`). A `table:snapshot` calls it outside the room lock. In the trace Ann's
   socket drops in her turn; her turn's timer commits the automatic action and its handler is about to delete her row; a
   snapshot request of Bob finds the row while Ann is the actor; the handler makes it Bob's turn; the request arms Ann's grace for Bob, and when it
   ends the server checks or folds for him (`213-218`, `465`), who never lost a connection. The
   end-to-end test says that the server "does not let an expired non-actor grace act for the connected actor"
   (`test/game-socket.e2e-spec.ts:519`), in a schedule that does not meet this one. `GraceOnlyForDropped` states it of
   players who never drop; a player's *own* leftover row also plays for it when it is connected again (hazards of `game.gateway.ts:169` and
   `:848`), which no line of the repository rules out.

Behaviours met while modelling that no document contradicts are hazards without a property in `PROJECT.json`. One is the page's automatic join:
after a reconnect it is sent again (`table-client.tsx:171`), so when the connection drops while a leave is being
carried out, the join buys the player who has left a new seat. `AppliedAsSeen` and `ToldTheTruth` are
true of it: the leave was carried out.

## Proofs

Every safety property of a passing run is proved for all values of the constants, under the named assumptions of the
modules (`ASSUME`, evaluated by TLC in the runs) and these restrictions:

| Theorem | Holds under | Because otherwise |
|---|---|---|
| `ValidRoomsServed` (`TableServer`) | `~UnlockedReads` | an unlocked recovery may drain a valid room (see "Why `serverlive` is restricted") |
| `TablesAreBacked` (`TableServer`) | `Leavers = {}` | finding 2: a hand may be dealt to a player cashed out |
| `EventsAreOfCheckpoint`, `OneChainStored` (`ChainIndexer`) | `~DeepReorgs` | finding 3 |

The restrictions are those of the runs that check the properties, and TLC shows that they are needed: the first by the
traces described above, the others by `ghosthand` and `deepreorg`.

### HandProofs: betting

For any number of seats from 2 to 9, any blinds with small < big, any set of
positive stacks and of add-ons, every behaviour of one hand (`Spec`) and of a table's life
(`HandSpec`) satisfies the type invariant and the safety invariants of the betting.

None of `TurnOrder`, `ContenderCoversPot`, `ShowdownMatched` and `EngineAsserts` is inductive: a state may satisfy them
and still have players who brought different amounts into the street. `BettingInv` adds

* `StreetLevels`: all active players entered the street with the same commitment, nobody with more;
* `WagerHolder`: somebody still in the hand stands behind the current wager, so that a fold cannot leave the
  largest commitment without an owner;
* `OptionIsLast`: a player who matches a wager without having acted, the big blind with its option,
  is the last to act, so that passing to the next active seat never skips anybody;
* `StreetOpen`: a live hand is one that `finishOrPassAction` would not have ended;
* `FacedAtMostBet`: no player has faced a wager above the current one, which `RaiseRightsRule` needs.

The argument has three layers. `CommandEffect` reduces every command to one `Effect`: what the actor pays
and what it hands to `FinishOrPass`. Then `FinishKeeps`, `CloseStreetKeeps` and `PassActionKeeps` show that each
outcome preserves `BettingInv`, from lemmas about the seats after an effect (`SeatFactsAfter`, `OthersMatch`,
`WagerHeld`, `PotCovered`, `LevelsAfter`). `NearestSeat` supplies what the clockwise walk returns.
`DealtInv` shows that any deal establishes the invariant, stated for arbitrary blinds' seats so that it serves
`startHand` and, said of the next state (`DealNext`), `advanceHand`, where the ring may have shrunk to two of nine
seats. `SettleKeeps` and `AddOnKeeps` are the remaining steps of `HandSpec`. `OffersMatch` derives
`OffersAreAccepted` from the types: what `legalActions` offers is what `applyCommand` takes.

### HandProofs: settlement

`SettlementIsFair` (`TableStakes`: nobody collects from another player more than it has itself committed, the only best
hand collects exactly that, a folded player nothing) and `ChipsAreConserved` (no chip appears or is lost, whatever side pots, folded
money and odd chips there are) rest on arithmetic about any commitments, contenders and ranking:

1. a pot is the slice of the commitments between two levels, and the slices up to a level add up to the
   commitments capped at it (`SlicesUpTo`, a telescoping sum over levels);
2. a slice is shared out to the last chip, equal shares and an odd chip for the first winners clockwise
   (`FirstSeats`, `PotShared`), and never gives one contender more than what the others put into it (`AwardBounds`);
3. the payouts of the players, summed over players, are the slices, summed over levels
   (`PayoutIsShares`, `SumSwapped`, `PayoutsConserve`, `PayoutBounds`).

Step 2 needs an eligible winner in every slice. That is `ContenderCoversPot`, which is why the
settlement is safe only at the end of a hand that was bet by the rules: the proof of `Settle` uses `BettingInv`.

### FiniteSums

Sums over finite sets are functions here, `SumFunctionOnSet` of the community modules, a fold that is defined by recursion.
The module proves from its definition what the proofs need: the sum over a set with one more element, a changed
value, two functions added, bounds, the exchange of two sums. No induction principle with an operator parameter is used: where an induction
is needed, the set of counterexamples is a family of finite sets and `LeastSet` takes a smallest.

### TableServerProofs

`ServerInv` says of what the process holds that it is the latest snapshot or behind it, in a way that the guards of the
handlers notice: `CopiesBehind` (the cache and a reader's copy), `OthersWait` (only the head of the queue has done
anything), `NextFollows` (the next hand is scheduled once, after the latest one, which is over). It follows that
the durable records change in two ways only, `TurnCommitted` and `HandDealt` (`HistoryStep`), and from this

* `EventsFollow`: the events of the hand are one per version, with a second one at a settlement: `RestartsRecover`, `CacheNeverAhead`;
* `OperationsPast`: an operation is a leave or names a version that has passed: `ActionsApplyOnce`, since a retry names the same version;
* `CacheCurrent`: with every read under the lock and no failed commit, the cache is current when a handler starts: `ValidRoomsServed`;
* `HistoryIsLegal` and `NobodyLeavesInHand`, which speak of steps.

`StepsAreBacked` holds with leaves and unlocked reads, without exceptions: a join or a leave changes the chips on the table by what it
moves on the account (`SeatIsPaid`); a turn or a deal moves nothing on the account, conserves `ChipsHeld` and writes the hand's chips to the
seats that are there (`TurnKeepsHeld`, `DealKeepsHeld`). It does not say that the table is backed: once a player of the hand has left, what is held is more
than what lies on the table. Without leaves the two are the same (`StayInv`, `HoldingsType`): `TablesAreBacked`.

### CashierProofs

For any guests, wallets, rooms, seats, references, amounts and numbers of attempts, a nonce opens
at most one session (`NoncesOpenOneSession`), whoever is told of a success finds it done (`SuccessesAreTrue`), and no
account is overdrawn while each room's account holds what lies on its table (`FundsAreKept`).
`CashierInv` adds to the first two properties

* `RunsShape`: the operation of a request is one that could be asked, so that it speaks of known nonces and accounts;
* `NoncesInv`: a session that names a nonce is for the address of the nonce, which is consumed: that is why no
  second one can be opened;
* `SeatsPaid`: each seat has the posting that paid for it, which makes the answer "already seated" true;
* `ReadsStay`: what a request has read and rests a positive answer on (a posting under its reference, a seat it holds paid for) is
  in the database for good, whatever else has changed since.

The argument is that rows are only ever added, except seats, and nonces only move forward (`RowsGrow`): an answer that was true stays true
(`AnswersStay`), and one that is given rests on what was read (`ReadsAreTrue`, `AnswerIsTrue`). Commits use
serializability: `StillHolds` turns what was read into what is there. For the money, `MoneyInv` adds `SeatsInv` (one seat of a guest in
a room), `IdsInv` (the reference of a buy-in or cash-out is new, so that the posting is written and not taken for a
repetition) and `AskedInv`; a posting then moves one amount between two balances, and a seat's stack moves with it.

### ChainIndexerProofs

`DepositsBookedOnce` holds under any reorganisation: `RevisionsOnce` says that a revision of an event is credited at most once,
reversed only afterwards, and that the current one is on the ledger exactly while the event is credited.
For the others, only the holder of the last lease passes the fence, so `LeaseInv` speaks of it alone: what it has
compared (`Compared`) and read (`Read`) is on the chain still. A commit then extends the checkpoint, or cuts it
back to a prefix, by blocks of the same chain (`SettledCommitRange`, `SettledCommitRewind`), whatever other
indexers went on doing after they lost the lock.

### WithdrawalProofs

`Inv`: along the chain time does not go back and payments are final (`ChainInv`); a reconciler
goes by a block that stays (`RunInv`, `FinalInv`); rows are settled as such a block says (`SettledInv`); what is not released is
still off the account (`Booked`). `SettledLater` is the heart of it: what a block has paid, later blocks have paid, and what it has neither paid nor
may still pay, none of them pays. `SettledIsPaid` and `VouchersCovered` follow.

### TranslationsProofs

`DeskInv`: the files change only under the request at the head of the queue, which still holds what it read of them (`FilesInv`,
`QueueInv`); a job's codes never change, however stale the copy that is written back (`WorkInv`); the codes of a published
job are in the Chinese file, which only gains codes (`JobsInv`). `PublishesInOneStep` is the refinement of
`Publication`: the initial states map to its initial states, and each step maps to a submission, an atomic publication, a dropped
approval, or a stutter (`Submits`, `Publishes`, `GivenUp`); a step that leaves the English of an approval alone maps to `Halve`, and needs `Interrupted`.
Both files are in the mapping. `Settled` is the invariant of it: at most one request is between the renames; the settled English is what that request read, and the file itself while there is none. `PaidIsConfirmed` has an invariant of its own (`Consented`), as consent is
looked for twice, at different times.

### TableClientProofs

`ClientInv`: every copy of a request (under the button, offered for a retry, in the queue, on the wire, orphaned) carries the
id and version of its click (`RequestsInv`), at most one operation is awaited (`OneOperation`), and what
has been answered, delivered or not, stays true (`AnswersInv`, `ToldInv`), since versions only grow and a seat is
lost only by a leave (`World`). `ActionsAppliedAsSeen` and `PlayerToldTheTruth` follow; both hold for any bounds on clicks, tries, drops and timeouts.

### What is only model-checked

Liveness (`HandsEnd`, `TurnsExpire`, `PendingClears`, `ViewCatchesUp`, `RequestsEnd`, `Converges`, `ReservationsEnd`) and
with it everything about `ENABLED` and deadlock: the prover does not treat them. The properties of the violation runs are refuted, not
proved. `TableServer` has no theorem about its connections beyond those above: grace periods may
shorten a turn and are free to do so in the invariants.

## Not modelled

Card identities and the evaluator (a pure function, of which the settlement needs the order only), the deck's encryption and audit (cryptography within one call),
the creation and listing of rooms (one row, one read), traces and health (written, never read by the program), the dictionaries' formatting and the
translation web application (forms over the API that is modelled), names, the lobby's broadcasts, layout,
and the schema validation of requests. Operations without a caller are left out: a manual rewind of the indexer,
`creditDeposit`, `storeChainCheckpoint`, `allocateNextCode`. Read-only listings (ledger entries, the dictionary) change nothing.
In `TableServer` the database is a set of atomic transactions: the retries of serializable
transactions are the subject of `Cashier`, inside one step elsewhere.

## Plan

Done, in this order, most important first: `Seating`, `Betting`, `Pots`, `Hand`,
`TableServer`, `ChainIndexer`, `Withdrawal`, `Agents` and `Translations` with the refinement of `Publication`, `ManagedSocket` and
`TableClient`, `Ledger` and `Cashier`, `DisconnectGrace` within `TableServer`; and the proofs about each of them, `HandProofs`,
`CashierProofs`, `TableServerProofs`, `ChainIndexerProofs`, `TranslationsProofs`, `WithdrawalProofs`, `TableClientProofs`, on `FiniteSums`.

Next:

1. `TableLedger`, the abstract room (a set of applied actions, a legal history of hands, chips in and out), and
   `TableServer` shown to implement it by `INSTANCE ... WITH`: the cache, the lock and the timers disappear,
   a crash is a stutter. `HistoryIsLegal`, `ActionsApplyOnce` and `StepsAreBacked` are its parts, and
   `HistoryStep`, `TurnKeepsHeld` and `DealKeepsHeld` the steps of its proof.
2. Three users in `TableServer`: a leave of one that stops the others' next hand; a drained room that starts a hand.
3. A run of `TableClient` for the join that follows a leave.

Theorems worth proving next: the promises that `TableClient` takes from the server (an id once, an action only
at the version it names), as steps of `TableLedger`; `TableBacked` with leaves, for a server that checks the seats
before it deals; that a grace period is only played for the actor of the turn it was armed for.
