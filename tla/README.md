# PersAI: TLA+ specifications of the turn lifecycle

PersAI is a TypeScript monorepo: a control plane (`apps/api`), a runtime that
executes assistant turns (`apps/runtime`), a gateway to model providers
(`apps/provider-gateway`), a sandbox for tools (`apps/sandbox`), a web client
(`apps/web`) and shared packages.  All services run as several replicas over one
Postgres database and one Redis.

These specifications cover the part of the system that has to stay correct when
requests are retried, pods die, leases lapse and jobs finish at any moment: the
life of a turn from its admission to its settlement, and the asynchronous work it
leaves behind.  Paths below are relative to the repository root; `turns/` is
`apps/runtime/src/modules/turns/`, `application/` is
`apps/api/src/modules/workspace-management/application/`.

## 1. Inventory

### 1.1 Runtime turn acceptance, session lease and settlement (`apps/runtime`)

| | |
|---|---|
| State | Redis: the session lease (TTL 30 s), the turn-in-flight markers, the receipt markers (`runtime-state-redis.service.ts`). Postgres: `runtime_turn_receipts`, unique per (conversation, idempotency key), with the requestId of the call that has the turn and status accepted, completed, interrupted or failed (`runtime-state-postgres.service.ts`). A call draws a fresh requestId, except that media and document jobs and background tasks use the idempotency key as their requestId |
| Operations | `acceptTurn` (replay check, claim of marker and lease by one Lua script, insert or reclaim of the receipt, publication of the marker); `completeAcceptedTurn`, `interruptAcceptedTurn`, `failAcceptedTurn`, `failAcceptedTurnMinimal`; `releaseLease`; the heartbeat of streams; the batch of `ReconcileOrphanTurnReceiptsService` |
| Callers | `streamTurn`, `streamAsyncContinuation`, `createTurn`, `createAsyncContinuation`, `createBackgroundTaskToolRun`, the media and document job runs; compaction and idle extraction take the same lease |
| Hard | concurrent retries of one key, a lease that lapses under its holder, check-then-act between Redis and Postgres, a pod that dies at any step, an error path that runs after part of the work was persisted |
| Correct when | one requestId replies per idempotency key; async continuations run once; one turn at work per session; the reconciler spares live turns; settled stays settled; every accepted receipt is settled |

### 1.2 Runtime execution admission (`apps/runtime`)

State of one process: a counter of running calls and a FIFO queue per execution
class, a round-robin cursor, one wait timer per call
(`turns/runtime-execution-admission.service.ts`).  Accepted turns call it between
acceptance and execution; job runs call it before acceptance.  Hard: timers that
race grants, work that throws, three limits at once.  Correct when counters equal
running work, reserved slots stay reserved, no admissible call waits beside a free slot,
a class is served in the order of arrival, and waiting ends.

### 1.3 Async catch-up (`apps/api`)

| | |
|---|---|
| State | Postgres: `assistant_async_job_handles` (state none, subscribed, ready, claimed, dispatched, completed or failed; claim token and expiry; retry count; output and delivery attempts; the canonical result), the wake row of each chat (`lastUserTurnStartedAt`, `lastUserTurnTerminalAt`), scheduler leases |
| Operations | observe or subscribe a pending job during a turn, `finalizeSourceTurn`, `recordCanonicalCompletion` by the job workers, claim, dispatch, deliver, complete, fail and requeue by the continuation scheduler, admission of catch-ups against user turns by `ChatWakeCoordinatorService`, `SchedulerLeaseService` |
| Talks to | the runtime (`createAsyncContinuation` under the key `async-cont:...`), job workers, Telegram and web delivery |
| Hard | claims that expire under their holder, ambiguous dispatch after a crash, a completion recorded late or twice, user turns that overlap |
| Correct when | a finished job is narrated once, the holder of the token alone moves a claimed row, no failure notice follows a narration, every finished subscribed job ends in a terminal state |

### 1.4 Chat wake and scheduler leases (`apps/api`)

| | |
|---|---|
| State | Postgres: the chat row (`lastUserTurnStartedAt`, `lastUserTurnTerminalAt`, `catchUpLastScannedAt`), `scheduler_leases` (token, expiry), web attempts, receipts of Telegram turns, the state and `nextRetryAt` of handles |
| Operations | `admitUserTurn`, `abandonUserTurnAdmission`, `recordUserTurnTerminal`; `claimReadyCatchUps` (list, record the scan, gate, lease, gate, claim), `evaluateCatchUpGate`, `admitCatchUpAtBoundary`, `releaseCatchUp`; `acquireOrCreate`, `heartbeatKey`, `releaseKey` |
| Talks to | the handlers of user turns, the continuation scheduler, the reconciler of web attempts |
| Hard | a gate of four reads before one conditional update, turns that overlap, a terminal stamp that fails, a lease that lapses under its holder, chats that shut each other out |
| Correct when | no catch-up is admitted into an open user turn, one scheduler works in a chat at a time, every ready handle is served |

### 1.5 Web chat turn attempts (`apps/api`)

| | |
|---|---|
| State | Postgres: one `AssistantWebChatTurnAttempt` row per client turn (accepted, running, completed, interrupted, failed; its user message; its assistant message, the bubble; `updatedAt` and the anchors of age), chat messages and attachments. Redis: the owner record of a turn (TTL 1 h), by which stop requests find the replica |
| Operations | `claimOrReplayWebTurn`, `claim`, `markRunning`, `bindAssistantMessageId`, `bindOrDiscardAssistantMessageCandidate`, `markCompleted`, `markFailed`, `markInterrupted`, `touchRunningAttempt`; `prepare` and `streamToCompletion`; `register`, `release` of the owner; delivery of finished jobs into the open turn; the batch of `ReconcileOrphanWebChatTurnAttemptsService` |
| Talks to | the runtime (one turn per session), workers of media and document jobs, the chat wake coordinator |
| Hard | a retry of a request that still runs, two creators of one bubble, a terminal write that is lost, a reconciler that judges by what it read before |
| Correct when | one bubble for good, with the files of the turn; the replay of a completed turn shows its words; a completed turn is not run again; the reconciler gives up orphans only; every attempt ends |

### 1.6 Other components

Listed in `PROJECT.json` with the reason they are left out or left for later: media
and document jobs, background compaction, background tasks, scheduled actions,
materialization, quota accounting, billing, notifications, knowledge indexing, the
stream bus, Telegram album collection, sandbox execution, provider gateway, web
client, browser extension, infrastructure, contracts.

## 2. The modules

```
TurnLedger      <== RuntimeTurn     <-- MCRuntimeTurn      (<== implemented by)
                    ^-- RuntimeTurnProofs <-- RuntimeTurnRefinement
ExecutionAdmission  <-- MCExecutionAdmission
                    ^-- ExecutionAdmissionProofs
NarrationLedger, TurnLedger
                <== AsyncCatchUp    <-- MCAsyncCatchUp
                    ^-- AsyncCatchUpProofs <-- AsyncCatchUpRefinement
ChatWake            <-- MCChatWake
                    ^-- ChatWakeProofs
BubbleLedger    <== WebTurnAttempt  <-- MCWebTurnAttempt
                    ^-- WebTurnAttemptProofs
```

The three ledgers say what is promised to a user or a caller, with none of the
machinery: logical turns, the narration of one job, the bubble of one web turn.

No module declares a RECURSIVE operator, so that each can be proved about.

### 2.1 RuntimeTurn

One session, any number of requests, compaction runs and reconcilers.  Every
action is one round trip to Redis or Postgres, since that is where the code awaits
and other handlers run.

| Variables | Code |
|---|---|
| `pc`, `after`, `hint`, `outcome` | the position and locals of a request between `acceptTurn` and the release of its lease |
| `replied` | the requests whose `markTurnReceiptCompleted` succeeded; a history of what the clients may get |
| `lease`, `inFlight`, `marker` | the three Redis key families of `runtime-state-redis.service.ts`; the TTL of the first two is `LeaseExpires`, `InFlightExpires` |
| `receipt` | the `runtime_turn_receipts` row of each key; status `orphaned` is failed with error code `orphan_reconciled`; `stale` is `updatedAt` beyond the grace period |
| `rpc`, `cand`, `batch` | the position of a reconciler in `executeBatch`, the row it works on (key and requestId) and the rest of its query |

`ReadMarker` to `ClearClaim` are `acceptTurn` with the idempotency service,
`StartRun` to `HeartbeatLost` the execution, `CompleteTurn` to `SettleThrows` the
finalization with its error paths for each of the four kinds of entry point
(`SurfaceOf`), `ReadLease` and `DeleteLease` the two halves of
`releaseSessionLease`, `FindCandidates` to `ClearOrphanMarker` the reconciler.
Every await may throw where the code lets it throw (`CreateThrows`,
`PrepareThrows`, `CompleteThrows`, `FailThrows`, `SettleThrows`, `ReleaseThrows`),
and a handler or reconciler may die anywhere (`Crash`, `GiveUp`).

`IdOf` gives each call its requestId, which is what markers, rows and candidates hold:
the code finds a row by key or by requestId, and takes whoever has the requestId of a
row for its owner (`Owns`).  Calls that share a requestId share a key
(`ConstantsAssumption`); a client that repeats an `x-request-id` in another turn is not
a state of the model.  `OwnId(r)` says that no other call has the requestId of `r`, as
holds for the turns of users and for continuations.  The runs of a job that is
retried share one, and whatever the code promises of own requestIds only is stated
under `OwnId` (section 4).

`Sheltered` is an assumption made visible: a worker in it never sees its lease
lapse while it holds it.  It is empty wherever a property does not need it.

`TurnLedger` is what the runtime promises of logical turns: a turn runs under one
requestId at a time, its owner, it changes hands only after it was lost, only a call
with the requestId of the owner settles it, a settled turn never runs again, an async
continuation is never taken over.

Decisions worth knowing.  The update of a receipt and the update of the session
summary that follows are one step that may throw after its first half
(`CompleteThrows`).  `AtWork` covers preparation, execution and completion, not
the release.  A request may wait up to 12 s for an execution slot while its 30 s
lease runs; that is part of the time it is at work.

### 2.2 ExecutionAdmission

One process.  `phase[c]` is the state of a call, `queue`, `inFlight` and `cursor`
are the fields of the service.  JavaScript runs each method to its end, so
`Acquire`, `TimeOut` and `Release` are single steps, and the loop of
`dispatchQueuedRequests` is cut into its iterations (`Dispatch`, `EndDispatch`)
with `dispatching` keeping everything else out until it ends.  `ComeAgain` lets the
same client call again.

`request.settled` in the dispatch loop can never be true, since a call that times
out leaves its queue first, and is left out.  Nested calls under the same
AsyncLocalStorage context skip admission and are not calls of the model.  A stream
whose consumer never finishes or closes it keeps its slot; the fairness of
`Release` excludes it, so `EveryWaiterServed` says nothing of that case, and
`SlotsMatchWork`, for which such a stream is at work, finds slots that are lost when
work throws but not this one.

### 2.3 AsyncCatchUp

One handle of a Telegram chat.

| Variables | Code |
|---|---|
| `handle` | the `assistant_async_job_handles` row: `state`, `owner` (`narrationOwner`; `exhausted` is a continuation stopped by the depth limit), `final` (source turn finalized), `snap` (canonical result recorded), `token`, `expired`, `retries`, `msg` (`continuationAssistantMessageId`), `attempt` (the two delivery results) |
| `job`, `owed` | the canonical job, and whether a media or document worker still has to record its end |
| `source` | the turn that started the job: its receipt, its API handler, whether an assistant message exists |
| `run` | the runtime's turn under the key `async-cont:<handle>`: its receipt (`status`, `req`), where its handler stands (`pc`), whether a result was ever persisted (`replied`) |
| `call` | each dispatch request on its way |
| `bubble`, `sent` | chat messages created, the one pinned on the job, attachments; Telegram sends, counted up to two |
| `sch` | what each scheduler is in the middle of |
| `faults` | how many more crashes, lost requests, lost locks, exceptions and refusals may come |

A scheduler step is one transaction or one remote call: `ClaimReadyHead`,
`Validate`, `Gate`, `Call`, `MarkDispatched`, `Publish`, `Pin`, `Stamp`, `Attach`,
`PersistOutput`, `ClaimAttempt`, `Send`, `SettleAttempt`, `CompleteClaim` are
`processClaim`; `Inspect` is `reconcileLockLostClaim`; `ReconcileExpired`,
`GiveUpAttempts`, `LookUpReceipt`, `ProveAbsent` are `reconcileExpiredClaims`;
`ListOpen` and `RecordListed` are the two sweeps of open rows, `SweepSourceTurn` the
sweep of unfinalized turns.  `ClaimExpires` may fire at any moment.

More than one scheduler at work is the situation after a scheduler lease or a chat
lock lapsed under its holder; the row alone then arbitrates.  A run with one
scheduler is the situation in which those leases hold.

The runtime is the other actor: `Accept`, then the handler of
`createAsyncContinuation` (`PersistResult`, `PersistFailure`, `Return`,
`HandlerDies`) and the reconciler (`OrphanReceipt`).  A receipt may be completed and
then failed by the error path, may be orphaned while its handler lives and be
settled by it later, and the answer of the handler says what the handler did, not
what the receipt says when the answer arrives.  `RuntimeTurn` has each of these steps
among concurrent requests; here they are taken for one key.  That the two fit is checked:
both implement `TurnLedger` (`ImplementsLedger` there, `KeepsTurnLedger` here, with the
tokens as requests, each with a requestId of its own, and the key of the continuation as
the only key).

`NarrationLedger` is what a chat is promised about one result.  Somebody is decided on
to tell it: the turn that started the job, the continuation, or nobody.  A
continuation is one turn; the chat gets what that turn replied and nothing else;
each part (files, text) goes out once, by a right that is given once and spent once, and
files go out with a narration only.  The mapping takes the teller from the owner of
the handle, the turn from `run`, the rights from the two attempts of the row and what
was told from `sent`.

Left out: the web stream path, `claimOpenTurnLivePresent` (web only), the owner
`legacy`, the answer for an invalid request, queue markers, and the rows of other
handles: finalizing the children of a continuation is `FinalizeSourceTurn` of
those rows, and `shouldSuppressPermanentFailureMessage`, which depends on siblings,
is a choice in `FailWith`.

### 2.4 ChatWake

Any number of chats, user turns, handles and schedulers.  It opens up what `Gate`
is in `AsyncCatchUp`, and reduces a catch-up to claim, admission, turn, release.

| Variables | Code |
|---|---|
| `turn`, `attempt`, `receipt` | where the handler of a user turn stands; its web attempt; the runtime receipt of a Telegram turn |
| `row` | the chat row: `open` is started after the last terminal stamp, `paused` is a stamp younger than the idle pause of 2 s |
| `handle` | state, claim and `nextRetryAt` of each handle whose source turn is finalized |
| `scanned` | the order of `catchUpLastScannedAt` |
| `lock` | the lease `async-catchup:<chat>` |
| `sch` | what each scheduler is in the middle of; `late` and `seen` are histories for the properties: it was stalled past its TTL, the turns that stood when its gate began |
| `shadowed` | history: the stamp of another turn came while this one was open |

The gate is four reads (`Gate`), then `Admit`, the conditional update.  The two
evaluations before it, on the scan and under the lease, only decide whether to go
on and are one step each.  `sync` turns are web turns without a clientTurnId: they
leave no attempt, so only their window keeps catch-ups out.  A live scheduler renews
its lease, so `LeaseExpires` for it is a fault, the stall of its process; `Heartbeat`
then revives the lease or finds it taken.  When several handles of a chat are ready,
any may be claimed: the code takes the first, but a handle that was released waits
out a backoff and so comes after its successors.

### 2.5 WebTurnAttempt

One client turn.

| Variables | Code |
|---|---|
| `row` | the attempt row: `post` stands for the user message of the post that marked it running, `msg` is `assistantMessageId`, `age` is the anchor: `fresh`, `aged` beyond the 120 s of a claim, `stale` beyond the grace of the reconciler |
| `pod`, `pc`, `early` | the replica of each post, where a post, worker or reconciler stands, the message it settled on |
| `made`, `text`, `files` | the messages that exist, whose words they hold, which have attachments |
| `owner` | the owner record in Redis, until the request ends or a stop request takes it away (`SignalStop`) |
| `agent` | the post whose turn holds the session of the runtime (`RuntimeTurn`) |
| `cand` | what a reconciler read; `again` is a history: the row was claimed since |
| `overtaken` | history: a retry found the row stale while a request of the turn was alive |

`Look` to `Register` are `prepare` with the claim, `StartStream` to `Release` are
`streamToCompletion` with its three ends, `FindOpenTurn` to `Attach` the delivery
of a finished job into the open turn, `FindCandidate` to `MarkOrphaned` the batch
of the reconciler.  A post settles on a message at its first event or before its
reply is persisted (`Settle`, `Bind`, `Discard`); a worker does the same.
`EndIsLost` is a terminal write that failed and was logged, `Crash` takes a replica
with all its requests.

`Streaming`, the posts between their registration and their end, stands for the second
key that tells the reconciler of a live turn, the registration on the stream bus
(`assistant.controller.ts:1475`, released at `:1681`).  A stop request removes the owner
record at once (`signalLocalStop`) and leaves that one, so that the reconciler spares a
turn that is being stopped.  It is one key for all posts of the turn and the end of any
of them removes it, but the heartbeat of a live post puts it back: only where a retry
took over a live turn may the reconciler find neither (`CheckOwner`).

The reads inside `markCompleted`, `markTerminalFailure` and
`bindAssistantMessageId` follow a conditional update and only look at fields that no
longer change, so each of these is one step.  Two assumptions on time are built in:
a request reaches the runtime within the reconciler's grace (`Age`), and the owner
record outlives a turn (`OwnerExpires` for dead requests only), as 1 h does.  The
registration on the bus of a dead request expires before its owner record does and is
left out.

`BubbleLedger` is what the user is promised about the turn: one message for good,
completed only with words in it, and from then on neither reopened nor rewritten, with
files that hang on it whenever their job ends.  The mapping takes the state from the
row, the message from its `assistantMessageId`, the words from that message, and the
clash after which nothing is promised from `overtaken`.

## 3. What TLC checks

| Run | Instance | Shows |
|---|---|---|
| `retry` | 3 stream requests of one key, each with its own requestId, 1 reconciler | the types; at most one of them persists a reply; the reconciler spares a request that holds its lease; the receipts implement `TurnLedger`; what a settled receipt says changes from completed to failed at most |
| `jobs` | 2 runs of one media job, which share a requestId, 2 reconcilers, fairness | the receipts implement `TurnLedger` even so, so that a settled one stays settled; an accepted receipt is settled |
| `sheltered` | a synchronous turn, two calls of one `async-cont` key and a compaction, 1 reconciler, leases outlast work | one of them works at a time; the key is accepted once; the completed receipt of the synchronous turn stays completed |
| `served` | 6 calls (4 heavy, 2 background) on 4 slots, one reserved per class, queues of 2, fairness | counters, queues, reserved slots, no idle slot; first come, first served within a class; every waiting call leaves its queue; no deadlock |
| `sandbox` | sandbox job, 2 schedulers, 3 tokens, 1 fault | the types and the retry budget; one message, one send, one narrator, dispatched means accepted; a claim that ends as completed was told; the steps implement `NarrationLedger` and `TurnLedger` |
| `media` | media or document job, 1 scheduler, 3 tokens, 2 faults | the narration goes into the pinned message (that it is sent once is proved, section 5) |
| `narrated` | sandbox job, 1 scheduler, 3 tokens, 2 faults, fairness | the handle of an ended job ends |
| `chat_serial` | a web chat with two overlapping turns, one without clientTurnId, 2 schedulers, 2 faults | one scheduler in the chat; user turns first; a standing turn keeps catch-ups out |
| `chat_served` | a Telegram and a web chat, a turn and a handle each, pages of 1 chat, 1 fault, fairness | the types and the scan order; every ready handle is served |
| `web_retried` | 2 posts on one replica or two, stop requests, a worker, a reconciler, 1 fault, fairness | the types; files on the bound message alone, one bubble for good; a completed turn stays so and its replay is real; only orphans are given up; the steps implement `BubbleLedger`; every attempt ends |
| `unrenewed`, `restart` | see section 4 | each refutes one statement of a document |

Bounds.  Three requests of one key are what it takes for a request to read a
marker or row of a second while a third takes the key over; two keys are what it
takes to lose one lease to another turn.  The late first handler of a job and a second
reconciler that stalled before its update are the two that meet the row its retry
reclaimed, hence two runs and two reconcilers in `jobs`.  Requests of the same kind and
key are permuted by `SYMMETRY` in the runs without liveness.  Six calls on four slots fill a queue, so that
`Reject` fires with two waiting in order, and make two classes compete for the shared slot; a class without
a slot of its own may starve while the other two keep the shared slots busy, so
the instance is the shape of the default policy, in which every class has one.
The safety of every other policy is proved (section 5).  Three tokens allow a
claim to expire, be claimed again, expire and be claimed again.  `MaxRetries` is 2
instead of 8: one retry and one exhaustion.  `MaxMessages` is one more than
should ever be used for a sandbox job.  One fault with two schedulers and two faults with one include every
crash point, the crash of the recovery from a crash, and each of them together with
an expired claim, which is not a fault.  The runs of `RuntimeTurn` and `AsyncCatchUp` do not check
for deadlock, since all requests or the handle really come to an end.

Two turns of one chat let one close the window of the other, and two schedulers with two
faults let a lease lapse, be taken and come back to a revived holder. Pages of one chat
(instead of 50) make the order of scans decide who is served. Two posts are a request
and its retry; `Init` places them on one replica or two. Replicas are alike and so are
the posts, so the run lets the first post run on the first replica (`FirstPlaced`) and
be the first to look (`FirstLooks`): every other behaviour is one of these with its
names exchanged. A third post or a second worker adds states and no new case: a bubble
has one winner, and what is proved holds for any number (section 5). One fault is a
crash or a lost write; a retry that follows it meets the reconciler and the worker.
`chat_serial`, `chat_served` and `web_retried` do not check for deadlock: turns and
handles end.

With `Kind = "media"` and two schedulers `OneBubble` does not hold: two holders of one chat
lock both find no pinned message.  It takes a lapsed lock that neither notices, so
the property is stated for sandbox jobs, whose message is created under the row
lock, and the media run has one scheduler.

### Fairness

`RuntimeTurn`: a handler that arrived goes on (its promise is pending in the event
loop) unless it crashes, keys with a TTL time out, the grace period passes, and the
reconciler's timer fires every interval.  No request is ever forced to arrive or
to retry, and nothing is forced to throw.

`ExecutionAdmission`: the dispatch loop ends; admitted work ends.  The latter is
strong fairness, because a dispatch between two releases only delays the
continuation in the event loop.  Timeouts are not assumed.

`AsyncCatchUp`: schedulers poll every five seconds and finish what they began;
polls are strongly fair, because a scheduler returns to idle again and again and
each poll goes through all three queries; the runtime answers and settles its
turns, claims expire by time, workers record the end of a job or die.  Faults are
never fair and are bounded by `MaxFaults`.

`ChatWake`: handlers of admitted turns and schedulers go on, receipts and orphaned
attempts are settled by their reconcilers, pauses and backoffs end, leases and
claims of dead schedulers run out.  No user turn is forced to arrive; a Telegram turn that
was admitted does begin and end.

`WebTurnAttempt`: a request that claimed its turn goes on to its answer and its
stream ends, by the deadline of the turn if by nothing else; time passes; the timer
of the reconciler fires; the runtime settles turns whose caller died, and owner
records of dead requests expire.  No post is forced to arrive, so no retry is needed
for `AttemptEnds`.

## 4. Where the code and its documents differ

Two of these are runs in which TLC refutes a property.

- `unrenewed`: only streams renew their lease.  A synchronous turn, a continuation
  or a job that outlives 30 s works beside the next turn of the session, although
  ADR-149 and ADR-159 promise one at a time.
- `restart`: for media and document jobs, a restart between `markDispatched` and
  the pin leaves a handle that `reconcileExpiredClaims` throws on at every tick,
  before any claim of any chat is made.

The others were met while modelling.  The steps are in the modules and no run is
spent on them; where a property has to excuse them, a history variable marks the
case.

Runtime:

- `releaseSessionLease` compares the owner and deletes the key in two round trips,
  so a former owner can delete the lease of its successor;
- when the session update after `markTurnReceiptCompleted` throws, the error path
  overwrites the completed receipt with failed, so that a later call of the same key
  finds no result: in streams (`turn-execution.service.ts:1808`), continuations (`:747`)
  and job runs (`runtime-media-job-run.service.ts:134`).  Only the synchronous calls let
  the error pass.  `ResultKept` says that nothing else changes a settled receipt of a
  request with a requestId of its own;
- media and document jobs and background tasks use the idempotency key as requestId
  (`runtime-media-job-run.service.ts:262`, `runtime-media-job-completion.service.ts:154`,
  `runtime-document-job-completion.service.ts:128`,
  `runtime-background-task-evaluation.service.ts:94`), and the terminal updates match
  the requestId alone (`runtime-state-postgres.service.ts:352-415`).  After an orphaned run
  was reclaimed by its retry, the late first handler settles the row of the retry, both
  may persist a completed result, and a failed row may become completed.  A second
  reconciler that stalled before its update (`:428-438`) may give up the retry although it
  holds the lease.  `OneReplyPerKey`, `ReconcileSparesHolder` and `ResultKept` promise these
  things of own requestIds only.  A settled row stays settled for jobs, too, and the
  ledger is kept (run `jobs`).

Catch-ups:

- ADR-159 has the answer `duplicate` release the claim; for Telegram the claim is
  failed and the user is told so, while the turn goes on;
- `recordCanonicalCompletion` (`assistant-async-job-handle-state.service.ts:763`) does not
  ask whether the handle has ended.  A sweep that listed an open handle, looked at its
  job and records late turns a handle that meanwhile failed, and whose user was told so,
  into a completed one, and makes a completed handle ready again, to be claimed and
  completed once more with nothing left to send.  `CompletedIsTold` therefore speaks of
  claims that end, not of every handle that is completed;
- after a crash between pin and attach the reconciler completes the handle without
  attaching, although `conversational-publish.service.ts:117` has "a crash mid-attach
  retries the same row";
- two schedulers whose lock lapsed can publish one media job: each finds no pin and
  creates a message, and the narration may then go into one that is not the pin;
- a Telegram turn saves an early message (`handle-internal-telegram-turn.service.ts:305`);
  after two minutes the sweep of unfinalized turns takes it for the reply and
  finalizes a turn that still runs.

Chat wake:

- a window can stay open without a turn (`Stranded`): a terminal stamp that fails is
  swallowed, and the reconciler of web attempts does not stamp.  Catch-ups of the
  chat then wait for the user's next turn; `ReadyServed` excuses this;
- of two turns that overlap in a chat, the first to end closes the window of both
  (`shadowed`).  A web or Telegram turn is still seen by its attempt or receipt, a
  web turn without clientTurnId by nothing but the lease of the session;
- catch-ups of a chat are not first in, first out: a released handle waits out its
  backoff while its successors are claimed.

Web turns:

- a preparation that fails after the claim leaves the attempt accepted; until the
  reconciler gives it up, retries are answered with a conflict and the gate of the
  chat is shut;
- a retry after 120 s takes over a row whose turn still runs (`overtaken`), since the
  claim is by id alone.  On another replica its registration is refused and it
  marks the live turn failed; on the same one it takes the owner record, is turned
  away by the busy session, marks the turn interrupted and removes the record, so
  that the live turn can no longer be stopped.  Only its registration on the stream bus,
  which the retry removes as well and the heartbeat of the live turn restores, then
  tells it from an orphan.  A turn
  that completes in between is opened again by `markRunning`;
- the reconciler updates by id and status, so that it gives up a turn that was
  claimed again since it was read (`again`);
- a stopped turn whose bubble was bound by a worker saves its partial words to a
  second message, although the bubble of the turn is to be one;
- `bindOrDiscardAssistantMessageCandidate` removes a candidate only when there is a
  winner: one that meets a row that ended unbound stays as an empty message;
- after the crash of a replica its owner record refuses retries on other replicas
  until it expires.

## 5. What is proved

The proofs hold for every value of the constants that meets the named assumptions, among them
`ConstantsAssumption` (keys, surfaces and owners are what their names say) and
`PolicyAssumption` (what `assertPolicy` checks at start).

`RuntimeTurnProofs`
- `TypeCorrect`.  `TypeOK` is not inductive: `ReadKey` copies the owner of a row
  into `hint`.  `TypeInv` adds that a row that exists names a request
  (`RowsNamed`), by its requestId, and that a reconciler past its query has a candidate
  (`CandidateNamed`).
- Everything else rests on `Step`, four facts about any step: how a row may change
  (`RowStep`), how the lease may change hands (`LeaseStep`), where a handler may go
  (`HandlerStep`), what a reconciler may do (`ReconcilerStep`).  They are proved
  once, action by action (`NextStep`), and the invariants below are then proved
  without looking at the actions again.
- `OneReply`, one requestId at most replies per key, from `RepliedOwns`: a request that
  replied owns a settled row, and a settled row never changes hands.
- `AsyncOnce`, from `AsyncKept`: an accepted request of an `async-cont` key left a row,
  which is never deleted (`RowStays`), and nobody gets as far as to reclaim such a row.
- `OneTurn`: `Sheltered = Workers` implies `[]OneTurnPerSession`.  The invariant is
  that whoever is in a state in which it believes to hold the lease does hold it;
  the two halves of the release are both such states, which is why its race is
  harmless under that assumption.
- `HolderSpared`, from `Spared`: a reconciler that passed its lease check knows
  that the candidate no longer holds the lease, and no request acquires it a second time;
  stated, like the next, for each request with a requestId of its own.
- `ResultStays`, from `SettledOut`: the owner of a settled row is on an error path or
  gone, and gone for good if the row says interrupted, or completed by a synchronous
  turn.  It rests on one more fact about any step, `EndStep`: nobody comes back from the
  end of a turn, and each outcome is written from its own place.

`RuntimeTurnRefinement`: `RuntimeImplementsLedger`, every step of `RuntimeTurn` is
a step of `TurnLedger` or leaves it unchanged, whichever requests share a requestId.

`ExecutionAdmissionProofs`: `TypeCorrect`, `QueuesInvariant`, `ReservedSlots` (from
the arithmetic of shared slots, `SharedSum` and `SlotStep`), `NoIdleSlot`,
`SlotsExact`, and `ServedInOrder` (a grant and a timeout shift the places of the others
in their queue and keep their order, `OrderKept`).

`ChatWakeProofs`: `TypeCorrect` (`WakeAssumption`; the scan order stays a
permutation), `OneAtATime`, `UserFirst`, `StandingFirst`.  The inductive invariants
are `LeaseHeld` (a scheduler past the lock holds the lease, or was stalled),
`WindowOpen` (the row is open while a turn that nobody shadowed is in its window)
and `TurnFacts` with `SeenOut` (what the gate has read so far excludes the turns it
saw standing at its begin that still stand).

`WebTurnAttemptProofs`, from `AttemptAssumption` (posts, workers, reconcilers and
messages differ, and none is null): every safety property of the run.
- The types and the bubble go together, since a worker attaches to what it settled
  on.  `BubbleInv`: the bound message exists and alone has files; whoever settled on a
  message settled on the bound one or, as a stopped post, on its own; nobody's
  candidate is bound before its maker binds it, so that deleting a loser never
  deletes the winner.  `FilesBound` and `OneBubbleForGood` follow.
- `TurnInv` is about who runs the turn: unless it was overtaken, one post at most has
  claimed the row, the row names it, and none is left once the
  turn is completed; a row grows stale only when nobody is on the way to the
  runtime; a reconciler that found neither owner nor stream and whose candidate was not claimed again
  knows that nobody works on it.  `CompletedStays`, `ReplayReal` and `OrphansOnly`
  follow.
- `BubbleImplemented`: every step of `WebTurnAttempt` is a step of `BubbleLedger` or
  leaves it unchanged.  `WordsInv` is what the mapping needs beside the invariants above:
  the partial message of a stopped post has words as soon as it exists, and a candidate
  about to be bound has none, so that binding never changes what the bubble says.

`AsyncCatchUpProofs`, from `CatchUpAssumption`: the invariants of its runs.
- `TypeCorrect`.  `TypeInv` adds the types of the schedulers (`SchTyped`), that a handle
  that is ready or claimed has seen the end of its job (`JobOver`), and that a claimed
  one has a retry left (`Budget`), without which `requeueClaim` would overdraw it;
  `RunReal` says that a receipt is completed only after a result was persisted.
- `NarratedByOne` and `DispatchAccepted`, from `NarratorInv`: owner `continuation` is
  never given up, and whatever waits, works, runs or sends does so for a handle that
  has it; a scheduler on its way to `markDispatched` has an accepted turn.
- `OneSend`, from `SendInv`: an attempt leaves `none` once, in the step that gives one
  scheduler the right to send, and who has that right has not sent yet.  Crashes,
  expiry and reclaim only lose the right.
- `OneMessage`, for sandbox jobs: the message of the handle is the number of
  messages added (`SandboxInv`), so that every writer finds it.
- `InPinned`, for media and document jobs and a single scheduler (`Alone`): a handle
  whose message is not the pin (`Misplaced`) told the failure of a job without files
  and is never woken again.  Two schedulers can break it (section 4).

`AsyncCatchUpRefinement`: what schedulers, runtime and row do together.
- `NarrationImplemented`: every step is a step of `NarrationLedger` or leaves it unchanged.
  `StoryInv` carries along what was replied: whoever holds the answer "completed", or
  writes the narration, does so after the turn replied, and whoever has a part to send
  does so with the narration in the chat.  `Settles` says that whoever settles an
  attempt was given it.  A receipt that is overwritten takes back no reply (`ReplyStays`).
- `CatchUpKeepsLedger`: the receipt of the continuation keeps `TurnLedger`.
- `CompletedTold`, from `ToldInv`: files go out with a narration, a narration is in the
  message of the row (`Shown`), who pins or attaches has a message (`Publisher`), and who
  is about to complete saw both rights spent (`Finisher`), which stay spent
  (`SpentStays`).  The last is why another scheduler may reclaim the row between that
  look and the completion.

Only model-checked: the liveness properties (`AcceptedIsSettled`,
`EveryWaiterServed`, `Narrated`, `ReadyServed`, `AttemptEnds`), since the prover does
not treat fairness.

## 6. Not modelled

The provider and tool loop inside a turn (it changes none of the state above), the
contents of messages, time beyond "expired or not", the order in which chats are
scanned, and that a reconciler looks at the 32 oldest rows only.  Redis and Postgres
are taken to be linearizable and to keep what they acknowledged; a connection that
breaks after the server acted is modelled for dispatch requests only.  A receipt
whose turn completed but whose handler died before it saved a reply is swept only
through its saved message, so such a source turn stays unfinalized: `Narrated`
speaks of finalized turns.

Of web turns: the synchronous send path, which claims the same row and creates its
reply itself; attempts of catch-ups on the web with their abandonment; what a status
read reports; the events of the stream.  Of scheduler leases: the drift of clocks
between replicas.

## 7. Plan

Done, in this order: `RuntimeTurn` with `TurnLedger` and its proofs,
`ExecutionAdmission` and its proofs, `AsyncCatchUp` and its proofs, `ChatWake` and its proofs,
`WebTurnAttempt` and its proofs, `NarrationLedger` and `BubbleLedger` with the proofs that
they are implemented.  Next:

1. `MediaJob`, for media and document jobs: claim, run, deliver, retry, and its
   abstract specification "delivered or failed once", which is what `AsyncCatchUp`
   assumes of a job.
2. The web stream path of catch-ups, on top of `WebTurnAttempt`.
3. Background compaction and scheduled work, whose claims have the shape of `MediaJob`.
