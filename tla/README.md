# LearnGraph: verification project

TLA+ models, TLC runs and TLAPS proofs for the stateful core of LearnGraph: the
FastAPI backend (`src/backend/app`) and the sandbox daemon (`src/sandboxd`).

Contents: 1 the system, 2 how the modules correspond to the code, 3 the runs,
4 fairness, 5 the proofs, 6 where code and documentation disagree, 7 what is not
modelled, 8 the plan. Paths are relative to `src/`; `services/` is
`backend/app/services/`.

## 1. The system and its parts

LearnGraph is a learning assistant. A backend process serves requests and runs
background tasks: a worker of the durable queue, the outbox scheduler, periodic
sweeps. The shipped compose file starts one (`docker-compose.yml:38-39`); leases,
tokens and generations are there for several at a time, as after a restart or with
replicas over PostgreSQL, and the queue and the outbox are modelled for any number
of workers. Its state is
in a relational database (SQLite or PostgreSQL). Code that a model writes runs in
containers that a second process, the sandbox daemon, makes through the Docker
engine; the daemon has a SQLite store of its own.

| Part | State it keeps | Operations | What is hard |
|---|---|---|---|
| Durable queue (`services/durable_queue.py`) | table `durable_jobs`: status, lease owner, token and expiry, attempts, availability | enqueue, claim, complete, fail, re-arm, cancel; the worker loop; cancel, restart and debounce by others | claims select and update in separate statements; leases run out under handlers; crashes; users act on a running job |
| Learning builds (`services/learning_packages.py`, `api/routers/learning_packages.py`) | `learning_builds`: stage and checkpoints, and the queue row behind each build | enqueue, one stage per lease, publish, cancel, retry, policy switch | a stage runs outside a transaction while the user acts on the row |
| Projection outbox (`services/memory_outbox.py`) | `memory_projection_outbox`: status, lease, generation, attempts | claim, heartbeat, succeed, fail, dead-letter, operator's retry | effects outside the database are applied at least once, outcomes once |
| Memory and its provider's copy (`services/memory.py`, `memory_provider_projector.py`) | `memory_records`, revisions, provider bindings; the provider's own copy | create, update, delete, forget, restore; handler and fast path | two writers of one copy, neither in the database's transaction |
| Memory event store (`services/memory_event_store.py`) | streams, events, payload keys, idempotency keys | append, forget (crypto-shred), repeat, rebuild the search document | optimistic concurrency, forgetting against appending and rebuilding |
| Extraction of memories (`services/memory_job_guard.py`, `memory_enhancement.py`) | `memory_job_states`: window, lease, receipt of a paid call | claim, reserve, save response, apply, finish, reset | the outcome of a paid call after a crash; a window computed before the claim |
| Sandbox daemon (`sandboxd/sandboxd/controller.py`, `store.py`, `runtime/`) | sandboxes, executions, idempotency ledger; containers and volumes in the engine | create, resume, stop, delete, sweep, reconcile | create runs without the lock; the engine fails half-way; retries with one key; restarts |
| Executions (the same, `runtime/supervisor.py`, `services/sandbox.py`) | executions and ledger of the daemon, the backend's command rows and slots, files in the container's `/tmp` | exec, start, poll, cancel, recover, reconcile | a command outlives the daemon and the request; two threads see its end |

How they interact. The memory service posts outbox rows in the transaction of
its event, then tries the same work itself (the fast path); the outbox worker
calls the provider projector for what is left. Builds are jobs of the durable
queue; their handler checks `lease_fence` before it publishes, and the router
writes the queue row directly to cancel or restart. The backend's sandbox client
calls the daemon over HTTP with an idempotency key per session and policy.

What makes each part correct:

- **Queue**: a job inside its lease belongs to one worker; only the latest claim
  reports; settled jobs stay settled; the retry budget is kept; a producer gets a
  row with its own work; every job settles.
- **Outbox**: one handler per row unless something failed; outcomes only from the
  latest claim; a running lease is respected by everybody; every row settles.
- **Projection**: once all rows of a memory succeeded, the provider shows the
  latest revision, or nothing after a delete.
- **Sandboxes**: one sandbox per idempotency key; a caller is only given a
  sandbox of its session and profile; a sandbox that admits callers has its
  workspace volume; deletion survives a restart; capacity is overshot by a bounded amount.
- **Executions**: a command is launched once however often it is sent; a result
  stays; a slot is held exactly while its command runs; every command ends.
- **Builds**: stages are not gone back to; what was paid for is kept and not bought
  twice; every build ends.
- **Extraction**: each part of the text gives its memories once; each paid request
  is made once; an answer that was paid for is used.
- **Event store**: events are numbered without gaps; nothing of a forgotten memory
  can be read; the search document shows the newest event.

## 2. Modules and the code

One database transaction, or one statement where a transaction's statements can
interleave with others, is one action. A timestamp is kept as its distance from
the present and `Tick` moves all of them. Each bound is a named constant.

### DurableQueue (`services/durable_queue.py`)

The variables of `rows` are columns of `durable_jobs`; those of `workers` are
local variables of `run_one_durable_job`.

| Action | Code |
|---|---|
| `EnqueueCheck`, `EnqueueInsert` | `enqueue`: the look-up of the dedupe key, and the insert with its unique index and the re-read after an IntegrityError |
| `ClaimSelect`, `ClaimUpdate`, `ClaimReload` | `claim_next`: the SELECT, the guarded UPDATE with the `now` of the SELECT, and the read of the row after the commit |
| `Renew` | `learning_lease_heartbeat` through `lease_fence` |
| `Report` (`Complete`, `Fail`, `Rearm`) | the end of `run_one_durable_job` |
| `Cancel`, `CancelBuild`, `RetryBuild`, `Debounce` | the other writers of the table: `cancel`, the build router, `enqueue_memory_extraction` |
| `Crash`, `Tick` | process death; the clock |

Works (job kinds) are abstracted to what tells them apart here: whether they
renew, re-arm, can be restarted or are debounced.

### FencedWork

The promise that the queue and the outbox have in common, without tokens,
generations, attempts or time: an item is offered, taken by a worker (which makes
whoever had it late), delivered by the worker that took it last, dropped, or
decided by somebody who is not a worker. `DurableQueue` and `MemoryOutbox` each
instantiate it (`ImplementsFencedWork`): a queue row is open, held or settled by
its status; a worker is current while the row carries what its claim gave it.
`LearningBuild` EXTENDS it, so that a build stands on what the queue promises and
not on how it does it.

### LearningBuild (`services/learning_packages.py`, `api/routers/learning_packages.py`)

An item is a build with its job. `Begin` is the first transaction of
`run_build_stage` (fence, eligibility, replay limit, the mark of the stage that
begins), `Answer` and `NoAnswer` one answer of the paid model with
`checkpoint_generation_result`, `Absorb` and `EndStage` the end of the stage,
`FailStage` its exception path, `Publish` the last stage. `Enqueue`, `Engage`,
`StartRead` and `StartCommit`, `CancelByUser`, `RetryByUser`, `SwitchOff`,
`SwitchOn` and `EditNode` are the requests of users and the sweep;
`LearningWorkerStep` joins them to the queue's steps, and `Crash` ends a worker
anywhere. A call of start reads the build, and commits later with the checkpoints
it read: that gap is in the code. `Reload` is the read of the row by which
`claim_next` learns its token after the commit; another worker may have claimed the
job by then, and `lease_fence` compares nothing but that token. So `copied` has the
workers whose copy is the token of the row (`LeaseFence`), who need not be the current
ones, and `adopted` says that such a worker was told its successor's token.

### SandboxExec (`sandboxd/sandboxd/controller.py`, `runtime/`, `services/sandbox.py`)

A command (`Kinds`) is sent once and waited for (`sync`: `SyncCall`, `PollSees`,
`PollGivesUp`, `PollBreaks`, `SyncFail`: `_exec_common`), or ordered with a slot
(`Order`, `Admit`, `Admitted`, `Mark`, `Dispatch`: start of an agent command) and asked
for until there is a result (`Ask`, `Read`, `Native`, `Finish`, `Forget`, `Clean`,
`Answer`: `reconcile_command` and the daemon's side of it; `Cancel`, `Touch`, `Want`).
One that belongs to a job (`job`) is sent again when the daemon does not know it or
has not launched it; one without (`lone`: started by a tool or a skill) is not
(`SendPending`, `sandbox.py:2442-2448`).
`SupMkdir` and `SupGo` are the supervisor inside the container. `Recover` is the
daemon's own thread after a start. `StopContainer`, `DeleteSandbox` and
`RestartDaemon` can come at any time; a supervisor survives the last of them, and
`/tmp` does not survive the first.

### MemoryExtraction (`services/memory_job_guard.py`, `memory_enhancement.py`)

A pass is `Look` (the window is computed), `Peek` and `Swap` (the row is read and
claimed by a compare-and-set), then one of `SwitchedOff`, `NothingNew`,
`OutcomeUnknown`, `UseAnswer` or `Prepare`; `Reserve` commits that a paid request
is on its way, `Answer` and `NoAnswer` are the two ways it ends, `Apply` stores
the memories with the new position in one transaction, `Finish` writes how the
pass ended. `ResetCheck` and `Reset` are a person's request to try again what has an
unknown outcome: the row is read and checked, and then its columns are written by its
id alone. `LeaseEnds` is the clock, `Crash` comes at any point. Text is cut into units,
and a batch may end inside a message.

### MemoryEventStore (`services/memory_event_store.py`, `memory_commands.py`, `memory_projector.py`)

One stream. On either database one transaction writes at a time: SQLite's writers
wait at a gate (`database.py:452-475`), PostgreSQL's take an advisory lock
(`database.py:541-542`, `core/database_routing.py:450-469`), in both cases at the first
write and until the end of the transaction. So what a transaction does from its first
write on is one action, and each read before it, which nothing locks, is one of its own.
`Read` and `AppendEvent` are `append` with the projection that follows it. `LookAgain`,
`SeeDocument` and `Rewrite` are a request sent again: the event and the status of its
stream, the search document, the flush. `See`, `SeeKeys` and `Forget` are a forgetting:
the version, the keys, the writes. `Rebuild` deletes before it reads and is one action.
`Abort` is any failure. `live` has the events whose payload key exists, `mem` what a
session has read, `late` says that the document was last written by a repetition of an
event that was not the newest.

### SandboxLifecycle (`sandboxd/sandboxd/controller.py`, `store.py`, `runtime/docker.py`)

`records` and `ledger` are the store's tables, `engine` is what Docker keeps,
`calls` the threads inside `create` or `ensure_directories`. `create` runs without
the lock, so each store or engine call is an action (`CreateLookup`,
`CreateBegin`, `CreateCount`, `CreateLaunch`, `CreateInsert`, `CreateSettle`,
`CreateFail`). `ensure_directories` is `EnsureCheck` and `EnsureRun`. `Resume`,
`Stop`, `Sweep` and the use of a sandbox (`Use`, `UseFails`: exec, files and
kernels as far as they rebuild the container) hold the lock and are one action
each. `RuntimeDeleteTry` is the engine's part of a delete, whether it returns or
raises, and whatever is gone by then; `Sweep` keeps the record when it raised.
`delete` is `DeleteBegin` and `DeleteFinish`, because a crash can separate them.
`Restart` is the daemon's start, with `reconcile_orphans` of any subset of the orphans.
`ContainerLost` is the engine losing a container, `Expire` the TTL.
The engine is external and is modelled by what `docker.py` relies on: names are
unique, calls may fail before or after part of their effect.

### MemoryOutbox (`services/memory_outbox.py`, `memory_outbox_runtime.py`)

`Poll` is the query of `run_once`, `Claim` and `Skip` its conditional UPDATE of
one candidate, `Renew` one heartbeat, `MarkSucceeded` and `MarkFailed` the fenced
outcomes (with backoff and dead letter), `Retry` the operator's call, `Post` the
insert by `MemoryEventStore.append`, `SettleElsewhere` the fast path's direct
write (`memory.py:393-408`). `Crash` stands for a process that dies and for a
`run_once` that raises: in both cases the lease stays in the table. The owner
column is left out: the generation grows with every claim, so it alone tells
claims apart.

### MemoryProjection (`services/memory.py`, `memory_provider_projector.py`)

EXTENDS MemoryOutbox and gives its handler and its producers a meaning: one
memory, whose events are the outbox items in commit order. `Create`, `Load` with
`Update`, `Conflict` or `Delete` are a request up to its commit; `FastUpsert`,
`FastBind`, `FastErase`, `FastUnbind`, `FastFails` its fast path; `HandlerRead`,
`HandlerBindings`, `HandlerApply`, `Succeed`, `Failed` the projector inside the
worker. `Succeed` is the whole transaction in which the bindings and the row's
outcome commit. `file` is the provider's copy, outside any transaction. `fast`
tells rows of the workspace's provider, which requests also serve, from rows for
the local Markdown mirror, which the worker alone serves.

## 3. The runs

`MC*` modules give the constants; each run is one `.cfg`. Deadlock is checked in
the queue and sandbox runs (somebody can always act). It is off in the
other runs: there a finite amount of work is done in the end, and everybody waits.

| Run | Instance | What it shows |
|---|---|---|
| `queue_leases` | two scenes. Leases: 1 row, 2 workers, 2 kinds (one renews and can be restarted, one is retried and debounced), lease 2, timestamps told apart to -2, 2 re-arms or restarts. Races: 2 rows, 2 producers, requests that share or differ in workspace, key and work, one busy worker | `RetryBudget`, `HolderKeepsLease`, `EnqueueGivesOwnWork`, `ReportsAreFenced`, `SettledIsFinal`, `ImplementsFencedWork` |
| `queue_settle` | 1 row, 2 workers, lease 3, `Timely`, fair | `EveryJobSettles` |
| `sandbox_lifecycle` | two scenes. One sandbox, 2 threads, 3 requests (two profiles under one key, another key), 3 containers. Many: 3 sandboxes, 2 threads, 2 sessions, 3 keys, capacity 1 | `ViewIsOwn`, `WorkspaceKept`, `AtMostOncePerKey`, `OvershootIsBounded`, `DeleteIsFinal` |
| `sandbox_swept` | 2 sandboxes, 2 threads | violates `SweptIsRecreated` (section 6) |
| `outbox` | 2 rows, 2 workers, lease 2, 2 attempts, 2 faults, fair | `HandledOnceUnlessFaulty`, `OutcomesAreFenced`, `LeaseIsRespected`, `ImplementsFencedWork`, `EveryItemSettles` |
| `projection` | 1 memory with 2 events, 1 worker, 2 requests that update or delete, 1 fault | `ProjectionTypeOK`, `MirrorIsCurrent`, `MirrorIsErased`, and that the real producers and handler keep to the outbox's protocol (`OutboxSpec` as a PROPERTY) |
| `learning` | 1 build, 2 workers, 2 generating stages (one saves each answer, one saves at its end), replay limit 1, 2 troubles, fair | `LearningTypeOK`, `BuildMovesOn`, `ResultsAreKept`, `ReplaysAreBounded`, `BuildSettles` |
| `sandbox_exec` | 1 command of any of the three kinds, 2 threads of the backend and the daemon's own, 1 launch on its way, 1 trouble, fair | `ExecTypeOK`, `LaunchedOnce`, `ResultIsFinal`, `SlotsMatch`, `EveryCommandEnds` |
| `memory_extraction` | 2 callers, messages that end at units 1 and 3, a budget of 2 units, 2 attempts, 2 troubles, fair | `ExtractionTypeOK`, `EachPartOnce`, `PaidOnceUnlessOvertaken`, `AnswersAreUsed`, `PassesSettle` |
| `extraction_replayed` | the same | violates `NeverAutoReplayed` |
| `memory_events` | 3 sessions, 3 keys, 3 events | `EventsAreNumbered`, `ForgottenIsUnreadable`, `SearchShowsHead`, `ForgottenStaysHidden` |
| `events_resurrected` | 2 sessions | violates `TombstoneKeeps` |

The type invariants are theorems (section 5); those of the queue, the sandboxes, the
outbox and the event store are not repeated in the runs. A scene (`MCDurableQueueScenes`,
`MCSandboxScenes`) is chosen in the first state and narrows what may happen, so
that one run covers two questions of the same module; its module says how.

Why the bounds are enough to be interesting:

- One queue row suffices for leases, because no statement of the queue relates
  two rows; two workers and a lease of 2 let a claim be half-done while the other
  worker's lease starts, runs and expires. Seven tokens are more than the rows and
  two workers can hold at once, which is all a fresh uuid needs
  (`QueueAssumption`).
- `MaxLag` bounds how old the `now` of a claim can be; with 2 it can be as old
  as a whole lease. `MaxSpent` bounds re-arms, restarts and postponements, which
  the code does not bound.
- `MaxBuilds` bounds the containers made for one sandbox: 3 allow an original, a
  rebuilt one and a conflict between them. The scene with many sandboxes builds
  each once, lets none expire and keeps to states in which at most one is being reclaimed
  (`FewReclaimed`); what reclaiming does is the question of the other scene, and
  the theorem `CreateIsIdempotent` needs no such bound. In both scenes all
  is made within one second (`SameSecond`): the latest sandbox of a session is then
  any of them, which is more than the clock allows.
- `MaxFaults` bounds crashes, missed heartbeats and operator's retries of the
  outbox. Each lets a row be handled once more, so without a bound a row need
  never settle; the safety properties do not depend on it.
- `projection` needs two events: every hazard of the copy is between one change
  and the next.
- `MaxTrouble` of `LearningBuild`, `SandboxExec` and `MemoryExtraction` bounds
  together whatever can go wrong or change from outside. Two troubles allow a
  crash and what answers it (a retry, a change of settings); a lease that runs out
  under a live worker costs two in `LearningBuild`, where calls of start after the
  first count as well, and none in `MemoryExtraction` once a reset took the row from
  the pass, because its heartbeat asks for a running row and stops. In `SandboxExec`
  one is enough to lose any call at any point, and two threads of the backend and one
  of the daemon still meet.
- A budget of 2 units against messages of 1 and 2 units makes a batch that spans
  messages and one that ends within a message. The CONSTRAINT `RowIsFresh` leaves
  out what follows a claim on a row that two other passes changed since it was
  read, and after a reset that was outdated it explores only what one more trouble
  allows (section 6); the properties except both, by name (`overtaken`).
- Three sessions in `memory_events` are an appender, a forgetter and a repetition at
  once; three events allow an older, a newer and a last one. Three keys let two
  appenders read the version that a first event left.

Every property of a passing run has a mutant: a changed definition (named in
`PROJECT.json`, kept next to the original in the module) that breaks it.

## 4. Fairness

Safety is checked under `[][Next]_vars` alone.

`FairSpec` of the queue is weak fairness of `Tick` and of each worker's steps:
`durable_queue_worker` polls in a loop for ever, and time passes. That a crashed
worker is taken over supposes that one worker survives, which is a constraint in
`Crash`. `Timely` supposes that a handler finishes or renews within its lease;
the code promises this only for handlers under `learning_lease_heartbeat`.
Without it two workers can take a job from each other for ever. Enqueueing,
cancelling, debouncing, crashes and renewals have no fairness.

`OutboxFairSpec` is weak fairness of `Tick` and of each scheduler's steps
(`memory_outbox_scheduler` loops for ever; a handler returns or raises). Posting,
operators' retries and the fast path have none.

`LearningFairSpec`: weak fairness of each worker's steps (the queue polls, and a
model call has a timeout) and of the end of a call of start; strong fairness of
`Publish`, which waits for the lock of the node's row while calls of start come and
go: the database grants the lock in turn. Requests, crashes and changes have none.

`ExecFairSpec`: calls end (each has a timeout), supervisors inside a running
container go on, and `reconcile_commands` goes over the running commands again and
again (`sandbox_scheduler.py:630-655`). It supposes no particular answer.

`FairSpec` of the extraction: passes go on and the sweep comes back to the session;
leases run out. Resets, new messages and crashes have none.

## 5. The proofs

TLAPS proves, for every value of the constants that the named assumptions allow:

| Theorem | Statement |
|---|---|
| `DurableQueueProofs!TypeCorrect` | `Spec => []TypeOK` |
| `RetryBudgetHolds`, `LeaseIsExclusive` | `[]RetryBudget`, `HolderKeepsLease` |
| `FencingHolds`, `FinalityHolds` | `ReportsAreFenced`, `SettledIsFinal` |
| `EnqueueIsOwn` | `[]EnqueueGivesOwnWork` |
| `SandboxLifecycleProofs!LifecycleTypeCorrect` | `Spec => []TypeOK` |
| `CreateIsIdempotent`, `CreateIsIsolated` | `[]AtMostOncePerKey`, `[]ViewIsOwn` |
| `WorkspaceIsKept`, `DeletionIsFinal` | `[]WorkspaceKept`, `DeleteIsFinal` |
| `CapacityIsBounded` | `[]OvershootIsBounded` |
| `LostKeysStayLost` | `[][\A k \in Slots : StaysLost(k)]_vars` |
| `MemoryOutboxProofs!OutboxTypeCorrect` | `OutboxSpec => []TypeOK` |
| `HandlingIsExclusive`, `OutcomeFencing`, `LeaseRespect` | `[]HandledOnceUnlessFaulty`, `OutcomesAreFenced`, `LeaseIsRespected` |
| `DurableQueueProofs!QueueIsFencedWork`, `MemoryOutboxProofs!OutboxIsFencedWork` | `ImplementsFencedWork` of both |
| `MemoryEventStoreProofs!EventsTypeCorrect` | `Spec => []EventsTypeOK` |
| `EventNumbers`, `ForgettingIsComplete` | `[]EventsAreNumbered`, `[]ForgottenIsUnreadable` |
| `SearchIsCurrent` | `[]SearchShowsHead` |
| `TombstoneHolds` | `ForgottenStaysHidden` |
| `MemoryProjectionProofs!ProjectionKeepsProtocol` | `Spec => OutboxSpec`: the projection implements the outbox |
| `ProjectionOutcomesAreFenced` | `Spec => OutcomesAreFenced`, from that and `OutcomeFencing` |
| `ProjectionTypeCorrect` | `Spec => []ProjectionTypeOK` |
| `MirrorFollows`, `MirrorIsRemoved` | `[]MirrorIsCurrent`, `[]MirrorIsErased` |
| `LearningBuildProofs!BuildTypeCorrect` | `LearningSpec => []LearningTypeOK` |
| `JobsAreFenced` | `LearningSpec => FencedSpec`: builds implement the queue's promise |
| `BuildsMoveOn`, `PaidResultsStay` | `BuildMovesOn`, `ResultsAreKept` |
| `ReplaysStayBounded` | `[]ReplaysAreBounded` |
| `SandboxExecProofs!ExecTypeCorrect` | `ExecSpec => []ExecTypeOK` |
| `LaunchesAreSingle`, `SlotsAreReturned`, `ResultsAreFinal` | `[]LaunchedOnce`, `[]SlotsMatch`, `ResultIsFinal` |
| `MemoryExtractionProofs!ExtractionTypeCorrect` | `Spec => []ExtractionTypeOK` |
| `PartsAreStoredOnce`, `PartsArePaidOnce` | `[]EachPartOnce`, `[]PaidOnceUnlessOvertaken` |
| `AnswersStay` | `AnswersAreUsed` |
| `AloneNeverReplays` | with one caller, `[](NeverAutoReplayed /\ Fresh)`: no claim or reset rests on a changed row |

**Queue.** Assumption: `QueueAssumption` (finite sets, positive lease, more
tokens than rows and workers can hold, so that a fresh one exists: lemma
`FreshTokenExists`). The inductive invariant `QueueInv` has, beside types:

- `OwnLatest` and `TokenOwner`: a row leased to an active worker carries the
  token that worker minted, and nobody else's row carries that token. Fencing
  follows: a report compares owner and the *copied* token, and the copy may be
  another worker's (read after the commit of the claim); but then the owner
  column is that other worker's too.
- `CopyCurrent`: while the row is its own, a worker's copy of `attempt_count` is
  current. This is what `RetryBudget` needs, because `fail` decides from the copy.
- `HolderInv`: a worker whose last claim or renewal is younger than a lease, and whose
  job carries its token, has the time that is left in the row, `expires >= Lease - age`.
  So nobody else can claim the job, and `HolderKeepsLease` follows: only the worker
  itself, its death, or a user who cancels or restarts the work takes it away. A renewal
  is a step of the worker, and the restart of a user is the only thing that restartable
  work has more to expect than other work.

`EnqueueInv` is about the producers: rows with the same workspace and dedupe key
are one row (`OneRowPerKey`), although two producers may both have found none
before they insert, and a producer that was given a row was given its own work
(`GivenOwnWork`). Everybody else leaves what a row asks for alone
(`OnlyEnqueueInserts`).

**Sandboxes.** `LifecycleInv` has `KeyInv` (a ledger entry in progress belongs to
at most one caller, and one that has not launched finds no container of its key),
`MineInv` (what a caller between launch and settle holds), `RecordInv` (a
succeeded entry names a record of its own key and profile) and `ViewInv`.
That a sandbox keeps its workspace is said of those that admit callers (`Admits`: not
deleted and not expired), because a sweep that fails may have removed the volume of
one that has expired and left its record. `KeyInv` is the heart: after a crash the
entry stays in progress for ever, so nobody owns it and nobody builds under it again;
that makes create safe and is also why it can get stuck (section 6). Operations that do
not touch the callers are handled by one frame lemma.

`LostKeysStayLost` says what that safety costs, and so how far `sandbox_swept`
reaches. A key is `Lost` when nobody works under it and its entry is in progress,
has failed, or names a sandbox that is gone. Its entry never changes again, and no
create that gets as far as the ledger is given a sandbox for it. `KeyInv` is not
needed, only that what a caller is building is `NEW`, so that nothing that is gone
comes back (`GoneStays`).

`OvershootInv` counts: the active sandboxes and the callers that have passed the
test of the capacity are together at most `MaxActive - 1` and all callers. The test
lets a caller pass only below the limit; the insert makes one of those that passed
into an active sandbox, and leaves the sum as it is. `OvershootIsBounded` alone is
not inductive: it does not count who has passed and not inserted yet.

**Outbox.** Assumption: `OutboxAssumption`. `OutboxInv` adds to the types that a
claim is at most as new as its row (`ClaimsKnown`), that no two workers have made
the same claim (`ClaimsDiffer`; this is where the growing generation is needed,
and what `LeaseRespect` rests on) and `SoleUnlessFaulty`: before the first fault a
worker that runs a handler holds its row, with time left in the lease.
`HandledOnceUnlessFaulty` alone is not inductive, because nothing in it keeps the
lease of a running handler from ending.

**Projection.** Its steps are those of the outbox with more said about them, so
the refinement mapping is the identity on the outbox's variables and needs no
invariant: each step of a request, of the handler or of a crash is one step of
`OutboxNext` or leaves `outbox` alone.

What is right at the end (`MirrorIsCurrent`, `MirrorIsErased`) follows from what is
under way at any time. `Catching`: there is a row that is not settled and whose
handler has yet to read the record, or the handler has read the record as it is and
will write it, or the copy shows it. With all rows settled and nobody at work only
the last is left. `CopyIsBound`: while a copy is there, a binding is open, and the
handler that removes the copy has found it; it needs that nothing has failed, which is
why `MirrorIsErased` supposes that. Both need that the worker is alone
(`ProjectionAssumption`; `HolderHolds`), that a revision has its row
(`RowsForRevisions`), and that a request keeps off a copy that is not its own to
write (`RequestsStayOff`).

**FencedWork.** The mapping takes a row's status to open, held or settled and
calls a worker current while the row carries the token (or the generation) of its
claim. That a report is a `Deliver` and a claim makes others late follows from
`OwnLatest` and `TokenOwner` in the queue, and from `ClaimsDiffer` in the outbox:
without them two workers could be current for one item.

**Event store.** Assumption: `EventStoreAssumption`. Nothing in the rows says that
a session about to forget knows every key: it read them before its first write.
`EventsInv` says why it does. Whoever adds a key raises the version, so the keys it
read are all there are while the version is the one it read before them
(`KeysKnown`), and the update that forgets compares the version. `LastIsLast`: before
the forgetting every event has its key, after it none has and nothing else follows;
`RepeatsKnown`: a repetition has found an event that is there, and the status
"forgotten" is final.

The document is made right by every append, forgetting and rebuild from what the
database is at that moment, so `SearchIsCurrent` needs no more than these: a repetition
may put an older event there, and then says so (`late`). `TombstoneHolds` says how far
the break of `events_resurrected` reaches. Once a forgotten memory is out of the search
and no repetition is under way that found its stream open (`Hidden`), it is out for
ever: every later one reads "forgotten" and removes.

**Builds.** Assumption: `BuildAssumption`. A worker passes the fence if its copy of the
token is the row's; then the job is leased, and a cancelled build has no such job
(`Copies`, `RowsHaveJobs`). That, and nothing about whose token it is, keeps a cancelled
build cancelled. The rest of `BuildMovesOn` supposes that no worker was told its
successor's token (`adopted`; section 6 says what happens then). The fence is exact then
(`FenceExact`), what is past the last stage is published (`Finished`), and a current
worker at a stage finds the build running and at that stage, whatever users did to the
row (`CurrentRuns`). While no lease runs out under a live worker either (`Orderly`), a
worker at a stage is current or the build was cancelled, and it is
alone (`Alone`). And while no learner has started, its snapshot has all the
parts of the row, with the same mark and replays (`SnapshotsRight`); so the save
without a fence loses nothing, and the paid calls of a part can be read off the row
(`CallsCounted`: none before its stage, one more than the replays of the stage in it).
`JobsAreFenced` is step simulation: the queue's rows are variables of the model, and
every step of a user, of the sweep or of a worker is one of `FencedNext` or a stutter.

**Executions.** Assumption: `ExecAssumption`; finitely many commands (for the count of
slots), and the daemon's thread is none of the backend's. Nobody locks the container's
`/tmp`. `LaunchLeavesTrace`: a command that was launched has a directory that keeps a
second supervisor out, or is over for good (`Ended`: there is a tombstone, or no
sandbox and no supervisor on its way). `ResultWasWritten` and `OutcomesAgree`: an
outcome that is in the row, or that a thread read and is about to store, is the one in
the directory, so two threads never hold different ones and the later does no harm. The
three hold until the container is stopped. `SlotsMatch` is inductive by itself; the
steps that end a command release its slot only if they are the one that ends it.

**Extraction.** Assumption: `ExtractionAssumption`. `ExtractionInv` has, beside types
and what each pass knows of its own request (`PassesKnow`):

- `HolderKnows`: who holds the row knows the receipt and the offset as they are, and
  its batch begins where the stored text ends (`Reached`). It is there although a pass
  that lost its lease goes on, because each write is fenced, and although the claim
  compares only window and count, because the claims on a row that had changed are
  excepted (`overtaken`). So are the resets that were checked before another reset and
  the passes after it; a reset that finds what it checked finds a row that is done, so
  that nobody holds it (`ReadyIsFree`, `ResetKeeps`).
- `RequestIsNext`, `WindowsAgree` and `PaidSoFar`: the request in the row begins where
  the stored text ends, the holder's window is its window, and beyond the stored text
  nothing was paid but that request. So a pass that is ready to ask finds no receipt.

Batches need arithmetic about where messages start and end (`BatchBounds`,
`StoredTo`). `Max` and `Min` of the library are a `CHOOSE`: that a least element is
there is well-foundedness of the naturals, and that the finite set `Ends` has a bound
is well-foundedness of the proper subsets of a finite set (`Least`, `EndsBounded`).
`AloneNeverReplays` adds `SoleInv`: a caller that is alone finds the row, between its
look and its claim, and between the check of a reset and its update, as it was. So it
takes two callers to replay a request (section 6).

Only model-checked: the liveness properties (`EveryJobSettles`, `EveryItemSettles`,
`BuildSettles`, `EveryCommandEnds`, `PassesSettle`), which rest on fairness and are out
of the prover's reach. Every invariant and every action property of a passing run is a
theorem. There is no recursive definition.

## 6. Where code and documentation disagree

| Run | Disagreement |
|---|---|
| `sandbox_swept` | `controller.py:361-363` promises to make a swept sandbox again; `create` answers `execution_indeterminate`, for that key for ever |
| `extraction_replayed` | `memory_job_guard.py:133`: "an unknown remote outcome is never auto-replayed"; a pass whose window was computed before another pass's failed request claims the row under the old window and asks again |
| `events_resurrected` | `memory_commands.py:226` keeps a tombstone "so a delayed projection cannot resurrect content"; a request sent again reads that the stream is open, the forgetting commits, and the request finds no document and writes one with the payload it carries, on either database |

Seen while modelling, without a run of their own:

- `durable_queue.py:41-43` promises that a worker does not serve one tenant twice
  while another waits; the memory of the last tenant lives in an object made anew
  for every job (`durable_queue.py:319`).
- A claim read back after it was taken over carries the other worker's token and
  passes `lease_fence` (`durable_queue.py:144`; it takes several processes, and
  compose starts one; for builds see below). An expired job is claimed again
  whatever its attempts (`durable_queue.py:100`). A claim or a report that raises
  ends the worker task (`durable_queue.py:440`). A dedupe key finds a row that is
  settled as well, so that work is not done again (`durable_queue.py:64`).
- `controller.py:517` promises to recreate a missing container; only `resume`
  records the id of the new one, so the operation after can neither find it nor
  make another (`controller.py:519`). Two concurrent creates of one session under
  different keys both miss the warm sandbox (`controller.py:332`).
  `reconcile_orphans` deletes by a handle without a container id and leaves the
  container (`controller.py:1099`). A create refused for capacity is announced as
  retryable, and its key is refused ever after (`controller.py:373`).
- The sweep keeps the record of a sandbox whose deletion raised
  (`controller.py:1118-1120`), also when the volume was already removed and only the
  listing of the networks failed (`runtime/docker.py:730`). Until a later sweep
  succeeds the expired record stands without a workspace, and a repeated create may
  answer with it.
- `sandbox.py:2246-2247` says of a dispatched command that the reconciler owns its slot
  until it reaches a terminal state, and `sandbox.py:2256` that an ambiguous dispatch is
  recovered. A command without a job is not sent again (`sandbox.py:2447-2448`): when
  its one dispatch was lost, its row stays "running" and keeps its slot for ever.
  `EveryCommandEnds` is for the commands of jobs and for those that were launched.
- `memory.py:330` calls the outbox row the retry source; the fast path of one
  change settles rows of a later one (`memory.py:399`), whose revision nobody projected.
  The fast paths of two requests may also reach the provider in the other order
  (`memory.py:345`). The copy then has the older revision, or comes back after a
  delete, until the next change. A copy whose binding was
  not committed when the memory was deleted stays at the provider
  (`memory_provider_projector.py:127`); `MirrorIsErased` says which copies do go.
- `docs/node-learning-implementation.md:27` calls a published package immutable; an
  overtaken worker's late checkpoint makes it a draft again
  (`sync_training_draft` does not ask whether it was published). The mark
  `training_started`, which lets a build go on under a learner
  (`learning_packages.py:855-858`), is lost when the worker writes a snapshot from
  before it.
- The save of an overtaken worker that has no fence (`learning_packages.py:911`) puts
  back the checkpoints it read: parts its successor saved are lost and paid for again. A
  worker that was told its successor's token passes `lease_fence` for all of the stage
  (`learning_packages.py:815-817`): a published build may become skipped or failed,
  and a failed one that is tried again is published again; with three workers the stage
  may go back. A cancelled build stays cancelled (`BuildMovesOn` says what holds).
- After a stop of the container nothing in `/tmp` says that a command was launched,
  so a command that is sent again runs again (`controller.py:960-961`), and the
  result of a command that was still running is what the second run gives.
- The claim of the extraction compares window and count of attempts, which can be
  the same again after two other passes (`memory_job_guard.py:199`). A pass that
  crashes on its last attempt leaves the row "running".
- The request to try again checks the row and then updates it by id alone
  (`memory_job_guard.py:38-61`). Of two such requests the second may reset a row that a
  pass has claimed in between: the row is "ready" with a live lease, the pass is refused
  by its own fence and its heartbeat stops, an answer that was received (and paid for) is
  dropped, or the offset goes back and parts are stored twice. The properties except
  what follows such a reset, by name (`overtaken`).
- A repeated request applies its event to the search document once more, although
  newer ones have been applied since (`memory_v2.py:102-107`); `SearchShowsHead`
  excepts it, by name (`late`).

## 7. What is not modelled

`PROJECT.json` lists every part with the reason. In short: request-scoped code
without interleaving (accounts, billing, mastery), text work and model calls
(agents, extraction, retrieval), relays and pure I/O (voice, egress, backup,
updater, clients). Inside the modelled parts these are left out: priorities in
the queue (every caller of `enqueue` leaves the default, so they order nothing);
kernels, quotas and file contents of
sandboxes; deletion of the node or graph of a build, and the contents of a page;
billing and the readiness rules of extraction; the zone of a memory, which alone can
change its path at the provider; restore, forget, retract and provider switches of the
projection. Of the event store: upcasting, scopes, patch and feedback events, the
full-text table, and the deletion of a session's memories, which forgets without an
event. Two ways in which a writer may be without its lock are left out as well: the
timeout of SQLite's gate, and on PostgreSQL the rollback to the savepoint around a lost
creation of a stream (`memory_event_store.py:138`), which gives the advisory lock back
while the connection still counts as a writer. Database failures appear where the code
reacts to them.

## 8. Plan

Done: the queue, the sandboxes, the outbox with its projection, `FencedWork`, the
event store, executions, extraction and builds; and the safety of each as theorems.
What is left, in order:

1. Theorems that say where a promise holds that section 6 says is broken, as
   `TombstoneHolds` and `AloneNeverReplays` do, or how far the break
   reaches, as `LostKeysStayLost` does: which rows of the outbox are handled once
   in spite of a fault.
2. `MemoryProjection` with restore, forget, retract and provider switches, whose
   proofs have to follow.
3. An abstract specification of an execution (ordered, launched, over) that
   `SandboxExec` implements, as `FencedWork` is for jobs.
4. Agent stream admission, the sandbox job scheduler, the database migration.
