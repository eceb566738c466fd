# FlowForge in TLA+

FlowForge is a multi-tenant workflow engine: users define workflows as DAGs of
steps, runs of them are triggered by hand, by webhook or by cron, an
orchestrator and a pool of workers execute them over PostgreSQL and Redis
streams, and a WebSocket hub shows their progress. This directory models the
parts of it whose correctness depends on order, concurrency or failure, checks
them with TLC on small instances and proves the central facts with TLAPS for
all instances. Paths below are relative to `src/`; `B/` stands for
`backend/packages/`.

    tlc -workers 2 -config EngineReplicas.cfg MCEngine.tla   # any run of PROJECT.json
    tlapm EngineProofs.tla                # also EngineInvariant and any other *Proofs

## 1. Inventory

### Run engine (`B/orchestrator`, `B/worker`, `B/shared/src/broker.ts`, `B/api/src/repos`, `B/domain`)

| Part | State | Operations |
|---|---|---|
| API, run side (`B/api/src/routes/workflows.ts`, `runs.ts`) | `runs`; cancel keys in Redis | trigger (insert a PENDING run, then XADD), cancel (commit, then set the key, then publish), delete of the workflow (cascades to runs and step runs) |
| Broker (`B/shared/src/broker.ts`) | streams `flowforge:runs`, `:steps`, `:step-events` with one consumer group each, pending lists, the sorted set `flowforge:delayed:messages` | enqueue, dequeue (only `>`), ack, scheduleDelayed, pollDelayed |
| Orchestrator (`consumeRuns`/`startRun`, `consumeStepEvents`/`handleStepEvent`, `scanTimeouts`) | `runs`, `step_runs`, `processed_events` | start a run; record an outcome, dispatch what became ready, close the run; time out |
| Worker (`B/worker/src/index.ts`) | `step_runs` and its pending entries | claim, execute, report, retry, acknowledge; poll delayed messages |

The API and the scheduler hand runs to the orchestrator through a stream, the
orchestrator hands steps to workers through a second and workers report through
a third. All share the rows in PostgreSQL. Nothing ever reads a pending entry
again. The orchestrator works in transactions that hold the row lock of the run;
the worker does not: its `SELECT ... FOR UPDATE` and its `UPDATE` are separate
transactions because it passes the pool and not a client. Each process has one
Redis connection, on which an `XREADGROUP ... BLOCK` holds up whatever its other
loops and timers send behind it.

*Hard:* several orchestrators handle the last events of parallel branches at the
same time; messages are queued and events published inside transactions that
have not committed and may roll back; processes die between any two statements;
XADDs are repeated by the client; cancel, timeout and delete arrive at any point;
commands queue up behind blocking reads, also inside transactions whose locks
others wait for; polls overlap.
*Correct means:* dependencies first; a run closes exactly when its steps are
done; no branch is forgotten; ended runs stay as they are; each step is moved by
one carrier; attempts agree; what is lost is lost visibly; overdue runs are
marked, due retries moved and cancelled steps stopped within bounds that follow
from the code's intervals.

### Scheduler (`B/scheduler/src/tick.ts`, `B/api/src/routes/schedules.ts`)

State: `schedules` (`enabled`, `cron_expr`, `next_run_at`). A tick is one
transaction: select up to 100 due schedules `FOR UPDATE SKIP LOCKED`, insert and
queue a run for each, advance `next_run_at`. Users create, patch and delete
schedules. *Hard:* several replicas; two clocks (PostgreSQL's decides what is
due, the process's what is next); rollback after queueing. *Correct means:* at
most one run per schedule and window; every due schedule is reached.

### Workflow versions (`B/api/src/repos/workflow.repo.ts`, `B/api/src/routes/workflows.ts`, `webhooks.ts`) and workflow page (`frontend/src/pages/WorkflowDetailPage.tsx`)

State: `workflows.current_version`, `workflow_versions`; in the page the data of
its query, the text of the editor, the steps drawn, the error, whether it edits.
Update and rollback append a version under the header's row lock; trigger and
webhook read the header, read the version, insert a run. The page fetches, edits,
saves with a PATCH that names no version, and fetches again. *Hard:* requests of
several clients between the statements of one; answers that are lost after the
commit; a fetch under way when a save is answered; a refetch while text is typed.
*Correct means:* versions are immutable, no update is lost, a run binds the version
its request read and one no older than when it came in; the page settles on what
it saved or something newer, and a save ends.

### Definition parser and validation (`B/parser`) and graph view (`frontend/src/components/DagView.tsx`)

`parse` (size, syntax, number of steps, shape, configs, in this order),
`validateAndSortDAG` (duplicate ids, dangling dependencies, Kahn's algorithm),
`detectCycles` (three-colour depth-first search), and the sweeps by which the
editor gives the steps their columns, also those of a definition that will be
refused. *Correct means:* exactly the acyclic well-formed definitions within the
limit are accepted, sorted, and offenders are named; the drawing follows the
dependencies.

### Rate limiter (`B/auth/src/rate-limit.ts`) and workflow generation (`B/ai-gateway`, `B/api/src/routes/ai.ts`)

A Redis counter per tenant, route and window (INCR, EXPIRE, TTL as three
commands); a token counter per tenant and day, read before a call to the
provider and increased after it, and a race of each call with a timer.
*Correct means:* the quota of a window is exact, Retry-After leads out of the
window; overspending is bounded, drafts are valid, requests are answered once.

### Realtime hub and run page (`B/realtime`, `frontend/src/pages/RunDetailPage.tsx`)

State: the hub's connections and their subscriptions, the pings of a socket; the
page's socket and its cached run. *Hard:* ownership queries that return after
the socket closed or after later messages; events published before the commit;
events missed between two sockets. *Correct means:* tenants are isolated, closed
sockets are forgotten, pages catch up.

### The rest

Prompt building and redaction, authentication, logs, audit and metrics, the other
pages, configuration and schema: see section 7.

## 2. Modules

| Module | Models | Composes |
|---|---|---|
| `FlowForge` | run and step state machines (`B/domain`), `computeReadySet` | |
| `Engine` | API, broker, orchestrator, worker and their failures | `FlowForge` |
| `EngineProperties` | its properties; the refinement mapping | `Engine`, `RunLifecycle` |
| `RunLifecycle` | the promise of the engine: runs and outcomes without queues, workers or transactions | `FlowForge` |
| `EngineInvariant` | the inductive invariants `IndInv` and `CarrierInv` (who is in charge of a step) and what each action does to them | `EngineProperties` |
| `EngineProofs` | theorems; stranded branches, lost work, the refinement | `EngineInvariant` |
| `RedisConnection` | the order and the waiting of commands on the connections of processes | |
| `ProcessTimers` | the loops, timers, polls and steps of an orchestrator and a worker by the second | `RedisConnection` |
| `RedisConnectionProofs` | the bound on the wait; the processes implement the connections; the bounds of their timers | `ProcessTimers` |
| `Scheduler`, `SchedulerProofs` | ticks and schedule requests | |
| `WorkflowVersions` | requests on one workflow | |
| `WorkflowPage` | the page that edits it, beside other clients | `WorkflowVersions` |
| `WorkflowVersionsProofs` | theorems about both | `WorkflowPage` |
| `Definitions`, `DagValidation`, `DefinitionParser`, `CycleDetection`, `DagView` | a definition that is drawn, parsed, judged and searched for cycles, one loop turn a step | each extends the one before |
| `ParserProofs` | theorems about the sort, the search and the drawing | `DagView` |
| `RateLimiter`, `WorkflowGeneration` | the two Redis counters | |
| `CounterProofs` | theorems about both | `RateLimiter`, `WorkflowGeneration` |
| `Realtime` | hub, sockets, page, and the change of a run they hear of | |
| `Heartbeat` | the ping timer of a socket | |
| `RealtimeProofs` | theorems about both | `Realtime`, `Heartbeat` |
| `MC*` | values of the constants and symmetry sets for TLC; `MCCounters` and `MCRealtime` check two models that share nothing in one run | `MCCounters`: `RateLimiter`, `WorkflowGeneration`; `MCRealtime`: `Realtime`, `Heartbeat` |

`PROJECT.json` maps each definition to the lines it models. Operators under a
comment "Mutant:" are plausible wrong versions of the definition that follows
them. No specification uses them; each shows that some property can fail.

### How `Engine` corresponds to the code

* **Transactions.** A transaction of the orchestrator begins with the action that
  takes the run's lock and reads (`*Begin`), goes through one action per message
  it queues, and ends with a commit or with a failure that drops its writes. What it will write is kept in the loop's
  record, so other processes see nothing before the commit, while what it
  queues and publishes is visible at once, as in the code. Locks are not a
  variable: a run is locked while some loop is in `txn` with it.
* **Worker updates** that are one committed statement are one action;
  `transitionStepRunStatus` on a pool is `claim` and `mark`, two actions, as the
  code's `FOR UPDATE` lock is gone before the `UPDATE`.
* **Streams.** A stream is the bag of entries not yet delivered, plus what each
  consumer has and has not acknowledged. The order of entries is left out: the
  properties hold for any order, and several consumers lose the order anyway.
  The model starts when the groups exist (`ensureGroup` starts a group at the
  end of its stream; entries older than the group are never delivered).
* **Faults**, each counted against `MaxFaults`: a failing statement or command
  (`io_error`), the death of an orchestrator, worker or API process, a retry lost
  at ZADD (the worker logs and acknowledges), a due message lost between ZREM and
  XADD, and XADDs the client repeats (`resend_*`). A restarted process has a new
  consumer name, hence its old pending entries are nobody's.
* **Deduplication.** `processed_events` is modelled though the guards on the
  step's and the run's status already make a second copy harmless.
* **Cancel.** The worker's check (run status, then the key) is one action: the
  key is set after the commit of the cancel, so a key without the status cannot
  be seen.
* **Abstractions.** A step's work is a choice of outcome; the scanner's
  `LIMIT 100` is left out (fewer runs than that are overdue at once); time is
  a set `overdue` of runs whose timeout has passed; each run has a workflow of
  its own, so that a delete concerns one run; only run-level events are recorded.

### The other models

* `Scheduler`: `clock` is PostgreSQL's; API and replicas read any value within
  `Behind` and `Ahead` of it, each time anew. A schedule row's lock is membership in a tick's
  `locked`. PATCH leaves `next_run_at` alone, as the code does. One failing
  statement or XADD rolls the whole batch back while entries already queued stay.
  A DELETE waits for a tick's lock; the lock cycle between a workflow's DELETE and
  a tick, which PostgreSQL breaks by aborting one, is covered by the rollback.
* `RedisConnection`: a caller awaits each command, so it has one pending; `ahead`
  is the queue of a connection, as the set of callers before each. Commands other than reads take no time.
* `ProcessTimers`: follows either process (they share no connection). Statements and
  work inside a process take no time, so what passes is the delay the code itself
  causes: blocking reads, intervals, a step. `ConnectionOf`, the loops and the
  timers are those of `startOrchestrator` and `startWorker`. The events transaction
  may be that of a run the scanner is waiting for. HTTP, DELAY and SCRIPT
  handlers differ in what ends them; a "stubborn" script ignores SIGTERM, which is all the
  timeout of `spawn` sends. A poll fixes what is due when it starts (`now` is read before
  the command waits for its turn, `StartPoll`), and `ZRANGEBYSCORE` returns the first
  `PollLimit` of those that nobody has removed by then (`FirstOf`, `Ranged`); 100 in the code. A
  member of the delayed set holds its run, step and attempt, so a retry is never one a
  poll still has in an old list (`Reported`). Whether entries, failures and cancels come is a choice.
* `WorkflowPage`: requests `fetch` and `save` of `WorkflowVersions` are the page's; a
  refetch takes the place of the request under way, whose answer nobody reads.
  `parsedSteps` and `jsonText` are the definitions they show. `dirty` (typed since the
  last save or sync) and `saved` are bookkeeping for the property. A refetch comes
  from `invalidateQueries` or the browser's `online` event
  (`refetchOnWindowFocus` is off, `retry` too).
* `DefinitionParser`: which texts, shapes and configs are refused is a choice; the order of
  the checks, what each reports and the limit of steps are the code's.
* `WorkflowVersions`: `createRun` needs a key-share of the header, which waits for
  `SELECT ... FOR UPDATE` (rollback) and DELETE but not for an UPDATE that leaves the key.
* `RateLimiter`: at most `Latency` seconds pass from reading the clock to the
  INCR. EXPIRE may be lost or late.
* `WorkflowGeneration`: the provider answers, fails or never does; retries inside
  its client library are its own affair. What a timed-out call uses is not counted.
* `Realtime`: one hub process. TanStack Query restarts a fetch on invalidation
  only if it already has data; it refetches on the browser's `online` event and
  not on a new socket. Both are the library's, modelled from how the page uses it.

## 3. Model checking

`CHECK_DEADLOCK FALSE` is set where behaviours end by bound or by nature: a run
ends, a request has been answered, faults and time run out.

| Run | Question | Bounds |
|---|---|---|
| `EngineReplicas` | Do two orchestrators decide rightly on parallel branches and their join? Order of dispatch, stranding, lost work, nothing added to ended runs, run status, and the engine implements `RunLifecycle` | a, b → c, a may fail and go on; scheduled run; 2 orchestrators, 1 worker, one attempt per step; cancel, timeout; 1 fault of any kind but those of delayed messages |
| `EngineWorkers` | Are unlocked worker updates safe, and does every run end? One carrier per step, attempts, moves of rows, runs that succeed only when complete, overdue runs, started runs, recorded reports | a → b, a has two attempts; triggered run; 2 workers, 1 orchestrator; delete, timeout; 1 fault of any kind but duplicated run and event entries; fairness |
| `Scheduler` | once per window, changed schedules wait, locks, queued runs; every due schedule is fired | 2 schedules, 2 replicas, batch of 1, clocks 1 behind to 1 ahead, 2 runs per schedule, 1 failing tick; fairness |
| `ProcessTimers` | How long do commands wait, and how late are overdue runs marked, due retries moved and cancelled or overlong steps stopped? | reads of 1 s, scans and polls every 2 s, ≤ 2 commands per transaction, 1 overdue run per scan, 2 retries of which a poll finds 1, steps of 2 s, 4 polls; each process |
| `Parser` | parse, search and drawing against their definitions, and against each other | all definitions of ≤ 3 steps with ≤ 3 dependencies each, repeated ids, repeated dependencies, dangling names and self-references included, and two of 4 steps, beyond the limit of 3; 3 sweeps |
| `WorkflowVersions` | lost updates, fresh bindings, what the page settles on, saves that end | the page and 2 other clients (update, rollback, delete; trigger, webhook), 1 save, 1 refetch besides those of saves, 2 bodies, 1 fault; fairness |
| `Counters` | quota per window, Retry-After; overshoot, answers | window of 2 s, limit 2, 5 requests, 2 at once, an INCR 1 s late at most, 6 s; 2 generations at once, budget 6, reserve 2, calls of 0, 1 or 3 tokens, one midnight; fairness |
| `Realtime` | tenants; forgotten sockets; pages that follow; answering peers stay, silent ones go | pages of 2 tenants opened at one run, 2 sockets, 2 changes, 1 lost event or rollback; pings every 3 s, timeout 6, pong delay ≤ 3, 24 ticks; fairness |
| `FindTerminal`, `FindRunRetried`, `FindStepTwice`, `FindStubbornScript` | section 4 | no faults; `FindStepTwice`: one repeated step entry, 2 workers |

*Why these bounds.* The orchestrator's decisions concern a step, its sibling and
a successor: the join has all of them. Two orchestrators are the fewest that race
for a run, and their lock is what the run tests; one worker is enough there since
both reports may wait for the orchestrators. What races among workers is
a claim, a retry and the poll of delayed messages, for which a chain with a retry
and two workers are enough. The two runs together fire every action; no kind of
fault is left out of both, and cancel and delete are split between them. One fault per behaviour reaches every handler's
error path with everything else in flight. Windows, intervals and budgets keep the code's ratios: a call larger than
the reserve, a timeout of two intervals, more due schedules than a batch. In `ProcessTimers`
two retries and a list of one make a poll leave a due retry to the next; a
poll may last longer than its interval (3 s of 2), so polls overlap, and four of them are enough that one is
left whenever the interval starts another (`PollsSuffice` in `MCProcessTimers`). The longest a retry
waits there is 7 s of the 10 that the bound allows. The page needs one save and one stray refetch
to meet each other and a change of another client in every order. The
theorems of section 5 have no bounds.

The models have a `TypeOK`. The engine's is checked; those of `Scheduler`,
`Heartbeat`, `WorkflowVersions`, `WorkflowPage` and `RedisConnection` are parts of proved
invariants; the others document the variables and are left out of the runs.

`DependenciesFirst`, `SucceededIsComplete`, `OneCarrier`, `RowsFollowMoves` and the second half of
`AttemptsAgree` hold until an XADD is repeated (`faults.repeated`), and say so: two workers with a
copy each of a step's entry refute each of them (section 4). What holds through repetitions is
`NothingStranded`, `LostWorkIsPending`, `NoStepAddedAfterEnd` and `RunsFollowMoves`.

`AtMostOncePerWindow` and `ChangedSchedulesWait` are stated for clocks that differ: the run before may
have come within the skew (`Behind`) from an instant of its expression (`AtInstant`), because a clock
that is behind takes that instant to be yet to come. With `Behind = 0` no run is so
early, and what is left is requirement 2.2 (`FiresOnceWithoutSkew`).

`LostWorkIsPending` is stated where no failure is swallowed: a ZADD or XADD whose error the worker only
logs loses the attempt without a trace, and `OverdueRunEnds` is what remains.

*`TimedOut` overwriting.* `RunsFollowMoves` and `RunLifecycle` allow the one move
the code makes against its own table: the scanner turns a run that ended meanwhile into
TIMED_OUT (finding `FindTerminal`).

*`StepsStopInTime`* promises nothing of a script that ignores SIGTERM and is not cancelled:
nothing stops it (finding `FindStubbornScript`).

### Fairness

* `Engine`: weak fairness of each loop's next step and of the request that is
  under way; the code's loops are `while` loops and timers that always go on, and
  processes are restarted. Nothing is assumed of users, of faults, of a step's
  outcome, or of timeouts: `OverdueRunEnds` starts when a timeout has passed, and
  `ReportIsRecorded` must hold without the scanner's help.
* `Scheduler`: ticks of each replica go on (`setInterval`); users owe nothing.
* `WorkflowPage`: the steps of a request go on, PostgreSQL grants a free lock, the
  browser takes the answer of a save. Failures, lost answers and the user are not fair.
* `ProcessTimers` assumes none: a second passes only when no process can act, so its
  bounds are safety properties.
* `WorkflowGeneration`: only the handler's own steps and its timer; the provider
  may never answer.
* `Realtime`: transactions end, the hub hands on what it received, queries and
  fetches return, the page reconnects.

## 4. Findings

The runs `Find*` check what a document or comment of the repository says and are
violated (`PROJECT.json` quotes the lines; requirements and design are in
`.kiro/specs/flowforge/`):

* `FindTerminal`: the timeout scanner's outer UPDATE overwrites a run that has
  just ended, against requirements 51 and design 1168.
* `FindRunRetried`: the entry of a scheduled run that is taken before the tick
  commits stays pending, nobody reads it again, and the run is PENDING for ever,
  against the comment at `B/orchestrator/src/index.ts:44`. The worker has the same
  comment (`B/worker/src/index.ts:212`) and the same fate for a step taken before
  its row is committed, but there the timeout ends the run.
* `FindStepTwice`: two workers that have a copy each of a step's entry, because the client
  has repeated the XADD, both read READY and both execute the step, against
  requirements 118: the lock of `SELECT ... FOR UPDATE` on the pool is gone before the
  `UPDATE`. The later outcome is written over the earlier one, and a row that has SUCCEEDED
  may turn back to RUNNING, also after its run has ended.
* `FindStubbornScript`: the timeout of a script is one SIGTERM. A script that ignores it
  goes on with no limit, against the 5 s of requirements 153; only a cancel kills it. The loop
  of its worker waits for it.

Other disagreements that the modules show in their actions, without a run:

| The code | Where it differs |
|---|---|
| `CompletedWith` counts FAILED: a step runs after a dependency that failed with `continue_on_failure` | requirements 51 asks for SUCCEEDED or SKIPPED |
| `ScanAnnounce` sets no cancel key: workers go on with a timed-out run | requirements 54 |
| nobody reads `last_heartbeat_at`: a dead worker's step stays RUNNING until the timeout | docs/TRADEOFFS.md:4 |
| `EventEnqueue` precedes the commit: a rollback leaves queued steps, which the second copy of the event queues again | design 774 |
| `Fire` in `Scheduler`: with the process clock behind PostgreSQL's (`Behind` > 0) a schedule fires twice in a window when its first run comes within the skew from the start of it (`AtMostOncePerWindow` is what remains) | requirements 69 |
| a rolled-back tick leaves an entry without a run | design 939 |
| the rate limiter's window is fixed, not sliding; Retry-After can be the window plus one second | comment `B/auth/src/rate-limit.ts:8`, requirements 72 |
| the second call of a generation is not checked against the budget; a timed-out call is not aborted | requirements 137, 135 |
| nothing is sent or fetched when a page reconnects | design 346 |
| `PublishThenCommit` in `Realtime`: a page can refetch the status before the commit and stay at it (`PageLagsByOneAtMost` is what remains) | requirements 83, design 773 |
| the scan comes every 5 s, and its commands wait for blocking reads: a run can be overdue longer than 5 s (`OverdueIsMarked`) | requirements 54 |
| `Show` in `WorkflowPage`: a refetch while text is typed overwrites it and leaves the error, so that Save stays disabled; text typed during a save can stay drawn outside the editor | comment `frontend/src/pages/WorkflowDetailPage.tsx:40` |
| the page of a run draws the graph of the workflow's current version (`frontend/src/pages/RunDetailPage.tsx:58`) | runs are bound to `version_id` |

## 5. Proofs

All proofs are for every value of the constants that the named assumptions
admit: `ConstantsAssumption` and `ValidatedDefinition` (the DAG was accepted by
the validator), `SchedulerConstants` and `CronAssumption` (cron-parser returns an
instant after the given one and skips none), `HeartbeatAssumption` (the timeout
is at least two intervals and a pong takes at most one), `ConnectionAssumption` and
`TimersAssumption` (finitely many callers, each on one connection, of which the
loops block; the polls have names of their own; finitely many retries, a list of at least one), `VersionsAssumption` and `PageAssumption` (typing, and two requests
that are the page's), `DefinitionsAssumption`, `ParserAssumption` and `DagViewAssumption` (typing,
finitely many ids), `RateLimiterAssumption` (typing, a window lasts at least a second),
`GenerationAssumption` (typing, finitely many requests, a largest usage of a call),
`RealtimeAssumption` (typing).

**Engine.** `IndInv` is the conjunction of
* `TypeOK` and `RetryInv` (a worker on its way to a retry has attempts left; without
  it attempts could leave their type),
* `PelInv` (what a loop holds is in its pending list; without it an
  acknowledgement could take a count below zero),
* `LockInv` (one open transaction per run) and `TxnInv` (what a transaction read
  stays true until it commits). `TxnInv` is the reason for `FOR UPDATE`: the lock
  keeps orchestrators, cancel, delete and the scanner out, and workers, which take
  no lock on the run, are kept from the event's own row by its uncommitted UPDATE,
* `TriggerInv`, `RowInv` and `ScanInv`: what has not been inserted does not exist,
  what has not started has no rows, and the scanner only finds started runs.

`Invariance` proves `Spec => []IndInv`, one lemma per action. `TypeCorrect`,
`RunsMove` (`RunsFollowMoves`) and `EndedRunsKeepTheirSteps`
(`NoStepAddedAfterEnd`) follow: a commit happens only where the run is still
PENDING or RUNNING (`TxnInv`), and only commits of the two transactions add rows.

*Carriers.* Workers write rows without a lock, so what protects a row is that one
message, worker or event at a time is in charge of its step. `CarrierInv` says so
(`AtMostOne`) together with what makes it inductive:
* `OneEntry`, `StartsEmpty`: the entry of a run is one and one orchestrator has it, so one
  `startRun` queues the first steps, of which nothing is carried before;
* `OneCopy`: an event is under way once, so its transaction is its only one;
* `RowsFit`: the row is what its carrier takes it for: READY with the attempt of a
  message that waits, RUNNING while it is executed, one attempt ahead when a retry is
  about to be delayed;
* `TxnFresh`: nothing carries what a transaction still has to queue, and what it has decided is
  what it would decide now, although workers go on writing rows meanwhile;
* `NoStray`: a rolled-back transaction leaves steps queued that have no row. It also leaves
  the step of its event without a carrier for good (`Dead`), so the step it queued is
  not ready again and nobody queues it twice;
* `Dispatched`, `RowsInOrder`, `EndsComplete`: rows come after their dependencies, and a run ends complete.

`CarrierInvariance` proves it until an XADD is repeated, for any set of faults
(`ResendShows`: a step that repeats one sets `faults.repeated`). `StepsHaveOneCarrier`, `WorkersAgreeWithRows`, `RowsMove`,
`StepsFollowDependencies` and `SuccessIsComplete` follow as the runs state them, without a hypothesis.
`Refinement` speaks of whole behaviours and assumes that no XADD is ever repeated
(`OnceOnly`). All of it fails after a repetition: a repeated run or event entry has two transactions; one
queues steps and is rolled back (`io_error`), the other queues them again. A repeated step
gives two workers one row, and the late `UPDATE` of the second turns a settled row back to RUNNING.

*Stranded branches.* `NoBranchStranded` has no hypothesis about faults. A row may lose its
settled status to such a late `UPDATE`, but gets it only from the commit of an event, and
the run's lock puts those commits in order: what an open transaction has decided (`Decided`) still
covers every step that is ready when it commits. Among the unsettled steps of an acyclic definition
one has only settled dependencies; it has its row, so there is an event to come.

*Lost work.* `LostWorkLeavesEntry` (`LostInv`): every unsettled step of a RUNNING run has a message
that is queued, delayed, polled, at a worker short of its acknowledgement or in a
pending list, or an event that is not processed (`Tracked`). Each step of the code hands
this on because the acknowledgement comes last; what breaks it is a retry whose ZADD or XADD
fails and is only logged, which `NothingSwallowed` excludes. XADDs may be repeated.

*Refinement.* `Refinement` proves `Lifecycle!Init` and that a step of the engine is one of
`RunLifecycle` or a stutter: a commit of `startRun` is its start, the commit of an event its
outcome with the steps it makes ready, and claims, retries, faults and queues are stutters. `CarrierInv` gives the guards.

`CarrierInv`, `StrandInv` and `LostInv`, like `SortInv`, `SearchInv` and `DrawInv` below, were checked with TLC on
instances of the runs before they were proved.

**Scheduler.** `LockInv` (types, a tick's todo and made lists fit its locks, two
ticks share no schedule, committed runs were queued) gives `TicksExclude` and
`CommittedRunsAreQueued`. `WindowInv` adds that no run of a schedule, committed or
pending in a tick, has its window still open at the instant the schedule is next due,
unless the run came within the skew of the clocks from an instant of its expression. A
fired instant is one that was due, so `ChangesWait` follows, and `FiresAtMostOnce` from it, for any `Behind`
and `Ahead`. `FiresOnceWithoutSkew` is requirement 2.2 as it stands, for `Behind = 0`; with
`Behind = 1` TLC refutes it, so the hypothesis is needed.

**Connections.** `Inv` of `RedisConnectionProofs`: who waits is ordered (`Ordered`), the first
of a connection has the turn (`FirstHasTurn`), a command that has not waited yet has everybody
who can be before it before it (`Fresh`), and what it has waited plus what the reads before it may still
take is at most one read of each other loop (`Bounded`). `ProcessesImplementConnections`
is the step simulation: every step of `ProcessTimers` is one of `RedisConnection` or a stutter,
so the bound holds for the commands of transactions, scans, polls and cancel checks.

**Timers.** The same module proves the bounds that are made of waits. `TimersInv` says what each caller may
have to send where it is. From it a time left is defined for each bound; no step of a process
lengthens it, and a second, which passes only when every caller waits or rests
(`NobodyWaits`), shortens it by one:
* `MarkedIn` (`RunsAreMarkedInTime`): if the scan under way has found the run, the rest of the transaction that holds
  its row; otherwise also the events of the runs before it, the interval and the longest
  transaction that can hold the row at the next scan;
* `PollEndsIn` (`RetriesAreMovedInTime`): a due retry is in the list of a poll that will be
  through in time, or of the next one, since a retry may become due just after a poll has fixed its
  list; a retry that a list leaves behind had `PollLimit` older ones before it, which pays for one more
  period (`LeftForLater`), and none that becomes due later goes before it; the poll that removed a retry is
  the only one that has, and adds it (`MoveInv`);
* `StopInv` (`StepsStop`): after its first second a cancelled step has a look for the key under way.

**Versions and page.** `ServerInv`: the request that holds the row lock is the only one between
the bump of the header and the insertion of the version, so the header names the last
version (`HeaderNamesLast`) and versions are only appended; what a request has read stays
there (`Grounded`). `PageInv`: a fetch under way when a save is answered was sent after that
answer, hence shows it or something newer; text that is neither typed nor the workflow's
has been sent (`Sent`).

**Parser and drawing.** Each loop turn of `validateAndSortDAG`, `detectCycles` and the sweeps is a step, so what a loop
computes is an invariant and not a recursion, and `DraftInvariant` holds for definitions of any size,
malformed ones included (ids and dependencies repeated, dangling names, self-references):
* `SortInv`: `inDegree` of a step counts exactly the entries of its `depends_on` (a repeated
  dependency is several) whose step the walk has not passed, the queue holds just the steps at zero, and what has been output precedes
  nothing it depends on. When the queue runs dry, the steps left over wait for each other; when nothing is left over the output is a topological order. This gives
  `SortIsRight` and `CycleIsRight`;
* `SearchInv`: the GRAY nodes are the path, on which each depends on the one before, and every report closes a segment of
  it. As long as nothing has been reported, what depends on a BLACK node is BLACK, an entry that was passed over
  leads to a BLACK node or on along the path, and no BLACK nodes wait for each other. `SearchIsRight`: only
  cycles are reported, and one is if there is any;
* `DrawInv`: a step that is placed stands one column behind the last it needs and none of those in a deadlock is placed; a
  sweep that has placed nothing has passed over nothing that could be placed, and every sweep before
  it has placed a step, so as many sweeps as there are steps suffice (`DrawingIsRight`).

Deadlock is the notion all three share: a set of steps each of which depends on a step of the set.

**Counters.** `LimiterInv`: an expiry, when a key has one, lies beyond the end of the key's window, because EXPIRE comes in
the window or later and sets a window and a second more. `RetriesAreTimely` is arithmetic on it.
`QuotaInv` adds that up to the second after its window a count is at least what the window has let
through, and that a request on its way to the INCR comes by then. It needs `Latency <= 1`: `QuotasHold` is stated for an INCR that
follows the reading of the clock by a second at most, and with `Latency = 2` TLC refutes the quota.
`BudgetInv` of `OvershootsAreBounded` counts what is still to come: every call under way is worth the largest usage, and a
first call two of them, since the second is not checked against the budget. A step that records pays from this; a
request that passes the check finds so much left that all requests may be under way.

**Heartbeat.** `HeartbeatInv` relates the last pong, the unanswered pings and the
next beat; `AnsweringPeersAreKept` and `SilentPeersAreCut` follow.

**Hub.** `HubInv`: a socket's page never changes, a socket nobody has opened has nothing, only the
opening of a socket registers it, and what is in its inbox or subscriptions is of its page's
tenant. A check that returns after the close event adds a run to a record the hub no longer holds.

### Only model-checked

Every safety and action property of a passing run is stated by a theorem (some under the
hypotheses named above). What is left:

* Liveness (`OverdueRunEnds`, `TriggeredRunStarts`, `ReportIsRecorded`,
  `DueScheduleFires`, `RequestsAreAnswered`, `SavesEnd`,
  `PageLagsByOneAtMost`): fairness and ENABLED are outside the prover's reach.

## 6. Plan

1. *(done)* Engine core, its abstract specification, first proofs; scheduler;
   versions; parser; counters; realtime.
2. *(done)* The order of the parser's checks and the drawing; the waits on Redis
   connections, the looks for the cancel key and the polls (`ProcessTimers`); the workflow page;
   their proofs.
3. *Extend:* rotation of a webhook's secret against deliveries in flight; the
   pagination cursors of the listings.
4. *(done)* Proofs of the engine's carriers, dispatch, stranded branches, lost work and
   refinement, and of the bounds of the timers.
5. *(done)* Proofs about the loops of the parser (the queue of Kahn's algorithm, the colours of the search),
   the drawing and the two counters.

## 7. Not modelled

* **Prompt building, redaction, zod schemas, YAML and JSON, `serialize` and the parser's command line**: functions of their
  input without state; what `parse` refuses of texts, shapes and configs is a choice.
* **Authentication**: stateless checks of tokens and passwords; each model takes the
  tenant of a request as given.
* **What step handlers compute** (HTTP, script, delay, condition): the engine sees an outcome,
  `ProcessTimers` when they stop.
* **Backoff**: computes a delay; the engine lets a delayed message come at any time.
* **Listings, statistics, other pages**: they change no state.
* **Logs, audit, metrics**: written, never read by the core; their failures are swallowed.
* **Process start, configuration, schema**: wiring; cascades and unique keys are used in
  the actions they constrain.
* **Webhook signatures and secrets; several hub processes.**
* **The workflow page after it is left, and the positions of steps within a column.**
* **The run page's life after it is left.** Its `close()` fires `onclose` after the
  cleanup and schedules a reconnect that nobody clears
  (`frontend/src/pages/RunDetailPage.tsx:148`): a matter of browser timers.
* **The last millisecond of a day**, in which `secondsUntilEndOfDay` is 0 and EXPIRE
  removes the token counter at once; the model changes the day in one step.
