-------------------------------- MODULE Engine --------------------------------
(***************************************************************************)
(* The execution core of FlowForge: the API (or the scheduler) creates a   *)
(* run and queues it, the orchestrator starts it and reacts to the events  *)
(* of its steps, the workers execute steps, retry them and report, users   *)
(* cancel runs or delete workflows, and the timeout scanner ends the runs  *)
(* that take too long.                                                     *)
(*                                                                         *)
(* PostgreSQL holds the runs, the step rows and the ids of the processed   *)
(* events.  A transaction keeps its writes in the record of the loop that  *)
(* runs it until it commits, and holds the lock of its run (SELECT ... FOR *)
(* UPDATE) meanwhile.  Redis holds three streams, each read by one         *)
(* consumer group.  A group delivers an entry once, to one consumer: the   *)
(* consumers only ever read '>', so an entry that was delivered and never  *)
(* acknowledged stays in the group's pending list and nobody reads it.     *)
(* The order of the entries of a stream is abstracted: a stream is the bag *)
(* of its undelivered entries.                                             *)
(***************************************************************************)
EXTENDS Naturals, FlowForge

CONSTANTS
  Runs,               \* the runs that may be triggered
  Scheduled,          \* those the scheduler triggers; users trigger the others
  Steps,              \* the steps of the workflow definition
  DependsOn,          \* depends_on of each step
  ContinueOnFailure,  \* the steps with continue_on_failure
  MaxAttempts,        \* retry.max_attempts of each step, 1 without a retry policy
  AttemptLimit,       \* the schema's upper bound of max_attempts
  Workers,            \* the worker processes
  Orchestrators,      \* the orchestrator processes
  Environment,        \* which of "cancel", "delete", "timeout" may happen
  Faults,             \* which kinds of faults may happen
  MaxFaults,          \* how many faults may happen in a behaviour
  Nothing             \* a value that is no message and no run

FaultKinds ==
  {"io_error",            \* a query or a command fails: the handler throws
   "worker_crash", "orchestrator_crash", "api_crash",
   "retry_loss",          \* ZADD of a retry fails, the worker only logs it
   "poll_loss",           \* a due retry is lost between ZREM and XADD
   "resend_runs", "resend_steps", "resend_events"}

\* The client resends an XADD whose reply was lost.
Resends == {"resend_runs", "resend_steps", "resend_events"}

StepMsg == [run: Runs, step: Steps, attempt: 1..AttemptLimit]

\* An entry of the event stream.  uuid stands for event_id: two entries of
\* a step with one uuid are the two copies of a resent XADD.
EventMsg == [run: Runs, step: Steps, uuid: Nat, ok: BOOLEAN, copy: {1, 2}]

EventId(e) == <<e.run, e.step, e.uuid>>

ASSUME ConstantsAssumption ==
  /\ Scheduled \subseteq Runs
  /\ DependsOn \in [Steps -> SUBSET Steps]
  /\ ContinueOnFailure \subseteq Steps
  /\ AttemptLimit \in Nat
  /\ MaxAttempts \in [Steps -> 1..AttemptLimit]
  /\ Environment \subseteq {"cancel", "delete", "timeout"}
  /\ Faults \subseteq FaultKinds
  /\ MaxFaults \in Nat
  /\ Nothing \notin Runs /\ Nothing \notin StepMsg /\ Nothing \notin EventMsg

\* validateAndSortDAG accepted the definition: it has a step, and every set
\* of steps has a member that depends on no other member of the set.
ASSUME ValidatedDefinition ==
  /\ Steps # {}
  /\ \A S \in SUBSET Steps : S # {} => \E s \in S : DependsOn[s] \cap S = {}

VARIABLES
  run,          \* runs.status; "NONE" before the row exists, "DELETED" after
  row,          \* step_runs: status ("NONE" without a row) and attempt
  processed,    \* processed_events
  runQ,         \* undelivered entries of flowforge:runs
  stepQ,        \* undelivered entries of flowforge:steps
  eventQ,       \* undelivered entries of flowforge:step-events
  runPel,       \* entries of flowforge:runs each consumer got and has not acknowledged
  stepPel,      \* the same for flowforge:steps
  eventPel,     \* the same for flowforge:step-events
  delayed,      \* the sorted set flowforge:delayed:messages
  trigger,      \* progress of the request or of the tick that creates a run
  starter,      \* consumeRuns of each orchestrator
  handler,      \* consumeStepEvents of each orchestrator
  scanner,      \* the timeout scanner of each orchestrator
  worker,       \* the main loop of each worker
  poller,       \* the delayed message each worker's poll has removed
  emitted,      \* events ever emitted for a step: the supply of uuids
  overdue,      \* runs for which started_at + timeout_sec < now()
  cancelling,   \* cancel requests that have committed and not yet signalled
  cancelKey,    \* runs with the key flowforge:cancel:run:<id>
  published,    \* run-level events published to the WebSocket clients
  faults        \* [count, repeated]: how many faults so far, and whether the
                \* second copy of an XADD was one of them

dbVars      == <<run, row, processed>>
runStream   == <<runQ, runPel>>
stepStream  == <<stepQ, stepPel>>
eventStream == <<eventQ, eventPel>>
queues      == <<runStream, stepStream, eventStream, delayed>>
orchVars    == <<starter, handler, scanner>>
workerVars  == <<worker, poller, emitted>>
userVars    == <<trigger, overdue, cancelling, cancelKey>>

\* What no action of a component touches, for the UNCHANGED of its actions.
starterRest == <<handler, scanner, workerVars, userVars>>
handlerRest == <<starter, scanner, workerVars, userVars>>
scannerRest == <<queues, starter, handler, workerVars, userVars>>
workerRest  == <<runStream, eventPel, orchVars, userVars, published>>
apiRest     == <<row, processed, stepStream, eventStream, delayed, orchVars, workerVars>>

vars == <<dbVars, runStream, stepStream, eventStream, delayed, orchVars,
          workerVars, userVars, published, faults>>

NoRow == [status |-> "NONE", attempt |-> 0]
FirstRow == [status |-> "READY", attempt |-> 1]
FirstMsg(r, s) == [run |-> r, step |-> s, attempt |-> 1]

StarterAt(pc, r) == [pc |-> pc, run |-> r, todo |-> {}]
IdleStarter == StarterAt("idle", Nothing)

HandlerAt(pc, e) == [pc |-> pc, event |-> e, verdict |-> "OPEN", fresh |-> {}, todo |-> {}]
IdleHandler == HandlerAt("idle", Nothing)

IdleScanner == [found |-> {}, announce |-> {}]
IdleWorker  == [pc |-> "idle", msg |-> Nothing]

Init ==
  /\ run = [r \in Runs |-> "NONE"]
  /\ row = [r \in Runs |-> [s \in Steps |-> NoRow]]
  /\ processed = {}
  /\ runQ = [r \in Runs |-> 0]
  /\ runPel = [o \in Orchestrators |-> [r \in Runs |-> 0]]
  /\ stepQ = [m \in StepMsg |-> 0]
  /\ stepPel = [w \in Workers |-> [m \in StepMsg |-> 0]]
  /\ eventQ = {} /\ eventPel = {}
  /\ delayed = {}
  /\ trigger = [r \in Runs |-> "new"]
  /\ starter = [o \in Orchestrators |-> IdleStarter]
  /\ handler = [o \in Orchestrators |-> IdleHandler]
  /\ scanner = [o \in Orchestrators |-> IdleScanner]
  /\ worker = [w \in Workers |-> IdleWorker]
  /\ poller = [w \in Workers |-> Nothing]
  /\ emitted = [r \in Runs |-> [s \in Steps |-> 0]]
  /\ overdue = {} /\ cancelling = {} /\ cancelKey = {}
  /\ published = {}
  /\ faults = [count |-> 0, repeated |-> FALSE]

-------------------------------------------------------------------------------
(* Locks, faults and sends.                                                 *)

StartsRun(o, r) == starter[o].pc = "txn" /\ starter[o].run = r
HandlesRun(o, r) == handler[o].pc = "txn" /\ handler[o].event.run = r

\* Mutant: handleStepEvent forgets FOR UPDATE.
RunLockedByStarter(r) == \E o \in Orchestrators : StartsRun(o, r)

\* Some open transaction has selected the row of run r FOR UPDATE.
RunLocked(r) == \E o \in Orchestrators : StartsRun(o, r) \/ HandlesRun(o, r)

\* Some open transaction has updated the row of step s of run r.
RowLocked(r, s) ==
  \E o \in Orchestrators : HandlesRun(o, r) /\ handler[o].event.step = s

Fault(kind) ==
  /\ kind \in Faults /\ faults.count < MaxFaults
  /\ faults' = [count |-> faults.count + 1,
                repeated |-> faults.repeated \/ kind \in Resends]

\* An XADD appends one entry, or two when the client resends it.
Copies(n, resend) ==
  \/ n = 1 /\ UNCHANGED faults
  \/ n = 2 /\ Fault(resend)

EnqueueStep(m) ==
  \E n \in {1, 2} : Copies(n, "resend_steps") /\ stepQ' = [stepQ EXCEPT ![m] = @ + n]

EnqueueRun(r) ==
  \E n \in {1, 2} : Copies(n, "resend_runs") /\ runQ' = [runQ EXCEPT ![r] = @ + n]

EnqueueEvent(r, s, ok) ==
  \E n \in {1, 2} :
    /\ Copies(n, "resend_events")
    /\ eventQ' = eventQ \cup {[run |-> r, step |-> s, uuid |-> emitted[r][s] + 1,
                               ok |-> ok, copy |-> c] : c \in 1..n}
    /\ emitted' = [emitted EXCEPT ![r][s] = @ + 1]

RunEvent(r, type) == <<r, type>>

-------------------------------------------------------------------------------
(* Creation of a run.                                                       *)

\* POST /workflows/:id/runs and the webhook receiver: createRun commits ...
CreateRun(r) ==
  /\ r \notin Scheduled /\ trigger[r] = "new"
  /\ trigger' = [trigger EXCEPT ![r] = "created"]
  /\ run' = [run EXCEPT ![r] = "PENDING"]
  /\ UNCHANGED <<apiRest, runStream, overdue, cancelling, cancelKey, published, faults>>

\* ... and the run is queued afterwards.
QueueRun(r) ==
  /\ trigger[r] = "created"
  /\ trigger' = [trigger EXCEPT ![r] = "done"]
  /\ EnqueueRun(r)
  /\ UNCHANGED <<apiRest, run, runPel, overdue, cancelling, cancelKey, published>>

\* The process or the XADD fails in between: the run is never queued.
QueueRunFails(r) ==
  /\ trigger[r] = "created"
  /\ trigger' = [trigger EXCEPT ![r] = "done"]
  /\ Fault("api_crash")
  /\ UNCHANGED <<apiRest, runStream, run, overdue, cancelling, cancelKey, published>>

\* schedulerTick queues the run inside the transaction that inserts it ...
TickQueueRun(r) ==
  /\ r \in Scheduled /\ trigger[r] = "new"
  /\ trigger' = [trigger EXCEPT ![r] = "inserted"]
  /\ EnqueueRun(r)
  /\ UNCHANGED <<apiRest, run, runPel, overdue, cancelling, cancelKey, published>>

\* ... commits it ...
TickCommit(r) ==
  /\ trigger[r] = "inserted"
  /\ trigger' = [trigger EXCEPT ![r] = "done"]
  /\ run' = [run EXCEPT ![r] = "PENDING"]
  /\ UNCHANGED <<apiRest, runStream, overdue, cancelling, cancelKey, published, faults>>

\* ... or rolls it back, with the entry already in the stream.
TickRollback(r) ==
  /\ trigger[r] = "inserted"
  /\ trigger' = [trigger EXCEPT ![r] = "done"]
  /\ Fault("io_error")
  /\ UNCHANGED <<apiRest, runStream, run, overdue, cancelling, cancelKey, published>>

-------------------------------------------------------------------------------
(* The orchestrator: consumeRuns and startRun.                              *)

TakeRun(o, r) ==
  /\ starter[o].pc = "idle" /\ runQ[r] > 0
  /\ runQ' = [runQ EXCEPT ![r] = @ - 1]
  /\ runPel' = [runPel EXCEPT ![o][r] = @ + 1]
  /\ starter' = [starter EXCEPT ![o] = StarterAt("got", r)]
  /\ UNCHANGED <<starterRest, dbVars, stepStream, eventStream, delayed, published, faults>>

\* The row is not (or no longer) visible: startRun throws, the entry stays pending.
StartRunMissing(o) ==
  /\ starter[o].pc = "got" /\ run[starter[o].run] \in {"NONE", "DELETED"}
  /\ starter' = [starter EXCEPT ![o] = IdleStarter]
  /\ UNCHANGED <<starterRest, queues, dbVars, published, faults>>

\* Mutant: startRun returns for any run, also a PENDING one.
StartRunSkipAny(o) ==
  /\ starter[o].pc = "got" /\ run[starter[o].run] \in RunStatuses
  /\ ~RunLocked(starter[o].run)
  /\ starter' = [starter EXCEPT ![o].pc = "ack"]
  /\ UNCHANGED <<starterRest, queues, dbVars, published, faults>>

\* The run is not PENDING any more: startRun returns.
StartRunSkip(o) ==
  /\ starter[o].pc = "got" /\ run[starter[o].run] \in RunStatuses \ {"PENDING"}
  /\ ~RunLocked(starter[o].run)
  /\ starter' = [starter EXCEPT ![o].pc = "ack"]
  /\ UNCHANGED <<starterRest, queues, dbVars, published, faults>>

\* The transaction locks the run, publishes RUN_STARTED and writes the rows
\* of the ready set; nobody else sees the rows before the commit.
StartRunBegin(o) ==
  /\ starter[o].pc = "got" /\ run[starter[o].run] = "PENDING"
  /\ ~RunLocked(starter[o].run)
  /\ starter' = [starter EXCEPT ![o].pc = "txn", ![o].todo = ReadySet(DependsOn, {})]
  /\ published' = published \cup {RunEvent(starter[o].run, "RUN_STARTED")}
  /\ UNCHANGED <<starterRest, queues, dbVars, faults>>

\* The steps are queued one by one, before the commit.
StartRunEnqueue(o, s) ==
  /\ starter[o].pc = "txn" /\ s \in starter[o].todo
  /\ EnqueueStep(FirstMsg(starter[o].run, s))
  /\ starter' = [starter EXCEPT ![o].todo = @ \ {s}]
  /\ UNCHANGED <<starterRest, dbVars, runStream, eventStream, stepPel, delayed, published>>

\* Mutant: the run is RUNNING before the rows of its first steps exist.
StartRunCommitBare(o) ==
  /\ starter[o].pc = "txn" /\ starter[o].todo = {}
  /\ run' = [run EXCEPT ![starter[o].run] = "RUNNING"]
  /\ starter' = [starter EXCEPT ![o].pc = "ack"]
  /\ UNCHANGED <<starterRest, queues, row, processed, published, faults>>

StartRunCommit(o) ==
  LET r == starter[o].run IN
  /\ starter[o].pc = "txn" /\ starter[o].todo = {}
  /\ run' = [run EXCEPT ![r] = "RUNNING"]
  /\ row' = [row EXCEPT ![r] = [s \in Steps |->
               IF s \in ReadySet(DependsOn, {}) THEN FirstRow ELSE @[s]]]
  /\ starter' = [starter EXCEPT ![o].pc = "ack"]
  /\ UNCHANGED <<starterRest, queues, processed, published, faults>>

AckRun(o) ==
  /\ starter[o].pc = "ack"
  /\ runPel' = [runPel EXCEPT ![o][starter[o].run] = @ - 1]
  /\ starter' = [starter EXCEPT ![o] = IdleStarter]
  /\ UNCHANGED <<starterRest, dbVars, stepStream, eventStream, runQ, delayed, published,
                 faults>>

\* startRun or the acknowledgement throws: ROLLBACK, and no acknowledgement.
StartRunFails(o) ==
  /\ starter[o].pc # "idle"
  /\ Fault("io_error")
  /\ starter' = [starter EXCEPT ![o] = IdleStarter]
  /\ UNCHANGED <<starterRest, queues, dbVars, published>>

-------------------------------------------------------------------------------
(* The orchestrator: consumeStepEvents and handleStepEvent.                 *)

TakeEvent(o, e) ==
  /\ handler[o].pc = "idle" /\ e \in eventQ
  /\ eventQ' = eventQ \ {e} /\ eventPel' = eventPel \cup {e}
  /\ handler' = [handler EXCEPT ![o] = HandlerAt("got", e)]
  /\ UNCHANGED <<handlerRest, dbVars, runStream, stepStream, delayed, published, faults>>

\* event_id is already in processed_events.
SkipProcessedEvent(o) ==
  /\ handler[o].pc = "got" /\ EventId(handler[o].event) \in processed
  /\ handler' = [handler EXCEPT ![o].pc = "ack"]
  /\ UNCHANGED <<handlerRest, queues, dbVars, published, faults>>

\* Mutant: every event is taken for one of a run that has ended.
IgnoreAnyEvent(o) ==
  LET e == handler[o].event IN
  /\ handler[o].pc = "got" /\ EventId(e) \notin processed /\ ~RunLocked(e.run)
  /\ processed' = processed \cup {EventId(e)}
  /\ handler' = [handler EXCEPT ![o].pc = "ack"]
  /\ UNCHANGED <<handlerRest, queues, run, row, published, faults>>

\* The run is gone or terminal: only the event_id is committed.
IgnoreEvent(o) ==
  LET e == handler[o].event IN
  /\ handler[o].pc = "got" /\ EventId(e) \notin processed
  /\ ~RunLocked(e.run) /\ run[e.run] \notin {"PENDING", "RUNNING"}
  /\ processed' = processed \cup {EventId(e)}
  /\ handler' = [handler EXCEPT ![o].pc = "ack"]
  /\ UNCHANGED <<handlerRest, queues, run, row, published, faults>>

\* The status an event gives its step.
StatusAfter(e) == IF e.ok THEN "SUCCEEDED" ELSE "FAILED"

\* transitionStepRunStatus refuses to move the row of step s of run r to status to.
IllegalMove(r, s, to) == <<row[r][s].status, to>> \notin StepMoves

\* handleStepEvent throws: ROLLBACK (of the event_id too), no acknowledgement.
RejectEvent(o) ==
  LET e == handler[o].event IN
  /\ handler[o].pc = "got" /\ EventId(e) \notin processed
  /\ ~RunLocked(e.run) /\ run[e.run] \in {"PENDING", "RUNNING"}
  /\ IllegalMove(e.run, e.step, StatusAfter(e))
  /\ handler' = [handler EXCEPT ![o] = IdleHandler]
  /\ UNCHANGED <<handlerRest, queues, dbVars, published, faults>>

\* Mutant: a step that has no row yet does not keep the run open.
CompletedWithMissing(e) ==
  {s \in Steps : row[e.run][s].status \in CompletedStatuses \cup {"NONE"}} \cup {e.step}

\* The completed set as the transaction that handles e reads it.
CompletedWith(e) ==
  {s \in Steps : row[e.run][s].status \in CompletedStatuses} \cup {e.step}

\* What the event makes of its run: "OPEN" leaves the row of the run alone.
Verdict(e) ==
  IF ~e.ok /\ e.step \notin ContinueOnFailure THEN "FAILED"
  ELSE IF ReadySet(DependsOn, CompletedWith(e)) = {} /\ CompletedWith(e) = Steps
       THEN "SUCCEEDED" ELSE "OPEN"

\* The ready steps without a row.
FreshSteps(e) ==
  IF Verdict(e) # "OPEN" THEN {}
  ELSE {s \in ReadySet(DependsOn, CompletedWith(e)) : row[e.run][s].status = "NONE"}

\* Mutant: the status of the locked run is not looked at.
BeginEventAnyway(o) ==
  LET e == handler[o].event IN
  /\ handler[o].pc = "got" /\ EventId(e) \notin processed /\ ~RunLocked(e.run)
  /\ ~IllegalMove(e.run, e.step, StatusAfter(e))
  /\ handler' = [handler EXCEPT ![o] =
                   [pc |-> "txn", event |-> e, verdict |-> Verdict(e),
                    fresh |-> FreshSteps(e), todo |-> FreshSteps(e)]]
  /\ UNCHANGED <<handlerRest, queues, dbVars, published, faults>>

\* The transaction locks the run, moves the step, decides, and publishes
\* the end of the run if it comes to that.
BeginEvent(o) ==
  LET e == handler[o].event IN
  /\ handler[o].pc = "got" /\ EventId(e) \notin processed
  /\ ~RunLocked(e.run) /\ run[e.run] \in {"PENDING", "RUNNING"}
  /\ ~IllegalMove(e.run, e.step, StatusAfter(e))
  /\ handler' = [handler EXCEPT ![o] =
                   [pc |-> "txn", event |-> e, verdict |-> Verdict(e),
                    fresh |-> FreshSteps(e), todo |-> FreshSteps(e)]]
  /\ published' = published \cup
       (IF Verdict(e) = "OPEN" THEN {}
        ELSE {RunEvent(e.run, IF Verdict(e) = "FAILED" THEN "RUN_FAILED"
                              ELSE "RUN_SUCCEEDED")})
  /\ UNCHANGED <<handlerRest, queues, dbVars, faults>>

EventEnqueue(o, s) ==
  /\ handler[o].pc = "txn" /\ s \in handler[o].todo
  /\ EnqueueStep(FirstMsg(handler[o].event.run, s))
  /\ handler' = [handler EXCEPT ![o].todo = @ \ {s}]
  /\ UNCHANGED <<handlerRest, dbVars, runStream, eventStream, stepPel, delayed, published>>

EventCommit(o) ==
  LET e == handler[o].event IN
  /\ handler[o].pc = "txn" /\ handler[o].todo = {}
  /\ processed' = processed \cup {EventId(e)}
  /\ row' = [row EXCEPT ![e.run] = [s \in Steps |->
               IF s = e.step THEN [@[s] EXCEPT !.status = StatusAfter(e)]
               ELSE IF s \in handler[o].fresh THEN FirstRow ELSE @[s]]]
  /\ run' = IF handler[o].verdict = "OPEN" THEN run
            ELSE [run EXCEPT ![e.run] = handler[o].verdict]
  /\ handler' = [handler EXCEPT ![o] = HandlerAt("ack", e)]
  /\ UNCHANGED <<handlerRest, queues, published, faults>>

AckEvent(o) ==
  /\ handler[o].pc = "ack"
  /\ eventPel' = eventPel \ {handler[o].event}
  /\ handler' = [handler EXCEPT ![o] = IdleHandler]
  /\ UNCHANGED <<handlerRest, dbVars, runStream, stepStream, eventQ, delayed, published,
                 faults>>

HandleEventFails(o) ==
  /\ handler[o].pc # "idle"
  /\ Fault("io_error")
  /\ handler' = [handler EXCEPT ![o] = IdleHandler]
  /\ UNCHANGED <<handlerRest, queues, dbVars, published>>

-------------------------------------------------------------------------------
(* The timeout scanner.                                                     *)

\* Time passes: started_at + timeout_sec < now() from here on.
Expire(r) ==
  /\ "timeout" \in Environment /\ run[r] = "RUNNING" /\ r \notin overdue
  /\ overdue' = overdue \cup {r}
  /\ UNCHANGED <<apiRest, runStream, run, trigger, cancelling, cancelKey, published,
                 faults>>

\* Mutant: the sub-select looks for PENDING runs.
ScanSelectPending(o) ==
  LET found == {r \in overdue : run[r] = "PENDING"} IN
  /\ scanner[o] = IdleScanner /\ found # {}
  /\ scanner' = [scanner EXCEPT ![o].found = found]
  /\ UNCHANGED <<scannerRest, dbVars, published, faults>>

\* The sub-select of the UPDATE collects the overdue RUNNING runs from the
\* statement's snapshot ...
ScanSelect(o) ==
  LET found == {r \in overdue : run[r] = "RUNNING"} IN
  /\ scanner[o] = IdleScanner /\ found # {}
  /\ scanner' = [scanner EXCEPT ![o].found = found]
  /\ UNCHANGED <<scannerRest, dbVars, published, faults>>

\* ... and the UPDATE, once it has all their locks, writes those that still
\* exist without looking at their status again.
ScanUpdate(o) ==
  LET hit == {r \in scanner[o].found : run[r] \in RunStatuses} IN
  /\ scanner[o].found # {} /\ \A r \in scanner[o].found : ~RunLocked(r)
  /\ run' = [r \in Runs |-> IF r \in hit THEN "TIMED_OUT" ELSE run[r]]
  /\ scanner' = [scanner EXCEPT ![o] = [found |-> {}, announce |-> hit]]
  /\ UNCHANGED <<scannerRest, row, processed, published, faults>>

ScanAnnounce(o, r) ==
  /\ r \in scanner[o].announce
  /\ scanner' = [scanner EXCEPT ![o].announce = @ \ {r}]
  /\ published' = published \cup {RunEvent(r, "RUN_TIMED_OUT")}
  /\ UNCHANGED <<scannerRest, dbVars, faults>>

\* The orchestrator dies and restarts: open transactions roll back.
OrchestratorCrash(o) ==
  /\ <<starter[o], handler[o], scanner[o]>> # <<IdleStarter, IdleHandler, IdleScanner>>
  /\ Fault("orchestrator_crash")
  /\ starter' = [starter EXCEPT ![o] = IdleStarter]
  /\ handler' = [handler EXCEPT ![o] = IdleHandler]
  /\ scanner' = [scanner EXCEPT ![o] = IdleScanner]
  /\ UNCHANGED <<queues, userVars, dbVars, workerVars, published>>

-------------------------------------------------------------------------------
(* The workers.  Every statement of a worker is a transaction of its own.   *)

At(w, pc) == worker[w].pc = pc

GoTo(w, pc) == worker' = [worker EXCEPT ![w] = [pc |-> pc, msg |-> @.msg]]

\* The loop drops its message, unacknowledged.
Drop(w) == worker' = [worker EXCEPT ![w] = IdleWorker]

RowOf(w) == row[worker[w].msg.run][worker[w].msg.step]

\* Mutant: the group is read with NOACK, nothing becomes pending.
TakeStepNoAck(w, m) ==
  /\ At(w, "idle") /\ stepQ[m] > 0
  /\ stepQ' = [stepQ EXCEPT ![m] = @ - 1]
  /\ worker' = [worker EXCEPT ![w] = [pc |-> "check", msg |-> m]]
  /\ UNCHANGED <<workerRest, dbVars, stepPel, eventQ, delayed, poller, emitted, faults>>

TakeStep(w, m) ==
  /\ At(w, "idle") /\ stepQ[m] > 0
  /\ stepQ' = [stepQ EXCEPT ![m] = @ - 1]
  /\ stepPel' = [stepPel EXCEPT ![w][m] = @ + 1]
  /\ worker' = [worker EXCEPT ![w] = [pc |-> "check", msg |-> m]]
  /\ UNCHANGED <<workerRest, dbVars, eventQ, delayed, poller, emitted, faults>>

\* The run's status and its cancel key are read before anything else.
CheckCancelled(w) ==
  /\ At(w, "check")
  /\ IF run[worker[w].msg.run] = "CANCELLED" \/ worker[w].msg.run \in cancelKey
     THEN GoTo(w, "ack") ELSE GoTo(w, "claim")
  /\ UNCHANGED <<workerRest, dbVars, stepStream, eventQ, delayed, poller, emitted, faults>>

\* transitionStepRunStatus reads the row (and waits for a transaction that
\* holds it): without a visible row, or on an illegal move, it throws ...
SelectRow(w, to, next) ==
  LET m == worker[w].msg IN
  /\ ~RowLocked(m.run, m.step)
  /\ IF IllegalMove(m.run, m.step, to) THEN Drop(w) ELSE GoTo(w, next)
  /\ UNCHANGED <<workerRest, dbVars, stepStream, eventQ, delayed, poller, emitted, faults>>

\* ... and then updates the row, whatever its status is by now.
UpdateRow(w, new, next) ==
  LET m == worker[w].msg IN
  /\ ~RowLocked(m.run, m.step)
  /\ IF RowOf(w).status = "NONE"
     THEN Drop(w) /\ UNCHANGED row
     ELSE GoTo(w, next) /\ row' = [row EXCEPT ![m.run][m.step] = new]
  /\ UNCHANGED <<workerRest, stepStream, run, processed, eventQ, delayed, poller, emitted,
                 faults>>

ClaimStep(w) == At(w, "claim") /\ SelectRow(w, "RUNNING", "mark")

MarkRunning(w) ==
  At(w, "mark") /\ UpdateRow(w, [RowOf(w) EXCEPT !.status = "RUNNING"], "load")

\* The definition is read through the run: without the run the worker throws.
LoadSpec(w) ==
  /\ At(w, "load")
  /\ IF run[worker[w].msg.run] \in RunStatuses THEN GoTo(w, "execute") ELSE Drop(w)
  /\ UNCHANGED <<workerRest, dbVars, stepStream, eventQ, delayed, poller, emitted, faults>>

\* Mutant: one attempt too many.
ExecuteOnceMore(w) ==
  /\ At(w, "execute")
  /\ \/ GoTo(w, "succeeded")
     \/ GoTo(w, IF worker[w].msg.attempt <= MaxAttempts[worker[w].msg.step]
                THEN "retry" ELSE "failed")
  /\ UNCHANGED <<workerRest, dbVars, stepStream, eventQ, delayed, poller, emitted, faults>>

\* executeStep succeeds, fails with attempts left, or fails for good.
Execute(w) ==
  /\ At(w, "execute")
  /\ \/ GoTo(w, "succeeded")
     \/ GoTo(w, IF worker[w].msg.attempt < MaxAttempts[worker[w].msg.step]
                THEN "retry" ELSE "failed")
  /\ UNCHANGED <<workerRest, dbVars, stepStream, eventQ, delayed, poller, emitted, faults>>

\* STEP_SUCCEEDED or STEP_FAILED is queued.
Report(w) ==
  LET m == worker[w].msg IN
  /\ At(w, "succeeded") \/ At(w, "failed")
  /\ EnqueueEvent(m.run, m.step, At(w, "succeeded"))
  /\ GoTo(w, "ack")
  /\ UNCHANGED <<workerRest, dbVars, stepStream, delayed, poller>>

RetrySelect(w) == At(w, "retry") /\ SelectRow(w, "READY", "reset")

\* Mutant: the row keeps the attempt that failed.
RetryResetSameAttempt(w) ==
  /\ At(w, "reset")
  /\ UpdateRow(w, [status |-> "READY", attempt |-> worker[w].msg.attempt], "delay")

RetryReset(w) ==
  /\ At(w, "reset")
  /\ UpdateRow(w, [status |-> "READY", attempt |-> worker[w].msg.attempt + 1], "delay")

\* Mutant: the worker goes on and reports the failure.
ScheduleRetryAndFail(w) ==
  /\ At(w, "delay")
  /\ delayed' = delayed \cup {[worker[w].msg EXCEPT !.attempt = @ + 1]}
  /\ GoTo(w, "failed")
  /\ UNCHANGED <<workerRest, dbVars, stepStream, eventQ, poller, emitted, faults>>

\* enqueueDelayed; when it fails the failure is logged and the entry is
\* acknowledged all the same.
ScheduleRetry(w) ==
  /\ At(w, "delay")
  /\ \/ delayed' = delayed \cup {[worker[w].msg EXCEPT !.attempt = @ + 1]} /\ UNCHANGED faults
     \/ Fault("retry_loss") /\ UNCHANGED delayed
  /\ GoTo(w, "ack")
  /\ UNCHANGED <<workerRest, dbVars, stepStream, eventQ, poller, emitted>>

AckStep(w) ==
  /\ At(w, "ack")
  /\ stepPel' = [stepPel EXCEPT ![w][worker[w].msg] = @ - 1]
  /\ Drop(w)
  /\ UNCHANGED <<workerRest, dbVars, stepQ, eventQ, delayed, poller, emitted, faults>>

\* The worker dies, or anything it awaits throws.
WorkerFails(w) ==
  /\ ~At(w, "idle")
  /\ Fault("worker_crash") \/ Fault("io_error")
  /\ Drop(w)
  /\ UNCHANGED <<workerRest, dbVars, stepStream, eventQ, delayed, poller, emitted>>

\* pollDelayed: ZREM of a due message ...
PollRemove(w, m) ==
  /\ poller[w] = Nothing /\ m \in delayed
  /\ delayed' = delayed \ {m}
  /\ poller' = [poller EXCEPT ![w] = m]
  /\ UNCHANGED <<workerRest, dbVars, stepStream, eventQ, worker, emitted, faults>>

\* ... and its XADD.
PollEnqueue(w) ==
  /\ poller[w] # Nothing
  /\ EnqueueStep(poller[w])
  /\ poller' = [poller EXCEPT ![w] = Nothing]
  /\ UNCHANGED <<workerRest, dbVars, stepPel, eventQ, delayed, worker, emitted>>

\* The process dies in between, or the XADD fails and the catch is silent.
PollLoses(w) ==
  /\ poller[w] # Nothing
  /\ Fault("poll_loss")
  /\ poller' = [poller EXCEPT ![w] = Nothing]
  /\ UNCHANGED <<workerRest, dbVars, stepStream, eventQ, delayed, worker, emitted>>

-------------------------------------------------------------------------------
(* Users.                                                                   *)

\* Mutant: a run that has ended can be cancelled.
CancelAnyRun(r) ==
  /\ "cancel" \in Environment
  /\ run[r] \in RunStatuses /\ ~RunLocked(r)
  /\ run' = [run EXCEPT ![r] = "CANCELLED"]
  /\ cancelling' = cancelling \cup {r}
  /\ UNCHANGED <<apiRest, runStream, trigger, overdue, cancelKey, published, faults>>

\* POST /runs/:id/cancel: the transition commits ...
CancelRun(r) ==
  /\ "cancel" \in Environment
  /\ <<run[r], "CANCELLED">> \in RunMoves /\ ~RunLocked(r)
  /\ run' = [run EXCEPT ![r] = "CANCELLED"]
  /\ cancelling' = cancelling \cup {r}
  /\ UNCHANGED <<apiRest, runStream, trigger, overdue, cancelKey, published, faults>>

\* ... then the key is set and RUN_CANCELLED is published ...
SignalCancel(r) ==
  /\ r \in cancelling
  /\ cancelling' = cancelling \ {r}
  /\ cancelKey' = cancelKey \cup {r}
  /\ published' = published \cup {RunEvent(r, "RUN_CANCELLED")}
  /\ UNCHANGED <<apiRest, runStream, run, trigger, overdue, faults>>

\* ... unless the API dies first.
SignalCancelFails(r) ==
  /\ r \in cancelling
  /\ Fault("api_crash")
  /\ cancelling' = cancelling \ {r}
  /\ UNCHANGED <<apiRest, runStream, run, trigger, overdue, cancelKey, published>>

\* DELETE /workflows/:id: the run and its step rows go with the workflow.
DeleteWorkflow(r) ==
  /\ "delete" \in Environment
  /\ run[r] \in RunStatuses /\ ~RunLocked(r)
  /\ run' = [run EXCEPT ![r] = "DELETED"]
  /\ row' = [row EXCEPT ![r] = [s \in Steps |-> NoRow]]
  /\ UNCHANGED <<scannerRest, processed, scanner, published, faults>>

-------------------------------------------------------------------------------

TriggerNext ==
  \E r \in Runs :
    \/ CreateRun(r) \/ QueueRun(r) \/ QueueRunFails(r)
    \/ TickQueueRun(r) \/ TickCommit(r) \/ TickRollback(r)

StarterNext(o) ==
  \/ \E r \in Runs : TakeRun(o, r)
  \/ StartRunMissing(o) \/ StartRunSkip(o) \/ StartRunBegin(o)
  \/ \E s \in Steps : StartRunEnqueue(o, s)
  \/ StartRunCommit(o) \/ AckRun(o)

HandlerNext(o) ==
  \/ \E e \in eventQ : TakeEvent(o, e)
  \/ SkipProcessedEvent(o) \/ IgnoreEvent(o) \/ RejectEvent(o) \/ BeginEvent(o)
  \/ \E s \in Steps : EventEnqueue(o, s)
  \/ EventCommit(o) \/ AckEvent(o)

ScannerNext(o) ==
  \/ ScanSelect(o) \/ ScanUpdate(o)
  \/ \E r \in Runs : ScanAnnounce(o, r)

OrchestratorFails(o) ==
  StartRunFails(o) \/ HandleEventFails(o) \/ OrchestratorCrash(o)

WorkerNext(w) ==
  \/ \E m \in StepMsg : TakeStep(w, m)
  \/ CheckCancelled(w) \/ ClaimStep(w) \/ MarkRunning(w) \/ LoadSpec(w)
  \/ Execute(w) \/ Report(w)
  \/ RetrySelect(w) \/ RetryReset(w) \/ ScheduleRetry(w) \/ AckStep(w)

PollerNext(w) ==
  \/ \E m \in delayed : PollRemove(w, m)
  \/ PollEnqueue(w)

UserNext ==
  \E r \in Runs :
    CancelRun(r) \/ SignalCancel(r) \/ SignalCancelFails(r) \/ DeleteWorkflow(r) \/ Expire(r)

Next ==
  \/ TriggerNext
  \/ \E o \in Orchestrators :
       StarterNext(o) \/ HandlerNext(o) \/ ScannerNext(o) \/ OrchestratorFails(o)
  \/ \E w \in Workers :
       WorkerNext(w) \/ PollerNext(w) \/ WorkerFails(w) \/ PollLoses(w)
  \/ UserNext

Spec == Init /\ [][Next]_vars

\* Every loop keeps running, a request that has committed goes on to its
\* end.  Nothing is assumed of users, of new requests, of timeouts and
\* of faults.
Fairness ==
  /\ \A r \in Runs : WF_vars(QueueRun(r)) /\ WF_vars(TickCommit(r))
  /\ \A o \in Orchestrators :
       WF_vars(StarterNext(o)) /\ WF_vars(HandlerNext(o)) /\ WF_vars(ScannerNext(o))
  /\ \A w \in Workers : WF_vars(WorkerNext(w)) /\ WF_vars(PollerNext(w))

FairSpec == Spec /\ Fairness

-------------------------------------------------------------------------------
(* Types.                                                                   *)

RowType ==
  [status: StepStatuses, attempt: 1..AttemptLimit] \cup {NoRow}

StarterType ==
  [pc: {"idle", "got", "txn", "ack"}, run: Runs \cup {Nothing}, todo: SUBSET Steps]

HandlerType ==
  [pc: {"idle", "got", "txn", "ack"}, event: EventMsg \cup {Nothing},
   verdict: {"OPEN", "SUCCEEDED", "FAILED"}, fresh: SUBSET Steps, todo: SUBSET Steps]

WorkerPcs == {"idle", "check", "claim", "mark", "load", "execute", "succeeded", "failed",
              "retry", "reset", "delay", "ack"}

DbTypes ==
  /\ run \in [Runs -> RunStatuses \cup {"NONE", "DELETED"}]
  /\ row \in [Runs -> [Steps -> RowType]]
  /\ processed \subseteq Runs \X Steps \X Nat

StreamTypes ==
  /\ runQ \in [Runs -> Nat] /\ runPel \in [Orchestrators -> [Runs -> Nat]]
  /\ stepQ \in [StepMsg -> Nat] /\ stepPel \in [Workers -> [StepMsg -> Nat]]
  /\ eventQ \subseteq EventMsg /\ eventPel \subseteq EventMsg
  /\ delayed \subseteq StepMsg

\* A loop holds a message exactly while it is not idle.
OrchestratorTypes ==
  /\ starter \in [Orchestrators -> StarterType]
  /\ handler \in [Orchestrators -> HandlerType]
  /\ scanner \in [Orchestrators -> [found: SUBSET Runs, announce: SUBSET Runs]]
  /\ \A o \in Orchestrators : starter[o].pc = "idle" <=> starter[o].run = Nothing
  /\ \A o \in Orchestrators : handler[o].pc = "idle" <=> handler[o].event = Nothing

WorkerTypes ==
  /\ worker \in [Workers -> [pc: WorkerPcs, msg: StepMsg \cup {Nothing}]]
  /\ poller \in [Workers -> StepMsg \cup {Nothing}]
  /\ emitted \in [Runs -> [Steps -> Nat]]
  /\ \A w \in Workers : worker[w].pc = "idle" <=> worker[w].msg = Nothing

RequestTypes ==
  /\ trigger \in [Runs -> {"new", "created", "inserted", "done"}]
  /\ overdue \subseteq Runs /\ cancelling \subseteq Runs /\ cancelKey \subseteq Runs
  /\ published \subseteq Runs \X {"RUN_STARTED", "RUN_SUCCEEDED", "RUN_FAILED",
                                  "RUN_CANCELLED", "RUN_TIMED_OUT"}

FaultTypes == [count: 0..MaxFaults, repeated: BOOLEAN]

\* Every variable keeps its type, and no more faults happen than allowed.
TypeOK ==
  DbTypes /\ StreamTypes /\ OrchestratorTypes /\ WorkerTypes /\ RequestTypes
    /\ faults \in FaultTypes

=============================================================================
