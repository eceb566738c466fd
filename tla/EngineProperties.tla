--------------------------- MODULE EngineProperties ---------------------------
(***************************************************************************)
(* What the execution core promises, and what the repository's documents   *)
(* and comments say of it that the code does not keep.                     *)
(***************************************************************************)
EXTENDS Engine

Settled(r, s) == row[r][s].status \in CompletedStatuses

\* Step s of run r no longer holds up the steps after it.
Passed(r, s) ==
  \/ row[r][s].status = "SUCCEEDED"
  \/ row[r][s].status = "FAILED" /\ s \in ContinueOnFailure

-------------------------------------------------------------------------------
(* Dispatch follows the definition.                                         *)

\* As long as no XADD is duplicated a step has a row only when every step it
\* depends on has succeeded, or has failed with continue_on_failure: that is when
\* startRun and handleStepEvent insert it, and no late UPDATE undoes it.
DependenciesFirst ==
  ~faults.repeated => \A r \in Runs, s \in Steps :
    row[r][s].status # "NONE" => \A d \in DependsOn[s] : Passed(r, d)

\* As long as no XADD is duplicated a run is SUCCEEDED only when every one of its
\* steps has passed: no branch is still running, none is missing, and no late
\* UPDATE of a worker reopens a step after handleStepEvent has closed the run.
SucceededIsComplete ==
  ~faults.repeated => \A r \in Runs : run[r] = "SUCCEEDED" => \A s \in Steps : Passed(r, s)

\* The last event of a join is never lost on its sibling: in a RUNNING run
\* every step whose dependencies are settled has its row, and some step is
\* still unsettled, so that an event is yet to come that will close the run.
NothingStranded ==
  \A r \in Runs : run[r] = "RUNNING" =>
    /\ \A s \in Steps : (\A d \in DependsOn[s] : Settled(r, d)) => row[r][s].status # "NONE"
    /\ \E s \in Steps : row[r][s].status # "NONE" /\ ~Settled(r, s)

\* Once a run has ended no transaction adds a step to it, whatever the order
\* of cancel, timeout and late events.
NoStepAddedAfterEnd ==
  [][\A r \in Runs, s \in Steps :
       run[r] \in TerminalStatuses /\ row[r][s].status = "NONE" => row'[r][s].status = "NONE"]_row

-------------------------------------------------------------------------------
(* One carrier per step: what makes unlocked worker updates safe.           *)

Carries(w, r, s) ==
  /\ worker[w].pc \notin {"idle", "ack"}
  /\ worker[w].msg.run = r /\ worker[w].msg.step = s

\* Who may still make step s of run r move: a queued or delayed message, a
\* poll or a worker that holds one, or an event not yet processed.
Carriers(r, s) ==
  {<<"queued", a>> : a \in {a \in 1..AttemptLimit :
                              stepQ[[run |-> r, step |-> s, attempt |-> a]] > 0}}
    \cup {<<"delayed", m.attempt>> : m \in {m \in delayed : m.run = r /\ m.step = s}}
    \cup {<<"poll", w>> : w \in {w \in Workers :
                              poller[w] # Nothing /\ poller[w].run = r /\ poller[w].step = s}}
    \cup {<<"worker", w>> : w \in {w \in Workers : Carries(w, r, s)}}
    \cup {<<"event", e.uuid>> :
            e \in {e \in eventQ \cup {handler[o].event :
                                        o \in {o \in Orchestrators :
                                                 handler[o].pc \in {"got", "txn"}}} :
                     /\ e.run = r /\ e.step = s
                     /\ EventId(e) \notin processed}}

\* As long as no XADD is duplicated, at most one message, worker or
\* event is in charge of a step at any time: the unlocked SELECT and UPDATE of
\* a worker never race with another writer of the same row.
OneCarrier ==
  ~faults.repeated =>
    /\ \A r \in Runs, s \in Steps : \A x, y \in Carriers(r, s) : x = y
    /\ \A m \in StepMsg : stepQ[m] <= 1

\* Worker w has claimed step s of run r and still works on it.
Executes(w, r, s) ==
  /\ worker[w].pc \in {"load", "execute", "succeeded", "failed", "retry", "reset"}
  /\ worker[w].msg.run = r /\ worker[w].msg.step = s

\* A step is never given more attempts than max_attempts; and as long as no XADD
\* is duplicated, what a worker executes is the attempt its row records
\* (unless the workflow was deleted under it).
AttemptsAgree ==
  \A r \in Runs, s \in Steps :
    /\ row[r][s].attempt <= MaxAttempts[s]
    /\ \A w \in Workers : Executes(w, r, s) /\ run[r] # "DELETED" /\ ~faults.repeated =>
         row[r][s] = [status |-> "RUNNING", attempt |-> worker[w].msg.attempt]

\* As long as no XADD is duplicated, a settled step row is never
\* written again, and otherwise the rows follow the moves of
\* transitionStepRunStatus although its SELECT and its UPDATE are separate
\* statements on a worker's connection.
RowsFollowMoves ==
  [][~faults.repeated => \A r \in Runs, s \in Steps :
       \/ row'[r][s] = row[r][s]
       \/ run'[r] = "DELETED"
       \/ row[r][s] = NoRow /\ row'[r][s] = FirstRow
       \/ /\ <<row[r][s].status, row'[r][s].status>> \in StepMoves
          /\ row'[r][s].attempt = row[r][s].attempt + (IF row'[r][s].status = "READY" THEN 1 ELSE 0)
    ]_row

-------------------------------------------------------------------------------
(* Lost work.                                                               *)

PendingEntry(r, s) ==
  \E w \in Workers, m \in StepMsg : m.run = r /\ m.step = s /\ stepPel[w][m] > 0

PendingEvent(r, s) == \E e \in eventPel : e.run = r /\ e.step = s

\* Unless a failed ZADD or XADD was swallowed, a step of a RUNNING run that
\* nothing carries any more has left an unacknowledged entry behind: the
\* acknowledgements never come before the effect they stand for.
LostWorkIsPending ==
  \A r \in Runs, s \in Steps :
    run[r] = "RUNNING" /\ row[r][s].status # "NONE" /\ ~Settled(r, s) =>
      Carriers(r, s) # {} \/ PendingEntry(r, s) \/ PendingEvent(r, s)

-------------------------------------------------------------------------------
(* The status of a run.                                                     *)

\* Whoever writes runs.status (both loops, cancel, the scanner), the status
\* moves along VALID_RUN_TRANSITIONS, except that the scanner may turn any
\* ended run into TIMED_OUT.
RunsFollowMoves ==
  [][\A r \in Runs :
       \/ run'[r] = run[r] \/ run'[r] = "DELETED"
       \/ run[r] = "NONE" /\ run'[r] = "PENDING"
       \/ <<run[r], run'[r]>> \in RunMoves
       \/ run[r] \in TerminalStatuses /\ run'[r] = "TIMED_OUT"]_run

Ended(r) == run[r] \in TerminalStatuses \cup {"DELETED"}

\* A run past its timeout ends, whatever crashes or is lost: its own events end
\* it, or the scanner does.
OverdueRunEnds == \A r \in Runs : r \in overdue ~> Ended(r)

\* When nothing fails a run that a user triggers does not stay PENDING.
TriggeredRunStarts ==
  [](faults.count = 0) => \A r \in Runs \ Scheduled : run[r] = "PENDING" ~> run[r] # "PENDING"

\* A worker has reported an outcome of run r that its rows do not show yet.
Unrecorded(r) == ~Ended(r) /\ \E s \in Steps : emitted[r][s] > 0 /\ ~Settled(r, s)

\* When nothing fails every outcome a worker reports is recorded, unless the run
\* ended first.
ReportIsRecorded ==
  [](faults.count = 0) => \A r \in Runs : Unrecorded(r) ~> ~Unrecorded(r)

-------------------------------------------------------------------------------
(* The abstract specification.                                              *)

\* A step with a row that is not settled is active, whatever its attempt.
AbstractStep(r, s) ==
  IF row[r][s].status \in {"PENDING", "READY", "RUNNING"} THEN "ACTIVE" ELSE row[r][s].status

Lifecycle ==
  INSTANCE RunLifecycle WITH
    status <- run, step <- [r \in Runs |-> [s \in Steps |-> AbstractStep(r, s)]]

\* Through transactions, unlocked worker updates, retries, lost messages and
\* crashes, runs and steps move as RunLifecycle says: the outcome of a step,
\* the steps it makes ready and the end of the run become visible at once.
ImplementsLifecycle == Lifecycle!Spec

-------------------------------------------------------------------------------
(* What documents and comments say, and the code does not keep.             *)

\* requirements.md 1.2 and design.md property 5: no transition leaves a
\* terminal status.  The scanner's UPDATE does not look at the status again.
TerminalIsFinal ==
  [][\A r \in Runs :
       run[r] \in TerminalStatuses => run'[r] = run[r] \/ run'[r] = "DELETED"]_run

\* An entry that orchestrator o got and no longer works on.
UnackedRun(o, r) == runPel[o][r] > (IF starter[o].run = r THEN 1 ELSE 0)

\* The comment of orchestrator/src/index.ts on its catch: the entry of a run
\* that could not be started will be retried.  The group never delivers it again.
UnackedRunIsRetried ==
  \A o \in Orchestrators, r \in Runs : UnackedRun(o, r) ~> ~UnackedRun(o, r)

\* requirements.md 5.5: a step run is executed by one worker at a time, with any
\* number of replicas.  Two workers with a copy each of a step's entry both read
\* READY before either of them writes RUNNING.
OneWorkerAtATime ==
  \A r \in Runs, s \in Steps : \A v, w \in Workers :
    At(v, "execute") /\ Executes(v, r, s) /\ At(w, "execute") /\ Executes(w, r, s) => v = w

=============================================================================
