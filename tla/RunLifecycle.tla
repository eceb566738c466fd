----------------------------- MODULE RunLifecycle -----------------------------
(***************************************************************************)
(* What the execution core promises about runs, without queues, workers,   *)
(* transactions or retries: a run is started with the steps that depend on *)
(* nothing, each outcome of an active step is recorded together with the   *)
(* steps it makes ready or with the end of the run, and a run may be       *)
(* cancelled, timed out or deleted in between.  Engine implements it.      *)
(***************************************************************************)
EXTENDS FlowForge

CONSTANTS Runs, Steps, DependsOn, ContinueOnFailure

VARIABLES
  status,   \* status of each run, "NONE" before it exists, "DELETED" after
  step      \* "NONE", "ACTIVE", "SUCCEEDED" or "FAILED", for each step of each run

vars == <<status, step>>

Init ==
  /\ status = [r \in Runs |-> "NONE"]
  /\ step = [r \in Runs |-> [s \in Steps |-> "NONE"]]

Create(r) ==
  /\ status[r] = "NONE"
  /\ status' = [status EXCEPT ![r] = "PENDING"]
  /\ UNCHANGED step

\* startRun: the steps without dependencies become active.
Start(r) ==
  /\ status[r] = "PENDING"
  /\ status' = [status EXCEPT ![r] = "RUNNING"]
  /\ step' = [step EXCEPT ![r] = [s \in Steps |->
                IF s \in ReadySet(DependsOn, {}) THEN "ACTIVE" ELSE "NONE"]]

Completed(r) == {s \in Steps : step[r][s] \in {"SUCCEEDED", "FAILED"}}

\* handleStepEvent: a step ends for good, and the run goes on, ends or fails.
Settle(r, s, outcome) ==
  LET ready == ReadySet(DependsOn, Completed(r) \cup {s})
      fails == outcome = "FAILED" /\ s \notin ContinueOnFailure
  IN
  /\ status[r] = "RUNNING" /\ step[r][s] = "ACTIVE"
  /\ status' = [status EXCEPT ![r] =
                  IF fails THEN "FAILED"
                  ELSE IF Completed(r) \cup {s} = Steps THEN "SUCCEEDED" ELSE "RUNNING"]
  /\ step' = [step EXCEPT ![r] = [t \in Steps |->
                IF t = s THEN outcome
                ELSE IF ~fails /\ t \in ready /\ @[t] = "NONE" THEN "ACTIVE" ELSE @[t]]]

Cancel(r) ==
  /\ status[r] \in {"PENDING", "RUNNING"}
  /\ status' = [status EXCEPT ![r] = "CANCELLED"]
  /\ UNCHANGED step

\* One statement of the scanner ends several runs, some of which may have
\* ended otherwise since it chose them.
TimeOut(S) ==
  /\ \A r \in S : status[r] \in {"RUNNING"} \cup TerminalStatuses
  /\ status' = [r \in Runs |-> IF r \in S THEN "TIMED_OUT" ELSE status[r]]
  /\ UNCHANGED step

Delete(r) ==
  /\ status[r] \in RunStatuses
  /\ status' = [status EXCEPT ![r] = "DELETED"]
  /\ step' = [step EXCEPT ![r] = [s \in Steps |-> "NONE"]]

Next ==
  \/ \E r \in Runs :
       \/ Create(r) \/ Start(r) \/ Cancel(r) \/ Delete(r)
       \/ \E s \in Steps, outcome \in {"SUCCEEDED", "FAILED"} : Settle(r, s, outcome)
  \/ \E S \in SUBSET Runs : TimeOut(S)

Spec == Init /\ [][Next]_vars

=============================================================================
