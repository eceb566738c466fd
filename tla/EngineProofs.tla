----------------------------- MODULE EngineProofs -----------------------------
(***************************************************************************)
(* Theorems about Engine, for every definition, any number of runs, steps, *)
(* workers and orchestrators: those that follow from the two invariants of *)
(* EngineInvariant, the refinement of RunLifecycle, and what becomes of    *)
(* lost work.                                                              *)
(***************************************************************************)
EXTENDS EngineInvariant

USE DEF dbVars, runStream, stepStream, eventStream, queues, orchVars, workerVars, userVars,
        starterRest, handlerRest, scannerRest, workerRest, apiRest

-------------------------------------------------------------------------------
(* What a transaction may rely on.                                          *)

\* Type correctness: in particular attempts stay within the schema's bound and
\* no consumer acknowledges an entry that is not pending.
THEOREM TypeCorrect == Spec => []TypeOK
BY Invariance, PTL DEF IndInv

\* The status of a run moves along VALID_RUN_TRANSITIONS whoever writes it, but
\* for the scanner, which may turn an ended run into TIMED_OUT: no transaction
\* resurrects a run, starts it twice or ends it before it has started.
THEOREM RunsMove == Spec => RunsFollowMoves
<1>1. IndInv /\ [Next]_vars =>
        [\A r \in Runs :
           \/ run'[r] = run[r] \/ run'[r] = "DELETED"
           \/ run[r] = "NONE" /\ run'[r] = "PENDING"
           \/ <<run[r], run'[r]>> \in RunMoves
           \/ run[r] \in TerminalStatuses /\ run'[r] = "TIMED_OUT"]_run
  BY RunMovesStep
<1>2. QED
  BY <1>1, Invariance, PTL DEF Spec, RunsFollowMoves

\* A step gives no row to a step of a run that has ended.
LEMMA NoStepAddedStep ==
  ASSUME IndInv, [Next]_vars, NEW r \in Runs, NEW s \in Steps,
         run[r] \in TerminalStatuses, row[r][s].status = "NONE"
  PROVE  row'[r][s].status = "NONE"
<1> USE DEF IndInv, TypeOK, DbTypes
<1>1. CASE \E q \in Runs : DeleteWorkflow(q)
  BY <1>1 DEF DeleteWorkflow, NoRow
<1>2. CASE \E o \in Orchestrators : StartRunCommit(o)
  BY <1>2 DEF StartRunCommit, TxnInv, TerminalStatuses
<1>3. CASE \E o \in Orchestrators : EventCommit(o)
  BY <1>3 DEF EventCommit, TxnInv, TerminalStatuses
<1>4. CASE \E w \in Workers : MarkRunning(w) \/ RetryReset(w)
  <2>1. PICK w \in Workers : MarkRunning(w) \/ RetryReset(w)
    BY <1>4
  <2>2. worker[w].msg.run \in Runs /\ worker[w].msg.step \in Steps
    BY <2>1, Held DEF MarkRunning, RetryReset, At
  <2>3. \/ UNCHANGED row
        \/ \E new : /\ row[worker[w].msg.run][worker[w].msg.step].status # "NONE"
                    /\ row' = [row EXCEPT ![worker[w].msg.run][worker[w].msg.step] = new]
    BY <2>1 DEF MarkRunning, RetryReset, UpdateRow, RowOf
  <2>4. CASE UNCHANGED row
    BY <2>4
  <2>5. ASSUME NEW new, row[worker[w].msg.run][worker[w].msg.step].status # "NONE",
               row' = [row EXCEPT ![worker[w].msg.run][worker[w].msg.step] = new]
        PROVE  row'[r][s] = row[r][s]
    BY <2>2, <2>5
  <2>6. QED
    BY <2>3, <2>4, <2>5
<1>5. QED
  BY <1>1, <1>2, <1>3, <1>4, RowWriters

\* Once a run has ended no step joins it: the transaction that would add one
\* has read RUNNING under the lock of the run and keeps the lock to its end.
THEOREM EndedRunsKeepTheirSteps == Spec => NoStepAddedAfterEnd
<1>1. IndInv /\ [Next]_vars =>
        [\A r \in Runs, s \in Steps :
           run[r] \in TerminalStatuses /\ row[r][s].status = "NONE" =>
             row'[r][s].status = "NONE"]_row
  BY NoStepAddedStep
<1>2. QED
  BY <1>1, Invariance, PTL DEF Spec, NoStepAddedAfterEnd

-------------------------------------------------------------------------------
(* What follows.                                                            *)

\* As long as no XADD is repeated one message, worker or event at most
\* is in charge of a step, whatever crashes, fails or is lost meanwhile.
THEOREM StepsHaveOneCarrier ==
  Spec => []OneCarrier
<1>1. IndInv /\ (~faults.repeated => CarrierInv) => OneCarrier
  BY DEF CarrierInv, AtMostOne, OneCarrier
<1>2. QED
  BY <1>1, CarrierInvariance, PTL

\* No row is ever given more attempts than max_attempts.
LEMMA AttemptsBounded ==
  /\ Init => \A r \in Runs, s \in Steps : row[r][s].attempt <= MaxAttempts[s]
  /\ IndInv /\ (\A r \in Runs, s \in Steps : row[r][s].attempt <= MaxAttempts[s]) /\ [Next]_vars =>
       (\A r \in Runs, s \in Steps : row[r][s].attempt <= MaxAttempts[s])'
<1>0. \A s \in Steps : MaxAttempts[s] \in Nat /\ 1 <= MaxAttempts[s]
  BY ConstantsAssumption
<1>1. Init => \A r \in Runs, s \in Steps : row[r][s].attempt <= MaxAttempts[s]
  BY <1>0 DEF Init, NoRow
<1>2. ASSUME IndInv, [Next]_vars, NEW r \in Runs, NEW s \in Steps, row[r][s].attempt <= MaxAttempts[s]
      PROVE  row'[r][s].attempt <= MaxAttempts[s]
  <2>1. CASE row'[r][s] \in {row[r][s], NoRow, FirstRow}
    BY <1>0, <1>2, <2>1 DEF NoRow, FirstRow
  <2>2. ASSUME NEW new, row'[r][s] = [row[r][s] EXCEPT !.status = new]
        PROVE  row'[r][s].attempt = row[r][s].attempt
    <3>1. row[r][s] \in RowType
      BY <1>2 DEF IndInv, TypeOK, DbTypes
    <3>2. QED
      BY <2>2, <3>1 DEF RowType, NoRow
  <2>3. ASSUME NEW w \in Workers, RetryReset(w), WorksOn(w, r, s),
               row'[r][s] = [status |-> "READY", attempt |-> worker[w].msg.attempt + 1]
        PROVE  row'[r][s].attempt <= MaxAttempts[s]
    <3>1. worker[w].msg.attempt < MaxAttempts[s] /\ worker[w].msg.attempt \in Nat
      BY <1>2, <2>3, Held DEF RetryReset, At, WorksOn, IndInv, RetryInv
    <3>2. QED
      BY <1>0, <2>3, <3>1
  <2>4. CASE \E o \in Orchestrators :
               /\ Settles(o, r, s)
               /\ row'[r][s] = [row[r][s] EXCEPT !.status = StatusAfter(handler[o].event)]
    BY <1>2, <2>2, <2>4
  <2>5. CASE \E w \in Workers :
               /\ MarkRunning(w) /\ WorksOn(w, r, s) /\ row[r][s].status # "NONE"
               /\ row'[r][s] = [row[r][s] EXCEPT !.status = "RUNNING"]
    BY <1>2, <2>2, <2>5
  <2>6. QED
    BY <1>2, <2>1, <2>3, <2>4, <2>5, RowChanges
<1>3. QED
  BY <1>1, <1>2

\* What a worker executes is the attempt that its row records, unless the workflow
\* was deleted under it, and no row exceeds max_attempts.
THEOREM WorkersAgreeWithRows ==
  Spec => []AttemptsAgree
<1> DEFINE Bounded == \A r \in Runs, s \in Steps : row[r][s].attempt <= MaxAttempts[s]
<1>1. Spec => []Bounded
  <2> HIDE DEF Bounded
  <2>1. /\ Init => Bounded
        /\ IndInv /\ Bounded /\ [Next]_vars => Bounded'
    BY AttemptsBounded DEF Bounded
  <2>2. QED
    BY <2>1, Invariance, PTL DEF Spec
<1>2. ASSUME IndInv, ~faults.repeated => CarrierInv, Bounded
      PROVE  AttemptsAgree
  <2>1. ASSUME NEW r \in Runs, NEW s \in Steps, NEW w \in Workers, Executes(w, r, s),
               run[r] # "DELETED", ~faults.repeated
        PROVE  row[r][s] = [status |-> "RUNNING", attempt |-> worker[w].msg.attempt]
    BY <1>2, <2>1 DEF CarrierInv, RowsFit, WorkerFits, RowIs, Executes
  <2>2. QED
    BY <1>2, <2>1 DEF AttemptsAgree
<1> HIDE DEF Bounded
<1>3. QED
  BY <1>1, <1>2, CarrierInvariance, PTL

\* Rows move as transitionStepRunStatus allows, although a worker's SELECT and
\* UPDATE are two statements without a lock: nobody else moves the row in between.
THEOREM RowsMove ==
  Spec => RowsFollowMoves
<1>1. ASSUME IndInv, CarrierInv, [Next]_vars, NEW r \in Runs, NEW s \in Steps
      PROVE  \/ row'[r][s] = row[r][s]
             \/ run'[r] = "DELETED"
             \/ row[r][s] = NoRow /\ row'[r][s] = FirstRow
             \/ /\ <<row[r][s].status, row'[r][s].status>> \in StepMoves
                /\ row'[r][s].attempt =
                     row[r][s].attempt + (IF row'[r][s].status = "READY" THEN 1 ELSE 0)
  <2> DEFINE Moves == /\ <<row[r][s].status, row'[r][s].status>> \in StepMoves
                      /\ row'[r][s].attempt =
                           row[r][s].attempt + (IF row'[r][s].status = "READY" THEN 1 ELSE 0)
  <2>0. RowsFit /\ RowsExist /\ TxnFresh /\ row[r][s].attempt \in Nat
    BY <1>1 DEF CarrierInv, IndInv, TypeOK, DbTypes, RowType, NoRow
  <2>1. ASSUME NEW o \in Orchestrators, row[r][s].status = "RUNNING",
               row'[r][s] = [status |-> StatusAfter(handler[o].event), attempt |-> row[r][s].attempt]
        PROVE  Moves
    BY <2>0, <2>1, Verdicts DEF StepMoves
  <2>2. ASSUME NEW a \in Nat, row[r][s] = [status |-> "READY", attempt |-> a],
               row'[r][s] = [status |-> "RUNNING", attempt |-> a]
        PROVE  Moves
    BY <2>2 DEF StepMoves
  <2>3. ASSUME NEW a \in Nat, row[r][s] = [status |-> "RUNNING", attempt |-> a],
               row'[r][s] = [status |-> "READY", attempt |-> a + 1]
        PROVE  Moves
    BY <2>3 DEF StepMoves
  <2>4. \A w \in Workers : MarkRunning(w) \/ RetryReset(w) => worker[w].msg.attempt \in Nat
    BY <1>1, Held DEF IndInv, MarkRunning, RetryReset, At
  <2> HIDE DEF Moves
  <2>5. CASE \E o \in Orchestrators :
               /\ Settles(o, r, s) /\ <<"event", handler[o].event.uuid>> \in Carriers(r, s)
               /\ row[r][s].status = "RUNNING"
               /\ row'[r][s] = [status |-> StatusAfter(handler[o].event), attempt |-> row[r][s].attempt]
    BY <2>1, <2>5 DEF Moves
  <2>6. CASE \E w \in Workers :
               /\ MarkRunning(w) /\ WorksOn(w, r, s) /\ <<"worker", w>> \in Carriers(r, s)
               /\ row[r][s] = [status |-> "READY", attempt |-> worker[w].msg.attempt]
               /\ row'[r][s] = [status |-> "RUNNING", attempt |-> worker[w].msg.attempt]
    BY <2>2, <2>4, <2>6 DEF Moves
  <2>7. CASE \E w \in Workers :
               /\ RetryReset(w) /\ WorksOn(w, r, s) /\ <<"worker", w>> \in Carriers(r, s)
               /\ row[r][s] = [status |-> "RUNNING", attempt |-> worker[w].msg.attempt]
               /\ row'[r][s] = [status |-> "READY", attempt |-> worker[w].msg.attempt + 1]
    BY <2>3, <2>4, <2>7 DEF Moves
  <2>8. QED
    BY <1>1, <2>0, <2>5, <2>6, <2>7, RowMoves DEF Moves
<1>2. IndInv /\ (~faults.repeated => CarrierInv) /\ [Next]_vars =>
        [~faults.repeated => \A r \in Runs, s \in Steps :
           \/ row'[r][s] = row[r][s]
           \/ run'[r] = "DELETED"
           \/ row[r][s] = NoRow /\ row'[r][s] = FirstRow
           \/ /\ <<row[r][s].status, row'[r][s].status>> \in StepMoves
              /\ row'[r][s].attempt =
                   row[r][s].attempt + (IF row'[r][s].status = "READY" THEN 1 ELSE 0)]_row
  BY <1>1
<1>3. QED
  BY <1>2, CarrierInvariance, PTL DEF Spec, RowsFollowMoves

\* Until an XADD is repeated a step is given its row only after all of its
\* dependencies have succeeded, or failed with continue_on_failure.
THEOREM StepsFollowDependencies == Spec => []DependenciesFirst
<1>1. (~faults.repeated => CarrierInv) => DependenciesFirst
  BY DEF CarrierInv, RowsInOrder, DependenciesFirst
<1>2. QED
  BY <1>1, CarrierInvariance, PTL

\* Until an XADD is repeated a run is SUCCEEDED only with every step passed, by
\* however many workers and orchestrators.
THEOREM SuccessIsComplete == Spec => []SucceededIsComplete
<1>1. (~faults.repeated => CarrierInv) => SucceededIsComplete
  BY DEF CarrierInv, EndsComplete, SucceededIsComplete
<1>2. QED
  BY <1>1, CarrierInvariance, PTL

\* No XADD is repeated at all.
OnceOnly == Faults \cap Resends = {}

\* Then the invariant holds throughout.
LEMMA AlwaysCarried ==
  ASSUME OnceOnly
  PROVE  Spec => [](IndInv /\ CarrierInv)
<1>1. Init => ~faults.repeated
  BY DEF Init
<1>2. ASSUME ~faults.repeated, [Next]_vars
      PROVE  (~faults.repeated)'
  <2>1. ASSUME NEW kind \in Faults, Fault(kind)
        PROVE  ~faults'.repeated
    <3>1. faults'.repeated = (faults.repeated \/ kind \in Resends)
      BY <2>1 DEF Fault
    <3>2. QED
      BY <1>2, <3>1 DEF OnceOnly
  <2>2. QED
    BY <1>2, <2>1, FaultsSeen
<1>3. Spec => [](IndInv /\ (~faults.repeated => CarrierInv))
  BY CarrierInvariance DEF OnceOnly
<1>4. QED
  BY <1>1, <1>2, <1>3, PTL DEF Spec

-------------------------------------------------------------------------------
(* No branch is stranded, whatever fails or is repeated: a row may lose its *)
(* settled status to a late UPDATE, but it gets it only from the commit of  *)
(* an event, which the lock of the run puts in order with the decisions.    *)

\* What a transaction that leaves its run open has decided covers every step that
\* is ready when it commits, and leaves a step to wait for.
Decided ==
  \A o \in Orchestrators : handler[o].pc = "txn" /\ handler[o].verdict = "OPEN" =>
    LET e == handler[o].event IN
    /\ \A s \in Steps :
         /\ row[e.run][s].status = "NONE"
         /\ \A d \in DependsOn[s] : d = e.step \/ Settled(e.run, d)
         => s \in handler[o].fresh
    /\ \E s \in Steps : s # e.step /\ ~Settled(e.run, s)

\* The steps of a RUNNING run that are ready have their rows, and one is not settled.
Goes(r) ==
  /\ \A s \in Steps : (\A d \in DependsOn[s] : Settled(r, d)) => row[r][s].status # "NONE"
  /\ \E s \in Steps : ~Settled(r, s)

StrandInv == Decided /\ \A r \in Runs : run[r] = "RUNNING" => Goes(r)

\* Among the steps that are not settled one depends on settled ones only.
LEMMA SomethingLeft == StrandInv => NothingStranded
<1> SUFFICES ASSUME NEW r \in Runs, Goes(r)
             PROVE  \E s \in Steps : row[r][s].status # "NONE" /\ ~Settled(r, s)
  BY DEF StrandInv, Goes, NothingStranded
<1> DEFINE S == {s \in Steps : ~Settled(r, s)}
<1>1. PICK s \in S : DependsOn[s] \cap S = {}
  <2>1. S # {} /\ S \in SUBSET Steps
    BY DEF Goes
  <2>2. QED
    BY <2>1, ValidatedDefinition
<1>2. \A d \in DependsOn[s] : Settled(r, d)
  BY <1>1, ConstantsAssumption
<1>3. QED
  BY <1>1, <1>2 DEF Goes

\* Of the rows that stay, those that are settled are settled already or by the
\* commit of their event, and none is taken back.
LEMMA RowsStay ==
  ASSUME IndInv, [Next]_vars, NEW r \in Runs, NEW s \in Steps, run'[r] # "DELETED"
  PROVE  /\ Settled(r, s)' => Settled(r, s) \/ \E o \in Orchestrators : Settles(o, r, s)
         /\ row[r][s].status # "NONE" => row'[r][s].status # "NONE"
<1>0. ASSUME NEW o \in Orchestrators, Settles(o, r, s)
      PROVE  row'[r][s].status = StatusAfter(handler[o].event)
  <2>1. row'[r][s] = [status |-> StatusAfter(handler[o].event), attempt |-> row[r][s].attempt]
    BY <1>0, CommitSettles
  <2>2. QED
    BY <2>1
<1> USE DEF IndInv, TypeOK, DbTypes
<1>1. CASE UNCHANGED row \/ \E q \in Runs : DeleteWorkflow(q)
  BY <1>1 DEF DeleteWorkflow, Settled
<1>2. CASE \E o \in Orchestrators : StartRunCommit(o)
  <2>1. PICK o \in Orchestrators : StartRunCommit(o)
    BY <1>2
  <2>2. CASE starter[o].run = r
    <3>1. row'[r][s] = FirstRow \/ row'[r][s] = NoRow
      BY <2>1, <2>2, StartDispatches
    <3>2. row[r][s] = NoRow
      BY <2>1, <2>2 DEF StartRunCommit, TxnInv, RowInv
    <3>3. QED
      BY <3>1, <3>2 DEF NoRow, FirstRow, Settled, CompletedStatuses
  <2>3. CASE starter[o].run # r
    BY <2>1, <2>3 DEF StartRunCommit, Settled
  <2>4. QED
    BY <2>2, <2>3
<1>3. CASE \E o \in Orchestrators : EventCommit(o)
  <2>1. PICK o \in Orchestrators : EventCommit(o)
    BY <1>3
  <2> DEFINE e == handler[o].event
  <2>2. CASE e.run # r
    BY <2>1, <2>2 DEF EventCommit, Settled
  <2>3. CASE e.run = r /\ e.step = s
    <3>1. row'[r][s].status = StatusAfter(e)
      BY <1>0, <2>1, <2>3 DEF Settles
    <3>2. QED
      BY <2>1, <2>3, <3>1, Verdicts DEF Settles
  <2>4. CASE e.run = r /\ e.step # s
    <3>1. row'[r][s] = row[r][s] \/ row'[r][s] = FirstRow
      BY <2>1, <2>4 DEF EventCommit
    <3>2. QED
      BY <3>1 DEF FirstRow, Settled, CompletedStatuses
  <2>5. QED
    BY <2>2, <2>3, <2>4
<1>4. CASE \E w \in Workers : MarkRunning(w) \/ RetryReset(w)
  <2>1. PICK w \in Workers : MarkRunning(w) \/ RetryReset(w)
    BY <1>4
  <2>2. \/ row'[r][s] = row[r][s]
        \/ row'[r][s].status \in {"RUNNING", "READY"}
    <3>1. CASE RetryReset(w)
      BY <3>1 DEF RetryReset, UpdateRow
    <3>2. CASE MarkRunning(w) /\ RowOf(w).status # "NONE"
      <4>1. RowOf(w) \in RowType
        BY <3>2, Held DEF MarkRunning, At, RowOf
      <4>2. [RowOf(w) EXCEPT !.status = "RUNNING"].status = "RUNNING"
        BY <4>1 DEF RowType, NoRow
      <4>3. row' = [row EXCEPT ![worker[w].msg.run][worker[w].msg.step] =
                              [RowOf(w) EXCEPT !.status = "RUNNING"]]
        BY <3>2 DEF MarkRunning, UpdateRow
      <4>4. QED
        BY <4>2, <4>3
    <3>3. CASE MarkRunning(w) /\ RowOf(w).status = "NONE"
      BY <3>3 DEF MarkRunning, UpdateRow
    <3>4. QED
      BY <2>1, <3>1, <3>2, <3>3
  <2>3. QED
    BY <2>2 DEF Settled, CompletedStatuses
<1>5. QED
  BY <1>1, <1>2, <1>3, <1>4, RowWriters

\* The step of an event has a row until the event's transaction ends, so a step
\* without one is another step; and without a verdict something else is left.
LEMMA DecidedAtBegin ==
  ASSUME IndInv, NEW o \in Orchestrators, BeginEvent(o), handler'[o].verdict = "OPEN"
  PROVE  LET e == handler[o].event IN
         /\ \A s \in Steps :
              /\ row[e.run][s].status = "NONE"
              /\ \A d \in DependsOn[s] : d = e.step \/ Settled(e.run, d)
              => s \in handler'[o].fresh
         /\ \E s \in Steps : s # e.step /\ ~Settled(e.run, s)
<1> DEFINE e == handler[o].event
           C == CompletedWith(e)
<1>1. /\ handler'[o].fresh = FreshSteps(e) /\ Verdict(e) = "OPEN"
      /\ e.step \in Steps /\ row[e.run][e.step].status = "RUNNING"
  BY Held, EndsFromRunning, Verdicts DEF BeginEvent, IllegalMove, IndInv, TypeOK, OrchestratorTypes
<1>2. \A s \in Steps : s \in C <=> s = e.step \/ Settled(e.run, s)
  BY <1>1 DEF CompletedWith, Settled
<1>3. ASSUME NEW s \in Steps, row[e.run][s].status = "NONE",
             \A d \in DependsOn[s] : d = e.step \/ Settled(e.run, d)
      PROVE  s \in handler'[o].fresh
  <2>1. s \notin C
    BY <1>1, <1>2, <1>3 DEF Settled, CompletedStatuses
  <2>2. DependsOn[s] \subseteq C
    BY <1>2, <1>3, ConstantsAssumption
  <2>3. s \in ReadySet(DependsOn, C)
    BY <2>1, <2>2, ConstantsAssumption DEF ReadySet
  <2>4. QED
    BY <1>1, <1>3, <2>3 DEF FreshSteps
<1>4. \E s \in Steps : s \notin C
  <2>1. C \subseteq Steps
    BY <1>1 DEF CompletedWith
  <2>2. C = Steps => ReadySet(DependsOn, C) = {}
    BY ConstantsAssumption DEF ReadySet
  <2>3. C # Steps
    BY <1>1, <2>2 DEF Verdict
  <2>4. QED
    BY <2>1, <2>3
<1>5. QED
  BY <1>2, <1>3, <1>4

\* A decision stays good until its commit: nobody else settles a step of the run.
LEMMA DecidedStep ==
  ASSUME IndInv, Decided, [Next]_vars
  PROVE  Decided'
<1> SUFFICES ASSUME NEW o \in Orchestrators, handler'[o].pc = "txn", handler'[o].verdict = "OPEN",
                    NEW e, e = handler'[o].event
             PROVE  /\ \A s \in Steps :
                         /\ row'[e.run][s].status = "NONE"
                         /\ \A d \in DependsOn[s] : d = e.step \/ Settled(e.run, d)'
                         => s \in handler'[o].fresh
                    /\ \E s \in Steps : s # e.step /\ ~Settled(e.run, s)'
  BY DEF Decided
<1>1. CASE BeginEvent(o)
  <2>1. handler'[o].event = handler[o].event /\ UNCHANGED row
    BY <1>1 DEF BeginEvent, IndInv, TypeOK, OrchestratorTypes
  <2>2. QED
    BY <1>1, <2>1, DecidedAtBegin DEF Settled
<1>2. CASE /\ handler[o].pc = "txn" /\ handler'[o].event = handler[o].event
           /\ handler'[o].verdict = handler[o].verdict /\ handler'[o].fresh = handler[o].fresh
  <2>1. /\ e.run \in Runs /\ handler[o].event = e
        /\ run'[e.run] = "RUNNING"
    <3>1. IndInv'
      BY NextKeeps
    <3>2. QED
      BY <1>2, <3>1, Held DEF IndInv, TxnInv
  <2>2. ASSUME NEW p \in Orchestrators, NEW s, Settles(p, e.run, s)
        PROVE  FALSE
    <3>1. p = o
      BY <1>2, <2>2 DEF Settles, EventCommit, IndInv, LockInv
    <3>2. handler'[o].pc = "ack"
      BY <2>2, <3>1 DEF Settles, EventCommit, HandlerAt, IndInv, TypeOK, OrchestratorTypes
    <3>3. QED
      BY <3>2
  <2>3. \A s \in Steps : /\ Settled(e.run, s)' => Settled(e.run, s)
                         /\ row'[e.run][s].status = "NONE" => row[e.run][s].status = "NONE"
    BY <2>1, <2>2, RowsStay
  <2>4. QED
    BY <1>2, <2>1, <2>3, ConstantsAssumption DEF Decided
<1>3. QED
  BY <1>1, <1>2, TxnsFrom

\* A run that goes on has what it needs: its start and its events give it.
LEMMA GoesStep ==
  ASSUME IndInv, StrandInv, [Next]_vars, NEW r \in Runs, run'[r] = "RUNNING"
  PROVE  Goes(r)'
<1>0. \A s \in Steps : DependsOn[s] \subseteq Steps
  BY ConstantsAssumption
<1>1. CASE run[r] # "RUNNING"
  <2>1. PICK o \in Orchestrators : StartRunCommit(o) /\ starter[o].run = r
    BY <1>1, StartsRunning
  <2>2. \A s \in Steps : row'[r][s] = IF DependsOn[s] = {} THEN FirstRow ELSE NoRow
    BY <2>1, StartDispatches
  <2>3. \A s \in Steps : ~Settled(r, s)'
    BY <2>2 DEF Settled, NoRow, FirstRow, CompletedStatuses
  <2>4. QED
    BY <1>0, <2>2, <2>3, ValidatedDefinition DEF Goes, NoRow, FirstRow
<1>2. CASE run[r] = "RUNNING" /\ \E o \in Orchestrators : EventCommit(o) /\ handler[o].event.run = r
  <2>1. PICK o \in Orchestrators : EventCommit(o) /\ handler[o].event.run = r
    BY <1>2
  <2> DEFINE e == handler[o].event
  <2>2. handler[o].verdict = "OPEN" /\ row[r][e.step].status = "RUNNING"
    BY <2>1, Held DEF EventCommit, HandlerType, IndInv, TxnInv, TypeOK, DbTypes
  <2>3. ASSUME NEW s \in Steps, Settled(r, s)'
        PROVE  s = e.step \/ Settled(r, s)
    <3>1. \A p \in Orchestrators : Settles(p, r, s) => s = e.step
      BY <2>1 DEF Settles, EventCommit, IndInv, LockInv
    <3>2. QED
      BY <2>3, <3>1, RowsStay
  <2>4. ASSUME NEW s \in Steps, \A d \in DependsOn[s] : Settled(r, d)'
        PROVE  row'[r][s].status # "NONE"
    <3>1. CASE row[r][s].status # "NONE"
      BY <3>1, RowsStay
    <3>2. CASE row[r][s].status = "NONE"
      <4>1. s \in handler[o].fresh /\ s # e.step
        BY <1>0, <2>1, <2>2, <2>3, <2>4, <3>2 DEF StrandInv, Decided, EventCommit
      <4>2. row'[r][s] = FirstRow
        BY <2>1, <4>1 DEF EventCommit, IndInv, TypeOK, DbTypes
      <4>3. QED
        BY <4>2 DEF FirstRow
    <3>3. QED
      BY <3>1, <3>2
  <2>5. \E s \in Steps : ~Settled(r, s)'
    BY <2>1, <2>2, <2>3 DEF StrandInv, Decided, EventCommit
  <2>6. QED
    BY <2>4, <2>5 DEF Goes
<1>3. CASE run[r] = "RUNNING" /\ ~\E o \in Orchestrators : EventCommit(o) /\ handler[o].event.run = r
  <2>1. \A s \in Steps : /\ Settled(r, s)' => Settled(r, s)
                         /\ row[r][s].status # "NONE" => row'[r][s].status # "NONE"
    BY <1>3, RowsStay DEF Settles
  <2>2. QED
    BY <1>0, <1>3, <2>1 DEF StrandInv, Goes
<1>4. QED
  BY <1>1, <1>2, <1>3

\* A RUNNING run always has a step to wait for, and each step that is ready has its
\* row, whatever fails or is repeated: two last events of a join cannot miss each other.
THEOREM NoBranchStranded == Spec => []NothingStranded
<1>1. Init => StrandInv
  BY DEF Init, StrandInv, Decided, IdleHandler, HandlerAt
<1>2. IndInv /\ StrandInv /\ [Next]_vars => StrandInv'
  BY DecidedStep, GoesStep DEF StrandInv
<1>3. QED
  BY <1>1, <1>2, SomethingLeft, Invariance, PTL DEF Spec

-------------------------------------------------------------------------------
(* The refinement of RunLifecycle.                                          *)

\* What RunLifecycle sees of the rows.
SeenSteps == [r \in Runs |-> [s \in Steps |-> AbstractStep(r, s)]]

\* RunLifecycle knows the same statuses and ready sets.
LEMMA SameVocabulary ==
  /\ Lifecycle!RunStatuses = RunStatuses /\ Lifecycle!TerminalStatuses = TerminalStatuses
  /\ \A S : Lifecycle!ReadySet(DependsOn, S) = ReadySet(DependsOn, S)
BY DEF Lifecycle!RunStatuses, RunStatuses, Lifecycle!TerminalStatuses, TerminalStatuses,
       Lifecycle!ReadySet, ReadySet

\* The initial states are those of RunLifecycle.
LEMMA LifecycleInit == Init => Lifecycle!Init
BY DEF Init, Lifecycle!Init, AbstractStep, NoRow

\* Between commits a worker's update is invisible.
LEMMA RowsSeen ==
  ASSUME IndInv, RowsFit, RowsExist, TxnFresh, [Next]_vars, NEW r \in Runs, NEW s \in Steps,
         run'[r] # "DELETED",
         \A o \in Orchestrators : ~Starts(o, r, s) /\ ~Readies(o, r, s) /\ ~Settles(o, r, s)
  PROVE  AbstractStep(r, s)' = AbstractStep(r, s)
<1>1. CASE row'[r][s] = row[r][s]
  BY <1>1 DEF AbstractStep
<1>2. CASE \E w \in Workers :
             /\ MarkRunning(w) /\ WorksOn(w, r, s) /\ <<"worker", w>> \in Carriers(r, s)
             /\ row[r][s] = [status |-> "READY", attempt |-> worker[w].msg.attempt]
             /\ row'[r][s] = [status |-> "RUNNING", attempt |-> worker[w].msg.attempt]
  BY <1>2 DEF AbstractStep
<1>3. CASE \E w \in Workers :
             /\ RetryReset(w) /\ WorksOn(w, r, s) /\ <<"worker", w>> \in Carriers(r, s)
             /\ row[r][s] = [status |-> "RUNNING", attempt |-> worker[w].msg.attempt]
             /\ row'[r][s] = [status |-> "READY", attempt |-> worker[w].msg.attempt + 1]
  BY <1>3 DEF AbstractStep
<1>4. QED
  BY <1>1, <1>2, <1>3, RowMoves

\* A request, a tick and the scanner write the run and leave its rows alone.
LEMMA LifecycleOfRuns ==
  ASSUME IndInv,
         \/ \E r \in Runs : CreateRun(r) \/ TickCommit(r) \/ CancelRun(r) \/ DeleteWorkflow(r)
         \/ \E o \in Orchestrators : ScanUpdate(o)
  PROVE  Lifecycle!Next
<1> USE DEF IndInv, TypeOK, DbTypes
<1>1. ASSUME NEW r \in Runs, CreateRun(r) \/ TickCommit(r)
      PROVE  Lifecycle!Next
  <2>1. run[r] = "NONE"
    BY <1>1 DEF CreateRun, TickCommit, TriggerInv
  <2>2. Lifecycle!Create(r)
    BY <1>1, <2>1 DEF CreateRun, TickCommit, Lifecycle!Create, AbstractStep
  <2>3. QED
    BY <2>2 DEF Lifecycle!Next
<1>2. ASSUME NEW r \in Runs, CancelRun(r)
      PROVE  Lifecycle!Next
  <2>1. run[r] \in {"PENDING", "RUNNING"}
    BY <1>2 DEF CancelRun, RunMoves
  <2>2. Lifecycle!Cancel(r)
    BY <1>2, <2>1 DEF CancelRun, Lifecycle!Cancel, AbstractStep
  <2>3. QED
    BY <2>2 DEF Lifecycle!Next
<1>3. ASSUME NEW r \in Runs, DeleteWorkflow(r)
      PROVE  Lifecycle!Next
  <2>1. SeenSteps' = [SeenSteps EXCEPT ![r] = [s \in Steps |-> "NONE"]]
    BY <1>3 DEF DeleteWorkflow, SeenSteps, AbstractStep, NoRow
  <2>2. Lifecycle!Delete(r)
    BY <1>3, <2>1, SameVocabulary DEF DeleteWorkflow, Lifecycle!Delete, SeenSteps
  <2>3. QED
    BY <2>2 DEF Lifecycle!Next
<1>4. ASSUME NEW o \in Orchestrators, ScanUpdate(o)
      PROVE  Lifecycle!Next
  <2> DEFINE hit == {q \in scanner[o].found : run[q] \in RunStatuses}
  <2>1. hit \in SUBSET Runs /\ \A q \in hit : run[q] \in {"RUNNING"} \cup TerminalStatuses
    BY <1>4 DEF OrchestratorTypes, ScanInv, RunStatuses, TerminalStatuses
  <2>2. run' = [q \in Runs |-> IF q \in hit THEN "TIMED_OUT" ELSE run[q]] /\ UNCHANGED row
    BY <1>4 DEF ScanUpdate
  <2> HIDE DEF hit
  <2>3. Lifecycle!TimeOut(hit)
    BY <2>1, <2>2, SameVocabulary DEF Lifecycle!TimeOut, AbstractStep
  <2>4. QED
    BY <2>1, <2>3 DEF Lifecycle!Next
<1>5. QED
  BY <1>1, <1>2, <1>3, <1>4

\* startRun's commit activates the steps that depend on nothing.
LEMMA LifecycleStart ==
  ASSUME IndInv, RowsExist, [Next]_vars, NEW o \in Orchestrators, StartRunCommit(o)
  PROVE  Lifecycle!Start(starter[o].run)
<1> DEFINE r == starter[o].run
<1>0. r \in Runs /\ run[r] = "PENDING" /\ run' = [run EXCEPT ![r] = "RUNNING"]
  BY Held DEF StartRunCommit, IndInv, TxnInv
<1>1. \A s \in Steps : row'[r][s] = IF DependsOn[s] = {} THEN FirstRow ELSE NoRow
  BY StartDispatches
<1>2. \A s \in Steps : s \in ReadySet(DependsOn, {}) <=> DependsOn[s] = {}
  BY ConstantsAssumption DEF ReadySet
<1>3. \A q \in Runs : q # r => \A s \in Steps : row'[q][s] = row[q][s]
  BY DEF StartRunCommit, IndInv, TypeOK, DbTypes
<1> HIDE DEF r
<1>4. SeenSteps' = [SeenSteps EXCEPT ![r] = [s \in Steps |->
                      IF s \in Lifecycle!ReadySet(DependsOn, {}) THEN "ACTIVE" ELSE "NONE"]]
  <2>1. \A q \in Runs, s \in Steps : AbstractStep(q, s)' =
          IF q = r THEN (IF s \in ReadySet(DependsOn, {}) THEN "ACTIVE" ELSE "NONE")
          ELSE AbstractStep(q, s)
    BY <1>1, <1>2, <1>3 DEF AbstractStep, FirstRow, NoRow
  <2>2. QED
    BY <1>0, <2>1, SameVocabulary DEF SeenSteps
<1>5. QED
  BY <1>0, <1>4 DEF Lifecycle!Start, SeenSteps, r

\* The commit of an event is one step of RunLifecycle: the outcome, the steps it
\* makes ready and the end of the run together.
LEMMA LifecycleSettle ==
  ASSUME IndInv, RowsFit, RowsExist, TxnFresh, [Next]_vars, NEW o \in Orchestrators,
         NEW r \in Runs, NEW d \in Steps, Settles(o, r, d)
  PROVE  Lifecycle!Settle(r, d, StatusAfter(handler[o].event))
<1> DEFINE e == handler[o].event
           C == CompletedWith(e)
           fails == StatusAfter(e) = "FAILED" /\ d \notin ContinueOnFailure
<1>0. /\ EventCommit(o) /\ e.run = r /\ e.step = d /\ e.ok \in BOOLEAN
      /\ run[r] = "RUNNING" /\ row[r][d].status = "RUNNING"
      /\ handler[o].verdict = Verdict(e) /\ handler[o].fresh = FreshSteps(e)
  BY Held DEF EventCommit, IndInv, TxnInv, TxnFresh, Settles, EventMsg
<1>1. Lifecycle!Completed(r) \cup {d} = C
  <2>1. \A s \in Steps : SeenSteps[r][s] \in {"SUCCEEDED", "FAILED"} <=> Settled(r, s)
    BY <1>0 DEF SeenSteps, AbstractStep, Settled, CompletedStatuses, RowsExist
  <2>2. QED
    BY <1>0, <2>1 DEF Lifecycle!Completed, SeenSteps, CompletedWith, Settled
<1>2. fails <=> Verdict(e) = "FAILED"
  BY <1>0 DEF Verdict, StatusAfter
<1>3. C = Steps => ReadySet(DependsOn, C) = {}
  BY ConstantsAssumption DEF ReadySet
<1>4. run' = [run EXCEPT ![r] = IF fails THEN "FAILED"
                                ELSE IF C = Steps THEN "SUCCEEDED" ELSE "RUNNING"]
  <2>1. CASE fails
    BY <1>0, <1>2, <2>1 DEF EventCommit
  <2>2. CASE ~fails /\ C = Steps
    <3>1. Verdict(e) = "SUCCEEDED"
      BY <1>2, <1>3, <2>2 DEF Verdict
    <3>2. QED
      BY <1>0, <2>2, <3>1 DEF EventCommit
  <2>3. CASE ~fails /\ C # Steps
    <3>1. Verdict(e) = "OPEN"
      BY <1>2, <2>3 DEF Verdict
    <3>2. QED
      BY <1>0, <2>3, <3>1 DEF EventCommit, IndInv, TypeOK, DbTypes
  <2>4. QED
    BY <2>1, <2>2, <2>3
<1>5. ASSUME NEW t \in Steps
      PROVE  AbstractStep(r, t)' =
               IF t = d THEN StatusAfter(e)
               ELSE IF ~fails /\ t \in ReadySet(DependsOn, C) /\ AbstractStep(r, t) = "NONE" THEN "ACTIVE"
               ELSE AbstractStep(r, t)
  <2>1. CASE t = d
    <3>1. row'[r][d] = [status |-> StatusAfter(e), attempt |-> row[r][d].attempt]
      BY CommitSettles
    <3>2. QED
      BY <2>1, <3>1, Verdicts DEF AbstractStep
  <2>2. CASE t # d
    <3>1. row'[r][t] = IF t \in FreshSteps(e) THEN FirstRow ELSE row[r][t]
      BY <1>0, <2>2 DEF EventCommit, IndInv, TypeOK, DbTypes
    <3>2. AbstractStep(r, t) = "NONE" <=> row[r][t].status = "NONE"
      BY <1>0 DEF AbstractStep
    <3>3. t \in FreshSteps(e) <=>
            ~fails /\ t \in ReadySet(DependsOn, C) /\ AbstractStep(r, t) = "NONE"
      <4>1. t \in ReadySet(DependsOn, C) => C # Steps
        BY <1>3
      <4>2. Verdict(e) # "OPEN" => fails \/ C = Steps
        BY <1>2 DEF Verdict
      <4>3. QED
        BY <1>0, <1>2, <3>2, <4>1, <4>2 DEF FreshSteps
    <3>4. QED
      BY <2>2, <3>1, <3>3 DEF AbstractStep, FirstRow
  <2>3. QED
    BY <2>1, <2>2
<1>6. ASSUME NEW q \in Runs, q # r, NEW t \in Steps
      PROVE  AbstractStep(q, t)' = AbstractStep(q, t)
  BY <1>0, <1>6 DEF AbstractStep, EventCommit, IndInv, TypeOK, DbTypes
<1> HIDE DEF C, fails
<1>7. SeenSteps' = [SeenSteps EXCEPT ![r] = [t \in Steps |->
                      IF t = d THEN StatusAfter(e)
                      ELSE IF ~fails /\ t \in Lifecycle!ReadySet(DependsOn, C) /\ @[t] = "NONE"
                      THEN "ACTIVE" ELSE @[t]]]
  <2>1. \A q \in Runs, t \in Steps : AbstractStep(q, t)' =
          IF q = r
          THEN (IF t = d THEN StatusAfter(e)
                ELSE IF ~fails /\ t \in ReadySet(DependsOn, C) /\ AbstractStep(r, t) = "NONE"
                THEN "ACTIVE" ELSE AbstractStep(r, t))
          ELSE AbstractStep(q, t)
    BY <1>5, <1>6
  <2> DEFINE new == [t \in Steps |->
                      IF t = d THEN StatusAfter(e)
                      ELSE IF ~fails /\ t \in Lifecycle!ReadySet(DependsOn, C) /\ SeenSteps[r][t] = "NONE"
                      THEN "ACTIVE" ELSE SeenSteps[r][t]]
  <2>2. \A t \in Steps : AbstractStep(r, t)' = new[t]
    BY <2>1, SameVocabulary DEF SeenSteps
  <2> HIDE DEF new
  <2>3. [t \in Steps |-> AbstractStep(r, t)'] = new
    BY <2>2 DEF new
  <2>4. \A q \in Runs : q # r => [t \in Steps |-> AbstractStep(q, t)'] = SeenSteps[q]
    BY <2>1 DEF SeenSteps
  <2>5. SeenSteps' = [SeenSteps EXCEPT ![r] = new]
    BY <2>3, <2>4 DEF SeenSteps
  <2>6. QED
    BY <2>5 DEF new
<1>8. SeenSteps[r][d] = "ACTIVE"
  BY <1>0 DEF SeenSteps, AbstractStep
<1>9. QED
  BY <1>0, <1>1, <1>4, <1>7, <1>8 DEF Lifecycle!Settle, SeenSteps, fails

\* Every step of the engine is a step of RunLifecycle or leaves it alone.
LEMMA LifecycleStep ==
  ASSUME IndInv, CarrierInv, [Next]_vars
  PROVE  [Lifecycle!Next]_(Lifecycle!vars)
<1>0. RowsFit /\ RowsExist /\ TxnFresh /\ RowsExist'
  BY RowsExistStep DEF CarrierInv
<1>1. CASE \/ \E r \in Runs : CreateRun(r) \/ TickCommit(r) \/ CancelRun(r) \/ DeleteWorkflow(r)
           \/ \E o \in Orchestrators : ScanUpdate(o)
  BY <1>1, LifecycleOfRuns
<1>2. CASE \E o \in Orchestrators : StartRunCommit(o)
  <2>1. PICK o \in Orchestrators : StartRunCommit(o)
    BY <1>2
  <2>2. starter[o].run \in Runs /\ Lifecycle!Start(starter[o].run)
    BY <1>0, <2>1, LifecycleStart, Held DEF StartRunCommit, IndInv
  <2>3. QED
    BY <2>2 DEF Lifecycle!Next
<1>3. CASE \E o \in Orchestrators : EventCommit(o)
  <2>1. PICK o \in Orchestrators : EventCommit(o)
    BY <1>3
  <2> DEFINE e == handler[o].event
  <2>2. e.run \in Runs /\ e.step \in Steps /\ Settles(o, e.run, e.step)
    BY <2>1, Held DEF EventCommit, IndInv, Settles
  <2>3. Lifecycle!Settle(e.run, e.step, StatusAfter(e))
    BY <1>0, <2>2, LifecycleSettle
  <2>4. StatusAfter(e) \in {"SUCCEEDED", "FAILED"}
    BY Verdicts
  <2>5. QED
    BY <2>2, <2>3, <2>4 DEF Lifecycle!Next
<1>4. CASE /\ ~\E r \in Runs : DeleteWorkflow(r)
           /\ ~\E o \in Orchestrators : StartRunCommit(o) \/ EventCommit(o)
           /\ UNCHANGED run
  <2>1. ASSUME NEW r \in Runs, NEW s \in Steps
        PROVE  AbstractStep(r, s)' = AbstractStep(r, s)
    <3>1. CASE run[r] = "DELETED"
      BY <1>0, <1>4, <3>1 DEF RowsExist, AbstractStep
    <3>2. CASE run[r] # "DELETED"
      BY <1>0, <1>4, <3>2, RowsSeen DEF Starts, Readies, Settles
    <3>3. QED
      BY <3>1, <3>2
  <2>2. SeenSteps' = SeenSteps
    BY <2>1 DEF SeenSteps
  <2>3. QED
    BY <1>4, <2>2 DEF SeenSteps, Lifecycle!vars
<1>5. QED
  BY <1>1, <1>2, <1>2, <1>3, <1>4, RunWriters

\* Without repetitions the engine, with its queues, retries, crashes and lost
\* messages, implements RunLifecycle.
THEOREM Refinement ==
  ASSUME OnceOnly
  PROVE  Spec => ImplementsLifecycle
<1>1. Init => Lifecycle!Init
  BY LifecycleInit
<1>2. IndInv /\ CarrierInv /\ [Next]_vars => [Lifecycle!Next]_(Lifecycle!vars)
  BY LifecycleStep
<1>3. QED
  BY <1>1, <1>2, AlwaysCarried, PTL DEF Spec, ImplementsLifecycle, Lifecycle!Spec

-------------------------------------------------------------------------------
(* Lost work.                                                               *)

\* No failed ZADD or XADD of a retry is swallowed.  Everything else may fail, and
\* every XADD may be repeated.
NothingSwallowed == Faults \cap {"retry_loss", "poll_loss"} = {}

\* Message m is somewhere: queued, delayed, polled, at a worker that has not come
\* to its acknowledgement, or among the entries that a worker has abandoned.
Left(m) ==
  \/ stepQ[m] > 0 \/ m \in delayed
  \/ \E w \in Workers :
       \/ poller[w] = m
       \/ worker[w].msg = m /\ worker[w].pc # "ack"
       \/ stepPel[w][m] > (IF worker[w].msg = m THEN 1 ELSE 0)

\* A message of the step is left, or an event that is not processed.
Tracked(r, s) ==
  \/ \E m \in StepMsg : m.run = r /\ m.step = s /\ Left(m)
  \/ \E e \in eventQ \cup eventPel : e.run = r /\ e.step = s /\ EventId(e) \notin processed

\* Only a run that has ended is cancelled.
CancelInv == \A r \in cancelKey \cup cancelling : run[r] \notin {"NONE", "PENDING", "RUNNING"}

\* An event is acknowledged after it was processed.
AckInv == \A o \in Orchestrators : handler[o].pc = "ack" => EventId(handler[o].event) \in processed

\* What is unsettled is tracked, and so is what a transaction has queued.
TrackInv ==
  /\ \A r \in Runs, s \in Steps :
       run[r] = "RUNNING" /\ row[r][s].status # "NONE" /\ ~Settled(r, s) => Tracked(r, s)
  /\ \A o \in Orchestrators :
       /\ starter[o].pc = "txn" =>
            \A s \in ReadySet(DependsOn, {}) \ starter[o].todo : Tracked(starter[o].run, s)
       /\ handler[o].pc = "txn" =>
            \A s \in handler[o].fresh \ handler[o].todo : Tracked(handler[o].event.run, s)

\* An event_id in use was given out.
UuidInv ==
  /\ \A e \in eventQ : e.uuid <= emitted[e.run][e.step]
  /\ \A o \in Orchestrators : handler[o].pc # "idle" =>
       handler[o].event.uuid <= emitted[handler[o].event.run][handler[o].event.step]
  /\ \A r \in Runs, s \in Steps, u \in Nat : <<r, s, u>> \in processed => u <= emitted[r][s]

LostInv == CancelInv /\ AckInv /\ UuidInv /\ TrackInv

\* Apart from TakeStep and the acknowledgement a worker drops its message, which stays
\* pending, or goes on with it.
LEMMA WorkerGoesOn ==
  ASSUME IndInv, NEW w \in Workers, WorkerNext(w) \/ WorkerFails(w)
  PROVE  /\ \A v \in Workers : v # w => worker'[v] = worker[v] /\ stepPel'[v] = stepPel[v]
         /\ UNCHANGED poller /\ delayed \subseteq delayed'
         /\ \/ \E m \in StepMsg : TakeStep(w, m)
            \/ AckStep(w)
            \/ /\ UNCHANGED <<stepQ, stepPel>> /\ ~At(w, "idle")
               /\ \/ Drop(w)
                  \/ ~At(w, "ack") /\ \E pc \in WorkerPcs \ {"idle", "ack"} : GoTo(w, pc)
                  \/ /\ GoTo(w, "ack")
                     /\ \/ Report(w) \/ ScheduleRetry(w)
                        \/ run[worker[w].msg.run] = "CANCELLED" \/ worker[w].msg.run \in cancelKey
<1> USE DEF IndInv, TypeOK
<1>1. CASE \E m \in StepMsg : TakeStep(w, m)
  BY <1>1 DEF TakeStep, WorkerTypes, StreamTypes
<1>2. CASE AckStep(w)
  BY <1>2 DEF AckStep, Drop, WorkerTypes, StreamTypes
<1>3. CASE CheckCancelled(w)
  BY <1>3 DEF CheckCancelled, GoTo, At, WorkerPcs, WorkerTypes
<1>4. CASE ClaimStep(w) \/ RetrySelect(w)
  BY <1>4 DEF ClaimStep, RetrySelect, SelectRow, GoTo, Drop, At, WorkerPcs, WorkerTypes
<1>5. CASE MarkRunning(w) \/ RetryReset(w)
  BY <1>5 DEF MarkRunning, RetryReset, UpdateRow, GoTo, Drop, At, WorkerPcs, WorkerTypes
<1>6. CASE LoadSpec(w) \/ Execute(w)
  BY <1>6 DEF LoadSpec, Execute, GoTo, Drop, At, WorkerPcs, WorkerTypes
<1>7. CASE Report(w) \/ ScheduleRetry(w)
  BY <1>7 DEF Report, ScheduleRetry, GoTo, At, WorkerTypes
<1>8. CASE WorkerFails(w)
  BY <1>8 DEF WorkerFails, Drop, At, WorkerTypes
<1>9. QED
  BY <1>1, <1>2, <1>3, <1>4, <1>5, <1>6, <1>7, <1>8 DEF WorkerNext

\* A message stays left until a worker reports on it or schedules its retry.
LEMMA LeftStays ==
  ASSUME NothingSwallowed, IndInv, CancelInv, [Next]_vars, NEW m \in StepMsg, Left(m),
         run[m.run] \in {"PENDING", "RUNNING"}
  PROVE  \/ Left(m)'
         \/ \E w \in Workers : worker[w].msg = m /\ (Report(w) \/ ScheduleRetry(w))
<1> USE DEF IndInv, TypeOK
<1>0. /\ stepQ \in [StepMsg -> Nat] /\ stepPel \in [Workers -> [StepMsg -> Nat]]
      /\ stepQ' \in [StepMsg -> Nat] /\ m # Nothing
  BY NextKeeps, ConstantsAssumption DEF StreamTypes
<1>1. ASSUME UNCHANGED <<delayed, poller, worker, stepPel>>, stepQ'[m] >= stepQ[m]
      PROVE  Left(m)'
  <2>1. stepQ[m] > 0 => stepQ'[m] > 0
    BY <1>0, <1>1
  <2>2. QED
    BY <1>1, <2>1 DEF Left
<1>2. ASSUME NEW n \in StepMsg, EnqueueStep(n)
      PROVE  stepQ'[m] >= stepQ[m] /\ stepQ'[n] > 0
  BY <1>0, <1>2 DEF EnqueueStep
<1>3. CASE TriggerNext \/ UserNext \/ UNCHANGED vars
  <2>1. UNCHANGED <<stepQ, delayed, poller, worker, stepPel>>
    BY <1>3, RequestsLeave
  <2>2. QED
    BY <1>0, <1>1, <2>1
<1>4. ASSUME NEW o \in Orchestrators,
             StarterNext(o) \/ HandlerNext(o) \/ ScannerNext(o) \/ OrchestratorFails(o)
      PROVE  Left(m)'
  <2>1. CASE \E s \in Steps : StartRunEnqueue(o, s)
    <3>1. PICK s \in Steps : StartRunEnqueue(o, s)
      BY <2>1
    <3>2. FirstMsg(starter[o].run, s) \in StepMsg
      BY <3>1, Held, FirstAttempt DEF StartRunEnqueue
    <3>3. QED
      BY <1>1, <1>2, <3>1, <3>2 DEF StartRunEnqueue
  <2>2. CASE \E s \in Steps : EventEnqueue(o, s)
    <3>1. PICK s \in Steps : EventEnqueue(o, s)
      BY <2>2
    <3>2. FirstMsg(handler[o].event.run, s) \in StepMsg
      BY <3>1, Held, FirstAttempt DEF EventEnqueue
    <3>3. QED
      BY <1>1, <1>2, <3>1, <3>2 DEF EventEnqueue
  <2>3. CASE ~\E s \in Steps : StartRunEnqueue(o, s) \/ EventEnqueue(o, s)
    <3>1. UNCHANGED <<stepQ, delayed, poller, worker, stepPel>>
      BY <1>4, <2>3, OrchestratorsLeave
    <3>2. QED
      BY <1>0, <1>1, <3>1
  <2>4. QED
    BY <2>1, <2>2, <2>3
<1>5. ASSUME NEW w \in Workers, PollerNext(w) \/ PollLoses(w)
      PROVE  Left(m)'
  <2>1. CASE \E n \in delayed : PollRemove(w, n)
    <3>1. \/ stepQ'[m] > 0 \/ m \in delayed' \/ poller'[w] = m
          \/ \E v \in Workers : v # w /\ poller'[v] = m
          \/ \E v \in Workers :
               \/ worker'[v].msg = m /\ worker'[v].pc # "ack"
               \/ stepPel'[v][m] > (IF worker'[v].msg = m THEN 1 ELSE 0)
      BY <1>0, <2>1 DEF PollRemove, Left, WorkerTypes
    <3>2. QED
      BY <3>1 DEF Left
  <2>2. CASE PollEnqueue(w)
    <3>1. poller[w] \in StepMsg
      BY <2>2 DEF PollEnqueue, WorkerTypes
    <3>2. stepQ'[m] >= stepQ[m] /\ stepQ'[poller[w]] > 0
      BY <1>2, <2>2, <3>1 DEF PollEnqueue
    <3>3. UNCHANGED <<delayed, worker, stepPel>> /\ poller' = [poller EXCEPT ![w] = Nothing]
      BY <2>2 DEF PollEnqueue
    <3>4. \A v \in Workers : v # w => poller'[v] = poller[v]
      BY <3>3 DEF WorkerTypes
    <3>5. (stepQ[m] > 0 \/ poller[w] = m) => stepQ'[m] > 0
      BY <1>0, <3>2
    <3>6. QED
      BY <3>3, <3>4, <3>5 DEF Left
  <2>3. CASE PollLoses(w)
    BY <2>3 DEF PollLoses, Fault, NothingSwallowed
  <2>4. QED
    BY <1>5, <2>1, <2>2, <2>3 DEF PollerNext
<1>6. ASSUME NEW w \in Workers, WorkerNext(w) \/ WorkerFails(w), ~Left(m)'
      PROVE  worker[w].msg = m /\ (Report(w) \/ ScheduleRetry(w))
  <2> DEFINE Rest(v) == IF worker[v].msg = m THEN 1 ELSE 0
             Here == \/ worker[w].msg = m /\ worker[w].pc # "ack"
                     \/ stepPel[w][m] > Rest(w)
  <2>1. /\ \A v \in Workers : v # w => worker'[v] = worker[v] /\ stepPel'[v] = stepPel[v]
        /\ UNCHANGED poller /\ delayed \subseteq delayed'
    BY <1>6, WorkerGoesOn
  <2>2. /\ stepQ'[m] = 0 /\ m \notin delayed' /\ \A v \in Workers : poller'[v] # m
        /\ ~(worker'[w].msg = m /\ worker'[w].pc # "ack")
        /\ ~(stepPel'[w][m] > (IF worker'[w].msg = m THEN 1 ELSE 0))
    BY <1>0, <1>6 DEF Left
  <2>3. Here \/ stepQ[m] > 0
    BY <1>6, <2>1, <2>2 DEF Left
  <2>4. CASE \E n \in StepMsg : TakeStep(w, n)
    <3>1. PICK n \in StepMsg : TakeStep(w, n)
      BY <2>4
    <3>2. worker'[w] = [pc |-> "check", msg |-> n] /\ n # m
      BY <2>2, <3>1 DEF TakeStep, WorkerTypes
    <3>3. stepQ'[m] = stepQ[m] /\ stepPel'[w][m] = stepPel[w][m] /\ At(w, "idle")
      BY <1>0, <3>1, <3>2 DEF TakeStep
    <3>4. worker[w].msg # m /\ worker'[w].msg # m
      BY <1>0, <3>2, <3>3 DEF At, WorkerTypes
    <3>5. QED
      BY <2>2, <2>3, <3>3, <3>4
  <2>5. CASE AckStep(w)
    <3>1. /\ stepQ' = stepQ /\ worker[w].pc = "ack" /\ worker'[w].msg = Nothing
          /\ stepPel' = [stepPel EXCEPT ![w][worker[w].msg] = @ - 1]
      BY <2>5 DEF AckStep, At, Drop, IdleWorker, WorkerTypes
    <3>2. worker[w].msg \in StepMsg
      BY <3>1, Held
    <3>3. CASE worker[w].msg = m
      BY <1>0, <2>2, <2>3, <3>1, <3>2, <3>3
    <3>4. CASE worker[w].msg # m
      BY <1>0, <2>2, <2>3, <3>1, <3>2, <3>4
    <3>5. QED
      BY <3>3, <3>4
  <2>6. CASE UNCHANGED <<stepQ, stepPel>> /\ ~At(w, "idle") /\ Drop(w)
    <3>1. worker'[w].msg = Nothing /\ stepPel[w][worker[w].msg] > 0 /\ worker[w].msg \in StepMsg
      BY <2>6, Held DEF Drop, IdleWorker, At, PelInv, WorkerTypes
    <3>2. QED
      BY <1>0, <2>2, <2>3, <2>6, <3>1
  <2>7. CASE /\ UNCHANGED <<stepQ, stepPel>> /\ ~At(w, "ack")
             /\ \E pc \in WorkerPcs \ {"idle", "ack"} : GoTo(w, pc)
    <3>1. worker'[w].msg = worker[w].msg /\ worker'[w].pc # "ack"
      BY <2>7 DEF GoTo, WorkerTypes
    <3>2. QED
      BY <1>0, <2>2, <2>3, <2>7, <3>1
  <2>8. CASE UNCHANGED <<stepQ, stepPel>> /\ GoTo(w, "ack")
    <3>1. worker'[w].msg = worker[w].msg
      BY <2>8 DEF GoTo, WorkerTypes
    <3>2. worker[w].msg = m
      BY <1>0, <2>2, <2>3, <2>8, <3>1
    <3>3. run[worker[w].msg.run] # "CANCELLED" /\ worker[w].msg.run \notin cancelKey
      BY <3>2 DEF CancelInv
    <3>4. \/ Report(w) \/ ScheduleRetry(w) \/ AckStep(w) \/ Drop(w)
          \/ \E n \in StepMsg : TakeStep(w, n)
          \/ ~At(w, "ack") /\ \E pc \in WorkerPcs \ {"idle", "ack"} : GoTo(w, pc)
      BY <1>6, <3>3, WorkerGoesOn
    <3>5. QED
      BY <2>4, <2>5, <2>6, <2>7, <2>8, <3>2, <3>4, <1>6, WorkerGoesOn
  <2>9. QED
    BY <1>6, <2>4, <2>5, <2>6, <2>7, <2>8, WorkerGoesOn
<1>7. QED
  BY <1>3, <1>4, <1>5, <1>6 DEF Next

\* An event that is not processed stays in the stream or pending until its step is
\* settled; the event of an ended run may be passed over.
LEMMA EventStays ==
  ASSUME IndInv, AckInv, [Next]_vars, NEW e \in eventQ \cup eventPel, EventId(e) \notin processed,
         run[e.run] \in {"PENDING", "RUNNING"}
  PROVE  \/ e \in eventQ' \cup eventPel' /\ EventId(e) \notin processed'
         \/ \E o \in Orchestrators : Settles(o, e.run, e.step)
<1> USE DEF IndInv, TypeOK, OrchestratorTypes, StreamTypes
<1>1. CASE TriggerNext \/ UserNext \/ UNCHANGED vars
  BY <1>1, RequestsLeave
<1>2. ASSUME NEW w \in Workers, WorkerNext(w) \/ WorkerFails(w) \/ PollerNext(w) \/ PollLoses(w)
      PROVE  eventQ \subseteq eventQ' /\ UNCHANGED <<eventPel, processed>>
  <2>1. CASE Report(w)
    BY <2>1 DEF Report, EnqueueEvent
  <2>2. CASE ~Report(w)
    BY <1>2, <2>2, WorkersLeave
  <2>3. QED
    BY <2>1, <2>2
<1>3. ASSUME NEW o \in Orchestrators, StarterNext(o) \/ ScannerNext(o) \/ OrchestratorFails(o)
      PROVE  UNCHANGED <<eventQ, eventPel, processed>>
  BY <1>3, OrchestratorsLeave
<1>4. ASSUME NEW o \in Orchestrators, HandlerNext(o)
      PROVE  \/ e \in eventQ' \cup eventPel' /\ EventId(e) \notin processed'
             \/ Settles(o, e.run, e.step)
  <2>1. CASE \E f \in eventQ : TakeEvent(o, f)
    BY <2>1 DEF TakeEvent
  <2>2. CASE \/ SkipProcessedEvent(o) \/ RejectEvent(o) \/ BeginEvent(o)
             \/ \E s \in Steps : EventEnqueue(o, s)
    BY <2>2 DEF SkipProcessedEvent, RejectEvent, BeginEvent, EventEnqueue
  <2>3. CASE IgnoreEvent(o)
    BY <2>3 DEF IgnoreEvent, EventId
  <2>4. CASE EventCommit(o)
    BY <2>4 DEF EventCommit, EventId, Settles
  <2>5. CASE AckEvent(o)
    BY <2>5 DEF AckEvent, AckInv
  <2>6. QED
    BY <1>4, <2>1, <2>2, <2>3, <2>4, <2>5 DEF HandlerNext
<1>5. QED
  BY <1>1, <1>2, <1>3, <1>4 DEF Next

\* What a worker reports is new.
LEMMA ReportIsNew ==
  ASSUME IndInv, UuidInv, NEW w \in Workers, Report(w), NEW r, NEW s, WorksOn(w, r, s)
  PROVE  Tracked(r, s)'
<1> DEFINE m == worker[w].msg
           e == [run |-> m.run, step |-> m.step, uuid |-> emitted[m.run][m.step] + 1,
                 ok |-> At(w, "succeeded"), copy |-> 1]
<1>1. m.run = r /\ m.step = s /\ r \in Runs /\ s \in Steps
  BY Held DEF IndInv, Report, At, WorksOn
<1>2. e \in eventQ' /\ processed' = processed
  BY DEF Report, EnqueueEvent
<1>3. emitted[r][s] \in Nat
  BY <1>1 DEF IndInv, TypeOK, WorkerTypes
<1>4. EventId(e) = <<r, s, emitted[r][s] + 1>>
  BY <1>1 DEF EventId
<1>5. EventId(e) \notin processed
  BY <1>1, <1>3, <1>4 DEF UuidInv
<1>6. e.run = r /\ e.step = s
  BY <1>1
<1> HIDE DEF e, m
<1>7. QED
  BY <1>2, <1>5, <1>6 DEF Tracked, EventId

\* What is tracked stays tracked until the step is settled or the run ends.
LEMMA TrackedStays ==
  ASSUME NothingSwallowed, IndInv, CancelInv, AckInv, UuidInv, [Next]_vars,
         NEW r \in Runs, NEW s \in Steps, Tracked(r, s), run[r] \in {"PENDING", "RUNNING"}
  PROVE  Tracked(r, s)' \/ \E o \in Orchestrators : Settles(o, r, s)
<1>1. ASSUME NEW m \in StepMsg, m.run = r, m.step = s, Left(m)
      PROVE  Tracked(r, s)'
  <2>1. CASE Left(m)'
    BY <1>1, <2>1 DEF Tracked
  <2>2. ASSUME NEW w \in Workers, worker[w].msg = m, Report(w)
        PROVE  Tracked(r, s)'
    BY <1>1, <2>2, ReportIsNew DEF WorksOn
  <2>3. ASSUME NEW w \in Workers, worker[w].msg = m, ScheduleRetry(w)
        PROVE  Tracked(r, s)'
    <3> DEFINE n == [m EXCEPT !.attempt = @ + 1]
    <3>1. n \in delayed'
      BY <2>3 DEF ScheduleRetry, Fault, NothingSwallowed
    <3>2. n \in StepMsg /\ n.run = r /\ n.step = s
      <4>1. m.attempt < MaxAttempts[s]
        BY <1>1, <2>3 DEF IndInv, RetryInv, ScheduleRetry, At
      <4>2. m.attempt \in 1..AttemptLimit /\ MaxAttempts[s] \in 1..AttemptLimit
              /\ AttemptLimit \in Nat
        BY ConstantsAssumption DEF StepMsg
      <4>3. m.attempt + 1 \in 1..AttemptLimit
        BY <4>1, <4>2
      <4>4. QED
        BY <1>1, <4>3 DEF StepMsg
    <3>3. Left(n)'
      BY <3>1 DEF Left
    <3> HIDE DEF n
    <3>4. QED
      BY <3>2, <3>3 DEF Tracked
  <2>4. QED
    BY <1>1, <2>1, <2>2, <2>3, LeftStays
<1>2. ASSUME NEW e \in eventQ \cup eventPel, e.run = r, e.step = s, EventId(e) \notin processed
      PROVE  Tracked(r, s)' \/ \E o \in Orchestrators : Settles(o, r, s)
  <2>1. CASE \E o \in Orchestrators : Settles(o, e.run, e.step)
    BY <1>2, <2>1
  <2>2. CASE e \in eventQ' \cup eventPel' /\ EventId(e) \notin processed'
    BY <1>2, <2>2 DEF Tracked, EventId
  <2>3. QED
    BY <1>2, <2>1, <2>2, EventStays
<1>3. QED
  BY <1>1, <1>2 DEF Tracked

\* Only CancelRun marks a run for cancelling, and nothing brings it back.
LEMMA CancelInvStep ==
  ASSUME IndInv, CancelInv, [Next]_vars
  PROVE  CancelInv'
<1>1. ASSUME NEW r \in Runs, run[r] \notin {"NONE", "PENDING", "RUNNING"}
      PROVE  run'[r] \notin {"NONE", "PENDING", "RUNNING"}
  <2>1. \A to : <<run[r], to>> \notin RunMoves
    BY <1>1 DEF RunMoves
  <2>2. QED
    BY <1>1, <2>1, RunMovesStep
<1>2. cancelKey' \cup cancelling' \subseteq Runs /\ run \in [Runs -> RunStatuses \cup {"NONE", "DELETED"}]
  BY NextKeeps DEF IndInv, TypeOK, RequestTypes, DbTypes
<1>3. ASSUME NEW r \in cancelKey' \cup cancelling', r \notin cancelKey \cup cancelling
      PROVE  run'[r] \notin {"NONE", "PENDING", "RUNNING"}
  <2>1. CASE UNCHANGED <<cancelKey, cancelling>>
    BY <1>3, <2>1
  <2>2. CASE \E q \in Runs : CancelRun(q)
    BY <1>2, <1>3, <2>2 DEF CancelRun
  <2>3. CASE \E q \in Runs : SignalCancel(q) \/ SignalCancelFails(q)
    BY <1>3, <2>3 DEF SignalCancel, SignalCancelFails
  <2>4. ASSUME ~UNCHANGED <<cancelKey, cancelling>>
        PROVE  \E q \in Runs : CancelRun(q) \/ SignalCancel(q) \/ SignalCancelFails(q)
    <3>1. ASSUME TriggerNext \/ UNCHANGED vars
          PROVE  FALSE
      BY <2>4, <3>1 DEF TriggerNext, CreateRun, QueueRun, QueueRunFails, TickQueueRun, TickCommit,
                        TickRollback, vars
    <3>2. ASSUME NEW o \in Orchestrators,
                 StarterNext(o) \/ HandlerNext(o) \/ ScannerNext(o) \/ OrchestratorFails(o)
          PROVE  FALSE
      BY <2>4, <3>2, OrchestratorsLeave
    <3>3. ASSUME NEW w \in Workers,
                 WorkerNext(w) \/ WorkerFails(w) \/ PollerNext(w) \/ PollLoses(w)
          PROVE  FALSE
      BY <2>4, <3>3, WorkersLeave
    <3>4. CASE UserNext
      BY <2>4, <3>4 DEF UserNext, DeleteWorkflow, Expire
    <3>5. QED
      BY <3>1, <3>2, <3>3, <3>4 DEF Next
  <2>5. QED
    BY <2>1, <2>2, <2>3, <2>4
<1>4. QED
  BY <1>1, <1>2, <1>3 DEF CancelInv

\* A loop comes to its acknowledgement only when the event_id is recorded.
LEMMA AckInvStep ==
  ASSUME IndInv, AckInv, [Next]_vars
  PROVE  AckInv'
<1> SUFFICES ASSUME NEW o \in Orchestrators, handler'[o].pc = "ack"
             PROVE  EventId(handler'[o].event) \in processed'
  BY DEF AckInv, EventId
<1> USE DEF IndInv, TypeOK, OrchestratorTypes, HandlerType
<1>1. processed \subseteq processed'
  BY ProcessedBy
<1>2. CASE handler'[o] = handler[o]
  BY <1>1, <1>2 DEF AckInv, EventId
<1>3. CASE HandlerNext(o)
  <2>1. CASE SkipProcessedEvent(o) \/ IgnoreEvent(o)
    BY ZenonT(60), <2>1 DEF SkipProcessedEvent, IgnoreEvent, EventId
  <2>2. CASE EventCommit(o)
    BY <2>2 DEF EventCommit, HandlerAt, EventId
  <2>3. CASE (\E e \in eventQ : TakeEvent(o, e)) \/ RejectEvent(o) \/ AckEvent(o)
    BY <2>3 DEF TakeEvent, RejectEvent, AckEvent, IdleHandler, HandlerAt
  <2>4. CASE BeginEvent(o) \/ \E s \in Steps : EventEnqueue(o, s)
    BY <2>4 DEF BeginEvent, EventEnqueue
  <2>5. QED
    BY <1>3, <2>1, <2>2, <2>3, <2>4 DEF HandlerNext
<1>4. CASE \E p \in Orchestrators : OrchestratorFails(p)
  BY <1>2, <1>4 DEF OrchestratorFails, StartRunFails, HandleEventFails, OrchestratorCrash,
                    IdleHandler, HandlerAt
<1>5. ASSUME \A p \in Orchestrators : ~OrchestratorFails(p), ~HandlerNext(o)
      PROVE  handler'[o] = handler[o]
  <2>1. CASE TriggerNext \/ UserNext \/ UNCHANGED vars
    BY <2>1, RequestsLeave
  <2>2. ASSUME NEW w \in Workers, WorkerNext(w) \/ WorkerFails(w) \/ PollerNext(w) \/ PollLoses(w)
        PROVE  UNCHANGED handler
    BY <2>2, WorkersLeave
  <2>3. ASSUME NEW p \in Orchestrators, StarterNext(p) \/ ScannerNext(p)
        PROVE  UNCHANGED handler
    BY <2>3, OrchestratorsLeave
  <2>4. ASSUME NEW p \in Orchestrators, p # o, HandlerNext(p)
        PROVE  handler'[o] = handler[o]
    BY <2>4 DEF HandlerNext, TakeEvent, SkipProcessedEvent, IgnoreEvent, RejectEvent, BeginEvent,
                EventEnqueue, EventCommit, AckEvent
  <2>5. QED
    BY <1>5, <2>1, <2>2, <2>3, <2>4 DEF Next
<1>6. QED
  BY <1>2, <1>3, <1>4, <1>5

\* A transaction counts a step as queued once it has queued it.
LEMMA QueuedByTxn ==
  ASSUME IndInv, [Next]_vars, NEW o \in Orchestrators, NEW s \in Steps
  PROVE  /\ starter[o].pc = "txn" /\ starter'[o].pc = "txn"
              /\ s \in starter[o].todo \ starter'[o].todo => StartRunEnqueue(o, s)
         /\ handler[o].pc = "txn" /\ handler'[o].pc = "txn"
              /\ s \in handler[o].todo \ handler'[o].todo => EventEnqueue(o, s)
<1> USE DEF IndInv, TypeOK, OrchestratorTypes, StarterType, HandlerType
<1>1. ASSUME TriggerNext \/ UserNext \/ UNCHANGED vars
      PROVE  UNCHANGED <<starter, handler>>
  BY <1>1, RequestsLeave
<1>2. ASSUME NEW w \in Workers, WorkerNext(w) \/ WorkerFails(w) \/ PollerNext(w) \/ PollLoses(w)
      PROVE  UNCHANGED <<starter, handler>>
  BY <1>2, WorkersLeave
<1>3. ASSUME NEW p \in Orchestrators, StarterNext(p)
      PROVE  /\ UNCHANGED handler
             /\ \/ starter'[o] = starter[o] \/ starter'[o].pc # "txn" \/ starter[o].pc # "txn"
                \/ \E t \in Steps : StartRunEnqueue(o, t) /\ starter'[o].todo = starter[o].todo \ {t}
  <2>1. CASE p # o
    BY <1>3, <2>1 DEF StarterNext, TakeRun, StartRunMissing, StartRunSkip, StartRunBegin,
                      StartRunEnqueue, StartRunCommit, AckRun
  <2>2. CASE p = o
    <3>1. CASE \E t \in Steps : StartRunEnqueue(o, t)
      <4>1. PICK t \in Steps : StartRunEnqueue(o, t)
        BY <3>1
      <4>2. starter' = [starter EXCEPT ![o].todo = @ \ {t}]
        BY <4>1 DEF StartRunEnqueue
      <4>3. starter'[o].todo = starter[o].todo \ {t}
        BY <4>2
      <4>4. UNCHANGED handler
        BY <4>1 DEF StartRunEnqueue
      <4>5. QED
        BY <4>1, <4>3, <4>4
    <3>2. CASE ~\E t \in Steps : StartRunEnqueue(o, t)
      BY <1>3, <2>2, <3>2 DEF StarterNext, TakeRun, StartRunMissing, StartRunSkip, StartRunBegin,
                              StartRunCommit, AckRun, IdleStarter, StarterAt
    <3>3. QED
      BY <3>1, <3>2
  <2>3. QED
    BY <2>1, <2>2
<1>4. ASSUME NEW p \in Orchestrators, HandlerNext(p)
      PROVE  /\ UNCHANGED starter
             /\ \/ handler'[o] = handler[o] \/ handler'[o].pc # "txn" \/ handler[o].pc # "txn"
                \/ \E t \in Steps : EventEnqueue(o, t) /\ handler'[o].todo = handler[o].todo \ {t}
  <2>1. CASE p # o
    BY <1>4, <2>1 DEF HandlerNext, TakeEvent, SkipProcessedEvent, IgnoreEvent, RejectEvent,
                      BeginEvent, EventEnqueue, EventCommit, AckEvent
  <2>2. CASE p = o
    <3>1. CASE \E t \in Steps : EventEnqueue(o, t)
      <4>1. PICK t \in Steps : EventEnqueue(o, t)
        BY <3>1
      <4>2. handler' = [handler EXCEPT ![o].todo = @ \ {t}]
        BY <4>1 DEF EventEnqueue
      <4>3. handler'[o].todo = handler[o].todo \ {t}
        BY <4>2
      <4>4. UNCHANGED starter
        BY <4>1 DEF EventEnqueue
      <4>5. QED
        BY <4>1, <4>3, <4>4
    <3>2. CASE BeginEvent(o)
      BY <3>2 DEF BeginEvent
    <3>3. CASE \/ \E e \in eventQ : TakeEvent(o, e)
               \/ SkipProcessedEvent(o) \/ IgnoreEvent(o) \/ RejectEvent(o)
               \/ EventCommit(o) \/ AckEvent(o)
      BY <3>3 DEF TakeEvent, SkipProcessedEvent, IgnoreEvent, RejectEvent, EventCommit, AckEvent,
                  HandlerAt, IdleHandler
    <3>4. QED
      BY <1>4, <2>2, <3>1, <3>2, <3>3 DEF HandlerNext
  <2>3. QED
    BY <2>1, <2>2
<1>5. ASSUME NEW p \in Orchestrators, ScannerNext(p)
      PROVE  UNCHANGED <<starter, handler>>
  BY <1>5 DEF ScannerNext, ScanSelect, ScanUpdate, ScanAnnounce
<1>6. ASSUME NEW p \in Orchestrators, OrchestratorFails(p)
      PROVE  /\ starter'[o] = starter[o] \/ starter'[o].pc = "idle"
             /\ handler'[o] = handler[o] \/ handler'[o].pc = "idle"
  BY <1>6 DEF OrchestratorFails, StartRunFails, HandleEventFails, OrchestratorCrash, IdleStarter,
              IdleHandler, StarterAt, HandlerAt
<1>7. \/ UNCHANGED <<starter, handler>>
      \/ \E p \in Orchestrators : StarterNext(p) \/ HandlerNext(p) \/ OrchestratorFails(p)
  BY <1>1, <1>2, <1>5 DEF Next
<1>8. CASE UNCHANGED <<starter, handler>>
  BY <1>8
<1>9. CASE \E p \in Orchestrators : StarterNext(p)
  BY <1>3, <1>9
<1>10. CASE \E p \in Orchestrators : HandlerNext(p)
  BY <1>4, <1>10
<1>11. CASE \E p \in Orchestrators : OrchestratorFails(p)
  BY <1>6, <1>11
<1>12. QED
  BY <1>7, <1>8, <1>9, <1>10, <1>11

\* uuids are given out by Report, and every loop only passes them on.
LEMMA UuidInvStep ==
  ASSUME IndInv, UuidInv, [Next]_vars
  PROVE  UuidInv'
<1> USE DEF IndInv, TypeOK
<1>0. /\ emitted \in [Runs -> [Steps -> Nat]] /\ emitted' \in [Runs -> [Steps -> Nat]]
      /\ eventQ \subseteq EventMsg /\ processed' \subseteq Runs \X Steps \X Nat
      /\ \A e \in EventMsg : e.run \in Runs /\ e.step \in Steps /\ e.uuid \in Nat
      /\ \A o \in Orchestrators : handler[o].pc # "idle" => handler[o].event \in EventMsg
      /\ handler \in [Orchestrators -> HandlerType]
  BY NextKeeps DEF WorkerTypes, StreamTypes, DbTypes, OrchestratorTypes, HandlerType, EventMsg
<1>1. ASSUME \A r \in Runs, s \in Steps : emitted'[r][s] >= emitted[r][s],
             \A e \in eventQ' : e \in eventQ \/ e.uuid <= emitted'[e.run][e.step],
             \A o \in Orchestrators : handler'[o].pc # "idle" =>
               handler'[o].event \in eventQ \/ (handler[o].pc # "idle" /\ handler'[o].event = handler[o].event)
      PROVE  UuidInv'
  <2>1. ASSUME NEW e \in EventMsg, e.uuid <= emitted[e.run][e.step]
        PROVE  e.uuid <= emitted'[e.run][e.step]
    BY <1>0, <1>1, <2>1
  <2>2. \A e \in eventQ' : e.uuid <= emitted'[e.run][e.step]
    BY <1>0, <1>1, <2>1 DEF UuidInv
  <2>3. ASSUME NEW o \in Orchestrators, handler'[o].pc # "idle"
        PROVE  handler'[o].event.uuid <= emitted'[handler'[o].event.run][handler'[o].event.step]
    BY <1>0, <1>1, <2>1, <2>3 DEF UuidInv
  <2>4. ASSUME NEW r \in Runs, NEW s \in Steps, NEW u \in Nat, <<r, s, u>> \in processed'
        PROVE  u <= emitted[r][s]
    <3>1. CASE <<r, s, u>> \in processed
      BY <3>1 DEF UuidInv
    <3>2. ASSUME NEW o \in Orchestrators, handler[o].pc \in {"got", "txn"},
                 <<r, s, u>> = EventId(handler[o].event)
          PROVE  u <= emitted[r][s]
      BY <3>2 DEF UuidInv, EventId
    <3>3. QED
      BY <2>4, <3>1, <3>2, ProcessedBy
  <2>5. ASSUME NEW r \in Runs, NEW s \in Steps, NEW u \in Nat, <<r, s, u>> \in processed'
        PROVE  u <= emitted'[r][s]
    <3>1. u <= emitted[r][s] /\ emitted'[r][s] >= emitted[r][s]
      BY <1>1, <2>4, <2>5
    <3>2. QED
      BY <1>0, <3>1
  <2>6. QED
    BY <2>2, <2>3, <2>5 DEF UuidInv
<1>2. CASE TriggerNext \/ UserNext \/ UNCHANGED vars
  <2>1. UNCHANGED <<eventQ, handler, emitted>>
    BY <1>2, RequestsLeave
  <2>2. QED
    BY <1>0, <1>1, <2>1
<1>3. ASSUME NEW p \in Orchestrators, StarterNext(p) \/ ScannerNext(p)
      PROVE  UuidInv'
  <2>1. UNCHANGED <<eventQ, handler, emitted>>
    BY <1>3, OrchestratorsLeave
  <2>2. QED
    BY <1>0, <1>1, <2>1
<1>4. ASSUME NEW p \in Orchestrators, OrchestratorFails(p)
      PROVE  UuidInv'
  <2>1. UNCHANGED <<eventQ, emitted>>
    BY <1>4 DEF OrchestratorFails, StartRunFails, HandleEventFails, OrchestratorCrash
  <2>2. \A o \in Orchestrators : handler'[o] = handler[o] \/ handler'[o].pc = "idle"
    BY <1>0, <1>4 DEF OrchestratorFails, StartRunFails, HandleEventFails, OrchestratorCrash,
                      IdleHandler, HandlerAt
  <2>3. QED
    BY <1>0, <1>1, <2>1, <2>2
<1>5. ASSUME NEW p \in Orchestrators, HandlerNext(p)
      PROVE  UuidInv'
  <2>1. eventQ' \subseteq eventQ /\ UNCHANGED emitted
    BY <1>5 DEF HandlerNext, TakeEvent, SkipProcessedEvent, IgnoreEvent, RejectEvent, BeginEvent,
                EventEnqueue, EventCommit, AckEvent
  <2>2. ASSUME NEW o \in Orchestrators, handler'[o].pc # "idle"
        PROVE  \/ handler'[o].event \in eventQ
               \/ handler[o].pc # "idle" /\ handler'[o].event = handler[o].event
    <3>1. CASE \E e \in eventQ : TakeEvent(p, e)
      BY <1>0, <2>2, <3>1 DEF TakeEvent, HandlerAt
    <3>2. CASE SkipProcessedEvent(p) \/ IgnoreEvent(p) \/ BeginEvent(p) \/ EventCommit(p)
      <4>1. handler[p].pc # "idle" /\ \A q \in Orchestrators : q # p => handler'[q] = handler[q]
        BY <1>0, <3>2 DEF SkipProcessedEvent, IgnoreEvent, BeginEvent, EventCommit
      <4>2. handler'[p].event = handler[p].event
        <5>1. CASE SkipProcessedEvent(p) \/ IgnoreEvent(p)
          BY <1>0, <5>1 DEF SkipProcessedEvent, IgnoreEvent, HandlerType
        <5>2. CASE BeginEvent(p)
          BY <1>0, <5>2 DEF BeginEvent
        <5>3. CASE EventCommit(p)
          BY <1>0, <5>3 DEF EventCommit, HandlerAt
        <5>4. QED
          BY <3>2, <5>1, <5>2, <5>3
      <4>3. QED
        BY <2>2, <4>1, <4>2
    <3>3. CASE \E s \in Steps : EventEnqueue(p, s)
      <4>1. PICK s \in Steps : EventEnqueue(p, s)
        BY <3>3
      <4>2. handler' = [handler EXCEPT ![p].todo = @ \ {s}] /\ handler[p].pc = "txn"
        BY <4>1 DEF EventEnqueue
      <4>3. QED
        BY <1>0, <2>2, <4>2 DEF HandlerType
    <3>4. CASE RejectEvent(p) \/ AckEvent(p)
      BY <1>0, <2>2, <3>4 DEF RejectEvent, AckEvent, IdleHandler, HandlerAt
    <3>5. QED
      BY <1>5, <3>1, <3>2, <3>3, <3>4 DEF HandlerNext
  <2>3. QED
    BY <1>0, <1>1, <2>1, <2>2
<1>6. ASSUME NEW w \in Workers, WorkerNext(w) \/ WorkerFails(w) \/ PollerNext(w) \/ PollLoses(w)
      PROVE  UuidInv'
  <2>1. CASE Report(w)
    <3> DEFINE m == worker[w].msg
    <3>1. m.run \in Runs /\ m.step \in Steps
      BY <2>1, Held DEF Report, At
    <3>2. emitted' = [emitted EXCEPT ![m.run][m.step] = @ + 1] /\ UNCHANGED handler
      BY <2>1 DEF Report, EnqueueEvent
    <3>3. PICK n \in {1, 2} :
            eventQ' = eventQ \cup {[run |-> m.run, step |-> m.step, uuid |-> emitted[m.run][m.step] + 1,
                                    ok |-> At(w, "succeeded"), copy |-> c] : c \in 1..n}
      BY <2>1 DEF Report, EnqueueEvent
    <3>4. \A e \in eventQ' : e \in eventQ \/
            (e.run = m.run /\ e.step = m.step /\ e.uuid = emitted[m.run][m.step] + 1)
      BY <3>3
    <3>5. emitted'[m.run][m.step] = emitted[m.run][m.step] + 1
            /\ \A r \in Runs, s \in Steps : emitted'[r][s] >= emitted[r][s]
      BY <1>0, <3>1, <3>2
    <3>6. \A e \in eventQ' : e \in eventQ \/ e.uuid <= emitted'[e.run][e.step]
      BY <1>0, <3>1, <3>4, <3>5
    <3>7. QED
      BY <1>1, <3>2, <3>5, <3>6
  <2>2. CASE ~Report(w)
    <3>1. UNCHANGED <<eventQ, handler, emitted>>
      BY <1>6, <2>2, WorkersLeave
    <3>2. QED
      BY <1>0, <1>1, <3>1
  <2>3. QED
    BY <2>1, <2>2
<1>7. QED
  BY <1>2, <1>3, <1>4, <1>5, <1>6 DEF Next

\* A step that a transaction queues is tracked.
LEMMA QueuedIsTracked ==
  ASSUME IndInv, [Next]_vars, NEW r \in Runs, NEW s \in Steps, EnqueueStep(FirstMsg(r, s))
  PROVE  Tracked(r, s)'
<1>1. FirstMsg(r, s) \in StepMsg /\ FirstMsg(r, s).run = r /\ FirstMsg(r, s).step = s
  BY FirstAttempt DEF FirstMsg
<1>2. stepQ'[FirstMsg(r, s)] > 0
  BY <1>1 DEF IndInv, TypeOK, StreamTypes, EnqueueStep
<1>3. Left(FirstMsg(r, s))'
  BY <1>2 DEF Left, FirstMsg
<1>4. QED
  BY <1>1, <1>3 DEF Tracked, FirstMsg

\* What is unsettled stays tracked.
LEMMA TrackInvStep ==
  ASSUME NothingSwallowed, IndInv, LostInv, [Next]_vars
  PROVE  TrackInv'
<1> USE DEF LostInv
<1>1. ASSUME NEW r \in Runs, NEW s \in Steps,
             run'[r] = "RUNNING", row'[r][s].status # "NONE", ~Settled(r, s)'
      PROVE  Tracked(r, s)'
  <2>1. ASSUME NEW o \in Orchestrators, Settles(o, r, s)
        PROVE  FALSE
    BY <1>1, <2>1, CommitSettles
  <2>2. ASSUME Tracked(r, s), run[r] \in {"PENDING", "RUNNING"}
        PROVE  Tracked(r, s)'
    BY <2>1, <2>2, TrackedStays
  <2>3. CASE row'[r][s] = row[r][s]
    <3>1. row[r][s].status # "NONE" /\ ~Settled(r, s)
      BY <1>1, <2>3 DEF Settled
    <3>2. run[r] \notin {"NONE", "PENDING"}
      BY <3>1 DEF IndInv, RowInv, NoRow
    <3>3. run[r] = "RUNNING"
      BY <1>1, <3>2, RunMovesStep DEF RunMoves
    <3>4. QED
      BY <2>2, <3>1, <3>3 DEF TrackInv
  <2>4. ASSUME NEW o \in Orchestrators, Starts(o, r, s)
        PROVE  Tracked(r, s)'
    BY <2>2, <2>4 DEF Starts, StartRunCommit, TrackInv, IndInv, TxnInv
  <2>5. ASSUME NEW o \in Orchestrators, Readies(o, r, s)
        PROVE  Tracked(r, s)'
    BY <2>2, <2>5 DEF Readies, EventCommit, TrackInv, IndInv, TxnInv
  <2>6. ASSUME NEW w \in Workers, MarkRunning(w) \/ RetryReset(w), WorksOn(w, r, s),
               row[r][s].status # "NONE"
        PROVE  Tracked(r, s)'
    <3>1. worker[w].msg \in StepMsg /\ worker[w].msg.run = r /\ worker[w].msg.step = s
      BY <2>6, Held DEF IndInv, MarkRunning, RetryReset, At, WorksOn
    <3>2. GoTo(w, "load") \/ GoTo(w, "delay")
      BY <2>6, <3>1 DEF MarkRunning, RetryReset, UpdateRow, RowOf
    <3>3. worker'[w].msg = worker[w].msg /\ worker'[w].pc # "ack"
      BY <3>2 DEF GoTo, IndInv, TypeOK, WorkerTypes
    <3>4. \E m \in StepMsg : m.run = r /\ m.step = s /\ worker'[w].msg = m /\ worker'[w].pc # "ack"
      BY <3>1, <3>3
    <3>5. PICK m \in StepMsg : m.run = r /\ m.step = s /\ worker'[w].msg = m /\ worker'[w].pc # "ack"
      BY <3>4
    <3>6. Left(m)'
      BY <3>5 DEF Left
    <3>7. QED
      BY <3>5, <3>6 DEF Tracked
  <2>7. QED
    BY <1>1, <2>1, <2>3, <2>4, <2>5, <2>6, RowChanges
<1>2. ASSUME NEW o \in Orchestrators, starter'[o].pc = "txn",
             NEW s \in ReadySet(DependsOn, {}) \ starter'[o].todo
      PROVE  \A r \in Runs : r = starter'[o].run => Tracked(r, s)'
  <2> SUFFICES ASSUME NEW r \in Runs, r = starter'[o].run
               PROVE  Tracked(r, s)'
    OBVIOUS
  <2>1. s \in Steps
    BY ReadySetType
  <2>2. CASE StartRunBegin(o)
    BY <1>2, <2>2 DEF StartRunBegin, IndInv, TypeOK, OrchestratorTypes, StarterType
  <2>3. CASE starter[o].pc = "txn" /\ starter'[o].run = starter[o].run
    <3>1. CASE s \in starter[o].todo
      <4>1. StartRunEnqueue(o, s)
        BY <1>2, <2>1, <2>3, <3>1, QueuedByTxn
      <4>2. QED
        BY <2>1, <2>3, <4>1, QueuedIsTracked DEF StartRunEnqueue
    <3>2. CASE s \notin starter[o].todo
      <4>1. Tracked(r, s) /\ run[r] = "PENDING"
        BY <2>3, <3>2 DEF TrackInv, IndInv, TxnInv
      <4>2. ASSUME NEW p \in Orchestrators, Settles(p, r, s)
            PROVE  FALSE
        BY <4>1, <4>2 DEF Settles, EventCommit, IndInv, TxnInv
      <4>3. QED
        BY <2>1, <4>1, <4>2, TrackedStays
    <3>3. QED
      BY <3>1, <3>2
  <2>4. QED
    BY <1>2, <2>2, <2>3, TxnsFrom
<1>3. ASSUME NEW o \in Orchestrators, handler'[o].pc = "txn",
             NEW s \in handler'[o].fresh \ handler'[o].todo
      PROVE  \A r \in Runs : r = handler'[o].event.run => Tracked(r, s)'
  <2> SUFFICES ASSUME NEW r \in Runs, r = handler'[o].event.run
               PROVE  Tracked(r, s)'
    OBVIOUS
  <2>1. s \in Steps
    BY <1>3, NextKeeps DEF IndInv, TypeOK, OrchestratorTypes, HandlerType
  <2>2. CASE BeginEvent(o)
    BY <1>3, <2>2 DEF BeginEvent, IndInv, TypeOK, OrchestratorTypes, HandlerType
  <2>3. CASE /\ handler[o].pc = "txn" /\ handler'[o].event = handler[o].event
             /\ handler'[o].fresh = handler[o].fresh
    <3>1. CASE s \in handler[o].todo
      <4>1. EventEnqueue(o, s)
        BY <1>3, <2>1, <2>3, <3>1, QueuedByTxn
      <4>2. QED
        BY <2>1, <2>3, <4>1, QueuedIsTracked DEF EventEnqueue
    <3>2. CASE s \notin handler[o].todo
      <4>1. Tracked(r, s) /\ run[r] = "RUNNING"
        BY <1>3, <2>3, <3>2 DEF TrackInv, IndInv, TxnInv
      <4>2. ASSUME NEW p \in Orchestrators, Settles(p, r, s)
            PROVE  FALSE
        <5>1. p = o
          BY <2>3, <4>2 DEF Settles, EventCommit, IndInv, LockInv
        <5>2. handler'[o].pc = "ack"
          BY <4>2, <5>1 DEF Settles, EventCommit, HandlerAt, IndInv, TypeOK, OrchestratorTypes
        <5>3. QED
          BY <1>3, <5>2
      <4>3. QED
        BY <2>1, <4>1, <4>2, TrackedStays
    <3>3. QED
      BY <3>1, <3>2
  <2>4. QED
    BY <1>3, <2>2, <2>3, TxnsFrom
<1>4. \A o \in Orchestrators :
        /\ starter'[o].pc = "txn" => starter'[o].run \in Runs
        /\ handler'[o].pc = "txn" => handler'[o].event.run \in Runs
  BY NextKeeps DEF IndInv, TypeOK, OrchestratorTypes, StarterType, HandlerType, EventMsg
<1>5. QED
  BY <1>1, <1>2, <1>3, <1>4 DEF TrackInv

\* At the start nothing is under way.
LEMMA InitLost == Init => LostInv
<1> SUFFICES ASSUME Init
             PROVE  LostInv
  OBVIOUS
<1>1. CancelInv /\ AckInv /\ UuidInv
  BY DEF Init, CancelInv, AckInv, UuidInv, IdleHandler, HandlerAt
<1>2. TrackInv
  BY DEF Init, TrackInv, IdleHandler, HandlerAt, IdleStarter, StarterAt
<1>3. QED
  BY <1>1, <1>2 DEF LostInv

\* What is tracked is carried or pending.
LEMMA TrackedIsPending ==
  ASSUME IndInv, TrackInv
  PROVE  LostWorkIsPending
<1> SUFFICES ASSUME NEW r \in Runs, NEW s \in Steps, Tracked(r, s)
             PROVE  Carriers(r, s) # {} \/ PendingEntry(r, s) \/ PendingEvent(r, s)
  BY DEF LostWorkIsPending, TrackInv
<1> USE DEF IndInv, TypeOK
<1>1. ASSUME NEW m \in StepMsg, m.run = r, m.step = s, Left(m)
      PROVE  Carriers(r, s) # {} \/ PendingEntry(r, s)
  <2>1. CASE \/ stepQ[m] > 0 \/ m \in delayed
             \/ \E w \in Workers : poller[w] = m
    BY <1>1, <2>1, CarriersHold
  <2>2. CASE \E w \in Workers : worker[w].msg = m /\ worker[w].pc # "ack"
    BY <1>1, <2>2, CarriersHold, ConstantsAssumption DEF WorkerTypes
  <2>3. CASE \E w \in Workers : stepPel[w][m] > (IF worker[w].msg = m THEN 1 ELSE 0)
    <3>1. \E w \in Workers : stepPel[w][m] > 0
      BY <2>3 DEF StreamTypes
    <3>2. QED
      BY <1>1, <3>1 DEF PendingEntry
  <2>4. QED
    BY <1>1, <2>1, <2>2, <2>3 DEF Left
<1>2. ASSUME NEW e \in eventQ \cup eventPel, e.run = r, e.step = s, EventId(e) \notin processed
      PROVE  Carriers(r, s) # {} \/ PendingEvent(r, s)
  <2>1. CASE e \in eventQ
    BY <1>2, <2>1, CarriersHold DEF Reported
  <2>2. CASE e \in eventPel
    BY <1>2, <2>2 DEF PendingEvent
  <2>3. QED
    BY <2>1, <2>2
<1>3. QED
  BY <1>1, <1>2 DEF Tracked

\* Unless a failed ZADD or XADD of a retry is swallowed, no step of a RUNNING run is
\* lost without a trace, whatever crashes and however often an XADD is repeated: what
\* nobody works on any more is an entry that was never acknowledged.
THEOREM LostWorkLeavesEntry ==
  ASSUME NothingSwallowed
  PROVE  Spec => []LostWorkIsPending
<1>1. IndInv /\ LostInv /\ [Next]_vars => LostInv'
  BY CancelInvStep, AckInvStep, UuidInvStep, TrackInvStep DEF LostInv
<1>2. IndInv /\ LostInv => LostWorkIsPending
  BY TrackedIsPending DEF LostInv
<1>3. QED
  BY <1>1, <1>2, InitLost, Invariance, PTL DEF Spec

===============================================================================
