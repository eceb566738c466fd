---------------------------- MODULE EngineInvariant ----------------------------
(***************************************************************************)
(* The inductive invariants of Engine, for every definition, any number of *)
(* runs, steps, workers and orchestrators, and any kind and number of      *)
(* faults: IndInv, the types, what the loops hold, the locks, and what a   *)
(* transaction may rely on between its first read and its commit; and,     *)
(* building on it, CarrierInv, who is in charge of a step.                 *)
(***************************************************************************)
EXTENDS EngineProperties, TLAPS

\* A worker that is on its way to a retry has attempts left.
RetryInv ==
  \A w \in Workers :
    worker[w].pc \in {"retry", "reset", "delay"} =>
      worker[w].msg.attempt < MaxAttempts[worker[w].msg.step]

\* What a loop holds is in its pending list.
PelInv ==
  /\ \A o \in Orchestrators : starter[o].pc # "idle" => runPel[o][starter[o].run] > 0
  /\ \A w \in Workers : worker[w].pc # "idle" => stepPel[w][worker[w].msg] > 0

\* One transaction per run.
LockInv ==
  \A o, p \in Orchestrators :
    /\ starter[o].pc = "txn" /\ starter[p].pc = "txn" /\ starter[o].run = starter[p].run
         => o = p
    /\ handler[o].pc = "txn" /\ handler[p].pc = "txn"
         /\ handler[o].event.run = handler[p].event.run => o = p
    /\ ~(starter[o].pc = "txn" /\ handler[p].pc = "txn"
           /\ starter[o].run = handler[p].event.run)

\* A run that is not yet visible has not been triggered to the end.
TriggerInv == \A r \in Runs : trigger[r] \in {"new", "inserted"} => run[r] = "NONE"

\* A run that has not started has no rows.
RowInv == \A r \in Runs : run[r] \in {"NONE", "PENDING"} => \A s \in Steps : row[r][s] = NoRow

\* What a transaction has read under its lock stays true until it commits.
TxnInv ==
  \A o \in Orchestrators :
    /\ starter[o].pc = "txn" => run[starter[o].run] = "PENDING"
    /\ handler[o].pc = "txn" =>
         /\ run[handler[o].event.run] = "RUNNING"
         /\ row[handler[o].event.run][handler[o].event.step].status = "RUNNING"

\* The scanner has only chosen runs that had started.
ScanInv == \A o \in Orchestrators : \A r \in scanner[o].found : run[r] \notin {"NONE", "PENDING"}

IndInv ==
  /\ TypeOK /\ RetryInv /\ PelInv /\ LockInv
  /\ TriggerInv /\ RowInv /\ TxnInv /\ ScanInv

\* The tuples of unchanged variables are abbreviations.
USE DEF dbVars, runStream, stepStream, eventStream, queues, orchVars, workerVars, userVars,
        starterRest, handlerRest, scannerRest, workerRest, apiRest

-------------------------------------------------------------------------------
(* Facts about the operators of the model.                                  *)

\* computeReadySet returns steps of the definition.
LEMMA ReadySetType ==
  ASSUME NEW completed
  PROVE  ReadySet(DependsOn, completed) \in SUBSET Steps
BY ConstantsAssumption DEF ReadySet

\* A fault is counted.
LEMMA FaultCounted ==
  ASSUME faults \in FaultTypes, NEW kind, Fault(kind)
  PROVE  faults' \in FaultTypes
<1>1. faults.count + 1 \in 0..MaxFaults
  BY ConstantsAssumption DEF FaultTypes, Fault
<1>2. (faults.repeated \/ kind \in Resends) \in BOOLEAN
  OBVIOUS
<1>3. QED
  BY <1>1, <1>2 DEF FaultTypes, Fault

\* A step is queued for the first time with attempt 1, a number the schema allows.
LEMMA FirstAttempt ==
  ASSUME NEW s \in Steps
  PROVE  FirstRow \in RowType /\ \A r \in Runs : FirstMsg(r, s) \in StepMsg
<1>1. AttemptLimit \in Nat /\ MaxAttempts[s] \in 1..AttemptLimit
  BY ConstantsAssumption
<1>2. 1 \in 1..AttemptLimit
  BY <1>1
<1>3. FirstRow \in RowType
  BY <1>2 DEF FirstRow, RowType, StepStatuses
<1>4. QED
  BY <1>2, <1>3 DEF FirstMsg, StepMsg

\* Only a RUNNING step may succeed or fail.
LEMMA EndsFromRunning ==
  ASSUME NEW from, NEW to \in {"SUCCEEDED", "FAILED"}, <<from, to>> \in StepMoves
  PROVE  from = "RUNNING"
BY DEF StepMoves

\* A row that is there stays one when it changes to RUNNING.
LEMMA RunningRow ==
  ASSUME NEW x \in RowType, x.status # "NONE"
  PROVE  [x EXCEPT !.status = "RUNNING"] \in RowType
BY DEF RowType, NoRow, StepStatuses

\* What a transaction or a busy loop holds is a run, an event, a message.
LEMMA Held ==
  ASSUME TypeOK
  PROVE  /\ \A o \in Orchestrators :
              /\ starter[o] \in StarterType /\ handler[o] \in HandlerType
              /\ starter[o].pc # "idle" => starter[o].run \in Runs
              /\ handler[o].pc # "idle" => /\ handler[o].event \in EventMsg
                                           /\ handler[o].event.run \in Runs
                                           /\ handler[o].event.step \in Steps
         /\ \A w \in Workers :
              /\ worker[w].pc # "idle" => /\ worker[w].msg \in StepMsg
                                          /\ worker[w].msg.run \in Runs
                                          /\ worker[w].msg.step \in Steps
                                          /\ worker[w].msg.attempt \in 1..AttemptLimit
<1>1. \A o \in Orchestrators :
        /\ starter[o] \in StarterType /\ handler[o] \in HandlerType
        /\ starter[o].pc # "idle" => starter[o].run \in Runs
        /\ handler[o].pc # "idle" => handler[o].event \in EventMsg
  BY DEF TypeOK, OrchestratorTypes, StarterType, HandlerType
<1>2. \A e \in EventMsg : e.run \in Runs /\ e.step \in Steps
  BY DEF EventMsg
<1>3. \A w \in Workers : worker[w].pc # "idle" => worker[w].msg \in StepMsg
  BY DEF TypeOK, WorkerTypes
<1>4. \A m \in StepMsg : m.run \in Runs /\ m.step \in Steps /\ m.attempt \in 1..AttemptLimit
  BY DEF StepMsg
<1>5. QED
  BY <1>1, <1>2, <1>3, <1>4

\* An event gives its run and its step a status of the right kind.
LEMMA Verdicts ==
  ASSUME NEW e
  PROVE  /\ Verdict(e) \in {"OPEN", "SUCCEEDED", "FAILED"}
         /\ FreshSteps(e) \in SUBSET Steps
         /\ StatusAfter(e) \in {"SUCCEEDED", "FAILED"}
<1>1. Verdict(e) \in {"OPEN", "SUCCEEDED", "FAILED"}
  BY DEF Verdict
<1>2. FreshSteps(e) \in SUBSET Steps
  BY ReadySetType DEF FreshSteps
<1>3. StatusAfter(e) \in {"SUCCEEDED", "FAILED"}
  BY DEF StatusAfter
<1>4. QED
  BY <1>1, <1>2, <1>3

\* A reported outcome is one or two well-formed entries of the event stream.
LEMMA EventSent ==
  ASSUME TypeOK, NEW r \in Runs, NEW s \in Steps, NEW ok \in BOOLEAN, EnqueueEvent(r, s, ok)
  PROVE  /\ eventQ' \subseteq EventMsg
         /\ emitted' \in [Runs -> [Steps -> Nat]]
         /\ faults' \in FaultTypes
<1>1. emitted[r][s] \in Nat
  BY DEF TypeOK, WorkerTypes
<1>2. PICK n \in {1, 2} :
        /\ Copies(n, "resend_events")
        /\ eventQ' = eventQ \cup {[run |-> r, step |-> s, uuid |-> emitted[r][s] + 1,
                                   ok |-> ok, copy |-> c] : c \in 1..n}
        /\ emitted' = [emitted EXCEPT ![r][s] = @ + 1]
  BY DEF EnqueueEvent
<1>3. 1..n \subseteq {1, 2}
  OBVIOUS
<1>4. \A c \in 1..n :
        [run |-> r, step |-> s, uuid |-> emitted[r][s] + 1, ok |-> ok, copy |-> c] \in EventMsg
  BY <1>1, <1>3 DEF EventMsg
<1>5. eventQ' \subseteq EventMsg
  BY <1>2, <1>4 DEF TypeOK, StreamTypes
<1>6. emitted' \in [Runs -> [Steps -> Nat]]
  BY <1>1, <1>2 DEF TypeOK, WorkerTypes
<1>7. faults' \in FaultTypes
  BY <1>2, FaultCounted DEF TypeOK, Copies
<1>8. QED
  BY <1>5, <1>6, <1>7

\* A worker's loop keeps its message until it drops it, and goes on to a retry
\* only with attempts left.
LEMMA LoopKeeps ==
  ASSUME WorkerTypes, RetryInv, PelInv, NEW w \in Workers, ~At(w, "idle"),
         \/ Drop(w)
         \/ \E pc \in WorkerPcs \ {"idle"} :
              /\ GoTo(w, pc)
              /\ pc \in {"retry", "reset", "delay"} =>
                   worker[w].msg.attempt < MaxAttempts[worker[w].msg.step]
              /\ UNCHANGED stepPel,
         \A v \in Workers \ {w} : stepPel'[v] = stepPel[v],
         UNCHANGED <<poller, starter, runPel>>,
         emitted' \in [Runs -> [Steps -> Nat]]
  PROVE  WorkerTypes' /\ RetryInv' /\ PelInv'
<1> USE DEF WorkerTypes, At
<1>1. CASE Drop(w)
  BY <1>1, ConstantsAssumption DEF Drop, IdleWorker, WorkerPcs, RetryInv, PelInv
<1>2. CASE \E pc \in WorkerPcs \ {"idle"} :
             /\ GoTo(w, pc)
             /\ pc \in {"retry", "reset", "delay"} =>
                  worker[w].msg.attempt < MaxAttempts[worker[w].msg.step]
             /\ UNCHANGED stepPel
  <2>1. PICK pc \in WorkerPcs \ {"idle"} :
          /\ GoTo(w, pc)
          /\ pc \in {"retry", "reset", "delay"} =>
               worker[w].msg.attempt < MaxAttempts[worker[w].msg.step]
          /\ UNCHANGED stepPel
    BY <1>2
  <2>2. QED
    BY <2>1 DEF GoTo, RetryInv, PelInv
<1>3. QED
  BY <1>1, <1>2

-------------------------------------------------------------------------------
(* One lemma per component: its actions keep the invariant.                  *)

\* The trigger of a run.
LEMMA TriggerKeeps ==
  ASSUME IndInv, NEW r \in Runs,
         \/ CreateRun(r)
         \/ QueueRun(r)
         \/ QueueRunFails(r)
         \/ TickQueueRun(r)
         \/ TickCommit(r)
         \/ TickRollback(r)
  PROVE  IndInv'
<1>1. CASE CreateRun(r)
  <2>1. StreamTypes' /\ OrchestratorTypes' /\ WorkerTypes' /\ faults' \in FaultTypes /\
      RetryInv' /\ PelInv' /\ LockInv'
    BY <1>1
    DEF IndInv, TypeOK, CreateRun, StreamTypes, OrchestratorTypes, WorkerTypes, RetryInv,
      PelInv, LockInv
  <2>2. DbTypes'
    BY <1>1 DEF IndInv, TypeOK, CreateRun, DbTypes, RunStatuses
  <2>3. RequestTypes'
    BY <1>1 DEF IndInv, TypeOK, CreateRun, RequestTypes
  <2>4. TriggerInv'
    BY <1>1 DEF IndInv, TypeOK, CreateRun, TriggerInv, DbTypes, RequestTypes
  <2>5. RowInv'
    BY <1>1 DEF IndInv, TypeOK, CreateRun, RowInv, DbTypes, TriggerInv
  <2>6. TxnInv'
    BY <1>1
    DEF IndInv, TypeOK, CreateRun, TxnInv, DbTypes, TriggerInv, RunStatuses, OrchestratorTypes
  <2>7. ScanInv'
    BY <1>1 DEF IndInv, TypeOK, CreateRun, ScanInv, DbTypes, TriggerInv
  <2>8. QED
    BY <2>1, <2>2, <2>3, <2>4, <2>5, <2>6, <2>7 DEF IndInv, TypeOK
<1>2. CASE QueueRun(r)
  <2>1. DbTypes' /\ OrchestratorTypes' /\ WorkerTypes' /\ RetryInv' /\ PelInv' /\ LockInv' /\
      RowInv' /\ TxnInv' /\ ScanInv'
    BY <1>2
    DEF IndInv, TypeOK, QueueRun, DbTypes, OrchestratorTypes, WorkerTypes, RetryInv, PelInv,
      LockInv, RowInv, TxnInv, ScanInv
  <2>2. StreamTypes'
    BY <1>2 DEF IndInv, TypeOK, QueueRun, StreamTypes, EnqueueRun, Copies
  <2>3. RequestTypes'
    BY <1>2 DEF IndInv, TypeOK, QueueRun, RequestTypes
  <2>4. faults' \in FaultTypes
    BY <1>2, FaultCounted DEF IndInv, TypeOK, QueueRun, EnqueueRun, Copies
  <2>5. TriggerInv'
    BY <1>2 DEF IndInv, TypeOK, QueueRun, TriggerInv, RequestTypes
  <2>6. QED
    BY <2>1, <2>2, <2>3, <2>4, <2>5 DEF IndInv, TypeOK
<1>3. CASE QueueRunFails(r)
  <2>1. DbTypes' /\ StreamTypes' /\ OrchestratorTypes' /\ WorkerTypes' /\ RetryInv' /\ PelInv'
      /\ LockInv' /\ RowInv' /\ TxnInv' /\ ScanInv'
    BY <1>3
    DEF IndInv, TypeOK, QueueRunFails, DbTypes, StreamTypes, OrchestratorTypes, WorkerTypes,
      RetryInv, PelInv, LockInv, RowInv, TxnInv, ScanInv
  <2>2. RequestTypes'
    BY <1>3 DEF IndInv, TypeOK, QueueRunFails, RequestTypes
  <2>3. faults' \in FaultTypes
    BY <1>3, FaultCounted DEF IndInv, TypeOK, QueueRunFails
  <2>4. TriggerInv'
    BY <1>3 DEF IndInv, TypeOK, QueueRunFails, TriggerInv, RequestTypes
  <2>5. QED
    BY <2>1, <2>2, <2>3, <2>4 DEF IndInv, TypeOK
<1>4. CASE TickQueueRun(r)
  <2>1. DbTypes' /\ OrchestratorTypes' /\ WorkerTypes' /\ RetryInv' /\ PelInv' /\ LockInv' /\
      RowInv' /\ TxnInv' /\ ScanInv'
    BY <1>4
    DEF IndInv, TypeOK, TickQueueRun, DbTypes, OrchestratorTypes, WorkerTypes, RetryInv,
      PelInv, LockInv, RowInv, TxnInv, ScanInv
  <2>2. StreamTypes'
    BY <1>4 DEF IndInv, TypeOK, TickQueueRun, StreamTypes, EnqueueRun, Copies
  <2>3. RequestTypes'
    BY <1>4 DEF IndInv, TypeOK, TickQueueRun, RequestTypes
  <2>4. faults' \in FaultTypes
    BY <1>4, FaultCounted DEF IndInv, TypeOK, TickQueueRun, EnqueueRun, Copies
  <2>5. TriggerInv'
    BY <1>4 DEF IndInv, TypeOK, TickQueueRun, TriggerInv, RequestTypes
  <2>6. QED
    BY <2>1, <2>2, <2>3, <2>4, <2>5 DEF IndInv, TypeOK
<1>5. CASE TickCommit(r)
  <2>1. StreamTypes' /\ OrchestratorTypes' /\ WorkerTypes' /\ faults' \in FaultTypes /\
      RetryInv' /\ PelInv' /\ LockInv'
    BY <1>5
    DEF IndInv, TypeOK, TickCommit, StreamTypes, OrchestratorTypes, WorkerTypes, RetryInv,
      PelInv, LockInv
  <2>2. DbTypes'
    BY <1>5 DEF IndInv, TypeOK, TickCommit, DbTypes, RunStatuses
  <2>3. RequestTypes'
    BY <1>5 DEF IndInv, TypeOK, TickCommit, RequestTypes
  <2>4. TriggerInv'
    BY <1>5 DEF IndInv, TypeOK, TickCommit, TriggerInv, DbTypes, RequestTypes
  <2>5. RowInv'
    BY <1>5 DEF IndInv, TypeOK, TickCommit, RowInv, DbTypes, TriggerInv
  <2>6. TxnInv'
    BY <1>5
    DEF IndInv, TypeOK, TickCommit, TxnInv, DbTypes, TriggerInv, RunStatuses,
      OrchestratorTypes
  <2>7. ScanInv'
    BY <1>5 DEF IndInv, TypeOK, TickCommit, ScanInv, DbTypes, TriggerInv
  <2>8. QED
    BY <2>1, <2>2, <2>3, <2>4, <2>5, <2>6, <2>7 DEF IndInv, TypeOK
<1>6. CASE TickRollback(r)
  <2>1. DbTypes' /\ StreamTypes' /\ OrchestratorTypes' /\ WorkerTypes' /\ RetryInv' /\ PelInv'
      /\ LockInv' /\ RowInv' /\ TxnInv' /\ ScanInv'
    BY <1>6
    DEF IndInv, TypeOK, TickRollback, DbTypes, StreamTypes, OrchestratorTypes, WorkerTypes,
      RetryInv, PelInv, LockInv, RowInv, TxnInv, ScanInv
  <2>2. RequestTypes'
    BY <1>6 DEF IndInv, TypeOK, TickRollback, RequestTypes
  <2>3. faults' \in FaultTypes
    BY <1>6, FaultCounted DEF IndInv, TypeOK, TickRollback
  <2>4. TriggerInv'
    BY <1>6 DEF IndInv, TypeOK, TickRollback, TriggerInv, RequestTypes
  <2>5. QED
    BY <2>1, <2>2, <2>3, <2>4 DEF IndInv, TypeOK
<1>7. QED
  BY <1>1, <1>2, <1>3, <1>4, <1>5, <1>6

\* consumeRuns and startRun.
LEMMA StarterKeeps ==
  ASSUME IndInv, NEW o \in Orchestrators,
         \/ \E r \in Runs : TakeRun(o, r)
         \/ StartRunMissing(o)
         \/ StartRunSkip(o)
         \/ StartRunBegin(o)
         \/ \E s \in Steps : StartRunEnqueue(o, s)
         \/ StartRunCommit(o)
         \/ AckRun(o)
         \/ StartRunFails(o)
  PROVE  IndInv'
<1>1. CASE \E r \in Runs : TakeRun(o, r)
  <2>0. PICK r \in Runs : TakeRun(o, r)
    BY <1>1
  <2>1. DbTypes' /\ WorkerTypes' /\ RequestTypes' /\ faults' \in FaultTypes /\ RetryInv' /\
      TriggerInv' /\ RowInv' /\ ScanInv'
    BY <2>0
    DEF IndInv, TypeOK, TakeRun, DbTypes, WorkerTypes, RequestTypes, RetryInv, TriggerInv,
      RowInv, ScanInv
  <2>2. StreamTypes'
    BY <2>0 DEF IndInv, TypeOK, TakeRun, StreamTypes
  <2>3. OrchestratorTypes'
    BY <2>0, ConstantsAssumption
    DEF IndInv, TypeOK, TakeRun, OrchestratorTypes, StarterType, StarterAt, IdleStarter
  <2>4. PelInv'
    BY <2>0
    DEF IndInv, TypeOK, TakeRun, PelInv, StreamTypes, OrchestratorTypes, StarterType,
      StarterAt, IdleStarter
  <2>5. LockInv'
    BY <2>0
    DEF IndInv, TypeOK, TakeRun, LockInv, OrchestratorTypes, StarterType, StarterAt,
      IdleStarter
  <2>6. TxnInv'
    BY <2>0
    DEF IndInv, TypeOK, TakeRun, TxnInv, OrchestratorTypes, StarterType, StarterAt,
      IdleStarter
  <2>7. QED
    BY <2>1, <2>2, <2>3, <2>4, <2>5, <2>6 DEF IndInv, TypeOK
<1>2. CASE StartRunMissing(o)
  <2>1. DbTypes' /\ StreamTypes' /\ WorkerTypes' /\ RequestTypes' /\ faults' \in FaultTypes
      /\ RetryInv' /\ TriggerInv' /\ RowInv' /\ ScanInv'
    BY <1>2
    DEF IndInv, TypeOK, StartRunMissing, DbTypes, StreamTypes, WorkerTypes, RequestTypes,
      RetryInv, TriggerInv, RowInv, ScanInv
  <2>2. OrchestratorTypes'
    BY <1>2, ConstantsAssumption
    DEF IndInv, TypeOK, StartRunMissing, OrchestratorTypes, StarterType, StarterAt,
      IdleStarter
  <2>3. PelInv'
    BY <1>2
    DEF IndInv, TypeOK, StartRunMissing, PelInv, StreamTypes, OrchestratorTypes, StarterType,
      StarterAt, IdleStarter
  <2>4. LockInv'
    BY <1>2
    DEF IndInv, TypeOK, StartRunMissing, LockInv, OrchestratorTypes, StarterType, StarterAt,
      IdleStarter
  <2>5. TxnInv'
    BY <1>2
    DEF IndInv, TypeOK, StartRunMissing, TxnInv, OrchestratorTypes, StarterType, StarterAt,
      IdleStarter
  <2>6. QED
    BY <2>1, <2>2, <2>3, <2>4, <2>5 DEF IndInv, TypeOK
<1>3. CASE StartRunSkip(o)
  <2>1. DbTypes' /\ StreamTypes' /\ WorkerTypes' /\ RequestTypes' /\ faults' \in FaultTypes
      /\ RetryInv' /\ TriggerInv' /\ RowInv' /\ ScanInv'
    BY <1>3
    DEF IndInv, TypeOK, StartRunSkip, DbTypes, StreamTypes, WorkerTypes, RequestTypes,
      RetryInv, TriggerInv, RowInv, ScanInv
  <2>2. OrchestratorTypes'
    <3>1. /\ starter[o] \in StarterType /\ starter[o].run # Nothing
          /\ starter \in [Orchestrators -> StarterType]
          /\ UNCHANGED <<handler, scanner>>
      BY <1>3 DEF IndInv, TypeOK, OrchestratorTypes, StartRunSkip, starterRest
    <3>2. starter' = [starter EXCEPT ![o].pc = "ack"]
      BY <1>3 DEF StartRunSkip
    <3>3. /\ starter'[o] \in StarterType /\ starter'[o].pc # "idle"
          /\ starter'[o].run # Nothing
      BY <3>1, <3>2 DEF StarterType
    <3>4. /\ starter' \in [Orchestrators -> StarterType]
          /\ \A p \in Orchestrators : p # o => starter'[p] = starter[p]
      BY <3>1, <3>2, <3>3
    <3>5. QED
      BY <3>1, <3>3, <3>4 DEF IndInv, TypeOK, OrchestratorTypes
  <2>3. PelInv'
    BY <1>3
    DEF IndInv, TypeOK, StartRunSkip, PelInv, StreamTypes, OrchestratorTypes, StarterType,
      StarterAt, IdleStarter
  <2>4. LockInv'
    BY <1>3
    DEF IndInv, TypeOK, StartRunSkip, LockInv, OrchestratorTypes, StarterType, StarterAt,
      IdleStarter
  <2>5. TxnInv'
    BY <1>3
    DEF IndInv, TypeOK, StartRunSkip, TxnInv, OrchestratorTypes, StarterType, StarterAt,
      IdleStarter
  <2>6. QED
    BY <2>1, <2>2, <2>3, <2>4, <2>5 DEF IndInv, TypeOK
<1>4. CASE StartRunBegin(o)
  <2>1. DbTypes' /\ StreamTypes' /\ WorkerTypes' /\ faults' \in FaultTypes /\ RetryInv' /\
      TriggerInv' /\ RowInv' /\ ScanInv'
    BY <1>4
    DEF IndInv, TypeOK, StartRunBegin, DbTypes, StreamTypes, WorkerTypes, RetryInv,
      TriggerInv, RowInv, ScanInv
  <2>2. OrchestratorTypes'
    BY ZenonT(60), <1>4, ReadySetType, Held
    DEF IndInv, TypeOK, StartRunBegin, OrchestratorTypes, StarterType
  <2>3. RequestTypes'
    BY <1>4
    DEF IndInv, TypeOK, StartRunBegin, RequestTypes, RunEvent, OrchestratorTypes, StarterType
  <2>4. PelInv'
    BY <1>4
    DEF IndInv, TypeOK, StartRunBegin, PelInv, StreamTypes, OrchestratorTypes, StarterType,
      StarterAt, IdleStarter
  <2>5. LockInv'
    BY <1>4
    DEF IndInv, TypeOK, StartRunBegin, LockInv, OrchestratorTypes, StarterType, RunLocked,
      StartsRun, HandlesRun
  <2>6. TxnInv'
    BY <1>4
    DEF IndInv, TypeOK, StartRunBegin, TxnInv, OrchestratorTypes, StarterType, StarterAt,
      IdleStarter
  <2>7. QED
    BY <2>1, <2>2, <2>3, <2>4, <2>5, <2>6 DEF IndInv, TypeOK
<1>5. CASE \E s \in Steps : StartRunEnqueue(o, s)
  <2>0. PICK s \in Steps : StartRunEnqueue(o, s)
    BY <1>5
  <2>1. DbTypes' /\ WorkerTypes' /\ RequestTypes' /\ RetryInv' /\ TriggerInv' /\ RowInv' /\
      ScanInv'
    BY <2>0
    DEF IndInv, TypeOK, StartRunEnqueue, DbTypes, WorkerTypes, RequestTypes, RetryInv,
      TriggerInv, RowInv, ScanInv
  <2>2. StreamTypes'
    <3>1. FirstMsg(starter[o].run, s) \in StepMsg
      BY <2>0, Held, FirstAttempt DEF IndInv, TypeOK, StartRunEnqueue
    <3>2. QED
      BY <2>0, <3>1 DEF IndInv, TypeOK, StartRunEnqueue, StreamTypes, EnqueueStep, Copies
  <2>3. OrchestratorTypes'
    BY <2>0 DEF IndInv, TypeOK, StartRunEnqueue, OrchestratorTypes, StarterType
  <2>4. faults' \in FaultTypes
    BY <2>0, FaultCounted
    DEF IndInv, TypeOK, StartRunEnqueue, EnqueueStep, Copies
  <2>5. PelInv'
    BY <2>0
    DEF IndInv, TypeOK, StartRunEnqueue, PelInv, StreamTypes, OrchestratorTypes, StarterType,
      StarterAt, IdleStarter
  <2>6. LockInv'
    BY <2>0
    DEF IndInv, TypeOK, StartRunEnqueue, LockInv, OrchestratorTypes, StarterType, StarterAt,
      IdleStarter
  <2>7. TxnInv'
    BY <2>0
    DEF IndInv, TypeOK, StartRunEnqueue, TxnInv, OrchestratorTypes, StarterType, StarterAt,
      IdleStarter
  <2>8. QED
    BY <2>1, <2>2, <2>3, <2>4, <2>5, <2>6, <2>7 DEF IndInv, TypeOK
<1>6. CASE StartRunCommit(o)
  <2>1. StreamTypes' /\ WorkerTypes' /\ RequestTypes' /\ faults' \in FaultTypes /\ RetryInv'
    BY <1>6
    DEF IndInv, TypeOK, StartRunCommit, StreamTypes, WorkerTypes, RequestTypes, RetryInv
  <2>2. DbTypes'
    BY <1>6, FirstAttempt DEF IndInv, TypeOK, StartRunCommit, DbTypes, RunStatuses
  <2>3. OrchestratorTypes'
    BY <1>6, ConstantsAssumption
    DEF IndInv, TypeOK, StartRunCommit, OrchestratorTypes, StarterType, StarterAt, IdleStarter
  <2>4. PelInv'
    BY <1>6
    DEF IndInv, TypeOK, StartRunCommit, PelInv, StreamTypes, OrchestratorTypes, StarterType,
      StarterAt, IdleStarter
  <2>5. LockInv'
    BY <1>6
    DEF IndInv, TypeOK, StartRunCommit, LockInv, OrchestratorTypes, StarterType, StarterAt,
      IdleStarter
  <2>6. TriggerInv'
    BY <1>6 DEF IndInv, TypeOK, StartRunCommit, TriggerInv, DbTypes, TxnInv
  <2>7. RowInv'
    BY <1>6
    DEF IndInv, TypeOK, StartRunCommit, RowInv, DbTypes, OrchestratorTypes, StarterType
  <2>8. TxnInv'
    BY <1>6
    DEF IndInv, TypeOK, StartRunCommit, TxnInv, DbTypes, OrchestratorTypes, StarterType,
      LockInv, RunStatuses
  <2>9. ScanInv'
    BY <1>6 DEF IndInv, TypeOK, StartRunCommit, ScanInv, DbTypes
  <2>10. QED
    BY <2>1, <2>2, <2>3, <2>4, <2>5, <2>6, <2>7, <2>8, <2>9 DEF IndInv, TypeOK
<1>7. CASE AckRun(o)
  <2>1. DbTypes' /\ WorkerTypes' /\ RequestTypes' /\ faults' \in FaultTypes /\ RetryInv' /\
      TriggerInv' /\ RowInv' /\ ScanInv'
    BY <1>7
    DEF IndInv, TypeOK, AckRun, DbTypes, WorkerTypes, RequestTypes, RetryInv, TriggerInv,
      RowInv, ScanInv
  <2>2. StreamTypes'
    BY <1>7 DEF IndInv, TypeOK, AckRun, StreamTypes, PelInv, OrchestratorTypes, StarterType
  <2>3. OrchestratorTypes'
    BY <1>7, ConstantsAssumption
    DEF IndInv, TypeOK, AckRun, OrchestratorTypes, StarterType, StarterAt, IdleStarter
  <2>4. PelInv'
    BY <1>7
    DEF IndInv, TypeOK, AckRun, PelInv, StreamTypes, OrchestratorTypes, StarterType,
      StarterAt, IdleStarter
  <2>5. LockInv'
    BY <1>7
    DEF IndInv, TypeOK, AckRun, LockInv, OrchestratorTypes, StarterType, StarterAt,
      IdleStarter
  <2>6. TxnInv'
    BY <1>7
    DEF IndInv, TypeOK, AckRun, TxnInv, OrchestratorTypes, StarterType, StarterAt, IdleStarter
  <2>7. QED
    BY <2>1, <2>2, <2>3, <2>4, <2>5, <2>6 DEF IndInv, TypeOK
<1>8. CASE StartRunFails(o)
  <2>1. DbTypes' /\ StreamTypes' /\ WorkerTypes' /\ RequestTypes' /\ RetryInv' /\ TriggerInv'
      /\ RowInv' /\ ScanInv'
    BY <1>8
    DEF IndInv, TypeOK, StartRunFails, DbTypes, StreamTypes, WorkerTypes, RequestTypes,
      RetryInv, TriggerInv, RowInv, ScanInv
  <2>2. OrchestratorTypes'
    BY <1>8, ConstantsAssumption
    DEF IndInv, TypeOK, StartRunFails, OrchestratorTypes, StarterType, StarterAt, IdleStarter
  <2>3. faults' \in FaultTypes
    BY <1>8, FaultCounted DEF IndInv, TypeOK, StartRunFails
  <2>4. PelInv'
    BY <1>8
    DEF IndInv, TypeOK, StartRunFails, PelInv, StreamTypes, OrchestratorTypes, StarterType,
      StarterAt, IdleStarter
  <2>5. LockInv'
    BY <1>8
    DEF IndInv, TypeOK, StartRunFails, LockInv, OrchestratorTypes, StarterType, StarterAt,
      IdleStarter
  <2>6. TxnInv'
    BY <1>8
    DEF IndInv, TypeOK, StartRunFails, TxnInv, OrchestratorTypes, StarterType, StarterAt,
      IdleStarter
  <2>7. QED
    BY <2>1, <2>2, <2>3, <2>4, <2>5, <2>6 DEF IndInv, TypeOK
<1>9. QED
  BY <1>1, <1>2, <1>3, <1>4, <1>5, <1>6, <1>7, <1>8

\* consumeStepEvents and handleStepEvent.
LEMMA HandlerKeeps ==
  ASSUME IndInv, NEW o \in Orchestrators,
         \/ \E e \in eventQ : TakeEvent(o, e)
         \/ SkipProcessedEvent(o)
         \/ IgnoreEvent(o)
         \/ RejectEvent(o)
         \/ BeginEvent(o)
         \/ \E s \in Steps : EventEnqueue(o, s)
         \/ EventCommit(o)
         \/ AckEvent(o)
         \/ HandleEventFails(o)
  PROVE  IndInv'
<1>1. CASE \E e \in eventQ : TakeEvent(o, e)
  <2>0. PICK e \in eventQ : TakeEvent(o, e)
    BY <1>1
  <2>1. DbTypes' /\ WorkerTypes' /\ RequestTypes' /\ faults' \in FaultTypes /\ RetryInv' /\
      PelInv' /\ TriggerInv' /\ RowInv' /\ ScanInv'
    BY <2>0
    DEF IndInv, TypeOK, TakeEvent, DbTypes, WorkerTypes, RequestTypes, RetryInv, PelInv,
      TriggerInv, RowInv, ScanInv
  <2>2. StreamTypes'
    BY <2>0 DEF IndInv, TypeOK, TakeEvent, StreamTypes
  <2>3. OrchestratorTypes'
    BY <2>0, ConstantsAssumption
    DEF IndInv, TypeOK, TakeEvent, OrchestratorTypes, HandlerType, HandlerAt, IdleHandler,
      StreamTypes
  <2>4. LockInv'
    BY <2>0
    DEF IndInv, TypeOK, TakeEvent, LockInv, OrchestratorTypes, HandlerType, HandlerAt,
      IdleHandler
  <2>5. TxnInv'
    BY <2>0
    DEF IndInv, TypeOK, TakeEvent, TxnInv, OrchestratorTypes, HandlerType, HandlerAt,
      IdleHandler
  <2>6. QED
    BY <2>1, <2>2, <2>3, <2>4, <2>5 DEF IndInv, TypeOK
<1>2. CASE SkipProcessedEvent(o)
  <2>1. DbTypes' /\ StreamTypes' /\ WorkerTypes' /\ RequestTypes' /\ faults' \in FaultTypes
      /\ RetryInv' /\ PelInv' /\ TriggerInv' /\ RowInv' /\ ScanInv'
    BY <1>2
    DEF IndInv, TypeOK, SkipProcessedEvent, DbTypes, StreamTypes, WorkerTypes, RequestTypes,
      RetryInv, PelInv, TriggerInv, RowInv, ScanInv
  <2>2. OrchestratorTypes'
    <3>1. [handler[o] EXCEPT !.pc = "ack"] \in HandlerType
      BY Held DEF IndInv, HandlerType
    <3>2. handler[o].pc = "got" /\ handler' = [handler EXCEPT ![o] = [@ EXCEPT !.pc = "ack"]]
      BY <1>2 DEF SkipProcessedEvent
    <3>3. handler'[o].pc = "ack" /\ handler'[o].event # Nothing
      BY <3>2, Held DEF IndInv, TypeOK, OrchestratorTypes, HandlerType
    <3>4. QED
      BY <1>2, <3>1, <3>2, <3>3 DEF IndInv, TypeOK, SkipProcessedEvent, OrchestratorTypes
  <2>3. LockInv'
    BY <1>2
    DEF IndInv, TypeOK, SkipProcessedEvent, LockInv, OrchestratorTypes, HandlerType,
      HandlerAt, IdleHandler
  <2>4. TxnInv'
    BY <1>2
    DEF IndInv, TypeOK, SkipProcessedEvent, TxnInv, OrchestratorTypes, HandlerType, HandlerAt,
      IdleHandler
  <2>5. QED
    BY <2>1, <2>2, <2>3, <2>4 DEF IndInv, TypeOK
<1>3. CASE IgnoreEvent(o)
  <2>1. StreamTypes' /\ WorkerTypes' /\ RequestTypes' /\ faults' \in FaultTypes /\ RetryInv'
      /\ PelInv' /\ TriggerInv' /\ RowInv' /\ ScanInv'
    BY <1>3
    DEF IndInv, TypeOK, IgnoreEvent, StreamTypes, WorkerTypes, RequestTypes, RetryInv, PelInv,
      TriggerInv, RowInv, ScanInv
  <2>2. DbTypes'
    BY <1>3, Held DEF IndInv, TypeOK, IgnoreEvent, DbTypes, EventMsg, EventId
  <2>3. OrchestratorTypes'
    <3>1. [handler[o] EXCEPT !.pc = "ack"] \in HandlerType
      BY Held DEF IndInv, HandlerType
    <3>2. handler[o].pc = "got" /\ handler' = [handler EXCEPT ![o] = [@ EXCEPT !.pc = "ack"]]
      BY <1>3 DEF IgnoreEvent
    <3>3. handler'[o].pc = "ack" /\ handler'[o].event # Nothing
      BY <3>2, Held DEF IndInv, TypeOK, OrchestratorTypes, HandlerType
    <3>4. QED
      BY <1>3, <3>1, <3>2, <3>3 DEF IndInv, TypeOK, IgnoreEvent, OrchestratorTypes
  <2>4. LockInv'
    BY <1>3
    DEF IndInv, TypeOK, IgnoreEvent, LockInv, OrchestratorTypes, HandlerType, HandlerAt,
      IdleHandler
  <2>5. TxnInv'
    BY <1>3
    DEF IndInv, TypeOK, IgnoreEvent, TxnInv, OrchestratorTypes, HandlerType, HandlerAt,
      IdleHandler
  <2>6. QED
    BY <2>1, <2>2, <2>3, <2>4, <2>5 DEF IndInv, TypeOK
<1>4. CASE RejectEvent(o)
  <2>1. DbTypes' /\ StreamTypes' /\ WorkerTypes' /\ RequestTypes' /\ faults' \in FaultTypes
      /\ RetryInv' /\ PelInv' /\ TriggerInv' /\ RowInv' /\ ScanInv'
    BY <1>4
    DEF IndInv, TypeOK, RejectEvent, DbTypes, StreamTypes, WorkerTypes, RequestTypes,
      RetryInv, PelInv, TriggerInv, RowInv, ScanInv
  <2>2. OrchestratorTypes'
    BY <1>4, ConstantsAssumption
    DEF IndInv, TypeOK, RejectEvent, OrchestratorTypes, HandlerType, HandlerAt, IdleHandler
  <2>3. LockInv'
    BY <1>4
    DEF IndInv, TypeOK, RejectEvent, LockInv, OrchestratorTypes, HandlerType, HandlerAt,
      IdleHandler
  <2>4. TxnInv'
    BY <1>4
    DEF IndInv, TypeOK, RejectEvent, TxnInv, OrchestratorTypes, HandlerType, HandlerAt,
      IdleHandler
  <2>5. QED
    BY <2>1, <2>2, <2>3, <2>4 DEF IndInv, TypeOK
<1>5. CASE BeginEvent(o)
  <2>1. DbTypes' /\ StreamTypes' /\ WorkerTypes' /\ faults' \in FaultTypes /\ RetryInv' /\
      PelInv' /\ TriggerInv' /\ RowInv' /\ ScanInv'
    BY <1>5
    DEF IndInv, TypeOK, BeginEvent, DbTypes, StreamTypes, WorkerTypes, RetryInv, PelInv,
      TriggerInv, RowInv, ScanInv
  <2>2. OrchestratorTypes'
    <3>1. handler[o].event \in EventMsg
      BY <1>5, Held DEF IndInv, BeginEvent
    <3>2. QED
      BY <1>5, <3>1, Verdicts, ConstantsAssumption
      DEF IndInv, TypeOK, BeginEvent, OrchestratorTypes, HandlerType
  <2>3. RequestTypes'
    BY <1>5
    DEF IndInv, TypeOK, BeginEvent, RequestTypes, OrchestratorTypes, HandlerType, EventMsg,
      RunEvent
  <2>4. LockInv'
    BY <1>5
    DEF IndInv, TypeOK, BeginEvent, LockInv, OrchestratorTypes, HandlerType, RunLocked,
      StartsRun, HandlesRun
  <2>5. TxnInv'
    <3> DEFINE e == handler[o].event
    <3>1. e.run \in Runs /\ e.step \in Steps
      BY <1>5, Held DEF IndInv, BeginEvent
    <3>2. row[e.run][e.step].status = "RUNNING"
      BY <1>5, Verdicts, EndsFromRunning DEF BeginEvent, IllegalMove
    <3>3. run[e.run] = "RUNNING"
      BY <1>5, <3>1, <3>2 DEF IndInv, BeginEvent, RowInv, NoRow
    <3>4. handler' = [handler EXCEPT ![o] = [pc |-> "txn", event |-> e, verdict |-> Verdict(e),
                                            fresh |-> FreshSteps(e), todo |-> FreshSteps(e)]]
      BY <1>5 DEF BeginEvent
    <3>5. QED
      BY <1>5, <3>2, <3>3, <3>4 DEF IndInv, TypeOK, BeginEvent, TxnInv, OrchestratorTypes
  <2>6. QED
    BY <2>1, <2>2, <2>3, <2>4, <2>5 DEF IndInv, TypeOK
<1>6. CASE \E s \in Steps : EventEnqueue(o, s)
  <2>0. PICK s \in Steps : EventEnqueue(o, s)
    BY <1>6
  <2>1. DbTypes' /\ WorkerTypes' /\ RequestTypes' /\ RetryInv' /\ PelInv' /\ TriggerInv' /\
      RowInv' /\ ScanInv'
    BY <2>0
    DEF IndInv, TypeOK, EventEnqueue, DbTypes, WorkerTypes, RequestTypes, RetryInv, PelInv,
      TriggerInv, RowInv, ScanInv
  <2>2. StreamTypes'
    <3>1. FirstMsg(handler[o].event.run, s) \in StepMsg
      BY <2>0, Held, FirstAttempt DEF IndInv, TypeOK, EventEnqueue
    <3>2. QED
      BY <2>0, <3>1 DEF IndInv, TypeOK, EventEnqueue, StreamTypes, EnqueueStep, Copies
  <2>3. OrchestratorTypes'
    BY <2>0 DEF IndInv, TypeOK, EventEnqueue, OrchestratorTypes, HandlerType
  <2>4. faults' \in FaultTypes
    BY <2>0, FaultCounted DEF IndInv, TypeOK, EventEnqueue, EnqueueStep, Copies
  <2>5. LockInv'
    BY <2>0
    DEF IndInv, TypeOK, EventEnqueue, LockInv, OrchestratorTypes, HandlerType, HandlerAt,
      IdleHandler
  <2>6. TxnInv'
    BY <2>0
    DEF IndInv, TypeOK, EventEnqueue, TxnInv, OrchestratorTypes, HandlerType, HandlerAt,
      IdleHandler
  <2>7. QED
    BY <2>1, <2>2, <2>3, <2>4, <2>5, <2>6 DEF IndInv, TypeOK
<1>7. CASE EventCommit(o)
  <2>1. StreamTypes' /\ WorkerTypes' /\ RequestTypes' /\ faults' \in FaultTypes /\ RetryInv'
      /\ PelInv'
    BY <1>7
    DEF IndInv, TypeOK, EventCommit, StreamTypes, WorkerTypes, RequestTypes, RetryInv, PelInv
  <2>2. DbTypes'
    <3> DEFINE e == handler[o].event
    <3>1. /\ e \in EventMsg /\ e.run \in Runs /\ e.step \in Steps
          /\ handler[o].verdict \in {"OPEN", "SUCCEEDED", "FAILED"}
      BY <1>7, Held DEF IndInv, EventCommit, HandlerType
    <3>2. run' \in [Runs -> RunStatuses \cup {"NONE", "DELETED"}]
      BY <1>7, <3>1 DEF IndInv, TypeOK, EventCommit, DbTypes, RunStatuses
    <3>3. row[e.run][e.step] \in [status: StepStatuses, attempt: 1..AttemptLimit]
      BY <1>7, <3>1 DEF IndInv, TypeOK, EventCommit, DbTypes, RowType, TxnInv, NoRow
    <3>4. [row[e.run][e.step] EXCEPT !.status = StatusAfter(e)] \in RowType
      BY <3>3, Verdicts DEF RowType, StepStatuses
    <3>5. row' \in [Runs -> [Steps -> RowType]]
      BY <1>7, <3>1, <3>4, FirstAttempt DEF IndInv, TypeOK, EventCommit, DbTypes
    <3>6. processed' \subseteq Runs \X Steps \X Nat
      BY <1>7, <3>1 DEF IndInv, TypeOK, EventCommit, DbTypes, EventId, EventMsg
    <3>7. QED
      BY <3>2, <3>5, <3>6 DEF DbTypes
  <2>3. OrchestratorTypes'
    BY <1>7, ConstantsAssumption
    DEF IndInv, TypeOK, EventCommit, OrchestratorTypes, HandlerType, HandlerAt, IdleHandler
  <2>4. LockInv'
    BY <1>7
    DEF IndInv, TypeOK, EventCommit, LockInv, OrchestratorTypes, HandlerType, HandlerAt,
      IdleHandler
  <2>5. TriggerInv'
    BY <1>7
    DEF IndInv, TypeOK, EventCommit, TriggerInv, DbTypes, OrchestratorTypes, HandlerType,
      TxnInv
  <2>6. RowInv'
    BY <1>7
    DEF IndInv, TypeOK, EventCommit, RowInv, DbTypes, OrchestratorTypes, HandlerType,
      EventMsg, TxnInv
  <2>7. TxnInv'
    <3>1. /\ handler[o].pc = "txn" /\ handler'[o].pc = "ack" /\ starter' = starter
          /\ \A q \in Orchestrators : q # o => handler'[q] = handler[q]
      BY <1>7 DEF IndInv, TypeOK, OrchestratorTypes, EventCommit, HandlerAt
    <3>2. \A r \in Runs : r # handler[o].event.run => run'[r] = run[r] /\ row'[r] = row[r]
      BY <1>7 DEF IndInv, TypeOK, DbTypes, EventCommit
    <3>3. ASSUME NEW q \in Orchestrators
          PROVE  /\ starter'[q].pc = "txn" =>
                      starter[q].run \in Runs /\ starter[q].run # handler[o].event.run
                 /\ handler'[q].pc = "txn" =>
                      /\ handler[q].event.run \in Runs /\ handler[q].event.run # handler[o].event.run
                      /\ q # o
      BY <3>1, Held DEF IndInv, LockInv
    <3>4. QED
      BY <3>1, <3>2, <3>3 DEF IndInv, TxnInv
  <2>8. ScanInv'
    BY <1>7
    DEF IndInv, TypeOK, EventCommit, ScanInv, DbTypes, OrchestratorTypes, HandlerType, TxnInv
  <2>9. QED
    BY <2>1, <2>2, <2>3, <2>4, <2>5, <2>6, <2>7, <2>8 DEF IndInv, TypeOK
<1>8. CASE AckEvent(o)
  <2>1. DbTypes' /\ WorkerTypes' /\ RequestTypes' /\ faults' \in FaultTypes /\ RetryInv' /\
      PelInv' /\ TriggerInv' /\ RowInv' /\ ScanInv'
    BY <1>8
    DEF IndInv, TypeOK, AckEvent, DbTypes, WorkerTypes, RequestTypes, RetryInv, PelInv,
      TriggerInv, RowInv, ScanInv
  <2>2. StreamTypes'
    BY <1>8 DEF IndInv, TypeOK, AckEvent, StreamTypes
  <2>3. OrchestratorTypes'
    BY <1>8, ConstantsAssumption
    DEF IndInv, TypeOK, AckEvent, OrchestratorTypes, HandlerType, HandlerAt, IdleHandler
  <2>4. LockInv'
    BY <1>8
    DEF IndInv, TypeOK, AckEvent, LockInv, OrchestratorTypes, HandlerType, HandlerAt,
      IdleHandler
  <2>5. TxnInv'
    BY <1>8
    DEF IndInv, TypeOK, AckEvent, TxnInv, OrchestratorTypes, HandlerType, HandlerAt,
      IdleHandler
  <2>6. QED
    BY <2>1, <2>2, <2>3, <2>4, <2>5 DEF IndInv, TypeOK
<1>9. CASE HandleEventFails(o)
  <2>1. DbTypes' /\ StreamTypes' /\ WorkerTypes' /\ RequestTypes' /\ RetryInv' /\ PelInv' /\
      TriggerInv' /\ RowInv' /\ ScanInv'
    BY <1>9
    DEF IndInv, TypeOK, HandleEventFails, DbTypes, StreamTypes, WorkerTypes, RequestTypes,
      RetryInv, PelInv, TriggerInv, RowInv, ScanInv
  <2>2. OrchestratorTypes'
    BY <1>9, ConstantsAssumption
    DEF IndInv, TypeOK, HandleEventFails, OrchestratorTypes, HandlerType, HandlerAt,
      IdleHandler
  <2>3. faults' \in FaultTypes
    BY <1>9, FaultCounted DEF IndInv, TypeOK, HandleEventFails
  <2>4. LockInv'
    BY <1>9
    DEF IndInv, TypeOK, HandleEventFails, LockInv, OrchestratorTypes, HandlerType, HandlerAt,
      IdleHandler
  <2>5. TxnInv'
    BY <1>9
    DEF IndInv, TypeOK, HandleEventFails, TxnInv, OrchestratorTypes, HandlerType, HandlerAt,
      IdleHandler
  <2>6. QED
    BY <2>1, <2>2, <2>3, <2>4, <2>5 DEF IndInv, TypeOK
<1>10. QED
  BY <1>1, <1>2, <1>3, <1>4, <1>5, <1>6, <1>7, <1>8, <1>9

\* The timeout scanner and the crash of an orchestrator.
LEMMA ScannerKeeps ==
  ASSUME IndInv, NEW o \in Orchestrators,
         \/ ScanSelect(o)
         \/ ScanUpdate(o)
         \/ \E r \in Runs : ScanAnnounce(o, r)
         \/ OrchestratorCrash(o)
  PROVE  IndInv'
<1>1. CASE ScanSelect(o)
  <2>1. DbTypes' /\ StreamTypes' /\ WorkerTypes' /\ RequestTypes' /\ faults' \in FaultTypes
      /\ RetryInv' /\ PelInv' /\ LockInv' /\ TriggerInv' /\ RowInv' /\ TxnInv'
    BY <1>1
    DEF IndInv, TypeOK, ScanSelect, DbTypes, StreamTypes, WorkerTypes, RequestTypes, RetryInv,
      PelInv, LockInv, TriggerInv, RowInv, TxnInv
  <2>2. OrchestratorTypes'
    BY <1>1 DEF IndInv, TypeOK, ScanSelect, OrchestratorTypes, RequestTypes
  <2>3. ScanInv'
    BY <1>1 DEF IndInv, TypeOK, ScanSelect, ScanInv, OrchestratorTypes
  <2>4. QED
    BY <2>1, <2>2, <2>3 DEF IndInv, TypeOK
<1>2. CASE ScanUpdate(o)
  <2>1. StreamTypes' /\ WorkerTypes' /\ RequestTypes' /\ faults' \in FaultTypes /\ RetryInv'
      /\ PelInv' /\ LockInv'
    BY <1>2
    DEF IndInv, TypeOK, ScanUpdate, StreamTypes, WorkerTypes, RequestTypes, RetryInv, PelInv,
      LockInv
  <2>2. DbTypes'
    BY <1>2 DEF IndInv, TypeOK, ScanUpdate, DbTypes, OrchestratorTypes, RunStatuses
  <2>3. OrchestratorTypes'
    BY <1>2 DEF IndInv, TypeOK, ScanUpdate, OrchestratorTypes
  <2>4. TriggerInv'
    BY <1>2 DEF IndInv, TypeOK, ScanUpdate, TriggerInv, DbTypes, RunStatuses, ScanInv
  <2>5. RowInv'
    BY <1>2 DEF IndInv, TypeOK, ScanUpdate, RowInv, DbTypes, RunStatuses
  <2>6. TxnInv'
    <3>1. \A r \in scanner[o].found : ~RunLocked(r)
      BY <1>2 DEF ScanUpdate
    <3>2. \A p \in Orchestrators :
            /\ starter[p].pc = "txn" =>
                 starter[p].run \in Runs /\ starter[p].run \notin scanner[o].found
            /\ handler[p].pc = "txn" =>
                 handler[p].event.run \in Runs /\ handler[p].event.run \notin scanner[o].found
      BY <3>1, Held DEF IndInv, RunLocked, StartsRun, HandlesRun
    <3>3. QED
      BY <1>2, <3>2 DEF IndInv, ScanUpdate, TxnInv
  <2>7. ScanInv'
    BY <1>2 DEF IndInv, TypeOK, ScanUpdate, ScanInv, OrchestratorTypes, DbTypes, RunStatuses
  <2>8. QED
    BY <2>1, <2>2, <2>3, <2>4, <2>5, <2>6, <2>7 DEF IndInv, TypeOK
<1>3. CASE \E r \in Runs : ScanAnnounce(o, r)
  <2>0. PICK r \in Runs : ScanAnnounce(o, r)
    BY <1>3
  <2>1. DbTypes' /\ StreamTypes' /\ WorkerTypes' /\ faults' \in FaultTypes /\ RetryInv' /\
      PelInv' /\ LockInv' /\ TriggerInv' /\ RowInv' /\ TxnInv'
    <3>1. UNCHANGED <<run, row, processed, runQ, runPel, stepQ, stepPel, eventQ, eventPel, delayed,
                      starter, handler, worker, poller, emitted, trigger, faults>>
      BY <2>0 DEF ScanAnnounce
    <3>2. DbTypes' /\ StreamTypes' /\ WorkerTypes' /\ faults' \in FaultTypes
      BY <3>1 DEF IndInv, TypeOK, DbTypes, StreamTypes, WorkerTypes
    <3>3. QED
      BY <3>1, <3>2
      DEF IndInv, RetryInv, PelInv, LockInv, TriggerInv, RowInv, TxnInv
  <2>2. OrchestratorTypes'
    BY <2>0 DEF IndInv, TypeOK, ScanAnnounce, OrchestratorTypes
  <2>3. RequestTypes'
    BY <2>0 DEF IndInv, TypeOK, ScanAnnounce, RequestTypes, RunEvent
  <2>4. ScanInv'
    BY <2>0 DEF IndInv, TypeOK, ScanAnnounce, ScanInv, OrchestratorTypes
  <2>5. QED
    BY <2>1, <2>2, <2>3, <2>4 DEF IndInv, TypeOK
<1>4. CASE OrchestratorCrash(o)
  <2>1. DbTypes' /\ StreamTypes' /\ WorkerTypes' /\ RequestTypes' /\ RetryInv' /\ TriggerInv'
      /\ RowInv'
    BY <1>4
    DEF IndInv, TypeOK, OrchestratorCrash, DbTypes, StreamTypes, WorkerTypes, RequestTypes,
      RetryInv, TriggerInv, RowInv
  <2>2. OrchestratorTypes'
    BY <1>4, ConstantsAssumption
    DEF IndInv, TypeOK, OrchestratorCrash, OrchestratorTypes, StarterType, StarterAt,
      IdleStarter, HandlerType, HandlerAt, IdleHandler, IdleScanner
  <2>3. faults' \in FaultTypes
    BY <1>4, FaultCounted DEF IndInv, TypeOK, OrchestratorCrash
  <2>4. PelInv'
    BY <1>4
    DEF IndInv, TypeOK, OrchestratorCrash, PelInv, OrchestratorTypes, StreamTypes,
      StarterType, StarterAt, IdleStarter
  <2>5. LockInv'
    BY <1>4
    DEF IndInv, TypeOK, OrchestratorCrash, LockInv, OrchestratorTypes, StarterType, StarterAt,
      IdleStarter, HandlerType, HandlerAt, IdleHandler
  <2>6. TxnInv'
    BY <1>4
    DEF IndInv, TypeOK, OrchestratorCrash, TxnInv, OrchestratorTypes, StarterType, StarterAt,
      IdleStarter, HandlerType, HandlerAt, IdleHandler
  <2>7. ScanInv'
    BY <1>4 DEF IndInv, TypeOK, OrchestratorCrash, ScanInv, OrchestratorTypes, IdleScanner
  <2>8. QED
    BY <2>1, <2>2, <2>3, <2>4, <2>5, <2>6, <2>7 DEF IndInv, TypeOK
<1>5. QED
  BY <1>1, <1>2, <1>3, <1>4

\* The loop of a worker.
LEMMA WorkerKeeps ==
  ASSUME IndInv, NEW w \in Workers,
         \/ \E m \in StepMsg : TakeStep(w, m)
         \/ CheckCancelled(w)
         \/ ClaimStep(w)
         \/ MarkRunning(w)
         \/ LoadSpec(w)
         \/ Execute(w)
         \/ Report(w)
         \/ RetrySelect(w)
         \/ RetryReset(w)
         \/ ScheduleRetry(w)
         \/ AckStep(w)
         \/ WorkerFails(w)
  PROVE  IndInv'
<1>1. CASE \E m \in StepMsg : TakeStep(w, m)
  <2>0. PICK m \in StepMsg : TakeStep(w, m)
    BY <1>1
  <2>1. DbTypes' /\ OrchestratorTypes' /\ RequestTypes' /\ faults' \in FaultTypes /\
      LockInv' /\ TriggerInv' /\ RowInv' /\ TxnInv' /\ ScanInv'
    BY <2>0
    DEF IndInv, TypeOK, TakeStep, DbTypes, OrchestratorTypes, RequestTypes, LockInv,
      TriggerInv, RowInv, TxnInv, ScanInv
  <2>2. StreamTypes'
    BY <2>0 DEF IndInv, TypeOK, TakeStep, StreamTypes
  <2>3. WorkerTypes'
    BY <2>0, ConstantsAssumption
    DEF IndInv, TypeOK, TakeStep, WorkerTypes, At, GoTo, Drop, IdleWorker, WorkerPcs
  <2>4. RetryInv'
    BY <2>0
    DEF IndInv, TypeOK, TakeStep, RetryInv, WorkerTypes, At, GoTo, Drop, IdleWorker, WorkerPcs
  <2>5. PelInv'
    BY <2>0
    DEF IndInv, TypeOK, TakeStep, PelInv, WorkerTypes, StreamTypes, At, GoTo, Drop,
      IdleWorker, WorkerPcs
  <2>6. QED
    BY <2>1, <2>2, <2>3, <2>4, <2>5 DEF IndInv, TypeOK
<1>2. CASE CheckCancelled(w)
  <2>1. DbTypes' /\ StreamTypes' /\ OrchestratorTypes' /\ RequestTypes' /\ faults' \in
      FaultTypes /\ LockInv' /\ TriggerInv' /\ RowInv' /\ TxnInv' /\ ScanInv'
    BY <1>2
    DEF IndInv, TypeOK, CheckCancelled, DbTypes, StreamTypes, OrchestratorTypes, RequestTypes,
      LockInv, TriggerInv, RowInv, TxnInv, ScanInv
  <2>2. WorkerTypes' /\ RetryInv' /\ PelInv'
    BY <1>2, LoopKeeps DEF IndInv, TypeOK, CheckCancelled, At, WorkerPcs, WorkerTypes
  <2>3. QED
    BY <2>1, <2>2 DEF IndInv, TypeOK
<1>3. CASE ClaimStep(w)
  <2>1. DbTypes' /\ StreamTypes' /\ OrchestratorTypes' /\ RequestTypes' /\ faults' \in
      FaultTypes /\ LockInv' /\ TriggerInv' /\ RowInv' /\ TxnInv' /\ ScanInv'
    BY <1>3
    DEF IndInv, TypeOK, ClaimStep, DbTypes, StreamTypes, OrchestratorTypes, RequestTypes,
      LockInv, TriggerInv, RowInv, TxnInv, ScanInv, SelectRow
  <2>2. WorkerTypes' /\ RetryInv' /\ PelInv'
    BY <1>3, LoopKeeps DEF IndInv, TypeOK, ClaimStep, At, WorkerPcs, WorkerTypes, SelectRow
  <2>3. QED
    BY <2>1, <2>2 DEF IndInv, TypeOK
<1>4. CASE MarkRunning(w)
  <2>1. StreamTypes' /\ OrchestratorTypes' /\ RequestTypes' /\ faults' \in FaultTypes /\
      LockInv' /\ TriggerInv' /\ ScanInv'
    BY <1>4
    DEF IndInv, TypeOK, MarkRunning, StreamTypes, OrchestratorTypes, RequestTypes, LockInv,
      TriggerInv, ScanInv, UpdateRow
  <2>2. DbTypes'
    <3>1. /\ worker[w].msg.run \in Runs /\ worker[w].msg.step \in Steps
          /\ worker[w].msg.attempt \in 1..AttemptLimit
      BY <1>4, Held DEF IndInv, MarkRunning, At
    <3>2. RowOf(w).status # "NONE" => [RowOf(w) EXCEPT !.status = "RUNNING"] \in RowType
      <4>1. row[worker[w].msg.run][worker[w].msg.step] \in RowType
        BY <3>1 DEF IndInv, TypeOK, DbTypes
      <4>2. QED
        BY <4>1, RunningRow DEF RowOf
    <3>3. row' \in [Runs -> [Steps -> RowType]]
      <4> DEFINE new == [RowOf(w) EXCEPT !.status = "RUNNING"]
      <4>1. CASE RowOf(w).status = "NONE"
        BY <1>4, <4>1 DEF IndInv, TypeOK, MarkRunning, UpdateRow, DbTypes
      <4>2. CASE RowOf(w).status # "NONE"
        <5>1. row' = [row EXCEPT ![worker[w].msg.run][worker[w].msg.step] = new]
          BY <1>4, <4>2 DEF MarkRunning, UpdateRow
        <5>2. new \in RowType
          BY <3>2, <4>2
        <5> HIDE DEF new
        <5>3. QED
          BY <3>1, <5>1, <5>2 DEF IndInv, TypeOK, DbTypes
      <4>3. QED
        BY <4>1, <4>2
    <3>4. QED
      BY <1>4, <3>1, <3>2, <3>3 DEF IndInv, TypeOK, MarkRunning, UpdateRow, DbTypes
  <2>3. RowInv'
    <3>1. worker[w].msg.run \in Runs /\ worker[w].msg.step \in Steps
      BY <1>4, Held DEF IndInv, MarkRunning, At
    <3>2. QED
      <4>1. run' = run /\ \A r \in Runs, s \in Steps : row[r][s] = NoRow => row'[r][s] = NoRow
        <5>1. run' = run /\ row \in [Runs -> [Steps -> RowType]]
          BY <1>4 DEF IndInv, TypeOK, DbTypes, MarkRunning, UpdateRow
        <5>2. \/ row' = row
              \/ /\ row[worker[w].msg.run][worker[w].msg.step] # NoRow
                 /\ row' = [row EXCEPT ![worker[w].msg.run][worker[w].msg.step] =
                                                      [RowOf(w) EXCEPT !.status = "RUNNING"]]
          <6>1. CASE RowOf(w).status = "NONE"
            BY <1>4, <6>1 DEF MarkRunning, UpdateRow
          <6>2. CASE RowOf(w).status # "NONE"
            <7>1. row[worker[w].msg.run][worker[w].msg.step] # NoRow
              BY <6>2 DEF RowOf, NoRow
            <7>2. QED
              BY <1>4, <6>2, <7>1 DEF MarkRunning, UpdateRow
          <6>3. QED
            BY <6>1, <6>2
        <5>3. CASE row' # row
          <6> DEFINE r0 == worker[w].msg.run
                     s0 == worker[w].msg.step
                     new == [RowOf(w) EXCEPT !.status = "RUNNING"]
          <6>1. row[r0][s0] # NoRow /\ row' = [row EXCEPT ![r0][s0] = new]
            BY <5>2, <5>3
          <6> HIDE DEF r0, s0, new
          <6>2. QED
            BY <5>1, <6>1
        <5>4. QED
          BY <5>1, <5>3
      <4>2. QED
        BY <4>1 DEF IndInv, RowInv
  <2>4. TxnInv'
    <3>1. \A r \in Runs, s \in Steps : RowLocked(r, s) => row'[r][s] = row[r][s]
      BY <1>4, Held DEF IndInv, TypeOK, MarkRunning, UpdateRow, DbTypes, At
    <3>2. \A p \in Orchestrators : handler[p].pc = "txn" =>
            /\ handler[p].event.run \in Runs /\ handler[p].event.step \in Steps
            /\ RowLocked(handler[p].event.run, handler[p].event.step)
      BY Held DEF IndInv, RowLocked, HandlesRun
    <3>3. QED
      BY <1>4, <3>1, <3>2 DEF IndInv, MarkRunning, UpdateRow, TxnInv
  <2>5. WorkerTypes' /\ RetryInv' /\ PelInv'
    BY <1>4, LoopKeeps DEF IndInv, TypeOK, MarkRunning, At, WorkerPcs, WorkerTypes, UpdateRow
  <2>6. QED
    BY <2>1, <2>2, <2>3, <2>4, <2>5 DEF IndInv, TypeOK
<1>5. CASE LoadSpec(w)
  <2>1. DbTypes' /\ StreamTypes' /\ OrchestratorTypes' /\ RequestTypes' /\ faults' \in
      FaultTypes /\ LockInv' /\ TriggerInv' /\ RowInv' /\ TxnInv' /\ ScanInv'
    BY <1>5
    DEF IndInv, TypeOK, LoadSpec, DbTypes, StreamTypes, OrchestratorTypes, RequestTypes,
      LockInv, TriggerInv, RowInv, TxnInv, ScanInv
  <2>2. WorkerTypes' /\ RetryInv' /\ PelInv'
    BY <1>5, LoopKeeps DEF IndInv, TypeOK, LoadSpec, At, WorkerPcs, WorkerTypes
  <2>3. QED
    BY <2>1, <2>2 DEF IndInv, TypeOK
<1>6. CASE Execute(w)
  <2>1. DbTypes' /\ StreamTypes' /\ OrchestratorTypes' /\ RequestTypes' /\ faults' \in
      FaultTypes /\ LockInv' /\ TriggerInv' /\ RowInv' /\ TxnInv' /\ ScanInv'
    BY <1>6
    DEF IndInv, TypeOK, Execute, DbTypes, StreamTypes, OrchestratorTypes, RequestTypes,
      LockInv, TriggerInv, RowInv, TxnInv, ScanInv
  <2>2. WorkerTypes' /\ RetryInv' /\ PelInv'
    <3>1. \E pc \in WorkerPcs \ {"idle"} :
            /\ GoTo(w, pc)
            /\ pc \in {"retry", "reset", "delay"} =>
                 worker[w].msg.attempt < MaxAttempts[worker[w].msg.step]
      BY <1>6 DEF Execute, WorkerPcs
    <3>2. QED
      BY <1>6, <3>1, LoopKeeps DEF IndInv, TypeOK, Execute, At, WorkerTypes
  <2>3. QED
    BY <2>1, <2>2 DEF IndInv, TypeOK
<1>7. CASE Report(w)
  <2>0. /\ eventQ' \subseteq EventMsg
        /\ emitted' \in [Runs -> [Steps -> Nat]]
        /\ faults' \in FaultTypes
    <3>1. worker[w].msg.run \in Runs /\ worker[w].msg.step \in Steps
      BY <1>7, Held DEF IndInv, Report, At
    <3>2. At(w, "succeeded") \in BOOLEAN
      BY DEF At
    <3>3. QED
      BY <1>7, <3>1, <3>2, EventSent DEF IndInv, Report
  <2>1. DbTypes' /\ OrchestratorTypes' /\ RequestTypes' /\ LockInv' /\ TriggerInv' /\ RowInv'
      /\ TxnInv' /\ ScanInv'
    BY <1>7
    DEF IndInv, TypeOK, Report, DbTypes, OrchestratorTypes, RequestTypes, LockInv, TriggerInv,
      RowInv, TxnInv, ScanInv
  <2>2. StreamTypes'
    BY <1>7, <2>0 DEF IndInv, TypeOK, StreamTypes, Report
  <2>3. faults' \in FaultTypes
    BY <2>0
  <2>4. WorkerTypes' /\ RetryInv' /\ PelInv'
    BY <1>7, <2>0, LoopKeeps DEF IndInv, TypeOK, Report, At, WorkerPcs, WorkerTypes
  <2>5. QED
    BY <2>1, <2>2, <2>3, <2>4 DEF IndInv, TypeOK
<1>8. CASE RetrySelect(w)
  <2>1. DbTypes' /\ StreamTypes' /\ OrchestratorTypes' /\ RequestTypes' /\ faults' \in
      FaultTypes /\ LockInv' /\ TriggerInv' /\ RowInv' /\ TxnInv' /\ ScanInv'
    BY <1>8
    DEF IndInv, TypeOK, RetrySelect, DbTypes, StreamTypes, OrchestratorTypes, RequestTypes,
      LockInv, TriggerInv, RowInv, TxnInv, ScanInv, SelectRow
  <2>2. WorkerTypes' /\ RetryInv' /\ PelInv'
    <3>1. worker[w].msg.attempt < MaxAttempts[worker[w].msg.step]
      BY <1>8 DEF IndInv, RetryInv, RetrySelect, At
    <3>2. QED
      BY <1>8, <3>1, LoopKeeps DEF IndInv, TypeOK, RetrySelect, SelectRow, At, WorkerPcs, WorkerTypes
  <2>3. QED
    BY <2>1, <2>2 DEF IndInv, TypeOK
<1>9. CASE RetryReset(w)
  <2>1. StreamTypes' /\ OrchestratorTypes' /\ RequestTypes' /\ faults' \in FaultTypes /\
      LockInv' /\ TriggerInv' /\ ScanInv'
    BY <1>9
    DEF IndInv, TypeOK, RetryReset, StreamTypes, OrchestratorTypes, RequestTypes, LockInv,
      TriggerInv, ScanInv, UpdateRow
  <2>2. DbTypes'
    <3>1. /\ worker[w].msg.run \in Runs /\ worker[w].msg.step \in Steps
          /\ worker[w].msg.attempt \in 1..AttemptLimit
      BY <1>9, Held DEF IndInv, RetryReset, At
    <3>2. [status |-> "READY", attempt |-> worker[w].msg.attempt + 1] \in RowType
      BY <1>9, <3>1, ConstantsAssumption
      DEF IndInv, RetryInv, RetryReset, At, RowType, StepStatuses
    <3>3. row' \in [Runs -> [Steps -> RowType]]
      <4> DEFINE new == [status |-> "READY", attempt |-> worker[w].msg.attempt + 1]
      <4>1. CASE RowOf(w).status = "NONE"
        BY <1>9, <4>1 DEF IndInv, TypeOK, RetryReset, UpdateRow, DbTypes
      <4>2. CASE RowOf(w).status # "NONE"
        <5>1. row' = [row EXCEPT ![worker[w].msg.run][worker[w].msg.step] = new]
          BY <1>9, <4>2 DEF RetryReset, UpdateRow
        <5>2. new \in RowType
          BY <3>2, <4>2
        <5> HIDE DEF new
        <5>3. QED
          BY <3>1, <5>1, <5>2 DEF IndInv, TypeOK, DbTypes
      <4>3. QED
        BY <4>1, <4>2
    <3>4. QED
      BY <1>9, <3>1, <3>2, <3>3 DEF IndInv, TypeOK, RetryReset, UpdateRow, DbTypes
  <2>3. RowInv'
    <3>1. worker[w].msg.run \in Runs /\ worker[w].msg.step \in Steps
      BY <1>9, Held DEF IndInv, RetryReset, At
    <3>2. QED
      BY <1>9, <3>1 DEF IndInv, TypeOK, RetryReset, UpdateRow, RowInv, RowOf, NoRow, DbTypes
  <2>4. TxnInv'
    <3>1. \A r \in Runs, s \in Steps : RowLocked(r, s) => row'[r][s] = row[r][s]
      BY <1>9, Held DEF IndInv, TypeOK, RetryReset, UpdateRow, DbTypes, At
    <3>2. \A p \in Orchestrators : handler[p].pc = "txn" =>
            /\ handler[p].event.run \in Runs /\ handler[p].event.step \in Steps
            /\ RowLocked(handler[p].event.run, handler[p].event.step)
      BY Held DEF IndInv, RowLocked, HandlesRun
    <3>3. QED
      BY <1>9, <3>1, <3>2 DEF IndInv, RetryReset, UpdateRow, TxnInv
  <2>5. WorkerTypes' /\ RetryInv' /\ PelInv'
    <3>1. worker[w].msg.attempt < MaxAttempts[worker[w].msg.step]
      BY <1>9 DEF IndInv, RetryInv, RetryReset, At
    <3>2. QED
      BY <1>9, <3>1, LoopKeeps DEF IndInv, TypeOK, RetryReset, UpdateRow, At, WorkerPcs, WorkerTypes
  <2>6. QED
    BY <2>1, <2>2, <2>3, <2>4, <2>5 DEF IndInv, TypeOK
<1>10. CASE ScheduleRetry(w)
  <2>1. DbTypes' /\ OrchestratorTypes' /\ RequestTypes' /\ LockInv' /\ TriggerInv' /\ RowInv'
      /\ TxnInv' /\ ScanInv'
    BY <1>10
    DEF IndInv, TypeOK, ScheduleRetry, DbTypes, OrchestratorTypes, RequestTypes, LockInv,
      TriggerInv, RowInv, TxnInv, ScanInv
  <2>2. StreamTypes'
    <3>1. /\ worker[w].msg \in StepMsg /\ worker[w].msg.step \in Steps
          /\ worker[w].msg.attempt < MaxAttempts[worker[w].msg.step]
      BY <1>10, Held DEF IndInv, ScheduleRetry, At, RetryInv
    <3>2. [worker[w].msg EXCEPT !.attempt = @ + 1] \in StepMsg
      BY <3>1, ConstantsAssumption DEF StepMsg
    <3>3. QED
      BY <1>10, <3>2 DEF IndInv, TypeOK, ScheduleRetry, StreamTypes
  <2>3. faults' \in FaultTypes
    BY <1>10, FaultCounted DEF IndInv, TypeOK, ScheduleRetry
  <2>4. WorkerTypes' /\ RetryInv' /\ PelInv'
    <3>1. worker[w].msg.attempt < MaxAttempts[worker[w].msg.step]
      BY <1>10 DEF IndInv, RetryInv, ScheduleRetry, At
    <3>2. QED
      BY <1>10, LoopKeeps DEF IndInv, TypeOK, ScheduleRetry, At, WorkerPcs, WorkerTypes
  <2>5. QED
    BY <2>1, <2>2, <2>3, <2>4 DEF IndInv, TypeOK
<1>11. CASE AckStep(w)
  <2>1. DbTypes' /\ OrchestratorTypes' /\ RequestTypes' /\ faults' \in FaultTypes /\
      LockInv' /\ TriggerInv' /\ RowInv' /\ TxnInv' /\ ScanInv'
    BY <1>11
    DEF IndInv, TypeOK, AckStep, DbTypes, OrchestratorTypes, RequestTypes, LockInv,
      TriggerInv, RowInv, TxnInv, ScanInv
  <2>2. StreamTypes'
    BY <1>11 DEF IndInv, TypeOK, AckStep, StreamTypes, WorkerTypes, PelInv, At
  <2>3. WorkerTypes' /\ RetryInv' /\ PelInv'
    BY <1>11, LoopKeeps DEF IndInv, TypeOK, AckStep, At, WorkerPcs, WorkerTypes
  <2>4. QED
    BY <2>1, <2>2, <2>3 DEF IndInv, TypeOK
<1>12. CASE WorkerFails(w)
  <2>1. DbTypes' /\ StreamTypes' /\ OrchestratorTypes' /\ RequestTypes' /\ LockInv' /\
      TriggerInv' /\ RowInv' /\ TxnInv' /\ ScanInv'
    BY <1>12
    DEF IndInv, TypeOK, WorkerFails, DbTypes, StreamTypes, OrchestratorTypes, RequestTypes,
      LockInv, TriggerInv, RowInv, TxnInv, ScanInv
  <2>2. faults' \in FaultTypes
    BY <1>12, FaultCounted DEF IndInv, TypeOK, WorkerFails
  <2>3. WorkerTypes' /\ RetryInv' /\ PelInv'
    BY <1>12, LoopKeeps DEF IndInv, TypeOK, WorkerFails, At, WorkerPcs, WorkerTypes
  <2>4. QED
    BY <2>1, <2>2, <2>3 DEF IndInv, TypeOK
<1>13. QED
  BY <1>1, <1>2, <1>3, <1>4, <1>5, <1>6, <1>7, <1>8, <1>9, <1>10, <1>11, <1>12

\* The poll of the delayed messages.
LEMMA PollerKeeps ==
  ASSUME IndInv, NEW w \in Workers,
         \/ \E m \in delayed : PollRemove(w, m)
         \/ PollEnqueue(w)
         \/ PollLoses(w)
  PROVE  IndInv'
<1>1. CASE \E m \in delayed : PollRemove(w, m)
  <2>0. PICK m \in delayed : PollRemove(w, m)
    BY <1>1
  <2>1. DbTypes' /\ OrchestratorTypes' /\ RequestTypes' /\ faults' \in FaultTypes /\
      RetryInv' /\ PelInv' /\ LockInv' /\ TriggerInv' /\ RowInv' /\ TxnInv' /\ ScanInv'
    BY <2>0
    DEF IndInv, TypeOK, PollRemove, DbTypes, OrchestratorTypes, RequestTypes, RetryInv,
      PelInv, LockInv, TriggerInv, RowInv, TxnInv, ScanInv
  <2>2. StreamTypes'
    BY <2>0 DEF IndInv, TypeOK, PollRemove, StreamTypes
  <2>3. WorkerTypes'
    BY <2>0 DEF IndInv, TypeOK, PollRemove, WorkerTypes, StreamTypes
  <2>4. QED
    BY <2>1, <2>2, <2>3 DEF IndInv, TypeOK
<1>2. CASE PollEnqueue(w)
  <2>1. DbTypes' /\ OrchestratorTypes' /\ RequestTypes' /\ RetryInv' /\ PelInv' /\ LockInv' /\
      TriggerInv' /\ RowInv' /\ TxnInv' /\ ScanInv'
    BY <1>2
    DEF IndInv, TypeOK, PollEnqueue, DbTypes, OrchestratorTypes, RequestTypes, RetryInv,
      PelInv, LockInv, TriggerInv, RowInv, TxnInv, ScanInv, EnqueueStep
  <2>2. StreamTypes'
    BY <1>2 DEF IndInv, TypeOK, PollEnqueue, StreamTypes, EnqueueStep, WorkerTypes
  <2>3. WorkerTypes'
    BY <1>2 DEF IndInv, TypeOK, PollEnqueue, WorkerTypes
  <2>4. faults' \in FaultTypes
    BY <1>2, FaultCounted DEF IndInv, TypeOK, PollEnqueue, EnqueueStep, Copies
  <2>5. QED
    BY <2>1, <2>2, <2>3, <2>4 DEF IndInv, TypeOK
<1>3. CASE PollLoses(w)
  <2>1. DbTypes' /\ StreamTypes' /\ OrchestratorTypes' /\ RequestTypes' /\ RetryInv' /\
      PelInv' /\ LockInv' /\ TriggerInv' /\ RowInv' /\ TxnInv' /\ ScanInv'
    BY <1>3
    DEF IndInv, TypeOK, PollLoses, DbTypes, StreamTypes, OrchestratorTypes, RequestTypes,
      RetryInv, PelInv, LockInv, TriggerInv, RowInv, TxnInv, ScanInv
  <2>2. WorkerTypes'
    BY <1>3 DEF IndInv, TypeOK, PollLoses, WorkerTypes
  <2>3. faults' \in FaultTypes
    BY <1>3, FaultCounted DEF IndInv, TypeOK, PollLoses
  <2>4. QED
    BY <2>1, <2>2, <2>3 DEF IndInv, TypeOK
<1>4. QED
  BY <1>1, <1>2, <1>3

\* Users and time.
LEMMA UserKeeps ==
  ASSUME IndInv, NEW r \in Runs,
         \/ CancelRun(r)
         \/ SignalCancel(r)
         \/ SignalCancelFails(r)
         \/ DeleteWorkflow(r)
         \/ Expire(r)
  PROVE  IndInv'
<1>1. CASE CancelRun(r)
  <2>1. StreamTypes' /\ OrchestratorTypes' /\ WorkerTypes' /\ faults' \in FaultTypes /\
      RetryInv' /\ PelInv' /\ LockInv'
    BY <1>1
    DEF IndInv, TypeOK, CancelRun, StreamTypes, OrchestratorTypes, WorkerTypes, RetryInv,
      PelInv, LockInv
  <2>2. DbTypes'
    BY <1>1 DEF IndInv, TypeOK, CancelRun, DbTypes, RunStatuses
  <2>3. RequestTypes'
    BY <1>1 DEF IndInv, TypeOK, CancelRun, RequestTypes
  <2>4. TriggerInv'
    BY <1>1 DEF IndInv, TypeOK, CancelRun, TriggerInv, DbTypes, RunMoves
  <2>5. RowInv'
    BY <1>1 DEF IndInv, TypeOK, CancelRun, RowInv, DbTypes, RunMoves
  <2>6. TxnInv'
    BY <1>1
    DEF IndInv, TypeOK, CancelRun, TxnInv, OrchestratorTypes, DbTypes, StarterType,
      HandlerType, RunLocked, StartsRun, HandlesRun
  <2>7. ScanInv'
    BY <1>1 DEF IndInv, TypeOK, CancelRun, ScanInv, DbTypes
  <2>8. QED
    BY <2>1, <2>2, <2>3, <2>4, <2>5, <2>6, <2>7 DEF IndInv, TypeOK
<1>2. CASE SignalCancel(r)
  <2>1. DbTypes' /\ StreamTypes' /\ OrchestratorTypes' /\ WorkerTypes' /\ faults' \in
      FaultTypes /\ RetryInv' /\ PelInv' /\ LockInv' /\ TriggerInv' /\ RowInv' /\ TxnInv' /\
      ScanInv'
    BY <1>2
    DEF IndInv, TypeOK, SignalCancel, DbTypes, StreamTypes, OrchestratorTypes, WorkerTypes,
      RetryInv, PelInv, LockInv, TriggerInv, RowInv, TxnInv, ScanInv
  <2>2. RequestTypes'
    BY <1>2 DEF IndInv, TypeOK, SignalCancel, RequestTypes, RunEvent
  <2>3. QED
    BY <2>1, <2>2 DEF IndInv, TypeOK
<1>3. CASE SignalCancelFails(r)
  <2>1. DbTypes' /\ StreamTypes' /\ OrchestratorTypes' /\ WorkerTypes' /\ RetryInv' /\ PelInv'
      /\ LockInv' /\ TriggerInv' /\ RowInv' /\ TxnInv' /\ ScanInv'
    BY <1>3
    DEF IndInv, TypeOK, SignalCancelFails, DbTypes, StreamTypes, OrchestratorTypes,
      WorkerTypes, RetryInv, PelInv, LockInv, TriggerInv, RowInv, TxnInv, ScanInv
  <2>2. RequestTypes'
    BY <1>3 DEF IndInv, TypeOK, SignalCancelFails, RequestTypes
  <2>3. faults' \in FaultTypes
    BY <1>3, FaultCounted DEF IndInv, TypeOK, SignalCancelFails
  <2>4. QED
    BY <2>1, <2>2, <2>3 DEF IndInv, TypeOK
<1>4. CASE DeleteWorkflow(r)
  <2>1. StreamTypes' /\ OrchestratorTypes' /\ WorkerTypes' /\ RequestTypes' /\ faults' \in
      FaultTypes /\ RetryInv' /\ PelInv' /\ LockInv'
    BY <1>4
    DEF IndInv, TypeOK, DeleteWorkflow, StreamTypes, OrchestratorTypes, WorkerTypes,
      RequestTypes, RetryInv, PelInv, LockInv
  <2>2. DbTypes'
    BY <1>4 DEF IndInv, TypeOK, DeleteWorkflow, DbTypes, RowType
  <2>3. TriggerInv'
    BY <1>4 DEF IndInv, TypeOK, DeleteWorkflow, TriggerInv, DbTypes, RunStatuses
  <2>4. RowInv'
    BY <1>4 DEF IndInv, TypeOK, DeleteWorkflow, RowInv, DbTypes
  <2>5. TxnInv'
    BY <1>4
    DEF IndInv, TypeOK, DeleteWorkflow, TxnInv, OrchestratorTypes, DbTypes, StarterType,
      HandlerType, RunLocked, StartsRun, HandlesRun
  <2>6. ScanInv'
    BY <1>4 DEF IndInv, TypeOK, DeleteWorkflow, ScanInv, DbTypes
  <2>7. QED
    BY <2>1, <2>2, <2>3, <2>4, <2>5, <2>6 DEF IndInv, TypeOK
<1>5. CASE Expire(r)
  <2>1. DbTypes' /\ StreamTypes' /\ OrchestratorTypes' /\ WorkerTypes' /\ faults' \in
      FaultTypes /\ RetryInv' /\ PelInv' /\ LockInv' /\ TriggerInv' /\ RowInv' /\ TxnInv' /\
      ScanInv'
    BY <1>5
    DEF IndInv, TypeOK, Expire, DbTypes, StreamTypes, OrchestratorTypes, WorkerTypes,
      RetryInv, PelInv, LockInv, TriggerInv, RowInv, TxnInv, ScanInv
  <2>2. RequestTypes'
    BY <1>5 DEF IndInv, TypeOK, Expire, RequestTypes
  <2>3. QED
    BY <2>1, <2>2 DEF IndInv, TypeOK
<1>6. QED
  BY <1>1, <1>2, <1>3, <1>4, <1>5

-------------------------------------------------------------------------------
(* The invariant holds initially and always.                                *)

\* Before anything happened nothing is locked, pending or stored.
LEMMA InitHolds ==
  ASSUME Init
  PROVE  IndInv
<1> USE ConstantsAssumption DEF Init
<1>1. DbTypes
  BY DEF DbTypes, RowType
<1>2. StreamTypes
  BY DEF StreamTypes
<1>3. OrchestratorTypes
  BY DEF OrchestratorTypes, StarterType, IdleStarter, StarterAt, HandlerType, IdleHandler,
         HandlerAt, IdleScanner
<1>4. WorkerTypes
  BY DEF WorkerTypes, IdleWorker, WorkerPcs
<1>5. RequestTypes /\ faults \in FaultTypes
  BY DEF RequestTypes, FaultTypes
<1>6. RetryInv /\ PelInv /\ LockInv
  BY DEF RetryInv, PelInv, LockInv, IdleStarter, StarterAt, IdleHandler, HandlerAt, IdleWorker
<1>7. TriggerInv /\ RowInv /\ TxnInv /\ ScanInv
  BY DEF TriggerInv, RowInv, TxnInv, ScanInv, IdleStarter, StarterAt, IdleHandler, HandlerAt,
         IdleScanner
<1>8. QED
  BY <1>1, <1>2, <1>3, <1>4, <1>5, <1>6, <1>7 DEF IndInv, TypeOK

\* Every step of every component keeps the inductive invariant.
LEMMA NextKeeps ==
  ASSUME IndInv, [Next]_vars
  PROVE  IndInv'
<1>1. CASE TriggerNext
  BY <1>1, TriggerKeeps DEF TriggerNext
<1>2. CASE \E o \in Orchestrators :
             StarterNext(o) \/ HandlerNext(o) \/ ScannerNext(o) \/ OrchestratorFails(o)
  <2>1. PICK o \in Orchestrators :
          StarterNext(o) \/ HandlerNext(o) \/ ScannerNext(o) \/ OrchestratorFails(o)
    BY <1>2
  <2>2. CASE StarterNext(o) \/ StartRunFails(o)
    BY <2>2, StarterKeeps DEF StarterNext
  <2>3. CASE HandlerNext(o) \/ HandleEventFails(o)
    BY <2>3, HandlerKeeps DEF HandlerNext
  <2>4. CASE ScannerNext(o) \/ OrchestratorCrash(o)
    BY <2>4, ScannerKeeps DEF ScannerNext
  <2>5. QED
    BY <2>1, <2>2, <2>3, <2>4 DEF OrchestratorFails
<1>3. CASE \E w \in Workers :
             WorkerNext(w) \/ PollerNext(w) \/ WorkerFails(w) \/ PollLoses(w)
  <2>1. PICK w \in Workers :
          WorkerNext(w) \/ PollerNext(w) \/ WorkerFails(w) \/ PollLoses(w)
    BY <1>3
  <2>2. CASE WorkerNext(w) \/ WorkerFails(w)
    BY <2>2, WorkerKeeps DEF WorkerNext
  <2>3. CASE PollerNext(w) \/ PollLoses(w)
    BY <2>3, PollerKeeps DEF PollerNext
  <2>4. QED
    BY <2>1, <2>2, <2>3
<1>4. CASE UserNext
  BY <1>4, UserKeeps DEF UserNext
<1>5. CASE UNCHANGED vars
  BY <1>5 DEF vars, IndInv, TypeOK, DbTypes, StreamTypes, OrchestratorTypes, WorkerTypes,
              RequestTypes, RetryInv, PelInv, LockInv, TriggerInv, RowInv, TxnInv, ScanInv
<1>6. QED
  BY <1>1, <1>2, <1>3, <1>4, <1>5 DEF Next

\* The inductive invariant holds in every reachable state, whatever is lost,
\* duplicated or crashes.
THEOREM Invariance == Spec => []IndInv
<1>1. Init => IndInv
  BY InitHolds
<1>2. IndInv /\ [Next]_vars => IndInv'
  BY NextKeeps
<1>3. QED
  BY <1>1, <1>2, PTL DEF Spec

-------------------------------------------------------------------------------
(* What a component leaves alone.                                           *)

\* Requests, ticks and users reach the step and event streams and the loops only
\* through the tables.
LEMMA RequestsLeave ==
  ASSUME TriggerNext \/ UserNext \/ UNCHANGED vars
  PROVE  UNCHANGED <<processed, stepQ, stepPel, eventQ, eventPel, delayed, starter, handler, worker,
                     poller, emitted>>
BY DEF TriggerNext, CreateRun, QueueRun, QueueRunFails, TickQueueRun, TickCommit, TickRollback,
       UserNext, CancelRun, SignalCancel, SignalCancelFails, DeleteWorkflow, Expire, vars

\* A worker writes rows in two places and reports in one; it touches no run.
LEMMA WorkersLeave ==
  ASSUME NEW w \in Workers, WorkerNext(w) \/ WorkerFails(w) \/ PollerNext(w) \/ PollLoses(w)
  PROVE  /\ UNCHANGED <<run, processed, runQ, runPel, eventPel, starter, handler, scanner, trigger,
                        overdue, cancelling, cancelKey, published>>
         /\ ~Report(w) => UNCHANGED <<eventQ, emitted>>
         /\ ~MarkRunning(w) /\ ~RetryReset(w) => UNCHANGED row
<1>1. CASE WorkerNext(w)
  BY <1>1 DEF WorkerNext, TakeStep, CheckCancelled, ClaimStep, MarkRunning, LoadSpec, Execute,
              Report, RetrySelect, RetryReset, ScheduleRetry, AckStep, SelectRow, UpdateRow
<1>2. CASE WorkerFails(w) \/ PollerNext(w) \/ PollLoses(w)
  BY <1>2 DEF WorkerFails, PollerNext, PollRemove, PollEnqueue, PollLoses
<1>3. QED
  BY <1>1, <1>2

\* An orchestrator queues steps in two places; only the loop of the events touches
\* the events.
LEMMA OrchestratorsLeave ==
  ASSUME NEW o \in Orchestrators,
         StarterNext(o) \/ HandlerNext(o) \/ ScannerNext(o) \/ OrchestratorFails(o)
  PROVE  /\ UNCHANGED <<worker, poller, emitted, stepPel, delayed, trigger, overdue, cancelling,
                        cancelKey>>
         /\ (\A s \in Steps : ~StartRunEnqueue(o, s) /\ ~EventEnqueue(o, s)) => UNCHANGED stepQ
         /\ StarterNext(o) \/ ScannerNext(o) \/ OrchestratorFails(o) =>
              UNCHANGED <<processed, eventQ, eventPel>>
         /\ StarterNext(o) \/ ScannerNext(o) => UNCHANGED handler
         /\ HandlerNext(o) \/ ScannerNext(o) => UNCHANGED starter
<1> DEFINE Elsewhere == UNCHANGED <<worker, poller, emitted, stepPel, delayed, trigger, overdue,
                                    cancelling, cancelKey>>
<1>1. ASSUME StarterNext(o)
      PROVE  /\ Elsewhere /\ UNCHANGED <<processed, eventQ, eventPel, handler>>
             /\ (\A s \in Steps : ~StartRunEnqueue(o, s)) => UNCHANGED stepQ
  BY <1>1 DEF StarterNext, TakeRun, StartRunMissing, StartRunSkip, StartRunBegin, StartRunEnqueue,
              StartRunCommit, AckRun
<1>2. ASSUME HandlerNext(o)
      PROVE  /\ Elsewhere /\ UNCHANGED starter
             /\ (\A s \in Steps : ~EventEnqueue(o, s)) => UNCHANGED stepQ
  BY <1>2 DEF HandlerNext, TakeEvent, SkipProcessedEvent, IgnoreEvent, RejectEvent, BeginEvent,
              EventEnqueue, EventCommit, AckEvent
<1>3. ASSUME ScannerNext(o)
      PROVE  Elsewhere /\ UNCHANGED <<processed, eventQ, eventPel, handler, starter, stepQ>>
  BY <1>3 DEF ScannerNext, ScanSelect, ScanUpdate, ScanAnnounce
<1>4. ASSUME OrchestratorFails(o)
      PROVE  Elsewhere /\ UNCHANGED <<processed, eventQ, eventPel, stepQ>>
  BY <1>4 DEF OrchestratorFails, StartRunFails, HandleEventFails, OrchestratorCrash
<1>5. QED
  BY <1>1, <1>2, <1>3, <1>4

-------------------------------------------------------------------------------
(* Who writes the status of a run and the rows of its steps.                *)

\* Outside the listed actions runs.status is left alone: a transaction of the
\* orchestrator, a tick, a request, a deletion or the scanner writes it.
LEMMA RunWriters ==
  ASSUME [Next]_vars
  PROVE  \/ UNCHANGED run
         \/ \E r \in Runs : CreateRun(r) \/ TickCommit(r) \/ CancelRun(r) \/ DeleteWorkflow(r)
         \/ \E o \in Orchestrators : StartRunCommit(o) \/ EventCommit(o) \/ ScanUpdate(o)
<1>1. CASE TriggerNext
  BY <1>1 DEF TriggerNext, QueueRun, QueueRunFails, TickQueueRun, TickRollback
<1>2. ASSUME NEW o \in Orchestrators, StarterNext(o)
      PROVE  UNCHANGED run \/ StartRunCommit(o)
  BY <1>2 DEF StarterNext, TakeRun, StartRunMissing, StartRunSkip, StartRunBegin, StartRunEnqueue,
              AckRun
<1>3. ASSUME NEW o \in Orchestrators, HandlerNext(o)
      PROVE  UNCHANGED run \/ EventCommit(o)
  BY <1>3 DEF HandlerNext, TakeEvent, SkipProcessedEvent, IgnoreEvent, RejectEvent, BeginEvent,
              EventEnqueue, AckEvent
<1>4. ASSUME NEW o \in Orchestrators, ScannerNext(o) \/ OrchestratorFails(o)
      PROVE  UNCHANGED run \/ ScanUpdate(o)
  BY <1>4 DEF ScannerNext, OrchestratorFails, ScanSelect, ScanAnnounce, StartRunFails,
              HandleEventFails, OrchestratorCrash
<1>5. ASSUME NEW w \in Workers, WorkerNext(w) \/ PollerNext(w) \/ WorkerFails(w) \/ PollLoses(w)
      PROVE  UNCHANGED run
  BY <1>5, WorkersLeave
<1>6. CASE UserNext
  BY <1>6 DEF UserNext, SignalCancel, SignalCancelFails, Expire
<1>7. CASE UNCHANGED vars
  BY <1>7 DEF vars
<1>8. QED
  BY <1>1, <1>2, <1>3, <1>4, <1>5, <1>6, <1>7 DEF Next

\* Outside the listed actions step_runs is left alone: only the commits of the
\* orchestrator, the two updates of a worker and a deletion write it.
LEMMA RowWriters ==
  ASSUME [Next]_vars
  PROVE  \/ UNCHANGED row
         \/ \E r \in Runs : DeleteWorkflow(r)
         \/ \E o \in Orchestrators : StartRunCommit(o) \/ EventCommit(o)
         \/ \E w \in Workers : MarkRunning(w) \/ RetryReset(w)
<1>1. CASE TriggerNext
  BY <1>1 DEF TriggerNext, CreateRun, QueueRun, QueueRunFails, TickQueueRun, TickCommit,
              TickRollback
<1>2. ASSUME NEW o \in Orchestrators, StarterNext(o)
      PROVE  UNCHANGED row \/ StartRunCommit(o)
  BY <1>2 DEF StarterNext, TakeRun, StartRunMissing, StartRunSkip, StartRunBegin, StartRunEnqueue,
              AckRun
<1>3. ASSUME NEW o \in Orchestrators, HandlerNext(o)
      PROVE  UNCHANGED row \/ EventCommit(o)
  BY <1>3 DEF HandlerNext, TakeEvent, SkipProcessedEvent, IgnoreEvent, RejectEvent, BeginEvent,
              EventEnqueue, AckEvent
<1>4. ASSUME NEW o \in Orchestrators, ScannerNext(o) \/ OrchestratorFails(o)
      PROVE  UNCHANGED row
  BY <1>4 DEF ScannerNext, OrchestratorFails, ScanSelect, ScanUpdate, ScanAnnounce, StartRunFails,
              HandleEventFails, OrchestratorCrash
<1>5. ASSUME NEW w \in Workers, WorkerNext(w) \/ PollerNext(w) \/ WorkerFails(w) \/ PollLoses(w)
      PROVE  UNCHANGED row \/ MarkRunning(w) \/ RetryReset(w)
  BY <1>5, WorkersLeave
<1>6. CASE UserNext
  BY <1>6 DEF UserNext, CancelRun, SignalCancel, SignalCancelFails, Expire
<1>7. CASE UNCHANGED vars
  BY <1>7 DEF vars
<1>8. QED
  BY <1>1, <1>2, <1>3, <1>4, <1>5, <1>6, <1>7 DEF Next

\* A step changes a run along VALID_RUN_TRANSITIONS, creates it or deletes it.
LEMMA RunMovesStep ==
  ASSUME IndInv, [Next]_vars, NEW r \in Runs
  PROVE  \/ run'[r] = run[r] \/ run'[r] = "DELETED"
         \/ run[r] = "NONE" /\ run'[r] = "PENDING"
         \/ <<run[r], run'[r]>> \in RunMoves
         \/ run[r] \in TerminalStatuses /\ run'[r] = "TIMED_OUT"
<1> USE DEF IndInv, TypeOK, DbTypes
<1>1. CASE \E q \in Runs : CreateRun(q) \/ TickCommit(q)
  BY <1>1 DEF CreateRun, TickCommit, TriggerInv
<1>2. CASE \E q \in Runs : CancelRun(q)
  BY <1>2 DEF CancelRun
<1>3. CASE \E q \in Runs : DeleteWorkflow(q)
  BY <1>3 DEF DeleteWorkflow
<1>4. CASE \E o \in Orchestrators : StartRunCommit(o)
  BY <1>4 DEF StartRunCommit, TxnInv, RunMoves
<1>5. CASE \E o \in Orchestrators : EventCommit(o)
  <2>1. PICK o \in Orchestrators : EventCommit(o)
    BY <1>5
  <2>2. handler[o].verdict \in {"OPEN", "SUCCEEDED", "FAILED"}
    BY <2>1, Held DEF HandlerType
  <2>3. QED
    BY <2>1, <2>2 DEF EventCommit, TxnInv, RunMoves
<1>6. CASE \E o \in Orchestrators : ScanUpdate(o)
  BY <1>6 DEF ScanUpdate, ScanInv, RunStatuses, TerminalStatuses, RunMoves
<1>7. QED
  BY <1>1, <1>2, <1>3, <1>4, <1>5, <1>6, RunWriters

-------------------------------------------------------------------------------
(* The carriers: every step of a run has one at most, and what follows      *)
(* from it: rows move as transitionStepRunStatus says although workers take *)
(* no locks, steps follow their dependencies, no branch is stranded, and a  *)
(* run succeeds when all of its steps have passed.                          *)
(*                                                                          *)
(* The argument: the entry of a run is one, so one startRun writes its      *)
(* first rows; handleStepEvent queues a step only when nothing carries it,  *)
(* because a transaction that queued it before and was rolled back has      *)
(* left a step before it dead; everything else hands a carrier on.  A row   *)
(* is then what its only carrier takes it for.                              *)

-------------------------------------------------------------------------------
(* The invariant of the carriers.                                           *)

AtMostOne ==
  /\ \A r \in Runs, s \in Steps : \A x, y \in Carriers(r, s) : x = y
  /\ \A m \in StepMsg : stepQ[m] <= 1

Holds(o, r) == starter[o].pc # "idle" /\ starter[o].run = r

\* Run r may still be started.
Unstarted(r) ==
  \/ trigger[r] \in {"new", "created"} \/ runQ[r] > 0
  \/ \E o \in Orchestrators : starter[o].pc = "got" /\ starter[o].run = r

\* A run has one entry, which one orchestrator gets once.
OneEntry ==
  \A r \in Runs :
    /\ trigger[r] \in {"new", "created"} => runQ[r] = 0
    /\ runQ[r] <= 1
    /\ \A o \in Orchestrators : Holds(o, r) =>
         /\ trigger[r] \notin {"new", "created"} /\ runQ[r] = 0
         /\ \A p \in Orchestrators : Holds(p, r) => p = o

\* Nothing carries a step of a run that has not been started.
StartsEmpty ==
  \A r \in Runs : Unstarted(r) => run[r] # "RUNNING" /\ \A s \in Steps : Carriers(r, s) = {}

\* The events under way; those already processed carry nothing.
Reported ==
  {e \in eventQ \cup {handler[o].event :
                        o \in {o \in Orchestrators : handler[o].pc \in {"got", "txn"}}} :
     EventId(e) \notin processed}

\* An event is under way once, and has an id that was given out.
OneCopy ==
  /\ \A e \in eventQ : e.uuid <= emitted[e.run][e.step]
  /\ \A e, f \in eventQ : EventId(e) = EventId(f) => e = f
  /\ \A o \in Orchestrators : handler[o].pc # "idle" =>
       LET e == handler[o].event IN
       /\ e.uuid <= emitted[e.run][e.step]
       /\ \A f \in eventQ : EventId(f) # EventId(e)
       /\ \A p \in Orchestrators :
            handler[p].pc # "idle" /\ EventId(handler[p].event) = EventId(e) => p = o

\* The row that a message takes for its own, unless the workflow was deleted.
RowIs(m, status, attempt) ==
  run[m.run] = "DELETED" \/ row[m.run][m.step] = [status |-> status, attempt |-> attempt]

\* A message waits for its row to be claimed, or for the row of the first attempt
\* to become visible.
Fits(m) == RowIs(m, "READY", m.attempt) \/ (row[m.run][m.step] = NoRow /\ m.attempt = 1)

Waits(m) == stepQ[m] > 0 \/ m \in delayed \/ \E w \in Workers : poller[w] = m

WorkerFits(w) ==
  LET m == worker[w].msg IN
  /\ worker[w].pc \in {"check", "claim"} => Fits(m)
  /\ worker[w].pc = "mark" => RowIs(m, "READY", m.attempt)
  /\ worker[w].pc \in {"load", "execute", "succeeded", "failed", "retry", "reset"} =>
       RowIs(m, "RUNNING", m.attempt)
  /\ worker[w].pc = "delay" => RowIs(m, "READY", m.attempt + 1)

EventFits(e) == run[e.run] = "DELETED" \/ row[e.run][e.step].status = "RUNNING"

RowsFit ==
  /\ \A m \in StepMsg : Waits(m) => Fits(m)
  /\ \A w \in Workers : WorkerFits(w)
  /\ \A e \in Reported : EventFits(e)

\* Statuses nothing writes; rows that went with their workflow.
RowsExist ==
  \A r \in Runs, s \in Steps :
    /\ row[r][s].status = "NONE" => row[r][s] = NoRow
    /\ row[r][s].status \in {"NONE", "READY", "RUNNING", "SUCCEEDED", "FAILED"}
    /\ run[r] = "DELETED" => row[r][s] = NoRow

\* Step d has stopped for good.
Dead(r, d) == row[r][d] # NoRow /\ ~Settled(r, d) /\ Carriers(r, d) = {}

\* A transaction that has queued step s is about to give it its row.
Queueing(r, s) ==
  \E o \in Orchestrators : HandlesRun(o, r) /\ s \in handler[o].fresh \ handler[o].todo

\* What the transactions still have to queue, nothing carries; and what one has
\* decided is still what it would decide.
TxnFresh ==
  \A o \in Orchestrators :
    /\ starter[o].pc = "txn" =>
         /\ starter[o].todo \subseteq ReadySet(DependsOn, {})
         /\ \A s \in Steps : s \in starter[o].todo \/ s \notin ReadySet(DependsOn, {}) =>
              Carriers(starter[o].run, s) = {}
    /\ handler[o].pc = "txn" =>
         /\ handler[o].fresh = FreshSteps(handler[o].event)
         /\ handler[o].verdict = Verdict(handler[o].event)
         /\ handler[o].todo \subseteq handler[o].fresh
         /\ EventId(handler[o].event) \notin processed
         /\ \A s \in handler[o].todo : Carriers(handler[o].event.run, s) = {}

\* A step that was queued by a transaction which was rolled back waits for a step
\* that has stopped for good.
NoStray ==
  \A r \in Runs, s \in Steps :
    run[r] = "RUNNING" /\ row[r][s] = NoRow /\ Carriers(r, s) # {} =>
      Queueing(r, s) \/ \E d \in DependsOn[s] : Dead(r, d)

\* In a RUNNING run what is ready has its row, what has failed does not stop it,
\* and there is something left to do.
Dispatched ==
  \A r \in Runs : run[r] = "RUNNING" =>
    /\ \A s \in Steps : (\A d \in DependsOn[s] : Settled(r, d)) => row[r][s] # NoRow
    /\ \A s \in Steps : Settled(r, s) => Passed(r, s)
    /\ \E s \in Steps : ~Settled(r, s)

\* A row comes after the rows it depends on have passed.
RowsInOrder ==
  \A r \in Runs, s \in Steps :
    row[r][s].status # "NONE" => \A d \in DependsOn[s] : Passed(r, d)

\* A SUCCEEDED run has passed every step.
EndsComplete == \A r \in Runs : run[r] = "SUCCEEDED" => \A s \in Steps : Passed(r, s)

CarrierInv ==
  /\ AtMostOne /\ OneEntry /\ StartsEmpty /\ OneCopy
  /\ RowsFit /\ RowsExist /\ TxnFresh /\ NoStray /\ Dispatched
  /\ RowsInOrder /\ EndsComplete

-------------------------------------------------------------------------------
(* What carries a step, by its kind.                                        *)

QueuedFor(r, s) ==
  {<<"queued", a>> : a \in {a \in 1..AttemptLimit :
                              stepQ[[run |-> r, step |-> s, attempt |-> a]] > 0}}
DelayedFor(r, s) == {<<"delayed", m.attempt>> : m \in {m \in delayed : m.run = r /\ m.step = s}}
PolledFor(r, s) ==
  {<<"poll", w>> : w \in {w \in Workers :
                            poller[w] # Nothing /\ poller[w].run = r /\ poller[w].step = s}}
WorkedFor(r, s) == {<<"worker", w>> : w \in {w \in Workers : Carries(w, r, s)}}
ReportedFor(r, s) == {<<"event", e.uuid>> : e \in {e \in Reported : e.run = r /\ e.step = s}}

\* The carriers of a step are those of the five kinds.
LEMMA CarrierKinds ==
  ASSUME NEW r, NEW s
  PROVE  /\ Carriers(r, s) = QueuedFor(r, s) \cup DelayedFor(r, s) \cup PolledFor(r, s)
                               \cup WorkedFor(r, s) \cup ReportedFor(r, s)
         /\ Carriers(r, s)' = QueuedFor(r, s)' \cup DelayedFor(r, s)' \cup PolledFor(r, s)'
                                \cup WorkedFor(r, s)' \cup ReportedFor(r, s)'
<1>1. Carriers(r, s) = QueuedFor(r, s) \cup DelayedFor(r, s) \cup PolledFor(r, s)
                         \cup WorkedFor(r, s) \cup ReportedFor(r, s)
  BY DEF Carriers, QueuedFor, DelayedFor, PolledFor, WorkedFor, ReportedFor, Reported
<1>2. Carriers(r, s)' = QueuedFor(r, s)' \cup DelayedFor(r, s)' \cup PolledFor(r, s)'
                          \cup WorkedFor(r, s)' \cup ReportedFor(r, s)'
  BY DEF Carriers, QueuedFor, DelayedFor, PolledFor, WorkedFor, ReportedFor, Reported
<1>3. QED
  BY <1>1, <1>2

\* A message, a worker or an event that is under way is a carrier of its step.
LEMMA CarriersHold ==
  ASSUME TypeOK
  PROVE  /\ \A m \in StepMsg :
              /\ stepQ[m] > 0 => <<"queued", m.attempt>> \in Carriers(m.run, m.step)
              /\ m \in delayed => <<"delayed", m.attempt>> \in Carriers(m.run, m.step)
              /\ \A w \in Workers :
                   poller[w] = m => <<"poll", w>> \in Carriers(m.run, m.step)
         /\ \A w \in Workers :
              worker[w].pc \notin {"idle", "ack"} =>
                <<"worker", w>> \in Carriers(worker[w].msg.run, worker[w].msg.step)
         /\ \A e \in Reported : <<"event", e.uuid>> \in Carriers(e.run, e.step)
<1>1. ASSUME NEW m \in StepMsg
      PROVE  /\ m.attempt \in 1..AttemptLimit
             /\ m = [run |-> m.run, step |-> m.step, attempt |-> m.attempt]
             /\ m # Nothing
  BY ConstantsAssumption DEF StepMsg
<1>2. ASSUME NEW m \in StepMsg, stepQ[m] > 0
      PROVE  <<"queued", m.attempt>> \in Carriers(m.run, m.step)
  BY <1>1, <1>2, CarrierKinds DEF QueuedFor
<1>3. ASSUME NEW m \in StepMsg, m \in delayed
      PROVE  <<"delayed", m.attempt>> \in Carriers(m.run, m.step)
  BY <1>3, CarrierKinds DEF DelayedFor
<1>4. ASSUME NEW m \in StepMsg, NEW w \in Workers, poller[w] = m
      PROVE  <<"poll", w>> \in Carriers(m.run, m.step)
  BY <1>1, <1>4, CarrierKinds DEF PolledFor
<1>5. ASSUME NEW w \in Workers, worker[w].pc \notin {"idle", "ack"}
      PROVE  <<"worker", w>> \in Carriers(worker[w].msg.run, worker[w].msg.step)
  BY <1>5, CarrierKinds DEF WorkedFor, Carries
<1>6. ASSUME NEW e \in Reported
      PROVE  <<"event", e.uuid>> \in Carriers(e.run, e.step)
  BY <1>6, CarrierKinds DEF ReportedFor
<1>7. QED
  BY <1>2, <1>3, <1>4, <1>5, <1>6

\* The kinds are read from the stream, the sorted set and the loops.
LEMMA KindsRead ==
  ASSUME NEW r, NEW s
  PROVE  /\ UNCHANGED stepQ => QueuedFor(r, s)' = QueuedFor(r, s)
         /\ UNCHANGED delayed => DelayedFor(r, s)' = DelayedFor(r, s)
         /\ UNCHANGED poller => PolledFor(r, s)' = PolledFor(r, s)
         /\ UNCHANGED worker => WorkedFor(r, s)' = WorkedFor(r, s)
         /\ Reported' \subseteq Reported => ReportedFor(r, s)' \subseteq ReportedFor(r, s)
         /\ UNCHANGED <<eventQ, handler, processed>> => Reported' = Reported
BY DEF QueuedFor, DelayedFor, PolledFor, WorkedFor, Carries, ReportedFor, Reported

-------------------------------------------------------------------------------
(* A step of the system hands the carrier of a step on, drops it, or queues *)
(* the step for the first time.                                             *)

Shrinks(r, s) == Carriers(r, s)' \subseteq Carriers(r, s)

HandsOn(r, s) ==
  \E x \in Carriers(r, s) : \E y : Carriers(r, s)' \subseteq (Carriers(r, s) \ {x}) \cup {y}

Dispatches(r, s) ==
  \E o \in Orchestrators :
    \/ StartRunEnqueue(o, s) /\ starter[o].run = r
    \/ EventEnqueue(o, s) /\ handler[o].event.run = r

\* A repetition shows at once.
LEMMA ResendShows ==
  ASSUME ~faults'.repeated, NEW kind \in Resends
  PROVE  ~Fault(kind)
<1>1. SUFFICES ASSUME Fault(kind)
               PROVE  FALSE
  OBVIOUS
<1>2. faults' = [count |-> faults.count + 1, repeated |-> faults.repeated \/ kind \in Resends]
  BY <1>1 DEF Fault
<1>3. (faults.repeated \/ kind \in Resends) = TRUE
  OBVIOUS
<1>4. faults'.repeated = TRUE
  BY <1>2, <1>3
<1>5. QED
  BY <1>4

\* Without a repetition an XADD of a step appends one entry.
LEMMA OneEntryAppended ==
  ASSUME TypeOK, NEW m \in StepMsg, EnqueueStep(m), ~faults'.repeated
  PROVE  /\ stepQ' = [stepQ EXCEPT ![m] = @ + 1] /\ UNCHANGED faults
         /\ \A r, s : /\ QueuedFor(r, s)' \subseteq QueuedFor(r, s) \cup {<<"queued", m.attempt>>}
                      /\ <<r, s>> # <<m.run, m.step>> => QueuedFor(r, s)' = QueuedFor(r, s)
<1>1. stepQ' = [stepQ EXCEPT ![m] = @ + 1] /\ UNCHANGED faults
  <2>1. ~Fault("resend_steps")
    BY ResendShows DEF Resends
  <2>2. PICK n \in {1, 2} : Copies(n, "resend_steps") /\ stepQ' = [stepQ EXCEPT ![m] = @ + n]
    BY DEF EnqueueStep
  <2>3. QED
    BY <2>1, <2>2 DEF Copies
<1>2. stepQ \in [StepMsg -> Nat]
  BY DEF TypeOK, StreamTypes
<1>3. ASSUME NEW r, NEW s, NEW a \in 1..AttemptLimit,
             [run |-> r, step |-> s, attempt |-> a] # m
      PROVE  stepQ'[[run |-> r, step |-> s, attempt |-> a]] = stepQ[[run |-> r, step |-> s, attempt |-> a]]
  BY <1>1, <1>2, <1>3
<1>4. ASSUME NEW r, NEW s
      PROVE  QueuedFor(r, s)' \subseteq QueuedFor(r, s) \cup {<<"queued", m.attempt>>}
  BY <1>3 DEF QueuedFor
<1>5. ASSUME NEW r, NEW s, <<r, s>> # <<m.run, m.step>>
      PROVE  QueuedFor(r, s)' = QueuedFor(r, s)
  <2>1. \A a : [run |-> r, step |-> s, attempt |-> a] # m
    BY <1>5
  <2>2. QED
    BY <1>3, <2>1 DEF QueuedFor
<1>6. QED
  BY <1>1, <1>4, <1>5

\* Without a repetition an XADD of an event appends one entry.
LEMMA OneReport ==
  ASSUME ~faults'.repeated, NEW r, NEW s, NEW ok, EnqueueEvent(r, s, ok)
  PROVE  /\ eventQ' = eventQ \cup {[run |-> r, step |-> s, uuid |-> emitted[r][s] + 1,
                                    ok |-> ok, copy |-> 1]}
         /\ emitted' = [emitted EXCEPT ![r][s] = @ + 1]
         /\ UNCHANGED faults
<1>1. ~Fault("resend_events")
  BY ResendShows DEF Resends
<1>2. Copies(1, "resend_events") /\ ~Copies(2, "resend_events")
  BY <1>1 DEF EnqueueEvent, Copies
<1>3. 1..1 = {1}
  OBVIOUS
<1>4. QED
  BY <1>2, <1>3 DEF EnqueueEvent, Copies

\* A worker that goes on keeps its carrier, one that drops its message loses it.
LEMMA LoopCarries ==
  ASSUME WorkerTypes, NEW w \in Workers, ~At(w, "idle"),
         \/ Drop(w)
         \/ ~At(w, "ack") /\ \E pc \in WorkerPcs : GoTo(w, pc),
         NEW r, NEW s
  PROVE  WorkedFor(r, s)' \subseteq WorkedFor(r, s)
<1>1. ASSUME NEW v \in Workers, Carries(v, r, s)'
      PROVE  Carries(v, r, s)
  BY <1>1 DEF WorkerTypes, Drop, GoTo, IdleWorker, Carries, At
<1>2. QED
  BY <1>1 DEF WorkedFor

\* Of the actions of a worker only three give a step another carrier.
LEMMA WorkerCarriers ==
  ASSUME IndInv, AtMostOne, ~faults'.repeated, NEW w \in Workers,
         WorkerNext(w) \/ WorkerFails(w), NEW r \in Runs, NEW s \in Steps
  PROVE  /\ Shrinks(r, s) \/ HandsOn(r, s)
         /\ \A m \in StepMsg : stepQ'[m] <= stepQ[m]
<1> USE DEF IndInv, TypeOK
<1>0. stepQ \in [StepMsg -> Nat]
  BY DEF StreamTypes
<1>1. CASE \E m \in StepMsg : TakeStep(w, m)
  <2>1. PICK m \in StepMsg : TakeStep(w, m)
    BY <1>1
  <2>2. \A n \in StepMsg : stepQ'[n] <= stepQ[n]
    BY <1>0, <2>1 DEF TakeStep
  <2>3. QueuedFor(r, s)' \subseteq QueuedFor(r, s)
    BY <2>2, <1>0, <2>1 DEF QueuedFor, TakeStep, StepMsg
  <2>4. /\ DelayedFor(r, s)' = DelayedFor(r, s) /\ PolledFor(r, s)' = PolledFor(r, s)
        /\ ReportedFor(r, s)' \subseteq ReportedFor(r, s)
    BY <2>1, KindsRead DEF TakeStep
  <2>5. \A v \in Workers : Carries(v, r, s)' =>
          Carries(v, r, s) \/ (v = w /\ m.run = r /\ m.step = s)
    BY <2>1 DEF TakeStep, WorkerTypes, Carries
  <2>6. CASE m.run = r /\ m.step = s
    <3>1. <<"queued", m.attempt>> \in Carriers(r, s)
      BY <2>1, <2>6, CarriersHold DEF TakeStep
    <3>2. stepQ'[m] = 0
      BY <1>0, <2>1 DEF TakeStep, AtMostOne
    <3>3. <<"queued", m.attempt>> \notin QueuedFor(r, s)'
      <4>1. m = [run |-> r, step |-> s, attempt |-> m.attempt]
        BY <2>6 DEF StepMsg
      <4>2. \A a : stepQ'[[run |-> r, step |-> s, attempt |-> a]] > 0 => a # m.attempt
        BY <3>2, <4>1
      <4>3. QED
        BY <4>2 DEF QueuedFor
    <3>4. <<"queued", m.attempt>> \notin DelayedFor(r, s) \cup PolledFor(r, s) \cup ReportedFor(r, s)
                                           \cup WorkedFor(r, s) \cup {<<"worker", w>>}
      BY DEF DelayedFor, PolledFor, WorkedFor, ReportedFor
    <3>5. WorkedFor(r, s)' \subseteq WorkedFor(r, s) \cup {<<"worker", w>>}
      BY <2>5 DEF WorkedFor
    <3>6. Carriers(r, s)' \subseteq (Carriers(r, s) \ {<<"queued", m.attempt>>}) \cup {<<"worker", w>>}
      BY <2>3, <2>4, <3>3, <3>4, <3>5, CarrierKinds
    <3>7. QED
      BY <2>2, <3>1, <3>6 DEF HandsOn
  <2>7. CASE ~(m.run = r /\ m.step = s)
    <3>1. WorkedFor(r, s)' \subseteq WorkedFor(r, s)
      BY <2>5, <2>7 DEF WorkedFor
    <3>2. QED
      BY <2>2, <2>3, <2>4, <3>1, CarrierKinds DEF Shrinks
  <2>8. QED
    BY <2>6, <2>7
<1>2. CASE \/ CheckCancelled(w) \/ ClaimStep(w) \/ MarkRunning(w) \/ LoadSpec(w) \/ Execute(w)
           \/ RetrySelect(w) \/ RetryReset(w) \/ AckStep(w) \/ WorkerFails(w)
  <2>1. UNCHANGED <<stepQ, delayed, poller, eventQ, handler, processed>>
    BY <1>2 DEF CheckCancelled, ClaimStep, MarkRunning, LoadSpec, Execute, RetrySelect, RetryReset,
                AckStep, WorkerFails, SelectRow, UpdateRow
  <2>2. /\ ~At(w, "idle")
        /\ Drop(w) \/ (~At(w, "ack") /\ \E pc \in WorkerPcs : GoTo(w, pc))
    BY <1>2 DEF CheckCancelled, ClaimStep, MarkRunning, LoadSpec, Execute, RetrySelect, RetryReset,
                AckStep, WorkerFails, SelectRow, UpdateRow, At, WorkerPcs
  <2>3. WorkedFor(r, s)' \subseteq WorkedFor(r, s)
    BY <2>2, LoopCarries
  <2>4. QED
    BY <1>0, <2>1, <2>3, KindsRead, CarrierKinds DEF Shrinks
<1>3. CASE Report(w)
  <2> DEFINE m == worker[w].msg
             e == [run |-> m.run, step |-> m.step, uuid |-> emitted[m.run][m.step] + 1,
                   ok |-> At(w, "succeeded"), copy |-> 1]
  <2>1. UNCHANGED <<stepQ, delayed, poller, handler, processed>> /\ GoTo(w, "ack")
          /\ worker[w].pc \notin {"idle", "ack"}
    BY <1>3 DEF Report, At
  <2>2. eventQ' = eventQ \cup {e}
    BY <1>3, OneReport DEF Report
  <2>3. Reported' \subseteq Reported \cup {e}
    BY <2>1, <2>2 DEF Reported
  <2>4. WorkedFor(r, s)' \subseteq WorkedFor(r, s) \ {<<"worker", w>>}
    BY <2>1 DEF WorkerTypes, WorkedFor, Carries, GoTo
  <2>5. /\ QueuedFor(r, s)' = QueuedFor(r, s) /\ DelayedFor(r, s)' = DelayedFor(r, s)
        /\ PolledFor(r, s)' = PolledFor(r, s)
    BY <2>1, KindsRead
  <2>6. CASE m.run = r /\ m.step = s
    <3>1. <<"worker", w>> \in Carriers(r, s)
      BY <2>1, <2>6, CarriersHold
    <3>2. <<"worker", w>> \notin QueuedFor(r, s) \cup DelayedFor(r, s) \cup PolledFor(r, s)
                                   \cup ReportedFor(r, s) \cup {<<"event", e.uuid>>}
      BY DEF QueuedFor, DelayedFor, PolledFor, ReportedFor
    <3>3. ReportedFor(r, s)' \subseteq ReportedFor(r, s) \cup {<<"event", e.uuid>>}
      BY <2>3 DEF ReportedFor
    <3> HIDE DEF m, e
    <3>4. Carriers(r, s)' \subseteq (Carriers(r, s) \ {<<"worker", w>>}) \cup {<<"event", e.uuid>>}
      BY <2>4, <2>5, <3>2, <3>3, CarrierKinds
    <3>5. QED
      BY <1>0, <2>1, <3>1, <3>4 DEF HandsOn
  <2>7. CASE ~(m.run = r /\ m.step = s)
    <3>1. ReportedFor(r, s)' \subseteq ReportedFor(r, s)
      BY <2>3, <2>7 DEF ReportedFor
    <3>2. QED
      BY <1>0, <2>1, <2>4, <2>5, <3>1, CarrierKinds DEF Shrinks
  <2>8. QED
    BY <2>6, <2>7
<1>4. CASE ScheduleRetry(w)
  <2> DEFINE m == worker[w].msg
             n == [worker[w].msg EXCEPT !.attempt = @ + 1]
  <2>1. /\ UNCHANGED <<stepQ, poller, eventQ, handler, processed>> /\ GoTo(w, "ack")
        /\ worker[w].pc \notin {"idle", "ack"} /\ delayed' \subseteq delayed \cup {n}
    BY <1>4 DEF ScheduleRetry, At
  <2>2. WorkedFor(r, s)' \subseteq WorkedFor(r, s) \ {<<"worker", w>>}
    BY <2>1 DEF WorkerTypes, WorkedFor, Carries, GoTo
  <2>3. /\ QueuedFor(r, s)' = QueuedFor(r, s) /\ PolledFor(r, s)' = PolledFor(r, s)
        /\ ReportedFor(r, s)' \subseteq ReportedFor(r, s)
    BY <2>1, KindsRead
  <2>4. n.run = m.run /\ n.step = m.step
    BY <2>1 DEF WorkerTypes, StepMsg
  <2>5. CASE m.run = r /\ m.step = s
    <3>1. <<"worker", w>> \in Carriers(r, s)
      BY <2>1, <2>5, CarriersHold
    <3>2. <<"worker", w>> \notin QueuedFor(r, s) \cup DelayedFor(r, s) \cup PolledFor(r, s)
                                   \cup ReportedFor(r, s) \cup {<<"delayed", n.attempt>>}
      BY DEF QueuedFor, DelayedFor, PolledFor, ReportedFor
    <3>3. DelayedFor(r, s)' \subseteq DelayedFor(r, s) \cup {<<"delayed", n.attempt>>}
      BY <2>1 DEF DelayedFor
    <3> HIDE DEF m, n
    <3>4. Carriers(r, s)' \subseteq (Carriers(r, s) \ {<<"worker", w>>}) \cup {<<"delayed", n.attempt>>}
      BY <2>2, <2>3, <3>2, <3>3, CarrierKinds
    <3>5. QED
      BY <1>0, <2>1, <3>1, <3>4 DEF HandsOn
  <2>6. CASE ~(m.run = r /\ m.step = s)
    <3>1. DelayedFor(r, s)' \subseteq DelayedFor(r, s)
      BY <2>1, <2>4, <2>6 DEF DelayedFor
    <3>2. QED
      BY <1>0, <2>1, <2>2, <2>3, <3>1, CarrierKinds DEF Shrinks
  <2>7. QED
    BY <2>5, <2>6
<1>5. QED
  BY <1>1, <1>2, <1>3, <1>4 DEF WorkerNext

\* The poll hands on what it removes, or loses it.
LEMMA PollerCarriers ==
  ASSUME IndInv, AtMostOne, NEW w \in Workers, ~faults'.repeated,
         \/ \E m \in delayed : PollRemove(w, m)
         \/ PollEnqueue(w)
         \/ PollLoses(w),
         NEW r \in Runs, NEW s \in Steps
  PROVE  /\ Shrinks(r, s) \/ HandsOn(r, s)
         /\ \A m \in StepMsg : stepQ'[m] <= 1
<1> USE DEF IndInv, TypeOK
<1>0. stepQ \in [StepMsg -> Nat] /\ delayed \subseteq StepMsg
  BY DEF StreamTypes
<1>1. CASE \E m \in delayed : PollRemove(w, m)
  <2>1. PICK m \in delayed : PollRemove(w, m)
    BY <1>1
  <2>2. m \in StepMsg
    BY <1>0
  <2>3. /\ QueuedFor(r, s)' = QueuedFor(r, s) /\ WorkedFor(r, s)' = WorkedFor(r, s)
        /\ ReportedFor(r, s)' \subseteq ReportedFor(r, s)
    BY <2>1, KindsRead DEF PollRemove
  <2>4. \A v \in Workers : poller'[v] = poller[v] \/ (v = w /\ poller'[v] = m)
    BY <2>1 DEF PollRemove, WorkerTypes
  <2>5. CASE m.run = r /\ m.step = s
    <3>1. <<"delayed", m.attempt>> \in Carriers(r, s)
      BY <2>1, <2>2, <2>5, CarriersHold
    <3>2. \A n \in delayed' : n.run = r /\ n.step = s => n \in delayed /\ n.attempt # m.attempt
      BY <1>0, <2>1, <2>2, <2>5 DEF PollRemove, StepMsg
    <3>3. DelayedFor(r, s)' \subseteq DelayedFor(r, s) \ {<<"delayed", m.attempt>>}
      BY <3>2 DEF DelayedFor
    <3>4. PolledFor(r, s)' \subseteq PolledFor(r, s) \cup {<<"poll", w>>}
      BY <2>4 DEF PolledFor
    <3>5. <<"delayed", m.attempt>> \notin QueuedFor(r, s) \cup PolledFor(r, s) \cup WorkedFor(r, s)
                                            \cup ReportedFor(r, s)
      BY DEF QueuedFor, PolledFor, WorkedFor, ReportedFor
    <3>6. Carriers(r, s)' \subseteq (Carriers(r, s) \ {<<"delayed", m.attempt>>}) \cup {<<"poll", w>>}
      BY <2>3, <3>3, <3>4, <3>5, CarrierKinds
    <3>7. QED
      BY <2>1, <3>1, <3>6 DEF HandsOn, PollRemove, AtMostOne
  <2>6. CASE ~(m.run = r /\ m.step = s)
    <3>1. DelayedFor(r, s)' \subseteq DelayedFor(r, s) /\ PolledFor(r, s)' \subseteq PolledFor(r, s)
      BY <2>1, <2>4, <2>6 DEF PollRemove, DelayedFor, PolledFor
    <3>2. QED
      BY <2>1, <2>3, <3>1, CarrierKinds DEF Shrinks, PollRemove, AtMostOne
  <2>7. QED
    BY <2>5, <2>6
<1>2. CASE PollEnqueue(w)
  <2> DEFINE m == poller[w]
  <2>1. m \in StepMsg /\ m # Nothing
    BY <1>2 DEF PollEnqueue, WorkerTypes
  <2>2. /\ stepQ' = [stepQ EXCEPT ![m] = @ + 1]
        /\ QueuedFor(r, s)' \subseteq QueuedFor(r, s) \cup {<<"queued", m.attempt>>}
        /\ <<r, s>> # <<m.run, m.step>> => QueuedFor(r, s)' = QueuedFor(r, s)
    BY <1>2, <2>1, OneEntryAppended DEF PollEnqueue
  <2>3. <<"poll", w>> \in Carriers(m.run, m.step)
    BY <2>1, CarriersHold
  <2>4. \A n \in StepMsg : stepQ'[n] <= 1
    <3>1. stepQ[m] = 0
      <4>1. m.run \in Runs /\ m.step \in Steps
        BY <2>1 DEF StepMsg
      <4>2. <<"queued", m.attempt>> \notin Carriers(m.run, m.step)
        BY <2>3, <4>1 DEF AtMostOne
      <4>3. ~(stepQ[m] > 0)
        BY <2>1, <4>2, CarriersHold
      <4>4. QED
        BY <1>0, <2>1, <4>3
    <3>2. QED
      BY <1>0, <2>1, <2>2, <3>1 DEF AtMostOne
  <2>5. PolledFor(r, s)' \subseteq PolledFor(r, s) \ {<<"poll", w>>}
    BY <1>2 DEF PollEnqueue, WorkerTypes, PolledFor
  <2>6. /\ DelayedFor(r, s)' = DelayedFor(r, s) /\ WorkedFor(r, s)' = WorkedFor(r, s)
        /\ ReportedFor(r, s)' \subseteq ReportedFor(r, s)
    BY <1>2, KindsRead DEF PollEnqueue
  <2>7. CASE m.run = r /\ m.step = s
    <3>1. <<"poll", w>> \notin QueuedFor(r, s) \cup DelayedFor(r, s) \cup WorkedFor(r, s)
                                 \cup ReportedFor(r, s) \cup {<<"queued", m.attempt>>}
      BY DEF QueuedFor, DelayedFor, WorkedFor, ReportedFor
    <3>2. Carriers(r, s)' \subseteq (Carriers(r, s) \ {<<"poll", w>>}) \cup {<<"queued", m.attempt>>}
      BY <2>2, <2>5, <2>6, <3>1, CarrierKinds
    <3>3. QED
      BY <2>3, <2>4, <2>7, <3>2 DEF HandsOn
  <2>8. CASE ~(m.run = r /\ m.step = s)
    BY <2>2, <2>4, <2>5, <2>6, <2>8, CarrierKinds DEF Shrinks
  <2>9. QED
    BY <2>7, <2>8
<1>3. CASE PollLoses(w)
  <2>1. PolledFor(r, s)' \subseteq PolledFor(r, s)
    BY <1>3 DEF PollLoses, WorkerTypes, PolledFor
  <2>2. QED
    BY <1>3, <2>1, KindsRead, CarrierKinds DEF PollLoses, Shrinks, AtMostOne
<1>4. QED
  BY <1>1, <1>2, <1>3

\* An orchestrator adds no event: it takes over what is queued.
LEMMA EventsOnlyTaken ==
  ASSUME TypeOK, NEW o \in Orchestrators,
         StarterNext(o) \/ HandlerNext(o) \/ ScannerNext(o) \/ OrchestratorFails(o)
  PROVE  Reported' \subseteq Reported
<1> USE DEF TypeOK, OrchestratorTypes
<1>1. SUFFICES /\ eventQ' \subseteq eventQ /\ processed \subseteq processed'
               /\ \A p \in Orchestrators :
                    handler'[p].pc \in {"got", "txn"} =>
                      \/ handler[p].pc \in {"got", "txn"} /\ handler'[p].event = handler[p].event
                      \/ handler'[p].event \in eventQ
  BY DEF Reported
<1>2. CASE StarterNext(o)
  BY <1>2 DEF StarterNext, TakeRun, StartRunMissing, StartRunSkip, StartRunBegin, StartRunEnqueue,
              StartRunCommit, AckRun
<1>3. CASE HandlerNext(o)
  <2>1. CASE \E e \in eventQ : TakeEvent(o, e)
    BY <2>1 DEF TakeEvent, HandlerAt
  <2>2. CASE SkipProcessedEvent(o) \/ IgnoreEvent(o)
    BY <2>2 DEF SkipProcessedEvent, IgnoreEvent, HandlerType
  <2>3. CASE RejectEvent(o) \/ AckEvent(o)
    BY <2>3 DEF RejectEvent, AckEvent, IdleHandler, HandlerAt, HandlerType
  <2>4. CASE BeginEvent(o)
    BY <2>4 DEF BeginEvent, HandlerType
  <2>5. CASE \E s \in Steps : EventEnqueue(o, s)
    BY <2>5 DEF EventEnqueue, HandlerType
  <2>6. CASE EventCommit(o)
    BY <2>6 DEF EventCommit, HandlerAt, HandlerType
  <2>7. QED
    BY <1>3, <2>1, <2>2, <2>3, <2>4, <2>5, <2>6 DEF HandlerNext
<1>4. CASE ScannerNext(o)
  BY <1>4 DEF ScannerNext, ScanSelect, ScanUpdate, ScanAnnounce
<1>5. CASE OrchestratorFails(o)
  BY <1>5 DEF OrchestratorFails, StartRunFails, HandleEventFails, OrchestratorCrash, IdleHandler,
              HandlerAt, HandlerType
<1>6. QED
  BY <1>2, <1>3, <1>4, <1>5

\* An orchestrator takes events over, drops them, records them, and queues steps.
LEMMA OrchestratorCarriers ==
  ASSUME IndInv, AtMostOne, TxnFresh, NEW o \in Orchestrators, ~faults'.repeated,
         StarterNext(o) \/ HandlerNext(o) \/ ScannerNext(o) \/ OrchestratorFails(o),
         NEW r \in Runs, NEW s \in Steps
  PROVE  /\ \/ Shrinks(r, s)
            \/ /\ Dispatches(r, s) /\ Carriers(r, s) = {}
               /\ Carriers(r, s)' \subseteq {<<"queued", 1>>}
         /\ \A m \in StepMsg : stepQ'[m] <= 1
<1> USE DEF IndInv, TypeOK
<1>0. \A m \in StepMsg : stepQ[m] \in Nat /\ stepQ[m] <= 1
  BY DEF StreamTypes, AtMostOne
<1>1. ASSUME NEW q \in Runs, NEW t \in Steps, EnqueueStep(FirstMsg(q, t)),
             Carriers(q, t) = {}, UNCHANGED <<delayed, poller, worker>>,
             Reported' \subseteq Reported, q = r /\ t = s => Dispatches(r, s)
      PROVE  /\ \/ Shrinks(r, s)
                \/ /\ Dispatches(r, s) /\ Carriers(r, s) = {}
                   /\ Carriers(r, s)' \subseteq {<<"queued", 1>>}
             /\ \A m \in StepMsg : stepQ'[m] <= 1
  <2> DEFINE m == FirstMsg(q, t)
  <2>1. m \in StepMsg /\ m.run = q /\ m.step = t /\ m.attempt = 1
    BY FirstAttempt DEF FirstMsg
  <2> HIDE DEF m
  <2>2. /\ stepQ' = [stepQ EXCEPT ![m] = @ + 1]
        /\ QueuedFor(r, s)' \subseteq QueuedFor(r, s) \cup {<<"queued", 1>>}
        /\ <<r, s>> # <<q, t>> => QueuedFor(r, s)' = QueuedFor(r, s)
    BY <1>1, <2>1, OneEntryAppended DEF m
  <2>3. ~(stepQ[m] > 0)
    BY <1>1, <2>1, CarriersHold
  <2>4. \A n \in StepMsg : stepQ'[n] <= 1
    BY <1>0, <2>1, <2>2, <2>3 DEF StreamTypes
  <2>5. Carriers(r, s)' \subseteq Carriers(r, s) \cup (QueuedFor(r, s)' \ QueuedFor(r, s))
    BY <1>1, KindsRead, CarrierKinds
  <2>6. QED
    BY <1>1, <2>2, <2>4, <2>5 DEF Shrinks
<1>2. CASE \E t \in Steps : StartRunEnqueue(o, t)
  <2>1. PICK t \in Steps : StartRunEnqueue(o, t)
    BY <1>2
  <2>2. starter[o].run \in Runs
    BY <2>1, Held DEF StartRunEnqueue
  <2>3. Carriers(starter[o].run, t) = {}
    BY <2>1 DEF StartRunEnqueue, TxnFresh
  <2>4. Reported' \subseteq Reported
    BY <2>1 DEF StartRunEnqueue, Reported
  <2>5. QED
    BY <1>1, <2>1, <2>2, <2>3, <2>4 DEF StartRunEnqueue, Dispatches
<1>3. CASE \E t \in Steps : EventEnqueue(o, t)
  <2>1. PICK t \in Steps : EventEnqueue(o, t)
    BY <1>3
  <2>2. handler[o].event.run \in Runs
    BY <2>1, Held DEF EventEnqueue
  <2>3. Carriers(handler[o].event.run, t) = {}
    BY <2>1 DEF EventEnqueue, TxnFresh
  <2>4. \A p \in Orchestrators : handler'[p].pc = handler[p].pc /\ handler'[p].event = handler[p].event
    BY <2>1 DEF EventEnqueue, OrchestratorTypes, HandlerType
  <2>5. Reported' \subseteq Reported
    BY <2>1, <2>4 DEF EventEnqueue, Reported
  <2>6. QED
    BY <1>1, <2>1, <2>2, <2>3, <2>5 DEF EventEnqueue, Dispatches
<1>4. CASE ~\E t \in Steps : StartRunEnqueue(o, t) \/ EventEnqueue(o, t)
  <2>1. UNCHANGED <<stepQ, delayed, poller, worker>>
    BY <1>4, OrchestratorsLeave
  <2>2. Reported' \subseteq Reported
    BY <1>4, EventsOnlyTaken
  <2>3. QED
    BY <1>0, <2>1, <2>2, KindsRead, CarrierKinds DEF Shrinks
<1>5. QED
  BY <1>2, <1>3, <1>4

\* Whatever happens, the carrier of a step is handed on or dropped, or the step
\* had none and is queued for its first attempt.
LEMMA CarrierStep ==
  ASSUME IndInv, AtMostOne, TxnFresh, [Next]_vars, ~faults'.repeated,
         NEW r \in Runs, NEW s \in Steps
  PROVE  /\ \/ Shrinks(r, s)
            \/ HandsOn(r, s)
            \/ /\ Dispatches(r, s) /\ Carriers(r, s) = {}
               /\ Carriers(r, s)' \subseteq {<<"queued", 1>>}
         /\ \A m \in StepMsg : stepQ'[m] <= 1
<1>1. CASE TriggerNext \/ UserNext \/ UNCHANGED vars
  <2>1. UNCHANGED <<stepQ, delayed, poller, worker, eventQ, handler, processed>>
    BY <1>1, RequestsLeave
  <2>2. QED
    BY <2>1, KindsRead, CarrierKinds DEF Shrinks, AtMostOne
<1>2. ASSUME NEW o \in Orchestrators,
             StarterNext(o) \/ HandlerNext(o) \/ ScannerNext(o) \/ OrchestratorFails(o)
      PROVE  /\ \/ Shrinks(r, s)
                \/ /\ Dispatches(r, s) /\ Carriers(r, s) = {}
                   /\ Carriers(r, s)' \subseteq {<<"queued", 1>>}
             /\ \A m \in StepMsg : stepQ'[m] <= 1
  BY <1>2, OrchestratorCarriers
<1>3. ASSUME NEW w \in Workers, WorkerNext(w) \/ WorkerFails(w)
      PROVE  /\ Shrinks(r, s) \/ HandsOn(r, s)
             /\ \A m \in StepMsg : stepQ'[m] <= 1
  <2>1. /\ Shrinks(r, s) \/ HandsOn(r, s)
        /\ \A m \in StepMsg : stepQ'[m] <= stepQ[m]
    BY <1>3, WorkerCarriers
  <2>2. \A m \in StepMsg : stepQ[m] <= 1 /\ stepQ[m] \in Nat
    BY DEF AtMostOne, IndInv, TypeOK, StreamTypes
  <2>3. stepQ' \in [StepMsg -> Nat]
    BY NextKeeps DEF IndInv, TypeOK, StreamTypes
  <2>4. QED
    BY <2>1, <2>2, <2>3
<1>4. ASSUME NEW w \in Workers, PollerNext(w) \/ PollLoses(w)
      PROVE  /\ Shrinks(r, s) \/ HandsOn(r, s)
             /\ \A m \in StepMsg : stepQ'[m] <= 1
  BY <1>4, PollerCarriers DEF PollerNext
<1>5. QED
  BY <1>1, <1>2, <1>3, <1>4 DEF Next

\* A step that nothing carries is carried on only when it is dispatched.
LEMMA NoneArises ==
  ASSUME IndInv, AtMostOne, TxnFresh, [Next]_vars, ~faults'.repeated,
         NEW r \in Runs, NEW s \in Steps, Carriers(r, s) = {}, Carriers(r, s)' # {}
  PROVE  Dispatches(r, s)
BY CarrierStep DEF Shrinks, HandsOn

\* One carrier at most remains one at most.
LEMMA AtMostOneStep ==
  ASSUME IndInv, AtMostOne, TxnFresh, [Next]_vars, ~faults'.repeated
  PROVE  AtMostOne'
<1>1. ASSUME NEW r \in Runs, NEW s \in Steps, NEW x \in Carriers(r, s)', NEW y \in Carriers(r, s)'
      PROVE  x = y
  <2>1. CASE Shrinks(r, s)
    BY <1>1, <2>1 DEF Shrinks, AtMostOne
  <2>2. CASE HandsOn(r, s)
    BY <1>1, <2>2 DEF HandsOn, AtMostOne
  <2>3. CASE Carriers(r, s)' \subseteq {<<"queued", 1>>}
    BY <1>1, <2>3
  <2>4. QED
    BY <2>1, <2>2, <2>3, CarrierStep
<1>2. \A r \in Runs, s \in Steps : \A x, y \in Carriers(r, s)' : x = y
  BY <1>1
<1>3. ASSUME NEW m \in StepMsg
      PROVE  stepQ'[m] <= 1
  <2>1. m.run \in Runs /\ m.step \in Steps
    BY DEF StepMsg
  <2>2. QED
    BY <2>1, CarrierStep
<1>4. QED
  BY <1>2, <1>3 DEF AtMostOne

-------------------------------------------------------------------------------
(* The entry of a run.                                                      *)

\* Without a repetition an XADD of a run appends one entry.
LEMMA OneRunAppended ==
  ASSUME ~faults'.repeated, NEW r, EnqueueRun(r)
  PROVE  runQ' = [runQ EXCEPT ![r] = @ + 1]
<1>1. ~Fault("resend_runs")
  BY ResendShows DEF Resends
<1>2. QED
  BY <1>1 DEF EnqueueRun, Copies

\* A consumer of runs that takes no new entry keeps its run or lets it go.
KeepsRun(o) ==
  \/ starter'[o] = starter[o]
  \/ starter'[o] = IdleStarter
  \/ starter[o].pc # "idle" /\ starter'[o].run = starter[o].run /\ starter'[o].pc \in {"txn", "ack"}

\* What happens to the entry of a run: it is queued once, taken once.
LEMMA EntrySteps ==
  ASSUME IndInv, ~faults'.repeated, [Next]_vars
  PROVE  \/ /\ UNCHANGED runQ /\ \A o \in Orchestrators : KeepsRun(o)
            /\ \A r \in Runs : trigger'[r] = trigger[r]
                                 \/ (trigger[r] = "new" /\ trigger'[r] = "created")
                                 \/ trigger'[r] = "done"
         \/ /\ UNCHANGED starter
            /\ \E r \in Runs :
                 /\ trigger[r] \in {"new", "created"}
                 /\ \E t \in {"inserted", "done"} : trigger' = [trigger EXCEPT ![r] = t]
                 /\ runQ' = [runQ EXCEPT ![r] = @ + 1]
         \/ UNCHANGED trigger /\ \E o \in Orchestrators, r \in Runs : TakeRun(o, r)
<1> USE DEF IndInv, TypeOK, KeepsRun
<1>1. CASE TriggerNext
  <2>1. trigger \in [Runs -> {"new", "created", "inserted", "done"}]
    BY DEF RequestTypes
  <2>2. PICK r \in Runs : \/ CreateRun(r) \/ QueueRun(r) \/ QueueRunFails(r)
                          \/ TickQueueRun(r) \/ TickCommit(r) \/ TickRollback(r)
    BY <1>1 DEF TriggerNext
  <2>3. CASE CreateRun(r) \/ QueueRunFails(r) \/ TickCommit(r) \/ TickRollback(r)
    BY <2>1, <2>3 DEF CreateRun, QueueRunFails, TickCommit, TickRollback
  <2>4. CASE QueueRun(r) \/ TickQueueRun(r)
    BY <2>4, OneRunAppended DEF QueueRun, TickQueueRun
  <2>5. QED
    BY <2>2, <2>3, <2>4
<1>2. ASSUME NEW o \in Orchestrators, StarterNext(o)
      PROVE  /\ UNCHANGED trigger
             /\ \/ \E r \in Runs : TakeRun(o, r)
                \/ UNCHANGED runQ /\ \A p \in Orchestrators : KeepsRun(p)
  <2> USE DEF OrchestratorTypes, StarterType
  <2>1. CASE \E r \in Runs : TakeRun(o, r)
    BY <2>1 DEF TakeRun
  <2>2. CASE StartRunMissing(o) \/ AckRun(o)
    BY <2>2 DEF StartRunMissing, AckRun
  <2>3. CASE StartRunSkip(o) \/ StartRunCommit(o)
    BY <2>3 DEF StartRunSkip, StartRunCommit
  <2>4. CASE StartRunBegin(o)
    BY <2>4 DEF StartRunBegin
  <2>5. CASE \E s \in Steps : StartRunEnqueue(o, s)
    BY <2>5 DEF StartRunEnqueue
  <2>6. QED
    BY <1>2, <2>1, <2>2, <2>3, <2>4, <2>5 DEF StarterNext
<1>3. ASSUME NEW o \in Orchestrators, HandlerNext(o) \/ ScannerNext(o)
      PROVE  UNCHANGED <<trigger, runQ, starter>>
  BY <1>3 DEF HandlerNext, ScannerNext, TakeEvent, SkipProcessedEvent, IgnoreEvent, RejectEvent,
              BeginEvent, EventEnqueue, EventCommit, AckEvent, ScanSelect, ScanUpdate, ScanAnnounce
<1>4. ASSUME NEW o \in Orchestrators, OrchestratorFails(o)
      PROVE  UNCHANGED <<trigger, runQ>> /\ \A p \in Orchestrators : KeepsRun(p)
  BY <1>4 DEF OrchestratorFails, StartRunFails, HandleEventFails, OrchestratorCrash, OrchestratorTypes
<1>5. ASSUME NEW w \in Workers, WorkerNext(w) \/ PollerNext(w) \/ WorkerFails(w) \/ PollLoses(w)
      PROVE  UNCHANGED <<trigger, runQ, starter>>
  BY <1>5 DEF WorkerNext, PollerNext, TakeStep, CheckCancelled, ClaimStep, MarkRunning, LoadSpec,
              Execute, Report, RetrySelect, RetryReset, ScheduleRetry, AckStep, SelectRow, UpdateRow,
              PollRemove, PollEnqueue, WorkerFails, PollLoses
<1>6. ASSUME UserNext \/ UNCHANGED vars
      PROVE  UNCHANGED <<trigger, runQ, starter>>
  BY <1>6 DEF UserNext, CancelRun, SignalCancel, SignalCancelFails, DeleteWorkflow, Expire, vars
<1>7. CASE UNCHANGED <<trigger, runQ, starter>>
  BY <1>7
<1>8. QED
  BY <1>1, <1>2, <1>3, <1>4, <1>5, <1>6, <1>7 DEF Next

\* A run keeps its one entry, and one orchestrator gets it.
LEMMA OneEntryStep ==
  ASSUME IndInv, OneEntry, ~faults'.repeated, [Next]_vars
  PROVE  OneEntry'
<1>0. runQ \in [Runs -> Nat] /\ trigger \in [Runs -> {"new", "created", "inserted", "done"}]
  BY DEF IndInv, TypeOK, StreamTypes, RequestTypes
<1>1. CASE /\ UNCHANGED runQ /\ \A o \in Orchestrators : KeepsRun(o)
           /\ \A r \in Runs : trigger'[r] = trigger[r]
                                \/ (trigger[r] = "new" /\ trigger'[r] = "created")
                                \/ trigger'[r] = "done"
  <2>1. \A o \in Orchestrators, r \in Runs : Holds(o, r)' => Holds(o, r)
    BY <1>1 DEF KeepsRun, Holds, IdleStarter, StarterAt
  <2>2. QED
    BY <1>1, <2>1 DEF OneEntry
<1>2. CASE /\ UNCHANGED starter
           /\ \E r \in Runs :
                /\ trigger[r] \in {"new", "created"}
                /\ \E t \in {"inserted", "done"} : trigger' = [trigger EXCEPT ![r] = t]
                /\ runQ' = [runQ EXCEPT ![r] = @ + 1]
  BY <1>0, <1>2 DEF OneEntry, Holds
<1>3. CASE UNCHANGED trigger /\ \E o \in Orchestrators, r \in Runs : TakeRun(o, r)
  <2>1. PICK o \in Orchestrators, r \in Runs : TakeRun(o, r)
    BY <1>3
  <2>2. \A p \in Orchestrators, q \in Runs : Holds(p, q)' <=> Holds(p, q) \/ (p = o /\ q = r)
    BY <2>1 DEF TakeRun, Holds, StarterAt, IndInv, TypeOK, OrchestratorTypes
  <2>3. runQ[r] = 1 /\ runQ' = [runQ EXCEPT ![r] = 0]
    <3>1. runQ[r] \in Nat /\ runQ[r] > 0 /\ runQ[r] <= 1
      BY <1>0, <2>1 DEF TakeRun, OneEntry
    <3>2. runQ[r] = 1
      BY <3>1
    <3>3. QED
      BY <2>1, <3>2 DEF TakeRun
  <2>4. QED
    BY <1>0, <1>3, <2>2, <2>3 DEF OneEntry
<1>4. QED
  BY <1>1, <1>2, <1>3, EntrySteps

\* A run that may still be started could be before.
LEMMA UnstartedBefore ==
  ASSUME IndInv, [Next]_vars, ~faults'.repeated, NEW r \in Runs, Unstarted(r)'
  PROVE  Unstarted(r)
<1>0. runQ \in [Runs -> Nat] /\ trigger \in [Runs -> {"new", "created", "inserted", "done"}]
  BY DEF IndInv, TypeOK, StreamTypes, RequestTypes
<1>1. CASE /\ UNCHANGED runQ /\ \A o \in Orchestrators : KeepsRun(o)
           /\ \A q \in Runs : trigger'[q] = trigger[q]
                                \/ (trigger[q] = "new" /\ trigger'[q] = "created")
                                \/ trigger'[q] = "done"
  BY <1>1 DEF KeepsRun, Unstarted, IdleStarter, StarterAt
<1>2. CASE /\ UNCHANGED starter
           /\ \E q \in Runs :
                /\ trigger[q] \in {"new", "created"}
                /\ \E t \in {"inserted", "done"} : trigger' = [trigger EXCEPT ![q] = t]
                /\ runQ' = [runQ EXCEPT ![q] = @ + 1]
  BY <1>0, <1>2 DEF Unstarted
<1>3. CASE UNCHANGED trigger /\ \E o \in Orchestrators, q \in Runs : TakeRun(o, q)
  <2>1. PICK o \in Orchestrators, q \in Runs : TakeRun(o, q)
    BY <1>3
  <2>2. QED
    BY <1>0, <1>3, <2>1 DEF Unstarted, TakeRun, StarterAt, IndInv, TypeOK, OrchestratorTypes
<1>4. QED
  BY <1>1, <1>2, <1>3, EntrySteps

\* Only startRun's commit makes a run RUNNING.
LEMMA StartsRunning ==
  ASSUME IndInv, [Next]_vars, NEW r \in Runs, run'[r] = "RUNNING", run[r] # "RUNNING"
  PROVE  \E o \in Orchestrators : StartRunCommit(o) /\ starter[o].run = r
<1> USE DEF IndInv, TypeOK, DbTypes
<1>1. CASE \E q \in Runs : CreateRun(q) \/ TickCommit(q) \/ CancelRun(q) \/ DeleteWorkflow(q)
  BY <1>1 DEF CreateRun, TickCommit, CancelRun, DeleteWorkflow
<1>2. CASE \E o \in Orchestrators : StartRunCommit(o)
  BY <1>2 DEF StartRunCommit
<1>3. CASE \E o \in Orchestrators : EventCommit(o)
  <2>1. PICK o \in Orchestrators : EventCommit(o)
    BY <1>3
  <2>2. handler[o].verdict \in {"OPEN", "SUCCEEDED", "FAILED"}
    BY <2>1, Held DEF HandlerType
  <2>3. QED
    BY <2>1, <2>2 DEF EventCommit
<1>4. CASE \E o \in Orchestrators : ScanUpdate(o)
  BY <1>4 DEF ScanUpdate
<1>5. QED
  BY <1>1, <1>2, <1>3, <1>4, RunWriters

\* A transaction that starts a run holds the run's only entry.
LEMMA TxnIsStarted ==
  ASSUME IndInv, OneEntry, NEW o \in Orchestrators, starter[o].pc = "txn"
  PROVE  ~Unstarted(starter[o].run)
BY Held DEF IndInv, OneEntry, Holds, Unstarted

\* Nothing carries a step of a run before it is started.
LEMMA StartsEmptyStep ==
  ASSUME IndInv, OneEntry, StartsEmpty, AtMostOne, TxnFresh, [Next]_vars,
         ~faults'.repeated
  PROVE  StartsEmpty'
<1> SUFFICES ASSUME NEW r \in Runs, Unstarted(r)'
             PROVE  run'[r] # "RUNNING" /\ \A s \in Steps : Carriers(r, s)' = {}
  BY DEF StartsEmpty
<1>1. Unstarted(r) /\ run[r] # "RUNNING" /\ \A s \in Steps : Carriers(r, s) = {}
  BY UnstartedBefore DEF StartsEmpty
<1>2. run'[r] # "RUNNING"
  <2>1. ASSUME NEW o \in Orchestrators, StartRunCommit(o), starter[o].run = r
        PROVE  FALSE
    BY <1>1, <2>1, TxnIsStarted DEF StartRunCommit
  <2>2. QED
    BY <1>1, <2>1, StartsRunning
<1>3. ASSUME NEW s \in Steps
      PROVE  ~Dispatches(r, s)
  BY <1>1, TxnIsStarted DEF Dispatches, StartRunEnqueue, EventEnqueue, IndInv, TxnInv
<1>4. QED
  BY <1>1, <1>2, <1>3, NoneArises

-------------------------------------------------------------------------------
(* The events.                                                              *)

\* A consumer of events that takes no new entry keeps its event or lets it go.
KeepsEvent(o) ==
  \/ handler'[o] = handler[o]
  \/ handler'[o] = IdleHandler
  \/ handler[o].pc # "idle" /\ handler'[o].pc # "idle" /\ handler'[o].event = handler[o].event

\* What happens to the events: a worker reports one with an id of its own, a
\* consumer takes one.
LEMMA EventSteps ==
  ASSUME IndInv, ~faults'.repeated, [Next]_vars
  PROVE  \/ UNCHANGED <<eventQ, emitted>> /\ \A o \in Orchestrators : KeepsEvent(o)
         \/ /\ UNCHANGED handler
            /\ \E r \in Runs, s \in Steps, ok \in BOOLEAN :
                 /\ eventQ' = eventQ \cup {[run |-> r, step |-> s, uuid |-> emitted[r][s] + 1,
                                            ok |-> ok, copy |-> 1]}
                 /\ emitted' = [emitted EXCEPT ![r][s] = @ + 1]
         \/ UNCHANGED emitted /\ \E o \in Orchestrators, e \in eventQ : TakeEvent(o, e)
<1> USE DEF IndInv, TypeOK, KeepsEvent
<1>1. ASSUME TriggerNext \/ UserNext \/ UNCHANGED vars
      PROVE  UNCHANGED <<eventQ, emitted, handler>>
  BY <1>1, RequestsLeave
<1>2. ASSUME NEW o \in Orchestrators, StarterNext(o) \/ ScannerNext(o)
      PROVE  UNCHANGED <<eventQ, emitted, handler>>
  BY <1>2, OrchestratorsLeave
<1>3. ASSUME NEW o \in Orchestrators, OrchestratorFails(o)
      PROVE  UNCHANGED <<eventQ, emitted>> /\ \A p \in Orchestrators : KeepsEvent(p)
  BY <1>3 DEF OrchestratorFails, StartRunFails, HandleEventFails, OrchestratorCrash, OrchestratorTypes
<1>4. ASSUME NEW o \in Orchestrators, HandlerNext(o)
      PROVE  /\ UNCHANGED emitted
             /\ \/ \E e \in eventQ : TakeEvent(o, e)
                \/ UNCHANGED eventQ /\ \A p \in Orchestrators : KeepsEvent(p)
  <2> USE DEF OrchestratorTypes, HandlerType
  <2>1. CASE \E e \in eventQ : TakeEvent(o, e)
    BY <2>1 DEF TakeEvent
  <2>2. CASE SkipProcessedEvent(o) \/ IgnoreEvent(o)
    BY <2>2 DEF SkipProcessedEvent, IgnoreEvent
  <2>3. CASE RejectEvent(o) \/ AckEvent(o)
    BY <2>3 DEF RejectEvent, AckEvent
  <2>4. CASE BeginEvent(o)
    BY <2>4 DEF BeginEvent
  <2>5. CASE \E s \in Steps : EventEnqueue(o, s)
    BY <2>5 DEF EventEnqueue
  <2>6. CASE EventCommit(o)
    BY <2>6 DEF EventCommit, HandlerAt
  <2>7. QED
    BY <1>4, <2>1, <2>2, <2>3, <2>4, <2>5, <2>6 DEF HandlerNext
<1>5. ASSUME NEW w \in Workers, ~Report(w),
             WorkerNext(w) \/ WorkerFails(w) \/ PollerNext(w) \/ PollLoses(w)
      PROVE  UNCHANGED <<eventQ, emitted, handler>>
  BY <1>5, WorkersLeave
<1>6. ASSUME NEW w \in Workers, Report(w)
      PROVE  /\ UNCHANGED handler
             /\ \E r \in Runs, s \in Steps, ok \in BOOLEAN :
                  /\ eventQ' = eventQ \cup {[run |-> r, step |-> s, uuid |-> emitted[r][s] + 1,
                                             ok |-> ok, copy |-> 1]}
                  /\ emitted' = [emitted EXCEPT ![r][s] = @ + 1]
  <2>1. worker[w].msg.run \in Runs /\ worker[w].msg.step \in Steps /\ At(w, "succeeded") \in BOOLEAN
    BY <1>6, Held DEF Report, At
  <2>2. QED
    BY <1>6, <2>1, OneReport DEF Report
<1>7. CASE UNCHANGED <<eventQ, emitted, handler>>
  BY <1>7
<1>8. QED
  BY <1>1, <1>2, <1>3, <1>4, <1>5, <1>6, <1>7 DEF Next

\* An event stays under way once.
LEMMA OneCopyStep ==
  ASSUME IndInv, OneCopy, ~faults'.repeated, [Next]_vars
  PROVE  OneCopy'
<1>0. /\ emitted \in [Runs -> [Steps -> Nat]]
      /\ \A e \in eventQ : e.run \in Runs /\ e.step \in Steps /\ e.uuid \in Nat
      /\ \A o \in Orchestrators : handler[o].pc # "idle" =>
           /\ handler[o].event.run \in Runs /\ handler[o].event.step \in Steps
           /\ handler[o].event.uuid \in Nat
  BY Held DEF IndInv, TypeOK, WorkerTypes, StreamTypes, EventMsg
<1>1. CASE UNCHANGED <<eventQ, emitted>> /\ \A o \in Orchestrators : KeepsEvent(o)
  <2>1. \A o \in Orchestrators : handler'[o].pc # "idle" =>
          handler[o].pc # "idle" /\ handler'[o].event = handler[o].event
    BY <1>1 DEF KeepsEvent, IdleHandler, HandlerAt
  <2>2. QED
    BY <1>1, <2>1 DEF OneCopy, EventId
<1>2. CASE /\ UNCHANGED handler
           /\ \E r \in Runs, s \in Steps, ok \in BOOLEAN :
                /\ eventQ' = eventQ \cup {[run |-> r, step |-> s, uuid |-> emitted[r][s] + 1,
                                           ok |-> ok, copy |-> 1]}
                /\ emitted' = [emitted EXCEPT ![r][s] = @ + 1]
  <2>1. PICK r \in Runs, s \in Steps, ok \in BOOLEAN :
          /\ eventQ' = eventQ \cup {[run |-> r, step |-> s, uuid |-> emitted[r][s] + 1,
                                     ok |-> ok, copy |-> 1]}
          /\ emitted' = [emitted EXCEPT ![r][s] = @ + 1]
    BY <1>2
  <2> DEFINE n == [run |-> r, step |-> s, uuid |-> emitted[r][s] + 1, ok |-> ok, copy |-> 1]
  <2>2. n.run = r /\ n.step = s /\ n.uuid = emitted[r][s] + 1 /\ eventQ' = eventQ \cup {n}
    BY <2>1
  <2> HIDE DEF n
  <2>3. \A q \in Runs, t \in Steps :
          /\ emitted'[q][t] \in Nat /\ emitted[q][t] <= emitted'[q][t]
          /\ emitted'[r][s] = emitted[r][s] + 1
    BY <1>0, <2>1
  <2>4. \A e \in eventQ : e.uuid <= emitted'[e.run][e.step] /\ EventId(e) # EventId(n)
    BY <1>0, <2>2, <2>3 DEF OneCopy, EventId
  <2>5. \A o \in Orchestrators : handler[o].pc # "idle" =>
          /\ handler[o].event.uuid <= emitted'[handler[o].event.run][handler[o].event.step]
          /\ EventId(handler[o].event) # EventId(n)
    BY <1>0, <2>2, <2>3 DEF OneCopy, EventId
  <2>6. n.uuid <= emitted'[n.run][n.step]
    BY <1>0, <2>2, <2>3
  <2>7. QED
    BY <1>2, <2>2, <2>4, <2>5, <2>6 DEF OneCopy
<1>3. CASE UNCHANGED emitted /\ \E o \in Orchestrators, e \in eventQ : TakeEvent(o, e)
  <2>1. PICK o \in Orchestrators, e \in eventQ : TakeEvent(o, e)
    BY <1>3
  <2>2. /\ eventQ' = eventQ \ {e} /\ handler'[o].event = e /\ handler[o].pc = "idle"
        /\ \A p \in Orchestrators : p # o => handler'[p] = handler[p]
    BY <2>1 DEF TakeEvent, HandlerAt, IndInv, TypeOK, OrchestratorTypes
  <2>3. QED
    BY <1>3, <2>2 DEF OneCopy
<1>4. QED
  BY <1>1, <1>2, <1>3, EventSteps

-------------------------------------------------------------------------------
(* The rows.                                                                *)

\* The first rows of a run, the steps that an event makes ready, the step it settles.
Starts(o, r, s) == StartRunCommit(o) /\ starter[o].run = r /\ s \in ReadySet(DependsOn, {})
Readies(o, r, s) ==
  /\ EventCommit(o) /\ handler[o].event.run = r
  /\ s # handler[o].event.step /\ s \in handler[o].fresh
Settles(o, r, s) == EventCommit(o) /\ handler[o].event.run = r /\ handler[o].event.step = s

\* Worker w holds a message of step s of run r.
WorksOn(w, r, s) == worker[w].msg.run = r /\ worker[w].msg.step = s

\* A worker's UPDATE writes the row of its message, if there is one.
LEMMA RowUpdated ==
  ASSUME TypeOK, NEW w \in Workers, ~At(w, "idle"), NEW new, NEW next, UpdateRow(w, new, next),
         NEW r \in Runs, NEW s \in Steps
  PROVE  \/ row'[r][s] = row[r][s]
         \/ WorksOn(w, r, s) /\ RowOf(w) = row[r][s] /\ row[r][s].status # "NONE"
              /\ row'[r][s] = new /\ GoTo(w, next)
<1>1. worker[w].msg.run \in Runs /\ worker[w].msg.step \in Steps
  BY Held DEF At
<1>2. QED
  BY <1>1 DEF TypeOK, DbTypes, UpdateRow, RowOf, WorksOn

\* What may happen to the row of a step, and who does it.
LEMMA RowChanges ==
  ASSUME IndInv, [Next]_vars, NEW r \in Runs, NEW s \in Steps
  PROVE  \/ row'[r][s] = row[r][s]
         \/ run'[r] = "DELETED" /\ row'[r][s] = NoRow
         \/ \E o \in Orchestrators : (Starts(o, r, s) \/ Readies(o, r, s)) /\ row'[r][s] = FirstRow
         \/ \E o \in Orchestrators :
              /\ Settles(o, r, s)
              /\ row'[r][s] = [row[r][s] EXCEPT !.status = StatusAfter(handler[o].event)]
         \/ \E w \in Workers :
              /\ MarkRunning(w) /\ WorksOn(w, r, s) /\ row[r][s].status # "NONE"
              /\ row'[r][s] = [row[r][s] EXCEPT !.status = "RUNNING"]
         \/ \E w \in Workers :
              /\ RetryReset(w) /\ WorksOn(w, r, s) /\ row[r][s].status # "NONE"
              /\ row'[r][s] = [status |-> "READY", attempt |-> worker[w].msg.attempt + 1]
<1> USE DEF IndInv, TypeOK, DbTypes
<1>1. ASSUME NEW q \in Runs, DeleteWorkflow(q)
      PROVE  row'[r][s] = row[r][s] \/ (run'[r] = "DELETED" /\ row'[r][s] = NoRow)
  BY <1>1 DEF DeleteWorkflow
<1>2. ASSUME NEW o \in Orchestrators, StartRunCommit(o)
      PROVE  row'[r][s] = row[r][s] \/ (Starts(o, r, s) /\ row'[r][s] = FirstRow)
  BY <1>2 DEF StartRunCommit, Starts
<1>3. ASSUME NEW o \in Orchestrators, EventCommit(o)
      PROVE  \/ row'[r][s] = row[r][s]
             \/ Readies(o, r, s) /\ row'[r][s] = FirstRow
             \/ /\ Settles(o, r, s)
                /\ row'[r][s] = [row[r][s] EXCEPT !.status = StatusAfter(handler[o].event)]
  BY <1>3 DEF EventCommit, Readies, Settles
<1>4. ASSUME NEW w \in Workers, MarkRunning(w)
      PROVE  \/ row'[r][s] = row[r][s]
             \/ /\ WorksOn(w, r, s) /\ row[r][s].status # "NONE"
                /\ row'[r][s] = [row[r][s] EXCEPT !.status = "RUNNING"]
  <2>1. UpdateRow(w, [RowOf(w) EXCEPT !.status = "RUNNING"], "load") /\ ~At(w, "idle")
    BY <1>4 DEF MarkRunning, At
  <2> DEFINE new == [RowOf(w) EXCEPT !.status = "RUNNING"]
  <2> HIDE DEF new
  <2>2. row'[r][s] = row[r][s]
          \/ (WorksOn(w, r, s) /\ RowOf(w) = row[r][s] /\ row[r][s].status # "NONE" /\ row'[r][s] = new)
    BY <2>1, RowUpdated DEF new
  <2>3. QED
    BY <2>2 DEF new
<1>5. ASSUME NEW w \in Workers, RetryReset(w)
      PROVE  \/ row'[r][s] = row[r][s]
             \/ /\ WorksOn(w, r, s) /\ row[r][s].status # "NONE"
                /\ row'[r][s] = [status |-> "READY", attempt |-> worker[w].msg.attempt + 1]
  BY <1>5, RowUpdated DEF RetryReset, At
<1>6. QED
  BY <1>1, <1>2, <1>3, <1>4, <1>5, RowWriters

\* A deleted run stays deleted; the rows of a run go when it is deleted.
LEMMA Deletion ==
  ASSUME IndInv, [Next]_vars, NEW r \in Runs
  PROVE  /\ run[r] = "DELETED" => run'[r] = "DELETED"
         /\ run[r] # "DELETED" /\ run'[r] = "DELETED" => \A s \in Steps : row'[r][s] = NoRow
<1> USE DEF IndInv, TypeOK, DbTypes
<1>1. run[r] = "DELETED" => run'[r] = "DELETED"
  BY RunMovesStep DEF RunMoves, TerminalStatuses
<1>2. ASSUME run[r] # "DELETED", run'[r] = "DELETED"
      PROVE  \E q \in Runs : DeleteWorkflow(q)
  <2>1. ASSUME NEW o \in Orchestrators, EventCommit(o)
        PROVE  run'[r] = run[r] \/ run'[r] \in {"OPEN", "SUCCEEDED", "FAILED"}
    <3>1. handler[o].verdict \in {"OPEN", "SUCCEEDED", "FAILED"}
      BY <2>1, Held DEF EventCommit, HandlerType
    <3>2. QED
      BY <2>1, <3>1 DEF EventCommit
  <2>2. QED
    BY <1>2, <2>1, RunWriters DEF CreateRun, TickCommit, CancelRun, StartRunCommit, ScanUpdate
<1>3. ASSUME NEW q \in Runs, DeleteWorkflow(q), run[r] # "DELETED", run'[r] = "DELETED"
      PROVE  \A s \in Steps : row'[r][s] = NoRow
  BY <1>3 DEF DeleteWorkflow
<1>4. QED
  BY <1>1, <1>2, <1>3

\* A deleted run has no rows, and no row has a status that nothing writes.
LEMMA RowsExistStep ==
  ASSUME IndInv, RowsExist, [Next]_vars
  PROVE  RowsExist'
<1> USE DEF IndInv, TypeOK, DbTypes
<1> SUFFICES ASSUME NEW r \in Runs, NEW s \in Steps
             PROVE  /\ row'[r][s].status = "NONE" => row'[r][s] = NoRow
                    /\ row'[r][s].status \in {"NONE", "READY", "RUNNING", "SUCCEEDED", "FAILED"}
                    /\ run'[r] = "DELETED" => row'[r][s] = NoRow
  BY DEF RowsExist
<1>1. row'[r][s].status = "NONE" => row'[r][s] = NoRow
  <2>1. row'[r][s] \in RowType
    BY NextKeeps
  <2>2. QED
    BY <2>1 DEF RowType, StepStatuses
<1>2. row[r][s] \in RowType /\ row[r][s].status \in {"NONE", "READY", "RUNNING", "SUCCEEDED", "FAILED"}
  BY DEF RowsExist
<1>3. row'[r][s].status \in {"NONE", "READY", "RUNNING", "SUCCEEDED", "FAILED"}
  <2>1. \A new \in {"READY", "RUNNING", "SUCCEEDED", "FAILED"} :
          row[r][s].status # "NONE" => [row[r][s] EXCEPT !.status = new].status = new
    BY <1>2 DEF RowType, NoRow
  <2>2. \A o \in Orchestrators : Settles(o, r, s) => row[r][s].status # "NONE"
    BY DEF Settles, EventCommit, TxnInv
  <2>3. QED
    <3>1. CASE \E o \in Orchestrators :
                 /\ Settles(o, r, s)
                 /\ row'[r][s] = [row[r][s] EXCEPT !.status = StatusAfter(handler[o].event)]
      BY <2>1, <2>2, <3>1, Verdicts
    <3>2. CASE \E w \in Workers :
                 /\ MarkRunning(w) /\ WorksOn(w, r, s) /\ row[r][s].status # "NONE"
                 /\ row'[r][s] = [row[r][s] EXCEPT !.status = "RUNNING"]
      BY <2>1, <3>2
    <3>3. NoRow.status = "NONE" /\ FirstRow.status = "READY"
      BY DEF NoRow, FirstRow
    <3>4. CASE \E w \in Workers :
                 /\ RetryReset(w) /\ WorksOn(w, r, s) /\ row[r][s].status # "NONE"
                 /\ row'[r][s] = [status |-> "READY", attempt |-> worker[w].msg.attempt + 1]
      BY <3>4
    <3>5. CASE row'[r][s] \in {row[r][s], NoRow, FirstRow}
      BY <1>2, <3>3, <3>5
    <3>6. QED
      BY <3>1, <3>2, <3>4, <3>5, RowChanges
<1>4. ASSUME run'[r] = "DELETED"
      PROVE  row'[r][s] = NoRow
  <2>1. CASE run[r] # "DELETED"
    BY <1>4, <2>1, Deletion
  <2>2. CASE run[r] = "DELETED"
    <3>1. row[r][s] = NoRow
      BY <2>2 DEF RowsExist
    <3>2. ASSUME NEW o \in Orchestrators
          PROVE  ~Starts(o, r, s) /\ ~Readies(o, r, s) /\ ~Settles(o, r, s)
      BY <2>2 DEF TxnInv, Starts, Readies, Settles, StartRunCommit, EventCommit
    <3>3. row[r][s].status = "NONE"
      BY <3>1 DEF NoRow
    <3>4. QED
      BY <3>1, <3>2, <3>3, RowChanges
  <2>3. QED
    BY <2>1, <2>2
<1>5. QED
  BY <1>1, <1>3, <1>4

\* A row that is not created or deleted is moved along by a carrier of its step.
LEMMA RowMoves ==
  ASSUME IndInv, RowsFit, RowsExist, TxnFresh, [Next]_vars, NEW r \in Runs, NEW s \in Steps
  PROVE  \/ row'[r][s] = row[r][s]
         \/ run'[r] = "DELETED" /\ row'[r][s] = NoRow
         \/ /\ row[r][s] = NoRow /\ row'[r][s] = FirstRow
            /\ \E o \in Orchestrators : Starts(o, r, s) \/ Readies(o, r, s)
         \/ \E o \in Orchestrators :
              /\ Settles(o, r, s) /\ <<"event", handler[o].event.uuid>> \in Carriers(r, s)
              /\ row[r][s].status = "RUNNING"
              /\ row'[r][s] = [status |-> StatusAfter(handler[o].event), attempt |-> row[r][s].attempt]
         \/ \E w \in Workers :
              /\ MarkRunning(w) /\ WorksOn(w, r, s) /\ <<"worker", w>> \in Carriers(r, s)
              /\ row[r][s] = [status |-> "READY", attempt |-> worker[w].msg.attempt]
              /\ row'[r][s] = [status |-> "RUNNING", attempt |-> worker[w].msg.attempt]
         \/ \E w \in Workers :
              /\ RetryReset(w) /\ WorksOn(w, r, s) /\ <<"worker", w>> \in Carriers(r, s)
              /\ row[r][s] = [status |-> "RUNNING", attempt |-> worker[w].msg.attempt]
              /\ row'[r][s] = [status |-> "READY", attempt |-> worker[w].msg.attempt + 1]
<1>0. TypeOK /\ row[r][s] \in RowType
  BY DEF IndInv, TypeOK, DbTypes
<1>1. ASSUME NEW o \in Orchestrators, Starts(o, r, s) \/ Readies(o, r, s)
      PROVE  row[r][s] = NoRow
  <2>1. CASE Starts(o, r, s)
    BY <2>1 DEF IndInv, TxnInv, RowInv, Starts, StartRunCommit
  <2>2. CASE Readies(o, r, s)
    BY ZenonT(60), <2>2 DEF Readies, EventCommit, TxnFresh, FreshSteps, RowsExist
  <2>3. QED
    BY <1>1, <2>1, <2>2
<1>2. ASSUME NEW o \in Orchestrators, Settles(o, r, s)
      PROVE  /\ <<"event", handler[o].event.uuid>> \in Carriers(r, s)
             /\ row[r][s].status = "RUNNING"
             /\ [row[r][s] EXCEPT !.status = StatusAfter(handler[o].event)]
                  = [status |-> StatusAfter(handler[o].event), attempt |-> row[r][s].attempt]
  <2>1. handler[o].event \in Reported
    BY <1>2 DEF Settles, EventCommit, Reported, TxnFresh
  <2>2. row[r][s].status = "RUNNING"
    BY <1>2 DEF Settles, EventCommit, IndInv, TxnInv
  <2>3. \A new : [row[r][s] EXCEPT !.status = new] = [status |-> new, attempt |-> row[r][s].attempt]
    BY <1>0, <2>2 DEF RowType, NoRow
  <2>4. QED
    BY <1>0, <1>2, <2>1, <2>2, <2>3, CarriersHold DEF Settles
<1>3. ASSUME NEW w \in Workers, WorksOn(w, r, s), row[r][s].status # "NONE",
             MarkRunning(w) \/ RetryReset(w)
      PROVE  /\ <<"worker", w>> \in Carriers(r, s)
             /\ MarkRunning(w) => row[r][s] = [status |-> "READY", attempt |-> worker[w].msg.attempt]
             /\ RetryReset(w) => row[r][s] = [status |-> "RUNNING", attempt |-> worker[w].msg.attempt]
  <2>1. <<"worker", w>> \in Carriers(r, s)
    BY <1>0, <1>3, CarriersHold DEF WorksOn, MarkRunning, RetryReset, At
  <2>2. run[r] # "DELETED"
    BY <1>3 DEF RowsExist, NoRow
  <2>3. QED
    BY <1>3, <2>1, <2>2 DEF WorksOn, MarkRunning, RetryReset, At, RowsFit, WorkerFits, RowIs
<1>4. ASSUME NEW a
      PROVE  [[status |-> "READY", attempt |-> a] EXCEPT !.status = "RUNNING"]
               = [status |-> "RUNNING", attempt |-> a]
  OBVIOUS
<1>5. CASE row'[r][s] = row[r][s] \/ (run'[r] = "DELETED" /\ row'[r][s] = NoRow)
  BY <1>5
<1>6. CASE \E o \in Orchestrators : (Starts(o, r, s) \/ Readies(o, r, s)) /\ row'[r][s] = FirstRow
  BY <1>1, <1>6
<1>7. ASSUME NEW o \in Orchestrators, Settles(o, r, s),
             row'[r][s] = [row[r][s] EXCEPT !.status = StatusAfter(handler[o].event)]
      PROVE  /\ Settles(o, r, s) /\ <<"event", handler[o].event.uuid>> \in Carriers(r, s)
             /\ row[r][s].status = "RUNNING"
             /\ row'[r][s] = [status |-> StatusAfter(handler[o].event), attempt |-> row[r][s].attempt]
  BY <1>2, <1>7
<1>8. ASSUME NEW w \in Workers, MarkRunning(w), WorksOn(w, r, s), row[r][s].status # "NONE",
             row'[r][s] = [row[r][s] EXCEPT !.status = "RUNNING"]
      PROVE  /\ <<"worker", w>> \in Carriers(r, s)
             /\ row[r][s] = [status |-> "READY", attempt |-> worker[w].msg.attempt]
             /\ row'[r][s] = [status |-> "RUNNING", attempt |-> worker[w].msg.attempt]
  <2>1. row[r][s] = [status |-> "READY", attempt |-> worker[w].msg.attempt]
    BY <1>3, <1>8
  <2>2. QED
    BY <1>3, <1>4, <1>8, <2>1
<1>9. ASSUME NEW w \in Workers, RetryReset(w), WorksOn(w, r, s), row[r][s].status # "NONE"
      PROVE  /\ <<"worker", w>> \in Carriers(r, s)
             /\ row[r][s] = [status |-> "RUNNING", attempt |-> worker[w].msg.attempt]
  BY <1>3, <1>9
<1>10. CASE \E o \in Orchestrators :
             /\ Settles(o, r, s)
             /\ row'[r][s] = [row[r][s] EXCEPT !.status = StatusAfter(handler[o].event)]
  BY <1>7, <1>10
<1>11. CASE \E w \in Workers :
             /\ MarkRunning(w) /\ WorksOn(w, r, s) /\ row[r][s].status # "NONE"
             /\ row'[r][s] = [row[r][s] EXCEPT !.status = "RUNNING"]
  BY <1>8, <1>11
<1>12. CASE \E w \in Workers :
             /\ RetryReset(w) /\ WorksOn(w, r, s) /\ row[r][s].status # "NONE"
             /\ row'[r][s] = [status |-> "READY", attempt |-> worker[w].msg.attempt + 1]
  BY <1>9, <1>12
<1>13. QED
  BY <1>5, <1>6, <1>10, <1>11, <1>12, RowChanges

\* As long as a step has a carrier, nobody else moves its row.
LEMMA OnlyCarrierWrites ==
  ASSUME IndInv, AtMostOne, RowsFit, RowsExist, TxnFresh, [Next]_vars,
         NEW r \in Runs, NEW s \in Steps, NEW x \in Carriers(r, s)
  PROVE  \/ row'[r][s] = row[r][s]
         \/ run'[r] = "DELETED" /\ row'[r][s] = NoRow
         \/ row[r][s] = NoRow /\ row'[r][s] = FirstRow
         \/ \E o \in Orchestrators : Settles(o, r, s) /\ x = <<"event", handler[o].event.uuid>>
         \/ \E w \in Workers :
              /\ x = <<"worker", w>> /\ WorksOn(w, r, s)
              /\ \/ /\ MarkRunning(w)
                    /\ row'[r][s] = [status |-> "RUNNING", attempt |-> worker[w].msg.attempt]
                 \/ /\ RetryReset(w)
                    /\ row'[r][s] = [status |-> "READY", attempt |-> worker[w].msg.attempt + 1]
<1>1. \A y \in Carriers(r, s) : x = y
  BY DEF AtMostOne
<1>2. CASE \E o \in Orchestrators :
             /\ Settles(o, r, s) /\ <<"event", handler[o].event.uuid>> \in Carriers(r, s)
             /\ row[r][s].status = "RUNNING"
             /\ row'[r][s] = [status |-> StatusAfter(handler[o].event), attempt |-> row[r][s].attempt]
  BY <1>1, <1>2
<1>3. CASE \E w \in Workers :
             /\ MarkRunning(w) /\ WorksOn(w, r, s) /\ <<"worker", w>> \in Carriers(r, s)
             /\ row[r][s] = [status |-> "READY", attempt |-> worker[w].msg.attempt]
             /\ row'[r][s] = [status |-> "RUNNING", attempt |-> worker[w].msg.attempt]
  BY <1>1, <1>3
<1>4. CASE \E w \in Workers :
             /\ RetryReset(w) /\ WorksOn(w, r, s) /\ <<"worker", w>> \in Carriers(r, s)
             /\ row[r][s] = [status |-> "RUNNING", attempt |-> worker[w].msg.attempt]
             /\ row'[r][s] = [status |-> "READY", attempt |-> worker[w].msg.attempt + 1]
  BY <1>1, <1>4
<1>5. QED
  BY <1>2, <1>3, <1>4, RowMoves

\* A message that waits was waiting, is a step's first one, or is a retry.
LEMMA WaitsFrom ==
  ASSUME IndInv, [Next]_vars, ~faults'.repeated, NEW m \in StepMsg, Waits(m)'
  PROVE  \/ Waits(m)
         \/ Dispatches(m.run, m.step) /\ m.attempt = 1
         \/ \E w \in Workers : ScheduleRetry(w) /\ m = [worker[w].msg EXCEPT !.attempt = @ + 1]
<1> USE DEF IndInv, TypeOK
<1>0. stepQ \in [StepMsg -> Nat] /\ delayed \subseteq StepMsg
  BY DEF StreamTypes
<1>1. ASSUME TriggerNext \/ UserNext \/ UNCHANGED vars
      PROVE  UNCHANGED <<stepQ, delayed, poller>>
  BY <1>1, RequestsLeave
<1>2. ASSUME NEW o \in Orchestrators,
             StarterNext(o) \/ HandlerNext(o) \/ ScannerNext(o) \/ OrchestratorFails(o)
      PROVE  \/ UNCHANGED <<stepQ, delayed, poller>>
             \/ \E s \in Steps : StartRunEnqueue(o, s) \/ EventEnqueue(o, s)
  BY <1>2, OrchestratorsLeave
<1>3. ASSUME NEW r \in Runs, NEW s \in Steps, EnqueueStep(FirstMsg(r, s)), UNCHANGED <<delayed, poller>>
      PROVE  Waits(m) \/ m = FirstMsg(r, s)
  <2>1. stepQ' = [stepQ EXCEPT ![FirstMsg(r, s)] = @ + 1]
    BY <1>3, FirstAttempt, OneEntryAppended
  <2>2. QED
    BY <1>0, <1>3, <2>1 DEF Waits
<1>4. ASSUME NEW o \in Orchestrators, NEW s \in Steps, StartRunEnqueue(o, s) \/ EventEnqueue(o, s)
      PROVE  Waits(m) \/ (Dispatches(m.run, m.step) /\ m.attempt = 1)
  <2>1. CASE StartRunEnqueue(o, s)
    <3>1. starter[o].run \in Runs
      BY <2>1, Held DEF StartRunEnqueue
    <3>2. Waits(m) \/ m = FirstMsg(starter[o].run, s)
      BY <1>3, <2>1, <3>1 DEF StartRunEnqueue
    <3>3. QED
      BY <2>1, <3>2 DEF Dispatches, FirstMsg
  <2>2. CASE EventEnqueue(o, s)
    <3>1. handler[o].event.run \in Runs
      BY <2>2, Held DEF EventEnqueue
    <3>2. Waits(m) \/ m = FirstMsg(handler[o].event.run, s)
      BY <1>3, <2>2, <3>1 DEF EventEnqueue
    <3>3. QED
      BY <2>2, <3>2 DEF Dispatches, FirstMsg
  <2>3. QED
    BY <1>4, <2>1, <2>2
<1>5. ASSUME NEW w \in Workers, WorkerNext(w) \/ WorkerFails(w)
      PROVE  Waits(m) \/ (ScheduleRetry(w) /\ m = [worker[w].msg EXCEPT !.attempt = @ + 1])
  <2>1. CASE \E n \in StepMsg : TakeStep(w, n)
    BY <1>0, <2>1 DEF TakeStep, Waits
  <2>2. CASE ScheduleRetry(w)
    BY <2>2 DEF ScheduleRetry, Waits
  <2>3. CASE ~ScheduleRetry(w) /\ ~\E n \in StepMsg : TakeStep(w, n)
    <3>1. UNCHANGED <<stepQ, delayed, poller>>
      BY <1>5, <2>3 DEF WorkerNext, WorkerFails, CheckCancelled, ClaimStep, MarkRunning, LoadSpec,
                        Execute, Report, RetrySelect, RetryReset, AckStep, SelectRow, UpdateRow
    <3>2. QED
      BY <3>1 DEF Waits
  <2>4. QED
    BY <2>1, <2>2, <2>3
<1>6. ASSUME NEW w \in Workers, PollerNext(w) \/ PollLoses(w)
      PROVE  Waits(m)
  <2>1. CASE \E n \in delayed : PollRemove(w, n)
    BY <2>1 DEF PollRemove, Waits, WorkerTypes
  <2>2. CASE PollEnqueue(w)
    <3>1. poller[w] \in StepMsg
      BY <2>2 DEF PollEnqueue, WorkerTypes
    <3>2. stepQ' = [stepQ EXCEPT ![poller[w]] = @ + 1]
      BY <2>2, <3>1, OneEntryAppended DEF PollEnqueue
    <3>3. QED
      BY <1>0, <2>2, <3>1, <3>2, ConstantsAssumption DEF PollEnqueue, Waits, WorkerTypes
  <2>3. CASE PollLoses(w)
    BY <2>3, ConstantsAssumption DEF PollLoses, Waits, WorkerTypes
  <2>4. QED
    BY <1>6, <2>1, <2>2, <2>3 DEF PollerNext
<1>7. CASE UNCHANGED <<stepQ, delayed, poller>>
  BY <1>7 DEF Waits
<1>8. QED
  BY <1>1, <1>2, <1>4, <1>5, <1>6, <1>7 DEF Next

\* A step is dispatched before it has a row.
LEMMA DispatchesFresh ==
  ASSUME IndInv, TxnFresh, RowsExist, NEW r \in Runs, NEW s \in Steps, Dispatches(r, s)
  PROVE  row[r][s] = NoRow
<1>1. ASSUME NEW o \in Orchestrators, StartRunEnqueue(o, s), starter[o].run = r
      PROVE  row[r][s] = NoRow
  BY <1>1 DEF StartRunEnqueue, IndInv, TxnInv, RowInv
<1>2. ASSUME NEW o \in Orchestrators, EventEnqueue(o, s), handler[o].event.run = r
      PROVE  row[r][s] = NoRow
  <2>1. s \in FreshSteps(handler[o].event)
    BY <1>2 DEF EventEnqueue, TxnFresh
  <2>2. row[r][s].status = "NONE"
    BY <1>2, <2>1 DEF FreshSteps
  <2>3. QED
    BY <2>2 DEF RowsExist
<1>3. QED
  BY <1>1, <1>2 DEF Dispatches

\* A message waits for a row that fits it.
LEMMA WaitersFit ==
  ASSUME IndInv, AtMostOne, RowsFit, RowsExist, TxnFresh, [Next]_vars, ~faults'.repeated,
         NEW m \in StepMsg, Waits(m)'
  PROVE  Fits(m)'
<1>0. TypeOK /\ m.run \in Runs /\ m.step \in Steps /\ m.attempt \in Nat
  BY DEF IndInv, StepMsg
<1>1. CASE Waits(m)
  <2>1. PICK x \in Carriers(m.run, m.step) : x[1] \notin {"worker", "event"}
    BY <1>0, <1>1, CarriersHold DEF Waits
  <2>2. /\ \A w \in Workers : x # <<"worker", w>>
        /\ \A o \in Orchestrators : x # <<"event", handler[o].event.uuid>>
    BY <2>1
  <2>3. Fits(m)
    BY <1>1 DEF RowsFit
  <2>4. \/ row'[m.run][m.step] = row[m.run][m.step]
        \/ run'[m.run] = "DELETED"
        \/ row[m.run][m.step] = NoRow /\ row'[m.run][m.step] = FirstRow
    BY <1>0, <2>2, OnlyCarrierWrites
  <2>5. run[m.run] = "DELETED" => run'[m.run] = "DELETED"
    BY <1>0, Deletion
  <2>6. \A a : NoRow # [status |-> "READY", attempt |-> a]
    BY DEF NoRow
  <2>7. QED
    BY <2>3, <2>4, <2>5, <2>6 DEF Fits, RowIs, FirstRow
<1>2. CASE Dispatches(m.run, m.step) /\ m.attempt = 1
  <2>1. UNCHANGED row
    BY <1>2 DEF Dispatches, StartRunEnqueue, EventEnqueue
  <2>2. row[m.run][m.step] = NoRow
    BY <1>0, <1>2, DispatchesFresh
  <2>3. QED
    BY <1>2, <2>1, <2>2 DEF Fits
<1>3. ASSUME NEW w \in Workers, ScheduleRetry(w), m = [worker[w].msg EXCEPT !.attempt = @ + 1]
      PROVE  Fits(m)'
  <2>1. worker[w].msg \in StepMsg
    BY <1>0, <1>3, Held DEF ScheduleRetry, At
  <2>2. m.run = worker[w].msg.run /\ m.step = worker[w].msg.step /\ m.attempt = worker[w].msg.attempt + 1
    BY <1>3, <2>1 DEF StepMsg
  <2>3. RowIs(worker[w].msg, "READY", worker[w].msg.attempt + 1)
    BY <1>3 DEF ScheduleRetry, At, RowsFit, WorkerFits
  <2>4. UNCHANGED <<row, run>>
    BY <1>3 DEF ScheduleRetry
  <2>5. QED
    BY <2>2, <2>3, <2>4 DEF Fits, RowIs
<1>4. QED
  BY <1>1, <1>2, <1>3, WaitsFrom

\* A worker that takes no step of its own stays where it is.
LEMMA OthersWait ==
  ASSUME IndInv, [Next]_vars, NEW w \in Workers, ~WorkerNext(w), ~WorkerFails(w)
  PROVE  worker'[w] = worker[w]
<1> USE DEF IndInv, TypeOK, WorkerTypes
<1>1. CASE TriggerNext \/ UserNext \/ UNCHANGED vars
  BY <1>1, RequestsLeave
<1>2. ASSUME NEW o \in Orchestrators,
             StarterNext(o) \/ HandlerNext(o) \/ ScannerNext(o) \/ OrchestratorFails(o)
      PROVE  UNCHANGED worker
  BY <1>2, OrchestratorsLeave
<1>3. ASSUME NEW v \in Workers, v # w, WorkerNext(v) \/ WorkerFails(v)
      PROVE  worker'[w] = worker[w]
  BY <1>3 DEF WorkerNext, WorkerFails, TakeStep, CheckCancelled, ClaimStep, MarkRunning, LoadSpec,
              Execute, Report, RetrySelect, RetryReset, ScheduleRetry, AckStep, SelectRow,
              UpdateRow, GoTo, Drop
<1>4. ASSUME NEW v \in Workers, PollerNext(v) \/ PollLoses(v)
      PROVE  UNCHANGED worker
  BY <1>4 DEF PollerNext, PollRemove, PollEnqueue, PollLoses
<1>5. QED
  BY <1>1, <1>2, <1>3, <1>4 DEF Next

\* A worker at work moves its row along, everything else leaves the row to it.
LEMMA WorkersFit ==
  ASSUME IndInv, AtMostOne, RowsFit, RowsExist, TxnFresh, [Next]_vars, NEW w \in Workers
  PROVE  WorkerFits(w)'
<1> DEFINE m == worker[w].msg
           Keeps == UNCHANGED <<run, row>>
<1> USE DEF IndInv, TypeOK, WorkerTypes
<1>0. WorkerFits(w)
  BY DEF RowsFit
<1>1. ASSUME worker'[w].pc \in {"idle", "ack"}
      PROVE  WorkerFits(w)'
  BY <1>1 DEF WorkerFits
<1>2. ASSUME worker'[w].msg = m, Keeps,
             \/ worker[w].pc = "check" /\ worker'[w].pc = "claim"
             \/ worker[w].pc \in {"load", "execute", "succeeded", "failed", "retry", "reset"}
                  /\ worker'[w].pc \in {"load", "execute", "succeeded", "failed", "retry", "reset"}
      PROVE  WorkerFits(w)'
  BY <1>0, <1>2 DEF WorkerFits, Fits, RowIs
<1>3. ASSUME NEW n \in StepMsg, TakeStep(w, n)
      PROVE  WorkerFits(w)'
  <2>1. Waits(n)
    BY <1>3 DEF TakeStep, Waits
  <2>2. Fits(n)
    BY <2>1 DEF RowsFit
  <2>3. worker'[w] = [pc |-> "check", msg |-> n] /\ Keeps
    BY <1>3 DEF TakeStep
  <2>4. QED
    BY <2>2, <2>3 DEF WorkerFits, Fits, RowIs
<1>4. CASE CheckCancelled(w) \/ LoadSpec(w) \/ Execute(w) \/ RetrySelect(w)
  <2>1. Keeps
    BY <1>4 DEF CheckCancelled, LoadSpec, Execute, RetrySelect, SelectRow
  <2>2. \/ worker'[w] = IdleWorker
        \/ worker'[w].msg = m /\ worker'[w].pc = "ack"
        \/ worker'[w].msg = m /\ worker[w].pc = "check" /\ worker'[w].pc = "claim"
        \/ worker'[w].msg = m /\ worker[w].pc = "load" /\ worker'[w].pc = "execute"
        \/ worker'[w].msg = m /\ worker[w].pc = "execute"
             /\ worker'[w].pc \in {"succeeded", "failed", "retry"}
        \/ worker'[w].msg = m /\ worker[w].pc = "retry" /\ worker'[w].pc = "reset"
    BY <1>4 DEF CheckCancelled, LoadSpec, Execute, RetrySelect, SelectRow, GoTo, Drop, At
  <2>3. QED
    BY <1>1, <1>2, <2>1, <2>2 DEF IdleWorker
<1>5. CASE ClaimStep(w)
  <2>1. Keeps /\ worker[w].pc = "claim"
    BY <1>5 DEF ClaimStep, SelectRow, At
  <2>2. \/ worker'[w] = IdleWorker
        \/ /\ worker'[w].msg = m /\ worker'[w].pc = "mark"
           /\ <<row[m.run][m.step].status, "RUNNING">> \in StepMoves
    BY <1>5 DEF ClaimStep, SelectRow, IllegalMove, GoTo, Drop
  <2>3. <<NoRow.status, "RUNNING">> \notin StepMoves
    BY DEF NoRow, StepMoves
  <2>4. RowIs(m, "READY", m.attempt) \/ row[m.run][m.step] = NoRow
    BY <1>0, <2>1 DEF WorkerFits, Fits
  <2>5. CASE worker'[w] = IdleWorker
    BY <1>1, <2>5 DEF IdleWorker
  <2>6. CASE /\ worker'[w].msg = m /\ worker'[w].pc = "mark"
             /\ <<row[m.run][m.step].status, "RUNNING">> \in StepMoves
    <3>1. RowIs(m, "READY", m.attempt)
      BY <2>3, <2>4, <2>6
    <3>2. QED
      BY <2>1, <2>6, <3>1 DEF WorkerFits, RowIs
  <2>7. QED
    BY <2>2, <2>5, <2>6
<1>6. ASSUME MarkRunning(w) \/ RetryReset(w)
      PROVE  WorkerFits(w)'
  <2>1. UNCHANGED run /\ worker[w].pc \in {"mark", "reset"} /\ m.run \in Runs /\ m.step \in Steps
    BY <1>6, Held DEF MarkRunning, RetryReset, UpdateRow, At
  <2>2. \A a : [[status |-> "READY", attempt |-> a] EXCEPT !.status = "RUNNING"]
                 = [status |-> "RUNNING", attempt |-> a]
    OBVIOUS
  <2>3. CASE MarkRunning(w)
    <3>1. \/ worker'[w] = IdleWorker
          \/ /\ worker'[w].msg = m /\ worker'[w].pc = "load"
             /\ row' = [row EXCEPT ![m.run][m.step] = [RowOf(w) EXCEPT !.status = "RUNNING"]]
      BY <2>3 DEF MarkRunning, UpdateRow, GoTo, Drop
    <3>2. run[m.run] = "DELETED" \/ RowOf(w) = [status |-> "READY", attempt |-> m.attempt]
      BY <1>0, <2>3 DEF MarkRunning, At, WorkerFits, RowIs, RowOf
    <3>3. CASE worker'[w] = IdleWorker
      BY <1>1, <3>3 DEF IdleWorker
    <3>4. CASE /\ worker'[w].msg = m /\ worker'[w].pc = "load"
               /\ row' = [row EXCEPT ![m.run][m.step] = [RowOf(w) EXCEPT !.status = "RUNNING"]]
      <4>1. row'[m.run][m.step] = [RowOf(w) EXCEPT !.status = "RUNNING"]
        BY <2>1, <3>4 DEF DbTypes
      <4>2. run'[m.run] = "DELETED" \/ row'[m.run][m.step] = [status |-> "RUNNING", attempt |-> m.attempt]
        BY <2>1, <2>2, <3>2, <4>1
      <4>3. QED
        BY <3>4, <4>2 DEF WorkerFits, RowIs
    <3>5. QED
      BY <3>1, <3>3, <3>4
  <2>4. CASE RetryReset(w)
    <3>1. \/ worker'[w] = IdleWorker
          \/ /\ worker'[w].msg = m /\ worker'[w].pc = "delay"
             /\ row' = [row EXCEPT ![m.run][m.step] = [status |-> "READY", attempt |-> m.attempt + 1]]
      BY <2>4 DEF RetryReset, UpdateRow, GoTo, Drop
    <3>2. CASE worker'[w] = IdleWorker
      BY <1>1, <3>2 DEF IdleWorker
    <3>3. CASE /\ worker'[w].msg = m /\ worker'[w].pc = "delay"
               /\ row' = [row EXCEPT ![m.run][m.step] = [status |-> "READY", attempt |-> m.attempt + 1]]
      <4>1. row'[m.run][m.step] = [status |-> "READY", attempt |-> m.attempt + 1]
        BY <2>1, <3>3 DEF DbTypes
      <4>2. QED
        BY <3>3, <4>1 DEF WorkerFits, RowIs
    <3>4. QED
      BY <3>1, <3>2, <3>3
  <2>5. QED
    BY <1>6, <2>3, <2>4
<1>7. CASE Report(w) \/ ScheduleRetry(w) \/ AckStep(w) \/ WorkerFails(w)
  <2>1. worker'[w].pc \in {"idle", "ack"}
    BY <1>7 DEF Report, ScheduleRetry, AckStep, WorkerFails, GoTo, Drop, IdleWorker
  <2>2. QED
    BY <1>1, <2>1
<1>8. CASE worker'[w] = worker[w] /\ ~MarkRunning(w) /\ ~RetryReset(w)
  <2>1. CASE worker[w].pc \in {"idle", "ack"}
    BY <1>1, <1>8, <2>1
  <2>2. CASE worker[w].pc \notin {"idle", "ack"}
    <3>1. m.run \in Runs /\ m.step \in Steps /\ <<"worker", w>> \in Carriers(m.run, m.step)
      BY <2>2, Held, CarriersHold
    <3>2. \A o \in Orchestrators : <<"worker", w>> # <<"event", handler[o].event.uuid>>
      OBVIOUS
    <3>3. \A v \in Workers : <<"worker", w>> = <<"worker", v>> => w = v
      OBVIOUS
    <3>4. \/ row'[m.run][m.step] = row[m.run][m.step]
          \/ run'[m.run] = "DELETED"
          \/ row[m.run][m.step] = NoRow /\ row'[m.run][m.step] = FirstRow
      BY <1>8, <3>1, <3>2, <3>3, OnlyCarrierWrites
    <3>5. run[m.run] = "DELETED" => run'[m.run] = "DELETED"
      BY <3>1, Deletion
    <3>6. \A a : NoRow # [status |-> "READY", attempt |-> a]
                   /\ NoRow # [status |-> "RUNNING", attempt |-> a]
      BY DEF NoRow
    <3>7. QED
      BY <1>0, <1>8, <3>4, <3>5, <3>6 DEF WorkerFits, Fits, RowIs, FirstRow
  <2>3. QED
    BY <2>1, <2>2
<1>9. QED
  <2>1. CASE WorkerNext(w) \/ WorkerFails(w)
    BY <1>3, <1>4, <1>5, <1>6, <1>7, <2>1 DEF WorkerNext
  <2>2. CASE ~WorkerNext(w) /\ ~WorkerFails(w)
    BY <1>8, <2>2, OthersWait DEF WorkerNext
  <2>3. QED
    BY <2>1, <2>2

\* An event is under way already, or a worker reports it.
LEMMA ReportedFrom ==
  ASSUME IndInv, [Next]_vars, ~faults'.repeated, NEW e \in Reported'
  PROVE  e \in Reported \/ \E w \in Workers : Report(w) /\ WorksOn(w, e.run, e.step)
<1>1. CASE TriggerNext \/ UserNext \/ UNCHANGED vars
  <2>1. UNCHANGED <<eventQ, handler, processed>>
    BY <1>1, RequestsLeave
  <2>2. QED
    BY <2>1 DEF Reported
<1>2. ASSUME NEW o \in Orchestrators,
             StarterNext(o) \/ HandlerNext(o) \/ ScannerNext(o) \/ OrchestratorFails(o)
      PROVE  e \in Reported
  BY <1>2, EventsOnlyTaken DEF IndInv
<1>3. ASSUME NEW w \in Workers, WorkerNext(w) \/ WorkerFails(w) \/ PollerNext(w) \/ PollLoses(w)
      PROVE  e \in Reported \/ (Report(w) /\ WorksOn(w, e.run, e.step))
  <2>1. CASE Report(w)
    <3>1. /\ UNCHANGED <<handler, processed>>
          /\ EnqueueEvent(worker[w].msg.run, worker[w].msg.step, At(w, "succeeded"))
      BY <2>1 DEF Report
    <3>2. \E n : n.run = worker[w].msg.run /\ n.step = worker[w].msg.step /\ eventQ' = eventQ \cup {n}
      BY <3>1, OneReport
    <3>3. QED
      BY <2>1, <3>1, <3>2 DEF Reported, WorksOn
  <2>2. CASE ~Report(w)
    <3>1. UNCHANGED <<eventQ, handler, processed>>
      BY <1>3, <2>2, WorkersLeave
    <3>2. QED
      BY <3>1 DEF Reported
  <2>3. QED
    BY <2>1, <2>2
<1>4. QED
  BY <1>1, <1>2, <1>3 DEF Next

\* The step of an event is RUNNING until the event is processed.
LEMMA EventsFit ==
  ASSUME IndInv, AtMostOne, RowsFit, RowsExist, TxnFresh, ~faults'.repeated, [Next]_vars,
         NEW e \in Reported'
  PROVE  EventFits(e)'
<1>0. TypeOK /\ TypeOK' /\ e.run \in Runs /\ e.step \in Steps
  <2>1. TypeOK /\ TypeOK'
    BY NextKeeps DEF IndInv
  <2>2. /\ eventQ' \subseteq EventMsg
        /\ \A o \in Orchestrators : handler'[o].pc # "idle" => handler'[o].event \in EventMsg
    BY <2>1 DEF TypeOK, StreamTypes, OrchestratorTypes, HandlerType
  <2>3. e \in EventMsg
    BY <2>2 DEF Reported
  <2>4. QED
    BY <2>1, <2>3 DEF EventMsg
<1>1. CASE e \in Reported
  <2>1. <<"event", e.uuid>> \in Carriers(e.run, e.step)
    BY <1>0, <1>1, CarriersHold
  <2>2. ASSUME NEW o \in Orchestrators, Settles(o, e.run, e.step),
               <<"event", e.uuid>> = <<"event", handler[o].event.uuid>>
        PROVE  FALSE
    BY <2>2 DEF Settles, EventCommit, EventId, Reported
  <2>3. \A w \in Workers : <<"event", e.uuid>> # <<"worker", w>>
    OBVIOUS
  <2>4. \/ row'[e.run][e.step] = row[e.run][e.step]
        \/ run'[e.run] = "DELETED"
        \/ row[e.run][e.step] = NoRow
    BY <1>0, <2>1, <2>2, <2>3, OnlyCarrierWrites
  <2>5. run[e.run] = "DELETED" => run'[e.run] = "DELETED"
    BY <1>0, Deletion
  <2>6. EventFits(e)
    BY <1>1 DEF RowsFit
  <2>7. QED
    BY <2>4, <2>5, <2>6 DEF EventFits, NoRow
<1>2. ASSUME NEW w \in Workers, Report(w), WorksOn(w, e.run, e.step)
      PROVE  EventFits(e)'
  <2>1. UNCHANGED <<run, row>>
    BY <1>2 DEF Report
  <2>2. RowIs(worker[w].msg, "RUNNING", worker[w].msg.attempt)
    BY <1>2 DEF Report, At, RowsFit, WorkerFits
  <2>3. QED
    BY <1>2, <2>1, <2>2 DEF WorksOn, RowIs, EventFits
<1>3. QED
  BY <1>1, <1>2, ReportedFrom

\* Every row stays what its carrier takes it for.
LEMMA RowsFitStep ==
  ASSUME IndInv, AtMostOne, RowsFit, RowsExist, TxnFresh, [Next]_vars,
         ~faults'.repeated
  PROVE  RowsFit'
BY WaitersFit, WorkersFit, EventsFit DEF RowsFit

-------------------------------------------------------------------------------
(* The transactions.                                                        *)

\* A transaction begins, or goes on with what it has not queued yet.
LEMMA TxnsFrom ==
  ASSUME IndInv, [Next]_vars, NEW o \in Orchestrators
  PROVE  /\ starter'[o].pc = "txn" =>
              \/ StartRunBegin(o)
              \/ /\ starter[o].pc = "txn" /\ starter'[o].run = starter[o].run
                 /\ starter'[o].todo \subseteq starter[o].todo
         /\ handler'[o].pc = "txn" =>
              \/ BeginEvent(o)
              \/ /\ handler[o].pc = "txn" /\ handler'[o].event = handler[o].event
                 /\ handler'[o].verdict = handler[o].verdict
                 /\ handler'[o].fresh = handler[o].fresh
                 /\ handler'[o].todo \subseteq handler[o].todo
<1> USE DEF IndInv, TypeOK, OrchestratorTypes, StarterType, HandlerType
<1>1. ASSUME TriggerNext \/ UserNext \/ UNCHANGED vars
      PROVE  UNCHANGED <<starter, handler>>
  BY <1>1, RequestsLeave
<1>2. ASSUME NEW w \in Workers, WorkerNext(w) \/ WorkerFails(w) \/ PollerNext(w) \/ PollLoses(w)
      PROVE  UNCHANGED <<starter, handler>>
  BY <1>2, WorkersLeave
<1>3. ASSUME NEW p \in Orchestrators, p # o, StarterNext(p)
      PROVE  starter'[o] = starter[o] /\ UNCHANGED handler
  BY <1>3 DEF StarterNext, TakeRun, StartRunMissing, StartRunSkip, StartRunBegin, StartRunEnqueue,
              StartRunCommit, AckRun
<1>4. ASSUME NEW p \in Orchestrators, p # o, HandlerNext(p)
      PROVE  handler'[o] = handler[o] /\ UNCHANGED starter
  BY <1>4 DEF HandlerNext, TakeEvent, SkipProcessedEvent, IgnoreEvent, RejectEvent, BeginEvent,
              EventEnqueue, EventCommit, AckEvent
<1>5. ASSUME NEW p \in Orchestrators, ScannerNext(p)
      PROVE  UNCHANGED <<starter, handler>>
  BY <1>5 DEF ScannerNext, ScanSelect, ScanUpdate, ScanAnnounce
<1>6. ASSUME NEW p \in Orchestrators, OrchestratorFails(p)
      PROVE  /\ starter'[o] = starter[o] \/ starter'[o].pc = "idle"
             /\ handler'[o] = handler[o] \/ handler'[o].pc = "idle"
  BY <1>6 DEF OrchestratorFails, StartRunFails, HandleEventFails, OrchestratorCrash, IdleStarter,
              IdleHandler, StarterAt, HandlerAt
<1>7. ASSUME StarterNext(o)
      PROVE  /\ UNCHANGED handler
             /\ starter'[o].pc = "txn" =>
                  \/ StartRunBegin(o)
                  \/ /\ starter[o].pc = "txn" /\ starter'[o].run = starter[o].run
                     /\ starter'[o].todo \subseteq starter[o].todo
  BY <1>7 DEF StarterNext, TakeRun, StartRunMissing, StartRunSkip, StartRunEnqueue, StartRunCommit,
              AckRun, IdleStarter, StarterAt, StartRunBegin
<1>8. ASSUME HandlerNext(o)
      PROVE  /\ UNCHANGED starter
             /\ handler'[o].pc = "txn" =>
                  \/ BeginEvent(o)
                  \/ /\ handler[o].pc = "txn" /\ handler'[o].event = handler[o].event
                     /\ handler'[o].verdict = handler[o].verdict
                     /\ handler'[o].fresh = handler[o].fresh
                     /\ handler'[o].todo \subseteq handler[o].todo
  <2>1. CASE BeginEvent(o)
    BY <2>1 DEF BeginEvent
  <2>2. CASE \E s \in Steps : EventEnqueue(o, s)
    BY <2>2 DEF EventEnqueue
  <2>3. CASE \/ \E e \in eventQ : TakeEvent(o, e)
             \/ SkipProcessedEvent(o) \/ IgnoreEvent(o) \/ RejectEvent(o)
             \/ EventCommit(o) \/ AckEvent(o)
    BY <2>3 DEF TakeEvent, SkipProcessedEvent, IgnoreEvent, RejectEvent, EventCommit, AckEvent,
                IdleHandler, HandlerAt
  <2>4. QED
    BY <1>8, <2>1, <2>2, <2>3 DEF HandlerNext
<1>9. QED
  <2>1. CASE UNCHANGED <<starter, handler>>
    BY <2>1
  <2>2. CASE \E p \in Orchestrators : StarterNext(p) \/ HandlerNext(p) \/ OrchestratorFails(p)
    BY <1>3, <1>4, <1>6, <1>7, <1>8, <2>2
  <2>3. QED
    BY <1>1, <1>2, <1>5, <2>1, <2>2 DEF Next

\* An event_id is recorded by the loop that holds the event, which then only
\* acknowledges it.
LEMMA ProcessedBy ==
  ASSUME IndInv, [Next]_vars
  PROVE  \/ UNCHANGED processed
         \/ \E o \in Orchestrators :
              /\ handler[o].pc \in {"got", "txn"} /\ handler'[o].pc = "ack"
              /\ processed' = processed \cup {EventId(handler[o].event)}
<1> USE DEF IndInv, TypeOK, OrchestratorTypes, HandlerType
<1>1. CASE TriggerNext \/ UserNext \/ UNCHANGED vars
  BY <1>1, RequestsLeave
<1>2. ASSUME NEW w \in Workers, WorkerNext(w) \/ WorkerFails(w) \/ PollerNext(w) \/ PollLoses(w)
      PROVE  UNCHANGED processed
  BY <1>2, WorkersLeave
<1>3. ASSUME NEW o \in Orchestrators, StarterNext(o) \/ ScannerNext(o) \/ OrchestratorFails(o)
      PROVE  UNCHANGED processed
  BY <1>3, OrchestratorsLeave
<1>4. ASSUME NEW o \in Orchestrators, HandlerNext(o)
      PROVE  \/ UNCHANGED processed
             \/ /\ handler[o].pc \in {"got", "txn"} /\ handler'[o].pc = "ack"
                /\ processed' = processed \cup {EventId(handler[o].event)}
  BY <1>4 DEF HandlerNext, TakeEvent, SkipProcessedEvent, IgnoreEvent, RejectEvent, BeginEvent,
              EventEnqueue, EventCommit, AckEvent, HandlerAt
<1>5. QED
  BY <1>1, <1>2, <1>3, <1>4 DEF Next

\* While a transaction handles an event of a run, the rows of the run are neither
\* created nor settled nor deleted: what has been decided stays decided.
LEMMA DecisionStands ==
  ASSUME IndInv, RowsExist, RowsFit, TxnFresh, [Next]_vars, NEW o \in Orchestrators,
         handler[o].pc = "txn", handler'[o].pc = "txn", handler'[o].event = handler[o].event
  PROVE  /\ FreshSteps(handler[o].event)' = FreshSteps(handler[o].event)
         /\ Verdict(handler[o].event)' = Verdict(handler[o].event)
<1> DEFINE e == handler[o].event
           r == e.run
<1>0. r \in Runs /\ run'[r] = "RUNNING"
  <2>1. TxnInv'
    BY NextKeeps DEF IndInv
  <2>2. QED
    BY <2>1, Held DEF IndInv, TxnInv
<1>1. ASSUME NEW s \in Steps
      PROVE  /\ row'[r][s].status \in CompletedStatuses <=> row[r][s].status \in CompletedStatuses
             /\ row'[r][s].status = "NONE" <=> row[r][s].status = "NONE"
  <2>1. ASSUME NEW p \in Orchestrators
        PROVE  ~Starts(p, r, s) /\ ~Readies(p, r, s) /\ ~Settles(p, r, s)
    <3>1. ~Starts(p, r, s)
      BY DEF Starts, StartRunCommit, IndInv, LockInv
    <3>2. ASSUME EventCommit(p), handler[p].event.run = r
          PROVE  FALSE
      <4>1. p = o
        BY <3>2 DEF EventCommit, IndInv, LockInv
      <4>2. handler'[p].pc = "ack"
        BY <3>2 DEF EventCommit, HandlerAt, IndInv, TypeOK, OrchestratorTypes
      <4>3. QED
        BY <4>1, <4>2
    <3>3. QED
      BY <3>1, <3>2 DEF Readies, Settles
  <2>2. CASE \E w \in Workers :
               /\ MarkRunning(w) /\ WorksOn(w, r, s) /\ <<"worker", w>> \in Carriers(r, s)
               /\ row[r][s] = [status |-> "READY", attempt |-> worker[w].msg.attempt]
               /\ row'[r][s] = [status |-> "RUNNING", attempt |-> worker[w].msg.attempt]
    BY <2>2 DEF CompletedStatuses
  <2>3. CASE \E w \in Workers :
               /\ RetryReset(w) /\ WorksOn(w, r, s) /\ <<"worker", w>> \in Carriers(r, s)
               /\ row[r][s] = [status |-> "RUNNING", attempt |-> worker[w].msg.attempt]
               /\ row'[r][s] = [status |-> "READY", attempt |-> worker[w].msg.attempt + 1]
    BY <2>3 DEF CompletedStatuses
  <2>4. QED
    BY <1>0, <2>1, <2>2, <2>3, RowMoves
<1>2. CompletedWith(e)' = CompletedWith(e)
  BY <1>1 DEF CompletedWith
<1>3. Verdict(e)' = Verdict(e)
  BY <1>2 DEF Verdict
<1>4. FreshSteps(e)' = FreshSteps(e)
  BY <1>1, <1>2, <1>3, ReadySetType DEF FreshSteps
<1>5. QED
  BY <1>3, <1>4

\* Nobody else dispatches a step of a run that a transaction holds.
LEMMA HeldRunDispatches ==
  ASSUME IndInv, NEW r, NEW s, Dispatches(r, s), NEW o \in Orchestrators
  PROVE  /\ StartsRun(o, r) => StartRunEnqueue(o, s)
         /\ HandlesRun(o, r) => EventEnqueue(o, s)
         /\ RunLocked(r)
BY DEF Dispatches, StartRunEnqueue, EventEnqueue, StartsRun, HandlesRun, RunLocked, IndInv, LockInv

\* An event that may be recorded makes only steps ready that nothing carries.
LEMMA BeginsFresh ==
  ASSUME IndInv, RowsExist, NoStray, NEW o \in Orchestrators, BeginEvent(o),
         NEW s \in FreshSteps(handler[o].event)
  PROVE  Carriers(handler[o].event.run, s) = {}
<1> DEFINE e == handler[o].event
           r == e.run
<1>0. /\ TypeOK /\ handler[o].pc = "got" /\ r \in Runs /\ e.step \in Steps
      /\ EventId(e) \notin processed /\ ~RunLocked(r)
  BY Held DEF BeginEvent, IndInv
<1>1. s \in Steps /\ s \in ReadySet(DependsOn, CompletedWith(e)) /\ row[r][s] = NoRow
  BY <1>0, ReadySetType DEF FreshSteps, RowsExist
<1>2. DependsOn[s] \subseteq CompletedWith(e)
  BY <1>1 DEF ReadySet
<1>3. run[r] = "RUNNING"
  <2>1. row[r][e.step].status = "RUNNING"
    BY EndsFromRunning, Verdicts DEF BeginEvent, IllegalMove
  <2>2. row[r][e.step] # NoRow
    BY <2>1 DEF NoRow
  <2>3. QED
    BY <1>0, <2>2 DEF BeginEvent, IndInv, RowInv
<1>4. Carriers(r, e.step) # {}
  <2>1. e \in Reported
    BY <1>0 DEF Reported
  <2>2. QED
    BY <1>0, <2>1, CarriersHold
<1>5. ASSUME NEW d \in DependsOn[s], Dead(r, d)
      PROVE  FALSE
  <2>1. d \in CompletedWith(e) /\ d # e.step
    BY <1>2, <1>4, <1>5 DEF Dead
  <2>2. Settled(r, d)
    BY <2>1 DEF CompletedWith, Settled
  <2>3. QED
    BY <1>5, <2>2 DEF Dead
<1>6. ~Queueing(r, s)
  BY <1>0 DEF Queueing, RunLocked
<1>7. QED
  BY <1>0, <1>1, <1>3, <1>5, <1>6 DEF NoStray

\* A transaction's plan stays true until it commits.
LEMMA TxnFreshStep ==
  ASSUME IndInv, AtMostOne, OneEntry, StartsEmpty, OneCopy, RowsFit, RowsExist, TxnFresh, NoStray,
         [Next]_vars, ~faults'.repeated
  PROVE  TxnFresh'
<1> SUFFICES ASSUME NEW o \in Orchestrators
             PROVE  /\ starter'[o].pc = "txn" =>
                         /\ starter'[o].todo \subseteq ReadySet(DependsOn, {})
                         /\ \A s \in Steps : s \in starter'[o].todo \/ s \notin ReadySet(DependsOn, {}) =>
                              Carriers(starter[o].run, s)' = {}
                         /\ starter'[o].run = starter[o].run
                    /\ handler'[o].pc = "txn" =>
                         /\ handler'[o].event = handler[o].event
                         /\ handler'[o].fresh = FreshSteps(handler[o].event)'
                         /\ handler'[o].verdict = Verdict(handler[o].event)'
                         /\ handler'[o].todo \subseteq handler'[o].fresh
                         /\ EventId(handler[o].event) \notin processed'
                         /\ \A s \in handler'[o].todo : Carriers(handler[o].event.run, s)' = {}
  BY DEF TxnFresh
<1>0. starter[o] \in StarterType /\ handler[o] \in HandlerType
  BY Held DEF IndInv
<1>1. ASSUME starter[o].pc = "txn", starter'[o].run = starter[o].run,
             starter'[o].todo \subseteq starter[o].todo, NEW s \in Steps,
             s \in starter'[o].todo \/ s \notin ReadySet(DependsOn, {})
      PROVE  Carriers(starter[o].run, s)' = {}
  <2>1. Carriers(starter[o].run, s) = {} /\ starter[o].run \in Runs
    BY <1>1, Held DEF TxnFresh, IndInv
  <2>2. ASSUME StartRunEnqueue(o, s)
        PROVE  FALSE
    <3>1. s \in starter[o].todo /\ starter'[o].todo = starter[o].todo \ {s}
      BY <2>2, <1>0 DEF StartRunEnqueue, IndInv, TypeOK, OrchestratorTypes, StarterType
    <3>2. QED
      BY <1>1, <3>1 DEF TxnFresh
  <2>3. QED
    BY <1>1, <2>1, <2>2, NoneArises, HeldRunDispatches DEF StartsRun
<1>2. ASSUME StartRunBegin(o)
      PROVE  /\ starter'[o].todo = ReadySet(DependsOn, {}) /\ starter'[o].run = starter[o].run
             /\ \A s \in Steps : Carriers(starter[o].run, s)' = {}
  <2>1. starter'[o].todo = ReadySet(DependsOn, {}) /\ starter'[o].run = starter[o].run
    BY <1>0, <1>2 DEF StartRunBegin, IndInv, TypeOK, OrchestratorTypes, StarterType
  <2>2. /\ starter[o].run \in Runs /\ Unstarted(starter[o].run) /\ ~RunLocked(starter[o].run)
    BY <1>2, Held DEF StartRunBegin, IndInv, Unstarted
  <2>3. \A s \in Steps : Carriers(starter[o].run, s) = {} /\ ~Dispatches(starter[o].run, s)
    BY <2>2, HeldRunDispatches DEF StartsEmpty
  <2>4. QED
    BY <2>1, <2>2, <2>3, NoneArises
<1>3. starter'[o].pc = "txn" =>
        /\ starter'[o].todo \subseteq ReadySet(DependsOn, {})
        /\ \A s \in Steps : s \in starter'[o].todo \/ s \notin ReadySet(DependsOn, {}) =>
             Carriers(starter[o].run, s)' = {}
        /\ starter'[o].run = starter[o].run
  BY <1>1, <1>2, TxnsFrom DEF TxnFresh
<1>4. ASSUME BeginEvent(o)
      PROVE  /\ handler'[o].event = handler[o].event
             /\ handler'[o].fresh = FreshSteps(handler[o].event)'
             /\ handler'[o].verdict = Verdict(handler[o].event)'
             /\ handler'[o].todo = handler'[o].fresh
             /\ EventId(handler[o].event) \notin processed'
             /\ \A s \in handler'[o].todo : Carriers(handler[o].event.run, s)' = {}
  <2>1. /\ handler'[o] = [pc |-> "txn", event |-> handler[o].event, verdict |-> Verdict(handler[o].event),
                          fresh |-> FreshSteps(handler[o].event), todo |-> FreshSteps(handler[o].event)]
        /\ UNCHANGED <<row, processed>> /\ EventId(handler[o].event) \notin processed
        /\ ~RunLocked(handler[o].event.run) /\ handler[o].event.run \in Runs
    BY <1>4, Held DEF BeginEvent, IndInv, TypeOK, OrchestratorTypes
  <2>2. /\ FreshSteps(handler[o].event)' = FreshSteps(handler[o].event)
        /\ Verdict(handler[o].event)' = Verdict(handler[o].event)
    <3>1. CompletedWith(handler[o].event)' = CompletedWith(handler[o].event)
      BY <2>1 DEF CompletedWith
    <3>2. Verdict(handler[o].event)' = Verdict(handler[o].event)
      BY <2>1, <3>1 DEF Verdict
    <3>3. FreshSteps(handler[o].event)' = FreshSteps(handler[o].event)
      <4>1. CASE Verdict(handler[o].event) # "OPEN"
        BY <3>2, <4>1 DEF FreshSteps
      <4>2. CASE Verdict(handler[o].event) = "OPEN"
        <5>1. row[handler[o].event.run]' = row[handler[o].event.run]
          BY <2>1
        <5>2. QED
          BY <3>1, <3>2, <4>2, <5>1 DEF FreshSteps
      <4>3. QED
        BY <4>1, <4>2
    <3>4. QED
      BY <3>2, <3>3
  <2>3. ASSUME NEW s \in FreshSteps(handler[o].event)
        PROVE  Carriers(handler[o].event.run, s)' = {}
    <3>1. Carriers(handler[o].event.run, s) = {}
      BY <1>4, BeginsFresh
    <3>2. ~Dispatches(handler[o].event.run, s)
      BY <2>1, HeldRunDispatches
    <3>3. s \in Steps
      BY Verdicts
    <3>4. QED
      BY <2>1, <3>1, <3>2, <3>3, NoneArises
  <2>4. QED
    BY <2>1, <2>2, <2>3
<1>5. ASSUME handler[o].pc = "txn", handler'[o].pc = "txn", handler'[o].event = handler[o].event,
             handler'[o].todo \subseteq handler[o].todo
      PROVE  /\ EventId(handler[o].event) \notin processed'
             /\ \A s \in handler'[o].todo : Carriers(handler[o].event.run, s)' = {}
  <2>1. EventId(handler[o].event) \notin processed'
    BY <1>5, ProcessedBy DEF TxnFresh, OneCopy
  <2>2. ASSUME NEW s \in handler'[o].todo
        PROVE  Carriers(handler[o].event.run, s)' = {}
    <3>1. /\ s \in Steps /\ handler[o].event.run \in Runs
          /\ Carriers(handler[o].event.run, s) = {}
      BY <1>0, <1>5, <2>2, Held DEF TxnFresh, IndInv, HandlerType
    <3>2. ~EventEnqueue(o, s)
      BY <2>2, <1>0 DEF EventEnqueue, IndInv, TypeOK, OrchestratorTypes, HandlerType
    <3>3. QED
      BY <1>5, <3>1, <3>2, NoneArises, HeldRunDispatches DEF HandlesRun
  <2>3. QED
    BY <2>1, <2>2
<1>6. handler'[o].pc = "txn" =>
        /\ handler'[o].event = handler[o].event
        /\ handler'[o].fresh = FreshSteps(handler[o].event)'
        /\ handler'[o].verdict = Verdict(handler[o].event)'
        /\ handler'[o].todo \subseteq handler'[o].fresh
        /\ EventId(handler[o].event) \notin processed'
        /\ \A s \in handler'[o].todo : Carriers(handler[o].event.run, s)' = {}
  <2>1. CASE BeginEvent(o)
    BY <1>4, <2>1
  <2>2. CASE handler[o].pc = "txn" /\ ~BeginEvent(o)
    BY <1>5, <2>2, TxnsFrom, DecisionStands DEF TxnFresh
  <2>3. QED
    BY <2>1, <2>2, TxnsFrom
<1>7. QED
  BY <1>3, <1>6

-------------------------------------------------------------------------------
(* The dispatch of steps.                                                   *)

\* A settled row is only deleted, a row is settled by the commit of its event, and
\* gets there by the commit that makes its step ready.
LEMMA SettledRows ==
  ASSUME IndInv, RowsFit, RowsExist, TxnFresh, [Next]_vars, NEW r \in Runs, NEW s \in Steps,
         run'[r] # "DELETED"
  PROVE  /\ Settled(r, s) => row'[r][s] = row[r][s]
         /\ ~Settled(r, s) /\ Settled(r, s)' => \E o \in Orchestrators : Settles(o, r, s)
         /\ row[r][s] = NoRow /\ row'[r][s] # NoRow =>
              row'[r][s] = FirstRow /\ \E o \in Orchestrators : Starts(o, r, s) \/ Readies(o, r, s)
         /\ row[r][s] # NoRow => row'[r][s] # NoRow
<1>1. CASE row'[r][s] = row[r][s]
  BY <1>1 DEF Settled
<1>2. CASE /\ row[r][s] = NoRow /\ row'[r][s] = FirstRow
           /\ \E o \in Orchestrators : Starts(o, r, s) \/ Readies(o, r, s)
  BY <1>2 DEF Settled, NoRow, FirstRow, CompletedStatuses
<1>3. CASE \E o \in Orchestrators :
             /\ Settles(o, r, s) /\ <<"event", handler[o].event.uuid>> \in Carriers(r, s)
             /\ row[r][s].status = "RUNNING"
             /\ row'[r][s] = [status |-> StatusAfter(handler[o].event), attempt |-> row[r][s].attempt]
  BY <1>3, Verdicts DEF Settled, NoRow, CompletedStatuses
<1>4. CASE \E w \in Workers :
             /\ MarkRunning(w) /\ WorksOn(w, r, s) /\ <<"worker", w>> \in Carriers(r, s)
             /\ row[r][s] = [status |-> "READY", attempt |-> worker[w].msg.attempt]
             /\ row'[r][s] = [status |-> "RUNNING", attempt |-> worker[w].msg.attempt]
  BY <1>4 DEF Settled, NoRow, CompletedStatuses
<1>5. CASE \E w \in Workers :
             /\ RetryReset(w) /\ WorksOn(w, r, s) /\ <<"worker", w>> \in Carriers(r, s)
             /\ row[r][s] = [status |-> "RUNNING", attempt |-> worker[w].msg.attempt]
             /\ row'[r][s] = [status |-> "READY", attempt |-> worker[w].msg.attempt + 1]
  BY <1>5 DEF Settled, NoRow, CompletedStatuses
<1>6. QED
  BY <1>1, <1>2, <1>3, <1>4, <1>5, RowMoves

\* What has passed has passed for good.
LEMMA PassedStays ==
  ASSUME IndInv, RowsFit, RowsExist, TxnFresh, [Next]_vars, NEW r \in Runs, NEW s \in Steps,
         run'[r] # "DELETED", Passed(r, s)
  PROVE  Passed(r, s)'
BY SettledRows DEF Passed, Settled, CompletedStatuses

\* The commit of an event settles its step, and the step passes unless the event
\* fails the run.
LEMMA CommitSettles ==
  ASSUME IndInv, NEW r \in Runs, NEW s \in Steps, NEW o \in Orchestrators, Settles(o, r, s)
  PROVE  /\ row'[r][s] = [status |-> StatusAfter(handler[o].event), attempt |-> row[r][s].attempt]
         /\ Settled(r, s)' /\ (Verdict(handler[o].event) # "FAILED" => Passed(r, s)')
<1> DEFINE e == handler[o].event
<1>1. row[r][s].status = "RUNNING"
  BY DEF IndInv, TxnInv, Settles, EventCommit
<1>2. row'[r][s] = [status |-> StatusAfter(e), attempt |-> row[r][s].attempt]
  <2>1. row'[r][s] = [row[r][s] EXCEPT !.status = StatusAfter(e)]
    BY DEF Settles, EventCommit, IndInv, TypeOK, DbTypes
  <2>2. row[r][s] \in [status: StepStatuses, attempt: 1..AttemptLimit]
    BY <1>1 DEF IndInv, TypeOK, DbTypes, RowType, NoRow
  <2>3. QED
    BY <2>1, <2>2
<1>3. Verdict(e) # "FAILED" => e.ok \/ s \in ContinueOnFailure
  BY DEF Verdict, Settles
<1>4. QED
  BY <1>2, <1>3 DEF StatusAfter, Settled, Passed, CompletedStatuses

\* A step gets its row after the steps it depends on have passed.
LEMMA RowsInOrderStep ==
  ASSUME IndInv, RowsFit, RowsExist, TxnFresh, Dispatched, RowsInOrder, [Next]_vars
  PROVE  RowsInOrder'
<1> SUFFICES ASSUME NEW r \in Runs, NEW s \in Steps, row'[r][s].status # "NONE",
                    NEW d \in DependsOn[s]
             PROVE  Passed(r, d)'
  BY DEF RowsInOrder
<1>0. d \in Steps /\ run'[r] # "DELETED" /\ row'[r][s] # NoRow
  BY RowsExistStep, ConstantsAssumption DEF RowsExist, NoRow
<1>1. CASE row[r][s] # NoRow
  <2>1. row[r][s].status # "NONE"
    BY <1>1 DEF RowsExist
  <2>2. Passed(r, d)
    BY <2>1 DEF RowsInOrder
  <2>3. QED
    BY <1>0, <2>2, PassedStays
<1>2. ASSUME NEW o \in Orchestrators, Starts(o, r, s)
      PROVE  FALSE
  BY <1>2 DEF Starts, ReadySet
<1>3. ASSUME NEW o \in Orchestrators, Readies(o, r, s)
      PROVE  Passed(r, d)'
  <2> DEFINE e == handler[o].event
  <2>1. EventCommit(o) /\ e.run = r /\ s \in FreshSteps(e) /\ run[r] = "RUNNING"
    BY <1>3 DEF Readies, EventCommit, TxnFresh, IndInv, TxnInv
  <2>2. Verdict(e) = "OPEN" /\ s \in ReadySet(DependsOn, CompletedWith(e))
    BY <2>1 DEF FreshSteps
  <2>3. d \in CompletedWith(e)
    BY <2>2 DEF ReadySet
  <2>4. CASE d = e.step
    <3>1. Settles(o, r, d)
      BY <2>1, <2>4 DEF Settles
    <3>2. QED
      BY <1>0, <2>2, <3>1, CommitSettles
  <2>5. CASE d # e.step
    <3>1. Settled(r, d)
      BY <2>1, <2>3, <2>5 DEF CompletedWith, Settled
    <3>2. Passed(r, d)
      BY <1>0, <2>1, <3>1 DEF Dispatched
    <3>3. QED
      BY <1>0, <3>2, PassedStays
  <2>6. QED
    BY <2>4, <2>5
<1>4. QED
  BY <1>0, <1>1, <1>2, <1>3, SettledRows

\* A run becomes SUCCEEDED by the commit of an event that finds it complete.
LEMMA SucceedsBy ==
  ASSUME IndInv, [Next]_vars, NEW r \in Runs, run'[r] = "SUCCEEDED", run[r] # "SUCCEEDED"
  PROVE  \E o \in Orchestrators :
           EventCommit(o) /\ handler[o].event.run = r /\ handler[o].verdict = "SUCCEEDED"
<1> USE DEF IndInv, TypeOK, DbTypes
<1>1. CASE \E q \in Runs : CreateRun(q) \/ TickCommit(q) \/ CancelRun(q) \/ DeleteWorkflow(q)
  BY <1>1 DEF CreateRun, TickCommit, CancelRun, DeleteWorkflow
<1>2. CASE \E o \in Orchestrators : StartRunCommit(o)
  BY <1>2 DEF StartRunCommit
<1>3. CASE \E o \in Orchestrators : EventCommit(o)
  BY <1>3 DEF EventCommit
<1>4. CASE \E o \in Orchestrators : ScanUpdate(o)
  BY <1>4 DEF ScanUpdate
<1>5. QED
  BY <1>1, <1>2, <1>3, <1>4, RunWriters

\* A run that succeeds has passed all of its steps.
LEMMA EndsCompleteStep ==
  ASSUME IndInv, RowsFit, RowsExist, TxnFresh, Dispatched, EndsComplete, [Next]_vars
  PROVE  EndsComplete'
<1> SUFFICES ASSUME NEW r \in Runs, run'[r] = "SUCCEEDED", NEW s \in Steps
             PROVE  Passed(r, s)'
  BY DEF EndsComplete
<1>1. CASE run[r] = "SUCCEEDED"
  BY <1>1, PassedStays DEF EndsComplete
<1>2. CASE run[r] # "SUCCEEDED"
  <2>1. PICK o \in Orchestrators :
          EventCommit(o) /\ handler[o].event.run = r /\ handler[o].verdict = "SUCCEEDED"
    BY <1>2, SucceedsBy
  <2> DEFINE e == handler[o].event
  <2>2. Verdict(e) = "SUCCEEDED" /\ run[r] = "RUNNING"
    BY <2>1 DEF EventCommit, TxnFresh, IndInv, TxnInv
  <2>3. s \in CompletedWith(e)
    BY <2>2 DEF Verdict
  <2>4. CASE s = e.step
    <3>1. Settles(o, r, s)
      BY <2>1, <2>4 DEF Settles
    <3>2. QED
      BY <2>2, <3>1, CommitSettles
  <2>5. CASE s # e.step
    <3>1. Settled(r, s)
      BY <2>1, <2>3, <2>5 DEF CompletedWith, Settled
    <3>2. Passed(r, s)
      BY <2>2, <3>1 DEF Dispatched
    <3>3. QED
      BY <3>2, PassedStays
  <2>6. QED
    BY <2>4, <2>5
<1>3. QED
  BY <1>1, <1>2

\* startRun gives the steps that depend on nothing their rows.
LEMMA StartDispatches ==
  ASSUME IndInv, NEW o \in Orchestrators, StartRunCommit(o), NEW s \in Steps
  PROVE  row'[starter[o].run][s] = IF DependsOn[s] = {} THEN FirstRow ELSE NoRow
<1>1. starter[o].run \in Runs /\ row[starter[o].run][s] = NoRow
  BY Held DEF StartRunCommit, IndInv, TxnInv, RowInv
<1>2. s \in ReadySet(DependsOn, {}) <=> DependsOn[s] = {}
  BY ConstantsAssumption DEF ReadySet
<1>3. QED
  BY <1>1, <1>2 DEF StartRunCommit, IndInv, TypeOK, DbTypes

\* In a RUNNING run what is ready has its row and something is left to do.
LEMMA DispatchedStep ==
  ASSUME IndInv, RowsFit, RowsExist, TxnFresh, Dispatched, [Next]_vars
  PROVE  Dispatched'
<1> SUFFICES ASSUME NEW r \in Runs, run'[r] = "RUNNING"
             PROVE  /\ \A s \in Steps : (\A d \in DependsOn[s] : Settled(r, d)') => row'[r][s] # NoRow
                    /\ \A s \in Steps : Settled(r, s)' => Passed(r, s)'
                    /\ \E s \in Steps : ~Settled(r, s)'
  BY DEF Dispatched
<1>0. \A s \in Steps : DependsOn[s] \subseteq Steps
  BY ConstantsAssumption
<1>1. CASE run[r] # "RUNNING"
  <2>1. PICK o \in Orchestrators : StartRunCommit(o) /\ starter[o].run = r
    BY <1>1, StartsRunning
  <2>2. \A s \in Steps : row'[r][s] = IF DependsOn[s] = {} THEN FirstRow ELSE NoRow
    BY <2>1, StartDispatches
  <2>3. \A s \in Steps : ~Settled(r, s)'
    BY <2>2 DEF Settled, NoRow, FirstRow, CompletedStatuses
  <2>4. QED
    BY <1>0, <2>2, <2>3, ValidatedDefinition DEF NoRow, FirstRow
<1>2. CASE run[r] = "RUNNING" /\ \E o \in Orchestrators : EventCommit(o) /\ handler[o].event.run = r
  <2>1. PICK o \in Orchestrators : EventCommit(o) /\ handler[o].event.run = r
    BY <1>2
  <2> DEFINE e == handler[o].event
             C == CompletedWith(e)
  <2>2. Verdict(e) = "OPEN" /\ handler[o].fresh = FreshSteps(e) /\ e.step \in Steps
    BY <2>1, Held, Verdicts DEF EventCommit, TxnFresh, IndInv, TypeOK, DbTypes
  <2>3. ASSUME NEW s \in Steps
        PROVE  Settled(r, s)' <=> s \in C
    <3>1. CASE s = e.step
      BY <2>1, <3>1, CommitSettles DEF Settles, CompletedWith
    <3>2. CASE s # e.step
      <4>1. s \in C <=> Settled(r, s)
        BY <2>1, <3>2 DEF CompletedWith, Settled
      <4>2. \A p \in Orchestrators : ~Settles(p, r, s)
        BY <2>1, <3>2 DEF Settles, EventCommit, IndInv, LockInv
      <4>3. QED
        BY <4>1, <4>2, SettledRows DEF Settled
    <3>3. QED
      BY <3>1, <3>2
  <2>4. ASSUME NEW s \in Steps, \A d \in DependsOn[s] : Settled(r, d)'
        PROVE  row'[r][s] # NoRow
    <3>1. DependsOn[s] \subseteq C
      BY <1>0, <2>3, <2>4
    <3>2. CASE row[r][s] # NoRow
      BY <3>2, SettledRows
    <3>3. CASE row[r][s] = NoRow
      <4>1. s # e.step /\ ~Settled(r, s)
        BY <2>1, <3>3 DEF EventCommit, IndInv, TxnInv, Settled, NoRow, CompletedStatuses
      <4>2. s \in ReadySet(DependsOn, C)
        BY <2>1, <3>1, <4>1, ConstantsAssumption DEF ReadySet, CompletedWith, Settled
      <4>3. s \in handler[o].fresh
        BY <2>1, <2>2, <3>3, <4>2 DEF FreshSteps, NoRow
      <4>4. row'[r][s] = FirstRow
        BY <2>1, <4>1, <4>3 DEF EventCommit, IndInv, TypeOK, DbTypes
      <4>5. QED
        BY <4>4 DEF FirstRow, NoRow
    <3>4. QED
      BY <3>2, <3>3
  <2>5. ASSUME NEW s \in Steps, Settled(r, s)'
        PROVE  Passed(r, s)'
    <3>1. CASE s = e.step
      BY <2>1, <2>2, <3>1, CommitSettles DEF Settles
    <3>2. CASE s # e.step
      <4>1. Settled(r, s)
        BY <2>1, <2>3, <2>5, <3>2 DEF CompletedWith, Settled
      <4>2. QED
        BY <1>2, <4>1, PassedStays DEF Dispatched
    <3>3. QED
      BY <3>1, <3>2
  <2>6. \E s \in Steps : ~Settled(r, s)'
    <3>1. C \subseteq Steps
      BY <2>2 DEF CompletedWith
    <3>2. C # Steps
      <4>1. C = Steps => ReadySet(DependsOn, C) = {}
        BY ConstantsAssumption DEF ReadySet
      <4>2. QED
        BY <2>2, <4>1 DEF Verdict
    <3>3. QED
      BY <2>3, <3>1, <3>2
  <2>7. QED
    BY <2>4, <2>5, <2>6
<1>3. CASE run[r] = "RUNNING" /\ ~\E o \in Orchestrators : EventCommit(o) /\ handler[o].event.run = r
  <2>1. \A s \in Steps : Settled(r, s)' <=> Settled(r, s)
    BY <1>3, SettledRows DEF Settles, Settled
  <2>2. \A s \in Steps : row[r][s] # NoRow => row'[r][s] # NoRow
    BY SettledRows
  <2>3. QED
    BY <1>0, <1>3, <2>1, <2>2, PassedStays DEF Dispatched
<1>4. QED
  BY <1>1, <1>2, <1>3

\* A transaction that handles an event ends with its commit or is rolled back.
LEMMA TxnEnds ==
  ASSUME IndInv, [Next]_vars, NEW o \in Orchestrators, handler[o].pc = "txn", handler'[o].pc # "txn"
  PROVE  EventCommit(o) \/ HandleEventFails(o) \/ OrchestratorCrash(o)
<1> USE DEF IndInv, TypeOK, OrchestratorTypes, HandlerType
<1>1. ASSUME TriggerNext \/ UserNext \/ UNCHANGED vars
      PROVE  UNCHANGED handler
  BY <1>1, RequestsLeave
<1>2. ASSUME NEW w \in Workers, WorkerNext(w) \/ WorkerFails(w) \/ PollerNext(w) \/ PollLoses(w)
      PROVE  UNCHANGED handler
  BY <1>2, WorkersLeave
<1>3. ASSUME NEW p \in Orchestrators, StarterNext(p) \/ ScannerNext(p) \/ StartRunFails(p)
      PROVE  UNCHANGED handler
  BY <1>3, OrchestratorsLeave DEF StartRunFails
<1>4. ASSUME NEW p \in Orchestrators, p # o,
             HandlerNext(p) \/ HandleEventFails(p) \/ OrchestratorCrash(p)
      PROVE  handler'[o] = handler[o]
  BY <1>4 DEF HandlerNext, TakeEvent, SkipProcessedEvent, IgnoreEvent, RejectEvent, BeginEvent,
              EventEnqueue, EventCommit, AckEvent, HandleEventFails, OrchestratorCrash
<1>5. ASSUME HandlerNext(o)
      PROVE  EventCommit(o)
  BY <1>5 DEF HandlerNext, TakeEvent, SkipProcessedEvent, IgnoreEvent, RejectEvent, BeginEvent,
              EventEnqueue, AckEvent
<1>6. QED
  BY <1>1, <1>2, <1>3, <1>4, <1>5 DEF Next, OrchestratorFails

\* A step without a carrier that has a row and is not settled stays that way.
LEMMA DeadStays ==
  ASSUME IndInv, AtMostOne, RowsFit, RowsExist, TxnFresh, [Next]_vars,
         ~faults'.repeated, NEW r \in Runs, NEW d \in Steps, Dead(r, d), run'[r] # "DELETED"
  PROVE  Dead(r, d)'
<1>1. Carriers(r, d)' = {}
  BY NoneArises, DispatchesFresh DEF Dead
<1>2. ASSUME NEW o \in Orchestrators, Settles(o, r, d)
      PROVE  FALSE
  <2>1. <<"event", handler[o].event.uuid>> \in Carriers(r, d)
    <3>1. handler[o].event \in Reported
      BY <1>2 DEF Settles, EventCommit, Reported, TxnFresh
    <3>2. QED
      BY <1>2, <3>1, CarriersHold DEF Settles, IndInv
  <2>2. QED
    BY <2>1 DEF Dead
<1>3. ~Settled(r, d)' /\ row'[r][d] # NoRow
  BY <1>2, SettledRows DEF Dead
<1>4. QED
  BY <1>1, <1>3 DEF Dead

\* When a transaction is rolled back the step of its event has stopped for good:
\* the event was its only carrier, and is never delivered again.
LEMMA RollbackKills ==
  ASSUME IndInv, AtMostOne, OneCopy, RowsFit, RowsExist, TxnFresh, NEW o \in Orchestrators,
         handler[o].pc = "txn", HandleEventFails(o) \/ OrchestratorCrash(o)
  PROVE  /\ row'[handler[o].event.run][handler[o].event.step].status = "RUNNING"
         /\ \A r, d : r = handler[o].event.run /\ d = handler[o].event.step => Carriers(r, d)' = {}
<1> SUFFICES ASSUME NEW r, NEW d, r = handler[o].event.run, d = handler[o].event.step
             PROVE  row'[r][d].status = "RUNNING" /\ Carriers(r, d)' = {}
  OBVIOUS
<1> DEFINE e == handler[o].event
<1>0. TypeOK /\ r \in Runs /\ d \in Steps
  BY Held DEF IndInv
<1>1. UNCHANGED <<row, stepQ, delayed, poller, worker, eventQ, processed>>
  BY DEF HandleEventFails, OrchestratorCrash
<1>2. /\ handler'[o].pc = "idle"
      /\ \A p \in Orchestrators : p # o => handler'[p] = handler[p]
  BY <1>0 DEF HandleEventFails, OrchestratorCrash, IdleHandler, HandlerAt, TypeOK, OrchestratorTypes
<1>3. e \in Reported /\ row[r][d].status = "RUNNING"
  BY DEF Reported, TxnFresh, IndInv, TxnInv
<1>4. \A x \in Carriers(r, d) : x = <<"event", e.uuid>>
  BY ZenonT(60), <1>0, <1>3, CarriersHold DEF AtMostOne
<1>5. /\ QueuedFor(r, d)' = {} /\ DelayedFor(r, d)' = {} /\ PolledFor(r, d)' = {}
      /\ WorkedFor(r, d)' = {}
  <2> DEFINE y == <<"event", e.uuid>>
  <2>1. QueuedFor(r, d) = {}
    <3>1. ASSUME NEW x \in QueuedFor(r, d)
          PROVE  FALSE
      <4>1. \E a : x = <<"queued", a>>
        BY <3>1 DEF QueuedFor
      <4>2. x = y
        BY <1>4, <3>1, CarrierKinds
      <4>3. QED
        BY <4>1, <4>2
    <3>2. QED
      BY <3>1
  <2>2. DelayedFor(r, d) = {} /\ PolledFor(r, d) = {} /\ WorkedFor(r, d) = {}
    <3>1. \A a : <<"delayed", a>> # y /\ <<"poll", a>> # y /\ <<"worker", a>> # y
      OBVIOUS
    <3>2. QED
      BY <1>4, <3>1, CarrierKinds DEF DelayedFor, PolledFor, WorkedFor
  <2>3. QED
    BY <1>1, <2>1, <2>2, KindsRead
<1>6. ASSUME NEW f \in Reported', f.run = r, f.step = d
      PROVE  FALSE
  <2>1. f \in Reported
    BY <1>1, <1>2, <1>6 DEF Reported
  <2>2. <<"event", f.uuid>> \in Carriers(r, d)
    BY <1>0, <1>6, <2>1, CarriersHold
  <2>3. EventId(f) = EventId(e)
    BY <1>4, <1>6, <2>2 DEF EventId
  <2>4. CASE f \in eventQ
    BY <2>3, <2>4 DEF OneCopy
  <2>5. ASSUME NEW p \in Orchestrators, handler'[p].pc \in {"got", "txn"}, f = handler'[p].event
        PROVE  FALSE
    BY <1>2, <2>3, <2>5 DEF OneCopy
  <2>6. QED
    BY <1>1, <1>6, <2>4, <2>5 DEF Reported
<1>7. ReportedFor(r, d)' = {}
  BY <1>6 DEF ReportedFor
<1>8. QED
  BY <1>1, <1>3, <1>5, <1>7, CarrierKinds

\* A stray step waits for a step that has stopped for good.
LEMMA NoStrayStep ==
  ASSUME IndInv, AtMostOne, OneCopy, RowsFit, RowsExist, TxnFresh, NoStray, Dispatched,
         [Next]_vars, ~faults'.repeated
  PROVE  NoStray'
<1> SUFFICES ASSUME NEW r \in Runs, NEW s \in Steps,
                    run'[r] = "RUNNING", row'[r][s] = NoRow, Carriers(r, s)' # {}
             PROVE  Queueing(r, s)' \/ \E d \in DependsOn[s] : Dead(r, d)'
  BY DEF NoStray
<1>0. row[r][s] = NoRow /\ DependsOn[s] \subseteq Steps
  BY SettledRows, ConstantsAssumption
<1>1. CASE run[r] # "RUNNING"
  <2>1. PICK o \in Orchestrators : StartRunCommit(o) /\ starter[o].run = r
    BY <1>1, StartsRunning
  <2>2. row'[starter[o].run][s] = IF DependsOn[s] = {} THEN FirstRow ELSE NoRow
    BY <2>1, StartDispatches
  <2>3. s \notin ReadySet(DependsOn, {})
    BY <2>1, <2>2 DEF ReadySet, FirstRow, NoRow
  <2>4. Carriers(r, s) = {}
    BY <2>1, <2>3 DEF TxnFresh, StartRunCommit
  <2>5. StartRunEnqueue(o, s)
    BY <2>1, <2>4, NoneArises, HeldRunDispatches DEF StartRunCommit, StartsRun
  <2>6. QED
    BY <2>1, <2>5 DEF StartRunCommit, StartRunEnqueue
<1>2. CASE run[r] = "RUNNING" /\ Carriers(r, s) = {}
  <2>1. Dispatches(r, s)
    BY <1>2, NoneArises
  <2>2. PICK o \in Orchestrators : EventEnqueue(o, s) /\ handler[o].event.run = r
    BY <1>2, <2>1 DEF Dispatches, StartRunEnqueue, IndInv, TxnInv
  <2>3. /\ handler'[o].pc = "txn" /\ handler'[o].event = handler[o].event
        /\ s \in handler'[o].fresh /\ s \notin handler'[o].todo
    BY <2>2, Held DEF EventEnqueue, IndInv, TypeOK, OrchestratorTypes, HandlerType, TxnFresh
  <2>4. QED
    BY <2>2, <2>3 DEF Queueing, HandlesRun
<1>3. ASSUME NEW d \in DependsOn[s], Dead(r, d)
      PROVE  Dead(r, d)'
  BY <1>0, <1>3, DeadStays
<1>4. ASSUME run[r] = "RUNNING", NEW o \in Orchestrators, HandlesRun(o, r),
             s \in handler[o].fresh \ handler[o].todo
      PROVE  Queueing(r, s)' \/ \E d \in DependsOn[s] : Dead(r, d)'
  <2> DEFINE e == handler[o].event
  <2>1. /\ handler[o].pc = "txn" /\ e.run = r /\ e.step \in Steps
        /\ handler[o].fresh = FreshSteps(e)
        /\ row[r][e.step].status = "RUNNING"
    BY <1>4, Held DEF HandlesRun, TxnFresh, IndInv, TxnInv
  <2>2. CASE handler'[o].pc = "txn"
    BY <1>4, <2>1, <2>2, TxnsFrom DEF BeginEvent, Queueing, HandlesRun
  <2>3. CASE EventCommit(o)
    <3>1. s # e.step
      BY <1>0, <2>1 DEF NoRow
    <3>2. row'[r][s] = FirstRow
      BY <1>4, <2>1, <2>3, <3>1 DEF EventCommit, IndInv, TypeOK, DbTypes
    <3>3. QED
      BY <3>2 DEF FirstRow, NoRow
  <2>4. CASE HandleEventFails(o) \/ OrchestratorCrash(o)
    <3>1. PICK d \in DependsOn[s] : ~Settled(r, d)
      BY <1>0, <1>4 DEF Dispatched
    <3>2. d \in CompletedWith(e)
      BY <1>4, <2>1 DEF FreshSteps, ReadySet
    <3>3. d = e.step
      BY <2>1, <3>1, <3>2 DEF CompletedWith, Settled
    <3>4. row'[r][d].status = "RUNNING" /\ Carriers(r, d)' = {}
      BY <2>1, <2>4, <3>3, RollbackKills
    <3>5. QED
      BY <3>4 DEF Dead, Settled, NoRow, CompletedStatuses
  <2>5. QED
    BY <2>1, <2>2, <2>3, <2>4, TxnEnds
<1>5. QED
  BY <1>0, <1>1, <1>2, <1>3, <1>4 DEF NoStray, Queueing

-------------------------------------------------------------------------------
(* The invariant holds.                                                     *)

\* Nothing carries anything in the initial state.
LEMMA InitCarriers == Init => CarrierInv
<1> SUFFICES ASSUME Init PROVE CarrierInv
  OBVIOUS
<1>0. TypeOK
  BY InitHolds DEF IndInv
<1>1. \A m \in StepMsg : stepQ[m] = 0
  BY DEF Init
<1>2. /\ \A w \in Workers : worker[w].pc = "idle" /\ poller[w] = Nothing
      /\ \A o \in Orchestrators : starter[o].pc = "idle" /\ handler[o].pc = "idle"
      /\ eventQ = {} /\ delayed = {} /\ Reported = {}
  BY DEF Init, IdleWorker, IdleStarter, StarterAt, IdleHandler, HandlerAt, Reported
<1>3. \A r \in Runs : run[r] = "NONE" /\ runQ[r] = 0 /\ \A s \in Steps : row[r][s] = NoRow
  BY DEF Init
<1>4. ASSUME NEW r \in Runs, NEW s \in Steps
      PROVE  Carriers(r, s) = {}
  <2>1. QueuedFor(r, s) = {}
    <3>1. \A a \in 1..AttemptLimit : [run |-> r, step |-> s, attempt |-> a] \in StepMsg
      BY DEF StepMsg
    <3>2. \A a \in 1..AttemptLimit : ~(stepQ[[run |-> r, step |-> s, attempt |-> a]] > 0)
      BY <1>1, <3>1
    <3>3. QED
      BY <3>2 DEF QueuedFor
  <2>2. DelayedFor(r, s) = {} /\ PolledFor(r, s) = {} /\ WorkedFor(r, s) = {} /\ ReportedFor(r, s) = {}
    BY <1>2 DEF DelayedFor, PolledFor, WorkedFor, Carries, ReportedFor
  <2>3. QED
    BY <2>1, <2>2, CarrierKinds
<1>5. AtMostOne
  BY <1>1, <1>4 DEF AtMostOne
<1>6. OneEntry /\ StartsEmpty /\ OneCopy
  BY <1>2, <1>3, <1>4 DEF OneEntry, Holds, StartsEmpty, OneCopy, Init
<1>7. RowsFit
  BY <1>1, <1>2, ConstantsAssumption DEF RowsFit, Waits, WorkerFits, Init
<1>8. RowsExist /\ TxnFresh /\ NoStray
  BY <1>2, <1>3 DEF RowsExist, TxnFresh, NoStray, NoRow
<1>9. Dispatched /\ RowsInOrder /\ EndsComplete
  BY <1>3 DEF Dispatched, RowsInOrder, EndsComplete, NoRow
<1>10. QED
  BY <1>5, <1>6, <1>7, <1>8, <1>9 DEF CarrierInv

\* A step of the system leaves the faults alone or adds one of the kinds that may
\* happen.
LEMMA FaultsSeen ==
  ASSUME [Next]_vars
  PROVE  UNCHANGED faults \/ \E kind \in Faults : Fault(kind)
<1>1. ASSUME NEW kind, Fault(kind)
      PROVE  \E k \in Faults : Fault(k)
  BY <1>1 DEF Fault
<1>2. ASSUME NEW n, NEW resend, Copies(n, resend)
      PROVE  UNCHANGED faults \/ \E k \in Faults : Fault(k)
  BY <1>1, <1>2 DEF Copies
<1> DEFINE Seen == UNCHANGED faults \/ \E k \in Faults : Fault(k)
<1> HIDE DEF Seen
<1>3. /\ UNCHANGED faults => Seen
      /\ \A k : Fault(k) => Seen
      /\ \A n, k : Copies(n, k) => Seen
  BY <1>1, <1>2 DEF Seen
<1>4. CASE TriggerNext
  <2>1. PICK r \in Runs : \/ CreateRun(r) \/ QueueRun(r) \/ QueueRunFails(r)
                          \/ TickQueueRun(r) \/ TickCommit(r) \/ TickRollback(r)
    BY <1>4 DEF TriggerNext
  <2>2. UNCHANGED faults \/ Fault("api_crash") \/ Fault("io_error") \/ EnqueueRun(r)
    BY <2>1 DEF CreateRun, QueueRun, QueueRunFails, TickQueueRun, TickCommit, TickRollback
  <2>3. QED
    BY <1>3, <2>2 DEF EnqueueRun, Seen
<1>5. ASSUME NEW o \in Orchestrators, StarterNext(o) \/ ScannerNext(o)
      PROVE  Seen
  BY <1>3, <1>5 DEF StarterNext, ScannerNext, TakeRun, StartRunMissing, StartRunSkip, StartRunBegin,
              StartRunEnqueue, StartRunCommit, AckRun, ScanSelect, ScanUpdate, ScanAnnounce,
              EnqueueStep
<1>6. ASSUME NEW o \in Orchestrators, HandlerNext(o)
      PROVE  Seen
  BY <1>3, <1>6 DEF HandlerNext, TakeEvent, SkipProcessedEvent, IgnoreEvent, RejectEvent, BeginEvent,
              EventEnqueue, EventCommit, AckEvent, EnqueueStep
<1>7. ASSUME NEW o \in Orchestrators, OrchestratorFails(o)
      PROVE  Seen
  BY <1>3, <1>7 DEF OrchestratorFails, StartRunFails, HandleEventFails, OrchestratorCrash
<1>8. ASSUME NEW w \in Workers, WorkerNext(w)
      PROVE  Seen
  BY <1>3, <1>8 DEF WorkerNext, TakeStep, CheckCancelled, ClaimStep, MarkRunning, LoadSpec,
              Execute, Report, RetrySelect, RetryReset, ScheduleRetry, AckStep, SelectRow, UpdateRow,
              EnqueueEvent
<1>9. ASSUME NEW w \in Workers, PollerNext(w) \/ WorkerFails(w) \/ PollLoses(w)
      PROVE  Seen
  BY <1>3, <1>9 DEF PollerNext, WorkerFails, PollLoses, PollRemove, PollEnqueue, EnqueueStep
<1>10. CASE UserNext
  <2>1. UNCHANGED faults \/ Fault("api_crash")
    BY <1>10 DEF UserNext, CancelRun, SignalCancel, SignalCancelFails, DeleteWorkflow, Expire
  <2>2. QED
    BY <1>3, <2>1 DEF Seen
<1>11. CASE UNCHANGED vars
  BY <1>3, <1>11 DEF vars
<1>12. QED
  BY <1>4, <1>5, <1>6, <1>7, <1>8, <1>9, <1>10, <1>11 DEF Next, Seen

\* That an XADD was repeated is never forgotten.
LEMMA RepetitionStays ==
  ASSUME [Next]_vars, ~faults'.repeated
  PROVE  ~faults.repeated
<1>1. ASSUME NEW kind, Fault(kind)
      PROVE  ~faults.repeated
  <2>1. faults'.repeated = (faults.repeated \/ kind \in Resends)
    BY <1>1 DEF Fault
  <2>2. QED
    BY <2>1
<1>2. QED
  BY <1>1, FaultsSeen

\* A step keeps the invariant.
LEMMA CarrierInvStep ==
  ASSUME IndInv, CarrierInv, [Next]_vars, ~faults'.repeated
  PROVE  CarrierInv'
<1> USE DEF CarrierInv
<1>1. AtMostOne'
  BY AtMostOneStep
<1>2. OneEntry' /\ StartsEmpty' /\ OneCopy'
  BY OneEntryStep, StartsEmptyStep, OneCopyStep
<1>3. RowsFit' /\ RowsExist' /\ TxnFresh'
  BY RowsFitStep, RowsExistStep, TxnFreshStep
<1>4. NoStray' /\ Dispatched'
  BY NoStrayStep, DispatchedStep
<1>5. RowsInOrder' /\ EndsComplete'
  BY RowsInOrderStep, EndsCompleteStep
<1>6. QED
  BY <1>1, <1>2, <1>3, <1>4, <1>5

\* As long as no XADD is repeated the invariant holds.
THEOREM CarrierInvariance ==
  Spec => [](IndInv /\ (~faults.repeated => CarrierInv))
<1>1. Init => IndInv /\ (~faults.repeated => CarrierInv)
  BY InitHolds, InitCarriers
<1>2. /\ IndInv /\ (~faults.repeated => CarrierInv)
      /\ [Next]_vars
      => (IndInv /\ (~faults.repeated => CarrierInv))'
  BY NextKeeps, CarrierInvStep, RepetitionStays
<1>3. QED
  BY <1>1, <1>2, PTL DEF Spec

===============================================================================
