------------------------------ MODULE FlowForge ------------------------------
(***************************************************************************)
(* The vocabulary the FlowForge services share: the statuses of runs and   *)
(* of step runs, the moves between them that the repositories accept, and  *)
(* the ready set of a workflow definition.                                 *)
(***************************************************************************)

\* RunStatusSchema and StepRunStatusSchema.
RunStatuses == {"PENDING", "RUNNING", "SUCCEEDED", "FAILED", "CANCELLED", "TIMED_OUT"}
StepStatuses == {"PENDING", "READY", "RUNNING", "SUCCEEDED", "FAILED", "SKIPPED"}

\* TERMINAL_STATUSES of the orchestrator, TERMINAL_RUN_STATUSES of the repository.
TerminalStatuses == {"SUCCEEDED", "FAILED", "CANCELLED", "TIMED_OUT"}

\* The statuses handleStepEvent counts as completed (nothing in the code
\* writes SKIPPED yet).
CompletedStatuses == {"SUCCEEDED", "SKIPPED", "FAILED"}

\* VALID_RUN_TRANSITIONS, as the pairs <<from, to>>.
RunMoves ==
  ({"PENDING"} \X {"RUNNING", "CANCELLED"})
    \cup ({"RUNNING"} \X {"SUCCEEDED", "FAILED", "CANCELLED", "TIMED_OUT"})

\* VALID_TRANSITIONS of transitionStepRunStatus.
StepMoves ==
  ({"PENDING"} \X {"READY", "RUNNING", "SKIPPED"})
    \cup ({"READY"} \X {"RUNNING", "SKIPPED"})
    \cup ({"RUNNING"} \X {"SUCCEEDED", "FAILED", "READY", "SKIPPED"})

\* Mutant: some dependency instead of every one.
ReadySetSome(dependsOn, completed) ==
  {s \in DOMAIN dependsOn \ completed :
     dependsOn[s] = {} \/ dependsOn[s] \cap completed # {}}

\* computeReadySet: the steps not yet completed whose dependencies all are.
ReadySet(dependsOn, completed) ==
  {s \in DOMAIN dependsOn \ completed : dependsOn[s] \subseteq completed}

=============================================================================
