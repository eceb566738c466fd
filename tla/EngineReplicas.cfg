SPECIFICATION Spec
CONSTANTS
  a = a  b = b  c = c
  Nothing = Nothing
  Runs = {r1}
  Scheduled = {r1}
  Steps = {a, b, c}
  DependsOn <- Join
  ContinueOnFailure = {a}
  MaxAttempts <- AttemptsOnce
  AttemptLimit = 1
  Workers = {w1}
  Orchestrators = {o1, o2}
  Environment = {"cancel", "timeout"}
  Faults = {"io_error", "worker_crash", "orchestrator_crash", "api_crash", "resend_runs", "resend_steps", "resend_events"}
  MaxFaults = 1
INVARIANTS TypeOK DependenciesFirst NothingStranded LostWorkIsPending
PROPERTIES NoStepAddedAfterEnd RunsFollowMoves ImplementsLifecycle
SYMMETRY Interchangeable
CHECK_DEADLOCK FALSE
