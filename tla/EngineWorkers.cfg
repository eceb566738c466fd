SPECIFICATION FairSpec
CONSTANTS
  a = a  b = b  c = c
  Nothing = Nothing
  Runs = {r1}
  Scheduled = {}
  Steps = {a, b}
  DependsOn <- Chain
  ContinueOnFailure = {a}
  MaxAttempts <- AttemptsChain
  AttemptLimit = 2
  Workers = {w1, w2}
  Orchestrators = {o1}
  Environment = {"delete", "timeout"}
  Faults = {"io_error", "worker_crash", "orchestrator_crash", "api_crash", "retry_loss", "poll_loss", "resend_steps"}
  MaxFaults = 1
INVARIANTS OneCarrier AttemptsAgree SucceededIsComplete
PROPERTIES RowsFollowMoves OverdueRunEnds TriggeredRunStarts ReportIsRecorded
CHECK_DEADLOCK FALSE
