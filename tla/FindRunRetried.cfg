SPECIFICATION FairSpec
CONSTANTS
  a = a  b = b  c = c
  Nothing = Nothing
  Runs = {r1}
  Scheduled = {r1}
  Steps = {a, b}
  DependsOn <- Chain
  ContinueOnFailure = {a}
  MaxAttempts <- AttemptsChain
  AttemptLimit = 2
  Workers = {w1}
  Orchestrators = {o1}
  Environment = {}
  Faults = {}
  MaxFaults = 0
PROPERTIES UnackedRunIsRetried
CHECK_DEADLOCK FALSE
