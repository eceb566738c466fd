SPECIFICATION Spec
CONSTANTS
  a = a  b = b  c = c
  Nothing = Nothing
  Runs = {r1}
  Scheduled = {}
  Steps = {a, b}
  DependsOn <- Chain
  ContinueOnFailure = {a}
  MaxAttempts <- AttemptsChain
  AttemptLimit = 2
  Workers = {w1, w2}
  Orchestrators = {o1}
  Environment = {"timeout"}
  Faults = {}
  MaxFaults = 0
PROPERTIES TerminalIsFinal
SYMMETRY Interchangeable
CHECK_DEADLOCK FALSE
