SPECIFICATION CountersSpec
CONSTANTS
  Requests = {q1, q2}
  Window = 2
  Limit = 2
  Latency = 1
  MaxTime = 6
  MaxRequests = 5
  Generations = {q1, q2}
  DailyLimit = 6
  Reserve = 2
  Usages = {0, 1, 3}
  MaxDay = 1
  MaxGenerations = 5
INVARIANTS QuotaPerWindow RetryMeetsAnotherWindow OvershootIsBounded
PROPERTIES RequestsAreAnswered
CHECK_DEADLOCK FALSE
