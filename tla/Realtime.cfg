SPECIFICATION HubSpec
CONSTANTS
  p1 = p1
  p2 = p2
  r1 = r1
  r2 = r2
  NoPage = NoPage
  Runs = {r1}
  Pages = {p1, p2}
  TenantOf <- MCTenantOf
  RunOf <- MCRunOf
  Restless = {p1}
  Conns = {c1, c2}
  MaxStatus = 2
  MaxFaults = 1
  Interval = 3
  TimeoutAfter = 6
  Latency = 3
  MaxTime = 24
INVARIANTS TenantsAreIsolated ClosedSocketsAreForgotten AnsweringPeerStays SilentPeerIsCut
PROPERTIES PageLagsByOneAtMost
CHECK_DEADLOCK FALSE
