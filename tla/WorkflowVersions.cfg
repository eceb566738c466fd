SPECIFICATION PageSpec
CONSTANTS
  fetch = fetch
  save = save
  q1 = q1
  q2 = q2
  Requests = {q1, q2, fetch, save}
  KindsOf <- MCKindsOf
  Bodies = {b1, b2}
  Blank = b1
  Malformed = Malformed
  Nobody = Nobody
  MaxFaults = 1
  MaxSaves = 1
  MaxRefetches = 1
INVARIANTS NoLostUpdate RunsBindFreshVersions SettledPageShowsVersion
PROPERTIES SavesEnd
CHECK_DEADLOCK FALSE
