SPECIFICATION FairSpec
CONSTANTS
  Schedules = {s1, s2}
  Replicas = {o1, o2}
  Exprs = {1, 2}
  NextOf <- Every
  Horizon = 2
  Behind = 1
  Ahead = 1
  BatchLimit = 1
  MaxRuns = 2
  MaxFaults = 1
INVARIANTS AtMostOncePerWindow ChangedSchedulesWait LocksAreExclusive RunsAreQueued
PROPERTIES DueScheduleFires
CHECK_DEADLOCK FALSE
