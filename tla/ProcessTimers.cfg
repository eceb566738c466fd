SPECIFICATION ProcessSpec
CONSTANTS
  Callers <- MCCallers
  Loops = {"runs", "events", "steps"}
  ConnectionOf <- MCConnectionOf
  Polls <- MCPolls
  NoOne = NoOne
  poll1 = poll1  poll2 = poll2  poll3 = poll3  poll4 = poll4
  Block = 1
  Retries = {m1, m2}
  ScanInterval = 2
  PollInterval = 2
  PollLimit = 1
  Grace = 0
  MaxCommands = 2
  Batch = 1
  Limit = 2
  MaxEntries = 1
INVARIANTS WaitIsBounded OverdueIsMarked RetriesAreMoved StepsStopInTime
SYMMETRY Interchangeable
