SPECIFICATION DraftSpec
CONSTANTS
  Names = {1, 2, 3, 4, 9}
  NoStep = NoStep
  Definitions <- Submitted
  MaxSteps = 3
  ShapeIssues = {"out_of_range"}
  MaxIterations = 3
INVARIANTS AcceptedIsSorted CycleIffDeadlock ReportsAreTheCycles ColumnsFollowDependencies
CHECK_DEADLOCK FALSE
