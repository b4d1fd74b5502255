SPECIFICATION FairSpec
CONSTANTS
  NumCommands = 3
  NumTemporaries = 2
  FlowGraphs <- SomeFlowGraphs
CHECK_DEADLOCK FALSE
INVARIANTS
  TypeOK
  AnalysisExact
  RangesExact
  MarksFollowPaths
PROPERTY
  Terminates
