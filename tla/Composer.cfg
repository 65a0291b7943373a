SPECIFICATION Spec
CONSTANTS
  r1 = r1
  r2 = r2
  Runs <- MCRuns
  CompositeNames = {"greet-report", "agent", "nested"}
  Shapes <- MCShapes
  Capabilities = {"greet", "text_stats"}
  Builtin <- MCBuiltin
  Library <- MCLibrary
  Documents <- MCDocuments
  MaxPublishes = 1
INVARIANTS TypeOK DataFlowsAsComposed AllOrNothing EveryStepCounted ListingIsComplete
  SelfContainedResolves ClientsReportFailure
PROPERTY EveryRunEnds
CHECK_DEADLOCK FALSE
