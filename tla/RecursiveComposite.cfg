SPECIFICATION Spec
CONSTANTS
  r1 = r1
  r2 = r2
  Runs = {r1}
  CompositeNames = {"greet-report", "agent", "nested"}
  Shapes <- MCShapes
  Capabilities = {"greet", "text_stats"}
  Builtin <- MCBuiltin
  Library <- MCLibrary
  Documents <- MCDocuments
  MaxPublishes = 1
PROPERTY StepMayTargetComposite
CHECK_DEADLOCK FALSE
