SPECIFICATION Spec
CONSTANTS
  MaxEvents = 3
  ZeroReplicas = {2}
  MayBreak = {3}
INVARIANTS TypeOK ObservedIsApplied
PROPERTIES NeverRollsBack ServesThroughRollout Converges ComesToRest
CHECK_DEADLOCK FALSE
