SPECIFICATION Spec
CONSTANTS
  NodeMaximumSize = 16
  InnerSize = 3
  MaximumTreeDepth = 4
  PrefixSpan = 4
  None = None
  Keys <- MCKeys
  Values <- MCValues
  Builds <- MCBuilds
  MaxOps = 3
INVARIANTS HoldsEntries ShapeKept ReadsRight DeltaExact
CHECK_DEADLOCK FALSE
