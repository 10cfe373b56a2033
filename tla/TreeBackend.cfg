SPECIFICATION Spec
CONSTANTS
  blockSize = 2
  superBlockSize = 4
  FirstSuperblock = 20
  NodeSize = 1
  PendingSize = 5
  MaxInline = 8
  x = x
  y = y
  Ids <- MCIds
  Sizes = {1, 3}
  MaxTotal = 30
  MaxOps = 4
  MaxCrashes = 1
  MaxGeneration = 3
  None = None
SYMMETRY MCSymmetry
INVARIANTS SpaceDisjoint  BlocksReadable CrashSafe
CHECK_DEADLOCK FALSE
