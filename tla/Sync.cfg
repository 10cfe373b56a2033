SPECIFICATION Spec
CONSTANTS
  DataExtentSize = 1
  Left = Left
  Right = Right
  Servers = {Left, Right}
  Inodes = {2, 3}
  Faults = TRUE
  MaxCost = 5
SYMMETRY Symmetry
INVARIANTS OtherComplete QuietFilesKept QuietConverges
CHECK_DEADLOCK FALSE
