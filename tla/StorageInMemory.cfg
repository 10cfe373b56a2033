CONSTANTS
  leaf = leaf
  left = left
  right = right
  mid = mid
  top = top
  Names = {root}
  Handles = {h1, h2}
  None = None
  Ids = {leaf, mid, top}
  Times <- ChainTimes
  QueueLength = 1
  MaxApiRefs = 0
  KeepsMetadata = FALSE
  ClearsNames = FALSE
  StoreStatuses = {"normal"}
  Crashes = FALSE
SPECIFICATION Spec
SYMMETRY HandleSymmetry
INVARIANTS BackendContract
