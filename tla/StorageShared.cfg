CONSTANTS
  leaf = leaf
  left = left
  right = right
  mid = mid
  top = top
  Names = {root}
  Handles = {h1, h2}
  None = None
  Ids = {leaf, left, right}
  Times <- SharedTimes
  QueueLength = 2
  MaxApiRefs = 0
  KeepsMetadata = TRUE
  ClearsNames = FALSE
  StoreStatuses = {"normal"}
  Crashes = TRUE
SPECIFICATION Spec
SYMMETRY SharedSymmetry
INVARIANTS TypeOK NoPanic RefCountExact DependenciesExist ConsistentAtFlush
