CONSTANTS
  leaf = leaf
  left = left
  right = right
  mid = mid
  top = top
  Names = {root}
  Handles = {h1, h2}
  None = None
  Ids = {leaf, left}
  Times <- PairTimes
  QueueLength = 1
  MaxApiRefs = 1
  KeepsMetadata = TRUE
  ClearsNames = FALSE
  StoreStatuses = {"normal"}
  Crashes = FALSE
SPECIFICATION Spec
SYMMETRY HandleSymmetry
INVARIANTS RefCountExact StorageRefCountExact NothingUnsnapshotted
PROPERTIES DeletedUnreferenced
