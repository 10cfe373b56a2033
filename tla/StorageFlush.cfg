CONSTANTS
  leaf = leaf
  left = left
  right = right
  mid = mid
  top = top
  Names = {root}
  Handles = {h1, h2}
  None = None
  Ids = {leaf, left}
  Times <- PairTimes
  QueueLength = 1
  MaxApiRefs = 0
  KeepsMetadata = TRUE
  ClearsNames = FALSE
  StoreStatuses = {"normal"}
  Crashes = FALSE
SPECIFICATION FairSpec
INVARIANTS NoTransients
PROPERTIES FlushTerminates
