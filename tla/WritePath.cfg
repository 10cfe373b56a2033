SPECIFICATION FairSpec
CONSTANTS
  j1 = j1
  j2 = j2
  flusher = flusher
  fsyncer = fsyncer
  rooter = rooter
  setter = setter
  reader = reader
  None = None
  Procs <- AllProcs
  Callers = {1, 2}
  Jobs = {j1, j2}
  Flusher = flusher
  Fsyncer = fsyncer
  Rooter = rooter
  Setter = setter
  Reader = reader
  LimitTotal = 2
  LastExtent = 1
  EmbeddedSize = 1
  DataExtentSize = 2
  Scenarios <- WriteScenarios
INVARIANTS TypeOK UnlockedExtentsCommitted QuiescentContents NoDanglingExtent ReadYourWrites
PROPERTIES ImplementsStore  EventuallyDurable
CHECK_DEADLOCK FALSE
