SPECIFICATION FairSpec
CONSTANTS
  DataExtentSize = 2
  EmbeddedSize = 1
  Users = {u1, u2}
  NewInos = {5, 6}
  None = None
  Scripts <- MCScripts
  FirstTree <- MCTree
INVARIANTS NamesPaired NoDanglingName OpenFilesKept  ListingComplete
 
CHECK_DEADLOCK FALSE
