SPECIFICATION Spec
CONSTANTS
  Procs = {p1}
  Inodes = {i1,i2}
  NoInode = NoInode
  Segments <- MCSegments
  Ids <- MCIds
  Bodies = {b1}
  NoResource = NoResource
  Imports <- MCImports
  Blank = Blank
  Torn = Torn
  DiskMayFail = TRUE
  MaxCrashes = 2
CHECK_DEADLOCK FALSE
INVARIANTS
  Loadable
  QuietIsSaved
PROPERTY
  ImplementsDurableMap
