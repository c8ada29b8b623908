SPECIFICATION Spec
CONSTANTS
  Procs = {p1,p2}
  Inodes = {i1,i2,i3}
  NoInode = NoInode
  Segments <- MCSegments
  Ids <- MCIds
  Bodies = {b1}
  NoResource = NoResource
  Imports <- MCImports
  Blank = Blank
  Torn = Torn
  DiskMayFail = FALSE
  MaxCrashes = 0
CHECK_DEADLOCK FALSE
INVARIANT Loadable
