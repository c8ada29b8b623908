SPECIFICATION Spec
CONSTANTS
  Procs = {p1,p2}
  Inodes = {i1,i2,i3}
  NoInode = NoInode
  Segments <- MCSegments
  Ids <- MCIds
  Bodies = {b1}
  NoResource = NoResource
  Imports <- MCImports
  Blank = Blank
  Torn = Torn
  DiskMayFail = TRUE
  MaxCrashes = 1
CHECK_DEADLOCK FALSE
SYMMETRY Alike
INVARIANTS
  TypeOK
  RestartsToPast
  LonePersistIsExact
