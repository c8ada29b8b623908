SPECIFICATION Spec
CONSTANTS
  Procs = {p1}
  Fields = {"tags", "props"}
  Values = {1, 2}
  Segments <- MCSegments
  Ids <- MCIds
  Nested <- MCNested
  Rereads <- MCRereads
  Loads <- WholeLoads
  Bodies <- MCBodies
  Patchable <- MCPatchable
  NoResource = NoResource
  PutMayFail = TRUE
INVARIANT TypeOK
PROPERTIES
  ImplementsTree
  StatusIsExact
  PatchTouchesOnlySent
