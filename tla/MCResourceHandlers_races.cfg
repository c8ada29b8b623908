SPECIFICATION Spec
CONSTANTS
  Procs = {p1, p2, p3}
  Fields = {"tags"}
  Values = {1}
  Segments <- MCSegments
  Ids <- MCNoGroup
  Nested <- MCNested
  Rereads <- MCRereads
  Loads <- AnyLoads
  Bodies <- MCBodies
  Patchable <- MCPatchable
  NoResource = NoResource
  PutMayFail = TRUE
SYMMETRY RequestsAreAlike
INVARIANTS
  OrphansAreStrays
  SweptIsEmpty
  OnlyRacesPanic
