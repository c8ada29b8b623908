SPECIFICATION Spec
CONSTANTS
  Procs = {p1, p2}
  Inline <- TwoArrays
  OtherKinds = {}
  Names = {"a"}
  Bodies = {1, 2}
  Segments <- MCSegments
  Ids <- MCIds
  NoResource = NoResource
  PutMayFail = TRUE
SYMMETRY RequestsAreAlike
INVARIANTS
  LonePutMatches
PROPERTIES
  ListedChildrenStay
