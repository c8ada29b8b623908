SPECIFICATION Spec
CONSTANTS
  Procs = {p1, p2}
  Paths <- MCPaths
  Sent <- MCSent
  Edits <- MCEdits
  HostHeaders <- MCHostHeaders
  BlobPaths <- MCBlobPaths
  OriginHosts <- MCOriginHosts
  GroupRefs <- MCGroupRefs
  Lower <- MCLower
  Rank <- MCRank
  Loaded <- MCLoaded
  MaxChanges = 2
  Segments <- MCSegments
  Ids <- MCIds
  Bodies <- MCBodies
  NoResource = NoResource
CONSTRAINT OneContentRequest
SYMMETRY RequestsAreAlike
INVARIANT TypeOK
PROPERTIES
  AnswersWereRight
  OnlyTiesVary
