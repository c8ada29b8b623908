SPECIFICATION Spec
CONSTANTS
  Procs = {p1, p2}
  Groups <- MCGroups
  Zones <- MCZones
  Accounts <- MCAccounts
  Containers <- MCContainers
  Seed = Seed
  User = User
  Bodies = {Seed, User}
  Segments <- MCSegments
  Ids <- MCIds
  NoResource = NoResource
  PutMayFail = TRUE
CONSTRAINT OneFamily
SYMMETRY RequestsAreAlike
INVARIANTS
  ZonesAreSeeded
  DuplicatesAreRaces
PROPERTIES
  SeedsKeepRecords
  DeletesTakeTheirOwn
