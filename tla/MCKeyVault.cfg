SPECIFICATION Spec
CONSTANTS
  Procs = {p1, p2}
  Groups = {g1}
  Vaults = {"kv"}
  Names = {"key", "secret"}
  Keys = {"key"}
  Tags = {"t"}
  NoTags = NoTags
  MaxVersions = 2
  PutMayFail = TRUE
SYMMETRY RequestsAreAlike
INVARIANTS
  SweptIsEmpty
  HalfItemsAreRaces
PROPERTIES
  LatestNeverReverts
