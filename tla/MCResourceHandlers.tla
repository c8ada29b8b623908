------------------------- MODULE MCResourceHandlers -------------------------
(* A resource group, a resource in it with nested resources, for TLC: a    *)
(* CDN profile and its Front Door endpoint, which PATCH can update, and a  *)
(* nested resource whose PUT reads its parent twice.                       *)
EXTENDS ResourceHandlers

Group == <<"rg">>
Profile == <<"rg", "profile">>
Endpoint == <<"rg", "profile", "endpoint">>
Rule == <<"rg", "profile", "rule">>

MCSegments == {"rg", "profile", "endpoint", "rule"}
MCIds == {Group, Profile, Endpoint, Rule}
MCNoGroup == MCIds \ {Group}
MCNested == {Endpoint, Rule}
MCRereads == {Rule}

MCBodies == [Fields -> Values]
MCPatchable == {Profile, Endpoint}

AnyBody == CHOOSE b \in MCBodies : TRUE
Holding(S) == [k \in Ids |-> IF k \in S THEN AnyBody ELSE NoResource]

(* What a reset leaves, a whole tree, and one without its parent, which    *)
(* Import accepts.                                                         *)
WholeLoads == {NewMemoryStore, Holding(Ids)}
AnyLoads == WholeLoads \cup {Holding(Nested)}

RequestsAreAlike == Permutations(Procs)
=============================================================================
