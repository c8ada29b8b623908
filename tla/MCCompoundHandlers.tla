------------------------- MODULE MCCompoundHandlers -------------------------
(* Instances of CompoundHandlers for TLC: a zone, and accounts of one name *)
(* in two resource groups, each with a container.                          *)
EXTENDS CompoundHandlers

Zone == <<"rg1", "zone">>
Account(g) == <<g, "account">>

MCGroups == {<<"rg1">>}
MCZones == {Zone}
MCAccounts == {Account("rg1"), Account("rg2")}
MCContainers == {Append(a, "container") : a \in MCAccounts}

MCSegments == {"rg1", "rg2", "zone", "account", "container", "SOA", "NS"}
MCIds == MCGroups \cup MCZones \cup MCAccounts \cup Children

(* Zones and accounts share no id, and the group's DELETE treats each id   *)
(* alone: the behaviours of either are enough, and far fewer than of both. *)
Held == {k \in Ids : Has(resources, k)} \cup {req[p].id : p \in Busy}
          \cup strays \cup unseeded \cup doubtful
OneFamily ==
  \/ Held \cap (Zones \cup RecordSets) = {}
  \/ Held \cap (Accounts \cup Containers) = {}

RequestsAreAlike == Permutations(Procs)
=============================================================================
