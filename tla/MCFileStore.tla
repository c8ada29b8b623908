---------------------------- MODULE MCFileStore ----------------------------
(* Instances of FileStore for TLC: a resource group and a resource in it. *)
EXTENDS FileStore

MCIds == {<<"rg">>, <<"rg", "vnet">>}
MCSegments == {"rg", "vnet"}

(* One state to import: a child without its parent, which Import accepts. *)
MCImports == {[k \in MCIds |-> IF k = <<"rg">> THEN NoResource
                                ELSE CHOOSE b \in Bodies : TRUE]}

Alike == Permutations(Inodes) \cup Permutations(Procs)
=============================================================================
