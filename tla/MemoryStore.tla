---------------------------- MODULE MemoryStore ----------------------------
(***************************************************************************)
(* The in-memory resource store of internal/store/memory.go: one map from  *)
(* a resource id to a resource, every operation of which runs under one    *)
(* mutex and is therefore a function from a map to a map.  The modules     *)
(* that hold such a map in a variable apply these operators to it, one     *)
(* operator application per locked section of the code.                    *)
(*                                                                         *)
(* An id is the sequence of the segments of its path, so that the code's   *)
(* "k has the prefix id + '/'" is "id is a strict prefix of k".            *)
(***************************************************************************)
EXTENDS Naturals, Sequences, FiniteSets, SequencesExt

CONSTANTS Segments,    \* names and type literals a path is made of
          Ids,         \* the resource ids the requests can name
          Bodies,      \* what a resource holds, as far as it is told apart
          NoResource   \* the value of an id that is not in the map

ASSUME StoreAssumption ==
  /\ Ids \subseteq Seq(Segments)
  /\ NoResource \notin Bodies

Stores == [Ids -> Bodies \cup {NoResource}]

NewMemoryStore == [k \in Ids |-> NoResource]

Has(s, id) == s[id] # NoResource

(* Put overwrites whatever the id held. *)
Put(s, id, body) == [s EXCEPT ![id] = body]

(* Every id Delete(id) removes: id itself and all that lies below it. *)
Covered(id) == {k \in Ids : IsPrefix(id, k)}

(* Two mutants of Delete: one without the cascade, one that looks the id   *)
(* up first and leaves what lies below a missing id alone.                 *)
DeleteExact(s, id) == [s EXCEPT ![id] = NoResource]
DeleteFound(s, id) ==
  IF Has(s, id) THEN [k \in Ids |-> IF k \in Covered(id) THEN NoResource ELSE s[k]]
                ELSE s

Delete(s, id) == [k \in Ids |-> IF k \in Covered(id) THEN NoResource ELSE s[k]]

(* The boolean Delete returns: whether the loop removed anything. *)
Deleted(s, id) == \E k \in Covered(id) : Has(s, k)

(* The ids of what List(id + "/") returns. *)
ListBelow(s, id) == {k \in Covered(id) \ {id} : Has(s, k)}
=============================================================================
