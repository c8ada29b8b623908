---------------------------- MODULE ResourceTree ----------------------------
(***************************************************************************)
(* What the ARM facade promises a client: a tree of resources on which     *)
(* every request takes effect at once.  A nested resource is created only  *)
(* under its parent, an update changes only what exists, and a delete      *)
(* takes the whole subtree with it.                                        *)
(***************************************************************************)
EXTENDS MemoryStore

CONSTANTS Nested,     \* the ids whose PUT requires the parent to exist
          Snapshots   \* the states that may be loaded over the tree

VARIABLE tree

Parent(id) == Front(id)

Init == tree = NewMemoryStore

Upsert(id, body) ==
  /\ id \in Nested => Has(tree, Parent(id))
  /\ tree' = Put(tree, id, body)

Update(id, body) ==
  /\ Has(tree, id)
  /\ tree' = Put(tree, id, body)

RemoveSubtree(id) == tree' = Delete(tree, id)

Restore == tree' \in Snapshots \cup {NewMemoryStore}

Next ==
  \/ \E id \in Ids :
       \/ \E b \in Bodies : Upsert(id, b) \/ Update(id, b)
       \/ RemoveSubtree(id)
  \/ Restore

Spec == Init /\ [][Next]_tree
=============================================================================
