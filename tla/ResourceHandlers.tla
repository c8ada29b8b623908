-------------------------- MODULE ResourceHandlers --------------------------
(***************************************************************************)
(* The handlers of the ARM facade that create, update and delete a stored  *)
(* resource: PUT of a top-level resource, PUT of a nested one, PATCH,      *)
(* DELETE, and the state API's reset and import.  net/http runs each       *)
(* request in a goroutine of its own; the store's mutex covers one Get,    *)
(* Put or Delete, never a whole handler, so requests interleave between    *)
(* the calls a handler makes.  There is one action per store call.         *)
(***************************************************************************)
EXTENDS MemoryStore

CONSTANTS Procs,      \* the requests being served at one time
          Fields,     \* the parts of a resource a PATCH can send
          Values,     \* what a part can hold
          Nested,     \* ids whose PUT checks the parent
          Rereads,    \* nested ids whose PUT reads the parent once more
          Patchable,  \* ids with a PATCH route
          Loads,      \* the states an import may carry or a reset leave
          PutMayFail  \* a FileStore: Put may fail after it changed the map

ASSUME HandlerAssumption ==
  /\ Bodies = [Fields -> Values]
  /\ Nested \subseteq Ids
  /\ \A id \in Nested : Len(id) > 1 /\ Front(id) \in Ids
  /\ Rereads \subseteq Nested
  /\ Patchable \subseteq Ids
  /\ Loads \subseteq Stores
  /\ PutMayFail \in BOOLEAN

VARIABLES
  resources,  \* the store
  pc,         \* the next store call of each request
  req,        \* the request being served
  existed,    \* what the handler's Get of the resource said
  seen,       \* the copy a PATCH read
  status,     \* the status code a request was last answered
  raced,      \* history: a delete at or above req.id landed meanwhile
  strays,     \* history: ids written by a raced request
  swept       \* history: deleted ids that no write could have refilled yet

vars == <<resources, pc, req, existed, seen, status, raced, strays, swept>>

Parent(id) == Front(id)

(* The parts of a resource a PATCH may send: any but none. *)
Sent == UNION {[F -> Values] : F \in SUBSET Fields \ {{}}}

(* "replace" is the state API: an import of a state, or the reset to the   *)
(* empty one.                                                              *)
Requests ==
  [op : {"put"}, id : Ids, body : Bodies]
    \cup [op : {"patch"}, id : Patchable, body : Sent]
    \cup [op : {"delete"}, id : Ids, body : {NoResource}]
    \cup [op : {"replace"}, id : {<<>>}, body : Loads]

NoRequest == [op |-> "none", id |-> <<>>, body |-> NoResource]

Statuses == {"none", "200", "201", "202", "400", "404", "500", "recovered"}

(* Mutant of FirstCall: no handler checks the parent. *)
FirstCallUnchecked(r) == IF r.op = "put" THEN "check" ELSE r.op

FirstCall(r) ==
  IF r.op = "put" THEN (IF r.id \in Nested THEN "parent" ELSE "check")
  ELSE r.op

Writes(r) == r.op \in {"put", "patch"}

Init ==
  /\ resources = NewMemoryStore
  /\ pc = [p \in Procs |-> "idle"]
  /\ req = [p \in Procs |-> NoRequest]
  /\ existed = [p \in Procs |-> FALSE]
  /\ seen = [p \in Procs |-> NoResource]
  /\ status = [p \in Procs |-> "none"]
  /\ raced = [p \in Procs |-> FALSE]
  /\ strays = {}
  /\ swept = {}

-----------------------------------------------------------------------------
Receive(p) ==
  /\ pc[p] = "idle"
  /\ \E r \in Requests :
       /\ req' = [req EXCEPT ![p] = r]
       /\ pc' = [pc EXCEPT ![p] = FirstCall(r)]
       /\ swept' = IF Writes(r) THEN {id \in swept : ~IsPrefix(id, r.id)}
                                ELSE swept
  /\ existed' = [existed EXCEPT ![p] = FALSE]
  /\ status' = [status EXCEPT ![p] = "none"]
  /\ raced' = [raced EXCEPT ![p] = FALSE]
  /\ UNCHANGED <<resources, seen, strays>>

Goto(p, from, to) == pc[p] = from /\ pc' = [pc EXCEPT ![p] = to]

Answer(p, code) ==
  /\ pc' = [pc EXCEPT ![p] = "idle"]
  /\ req' = [req EXCEPT ![p] = NoRequest]
  /\ status' = [status EXCEPT ![p] = code]

(* A body that does not decode or validate is refused.  A nested PUT looks *)
(* at its body after the parent check, a PATCH after reading the resource. *)
(* So is an import that does not decode.                                   *)
Refuse(p) ==
  /\ \/ pc[p] \in {"reread", "merge", "replace"}
     \/ pc[p] = "check" /\ req[p].id \notin Rereads
  /\ Answer(p, "400")
  /\ seen' = [seen EXCEPT ![p] = NoResource]
  /\ UNCHANGED <<resources, existed, raced, strays, swept>>

(* Mutant of CheckParent: the answer of the first Get is dropped. *)
CheckParentLoosely(p) ==
  /\ Goto(p, "parent", IF req[p].id \in Rereads THEN "reread" ELSE "check")
  /\ UNCHANGED <<resources, req, existed, seen, status, raced, strays, swept>>

(* Nested PUT: 404 ParentResourceNotFound when the parent is missing. *)
CheckParent(p) ==
  /\ pc[p] = "parent"
  /\ IF Has(resources, Parent(req[p].id))
     THEN /\ pc' = [pc EXCEPT ![p] =
                      IF req[p].id \in Rereads THEN "reread" ELSE "check"]
          /\ UNCHANGED <<req, status>>
     ELSE Answer(p, "404")
  /\ UNCHANGED <<resources, existed, seen, raced, strays, swept>>

(* The second Get of the parent, for its location, ignores the boolean: a  *)
(* parent deleted meanwhile is a nil dereference, and chi's Recoverer      *)
(* answers for the handler.                                                *)
RereadParent(p) ==
  /\ pc[p] = "reread"
  /\ IF Has(resources, Parent(req[p].id))
     THEN pc' = [pc EXCEPT ![p] = "check"] /\ UNCHANGED <<req, status>>
     ELSE Answer(p, "recovered")
  /\ UNCHANGED <<resources, existed, seen, raced, strays, swept>>

(* Mutant of CheckExists: the Get comes after the Put. *)
CheckExistsLate(p) ==
  /\ Goto(p, "check", "store")
  /\ existed' = [existed EXCEPT ![p] = TRUE]
  /\ UNCHANGED <<resources, req, seen, status, raced, strays, swept>>

CheckExists(p) ==
  /\ Goto(p, "check", "store")
  /\ existed' = [existed EXCEPT ![p] = Has(resources, req[p].id)]
  /\ UNCHANGED <<resources, req, seen, status, raced, strays, swept>>

(* What a write of request p does to the history. *)
NoteWrite(p) ==
  /\ strays' = IF raced[p] THEN strays \cup {req[p].id} ELSE strays
  /\ UNCHANGED <<raced, swept>>

StoreResource(p) ==
  /\ pc[p] = "store"
  /\ resources' = Put(resources, req[p].id, req[p].body)
  /\ \/ Answer(p, IF existed[p] THEN "200" ELSE "201")
     \/ PutMayFail /\ Answer(p, "500")
  /\ existed' = [existed EXCEPT ![p] = FALSE]
  /\ NoteWrite(p)
  /\ UNCHANGED seen

-----------------------------------------------------------------------------
ReadForPatch(p) ==
  /\ pc[p] = "patch"
  /\ IF Has(resources, req[p].id)
     THEN /\ pc' = [pc EXCEPT ![p] = "merge"]
          /\ seen' = [seen EXCEPT ![p] = resources[req[p].id]]
          /\ UNCHANGED <<req, status>>
     ELSE Answer(p, "404") /\ UNCHANGED seen
  /\ UNCHANGED <<resources, existed, raced, strays, swept>>

(* Mutants of Merged: the request replaces the body, with the zero value   *)
(* in what it does not send, or with nothing at all there.                 *)
Overlaid(body, sent) ==
  [f \in Fields |-> IF f \in DOMAIN sent THEN sent[f] ELSE CHOOSE v \in Values : TRUE]
SentOnly(body, sent) == sent

Merged(body, sent) ==
  [f \in Fields |-> IF f \in DOMAIN sent THEN sent[f] ELSE body[f]]

StorePatch(p) ==
  /\ pc[p] = "merge"
  /\ resources' = Put(resources, req[p].id, Merged(seen[p], req[p].body))
  /\ \/ Answer(p, "200")
     \/ PutMayFail /\ Answer(p, "500")
  /\ seen' = [seen EXCEPT ![p] = NoResource]
  /\ NoteWrite(p)
  /\ UNCHANGED existed

-----------------------------------------------------------------------------
InFlight(p) == pc[p] # "idle" /\ Writes(req[p])

(* store.Delete and the answer: 202 when anything was removed, else 404.   *)
DeleteResource(p) ==
  /\ pc[p] = "delete"
  /\ LET id == req[p].id IN
       /\ resources' = Delete(resources, id)
       /\ Answer(p, IF Deleted(resources, id) THEN "202" ELSE "404")
       /\ raced' = [q \in Procs |-> raced[q] \/ IsPrefix(id, req[q].id)]
       /\ strays' = strays \ Covered(id)
       /\ swept' = IF \E q \in Procs : InFlight(q) /\ IsPrefix(id, req[q].id)
                   THEN swept ELSE swept \cup {id}
  /\ UNCHANGED <<existed, seen>>

(* POST /api/state/import and /reset replace the map under every request.  *)
(* An import that cannot be persisted is answered 400, and stands.         *)
ReplaceState(p) ==
  /\ pc[p] = "replace"
  /\ LET s == req[p].body IN
       /\ resources' = s
       /\ strays' = {id \in Nested : Has(s, id) /\ ~Has(s, Parent(id))}
  /\ Answer(p, "200") \/ (PutMayFail /\ Answer(p, "400"))
  /\ raced' = [q \in Procs |-> TRUE]
  /\ swept' = {}
  /\ UNCHANGED <<existed, seen>>

Next ==
  \E p \in Procs :
    \/ Receive(p) \/ Refuse(p)
    \/ CheckParent(p) \/ RereadParent(p) \/ CheckExists(p)
    \/ StoreResource(p)
    \/ ReadForPatch(p) \/ StorePatch(p)
    \/ DeleteResource(p)
    \/ ReplaceState(p)

Spec == Init /\ [][Next]_vars

-----------------------------------------------------------------------------
TypeOK ==
  /\ resources \in Stores
  /\ pc \in [Procs -> {"idle", "parent", "reread", "check", "store", "patch",
                       "merge", "delete", "replace"}]
  /\ req \in [Procs -> Requests \cup {NoRequest}]
  /\ existed \in [Procs -> BOOLEAN]
  /\ seen \in [Procs -> Bodies \cup {NoResource}]
  /\ status \in [Procs -> Statuses]
  /\ raced \in [Procs -> BOOLEAN]
  /\ strays \in SUBSET Ids
  /\ swept \in SUBSET Ids

(* An orphan, a nested resource without its parent, comes from one thing   *)
(* only: a write that a DELETE of the id or of an ancestor overtook.  No   *)
(* other order of requests makes one.                                      *)
OrphansAreStrays ==
  \A id \in Nested :
    Has(resources, id) /\ ~Has(resources, Parent(id)) => id \in strays

(* A DELETE answered 202 or 404 leaves nothing at or below the id, orphans *)
(* of earlier races included, until a write there is received again.       *)
SweptIsEmpty == \A id \in swept : \A k \in Covered(id) : ~Has(resources, k)

(* A handler panics only when a delete or a state replacement overtook it. *)
OnlyRacesPanic == \A p \in Procs : status[p] = "recovered" => raced[p]

(* arm-fidelity.md: "201 Created on first write, 200 OK on update".        *)
StatusIsExact ==
  [][\A p \in Procs :
       pc[p] = "store" /\ status'[p] \in {"200", "201"} =>
         (status'[p] = "201") = ~Has(resources, req[p].id)]_vars

(* patch.go: "Keys absent from the request keep their stored values. Only  *)
(* what is sent is changed."                                               *)
PatchTouchesOnlySent ==
  [][\A p \in Procs :
       pc[p] = "merge" /\ status'[p] = "200" /\ Has(resources, req[p].id) =>
         \A f \in Fields \ DOMAIN req[p].body :
           resources'[req[p].id][f] = resources[req[p].id][f]]_vars

(* One request at a time, the handlers implement the tree that the facade  *)
(* promises: each one takes effect in its last store call.                 *)
Tree == INSTANCE ResourceTree WITH tree <- resources, Snapshots <- Loads

ImplementsTree == Tree!Spec
=============================================================================
