----------------------- MODULE ResourceHandlersProofs -----------------------
(***************************************************************************)
(* Proofs about ResourceHandlers, for any number of requests and any ids,  *)
(* bodies and importable states; the last section is about requests that   *)
(* are served one at a time.                                               *)
(***************************************************************************)
EXTENDS ResourceHandlers, TLAPS

(* What lies below the parent of an id lies below the id's ancestors. *)
LEMMA PrefixOfParent ==
  ASSUME NEW id \in Ids, NEW k \in Nested, IsPrefix(id, Parent(k))
  PROVE  IsPrefix(id, k)
<1>1. id \in Seq(Segments) /\ k \in Seq(Segments) /\ Len(k) > 1
  BY StoreAssumption, HandlerAssumption
<1>2. Len(Parent(k)) = Len(k) - 1 /\ Len(id) <= Len(k) - 1
  BY <1>1 DEF Parent, Front, IsPrefix
<1>3. \A i \in 1..Len(id) : id[i] = k[i]
  BY <1>1, <1>2 DEF Parent, Front, IsPrefix
<1>. QED
  BY <1>1, <1>2, <1>3 DEF IsPrefix

LEMMA ParentIsId == ASSUME NEW k \in Nested PROVE k \in Ids /\ Parent(k) \in Ids
BY HandlerAssumption DEF Parent

LEMMA EmptyIsStore == NewMemoryStore \in Stores
BY DEF NewMemoryStore, Stores

(* What the requests are, field by field. *)
LEMMA RequestForms ==
  ASSUME NEW r \in Requests
  PROVE  \/ r.op = "put" /\ r.id \in Ids /\ r.body \in Bodies
         \/ r.op = "patch" /\ r.id \in Patchable /\ r.id \in Ids /\ r.body \in Sent
         \/ r.op = "delete" /\ r.id \in Ids
         \/ r.op = "replace" /\ r.id = <<>> /\ r.body \in Loads
BY HandlerAssumption DEF Requests

LEMMA MergedIsBody ==
  ASSUME NEW b \in Bodies, NEW sent \in Sent
  PROVE  Merged(b, sent) \in Bodies
<1>1. PICK F \in SUBSET Fields : sent \in [F -> Values]
  BY DEF Sent
<1>2. b \in [Fields -> Values]
  BY HandlerAssumption
<1>. QED
  BY <1>1, <1>2, HandlerAssumption DEF Merged

-----------------------------------------------------------------------------
(* A request is at a store call of its own operation. *)
InStep ==
  \A p \in Procs :
    /\ pc[p] = "idle" <=> req[p] = NoRequest
    /\ pc[p] \in {"parent", "reread", "check", "store"} => req[p].op = "put"
    /\ pc[p] \in {"parent", "reread"} => req[p].id \in Nested
    /\ pc[p] \in {"patch", "merge"} => req[p].op = "patch"
    /\ pc[p] = "merge" => seen[p] \in Bodies
    /\ pc[p] = "delete" => req[p].op = "delete"
    /\ pc[p] = "replace" => req[p].op = "replace"

LEMMA InitTypeOK == Init => TypeOK /\ InStep
BY EmptyIsStore DEF Init, TypeOK, InStep, Statuses

LEMMA NextTypeOK == TypeOK /\ InStep /\ [Next]_vars => TypeOK' /\ InStep'
<1> SUFFICES ASSUME TypeOK, InStep, [Next]_vars PROVE TypeOK' /\ InStep'
  OBVIOUS
<1> USE DEF TypeOK, InStep, Statuses
<1>0. \A r \in Requests : r # NoRequest
  BY DEF Requests, NoRequest
<1>1. ASSUME NEW p \in Procs, Receive(p) PROVE TypeOK' /\ InStep'
  <2>1. PICK r \in Requests :
          /\ req' = [req EXCEPT ![p] = r]
          /\ pc' = [pc EXCEPT ![p] = FirstCall(r)]
          /\ swept' = IF Writes(r) THEN {id \in swept : ~IsPrefix(id, r.id)}
                                   ELSE swept
    BY <1>1 DEF Receive
  <2>2. FirstCall(r) \in {"parent", "check", "patch", "delete", "replace"}
    BY RequestForms DEF FirstCall
  <2>3. /\ FirstCall(r) \in {"parent", "check"} => r.op = "put"
        /\ FirstCall(r) = "parent" => r.id \in Nested
        /\ FirstCall(r) \in {"patch", "delete", "replace"} => r.op = FirstCall(r)
    BY RequestForms DEF FirstCall
  <2>. QED
    BY <1>0, <1>1, <2>1, <2>2, <2>3 DEF Receive
<1>2. ASSUME NEW p \in Procs, Refuse(p) PROVE TypeOK' /\ InStep'
  BY <1>0, <1>2 DEF Refuse, Answer
<1>3. ASSUME NEW p \in Procs, CheckParent(p) PROVE TypeOK' /\ InStep'
  BY <1>0, <1>3 DEF CheckParent, Answer
<1>4. ASSUME NEW p \in Procs, RereadParent(p) PROVE TypeOK' /\ InStep'
  BY <1>0, <1>4 DEF RereadParent, Answer
<1>5. ASSUME NEW p \in Procs, CheckExists(p) PROVE TypeOK' /\ InStep'
  BY <1>0, <1>5 DEF CheckExists, Goto, Has
<1>6. ASSUME NEW p \in Procs, StoreResource(p) PROVE TypeOK' /\ InStep'
  <2>1. req[p].id \in Ids /\ req[p].body \in Bodies
    BY <1>6, RequestForms DEF StoreResource
  <2>2. resources' \in Stores
    BY <1>6, <2>1 DEF StoreResource, Put, Stores
  <2>. QED
    BY <1>0, <1>6, <2>1, <2>2 DEF StoreResource, Answer, NoteWrite
<1>7. ASSUME NEW p \in Procs, ReadForPatch(p) PROVE TypeOK' /\ InStep'
  <2>1. req[p].id \in Ids
    BY <1>7, RequestForms DEF ReadForPatch
  <2>2. Has(resources, req[p].id) => resources[req[p].id] \in Bodies
    BY <2>1 DEF Has, Stores
  <2>. QED
    BY <1>0, <1>7, <2>2 DEF ReadForPatch, Answer
<1>8. ASSUME NEW p \in Procs, StorePatch(p) PROVE TypeOK' /\ InStep'
  <2>1. req[p].id \in Ids /\ req[p].body \in Sent
    BY <1>8, RequestForms DEF StorePatch
  <2>2. resources' \in Stores
    BY <1>8, <2>1, MergedIsBody DEF StorePatch, Put, Stores
  <2>. QED
    BY <1>0, <1>8, <2>1, <2>2 DEF StorePatch, Answer, NoteWrite
<1>9. ASSUME NEW p \in Procs, DeleteResource(p) PROVE TypeOK' /\ InStep'
  <2>1. req[p].id \in Ids
    BY <1>9, RequestForms DEF DeleteResource
  <2>2. resources' \in Stores
    BY <1>9 DEF DeleteResource, Delete, Stores
  <2>. QED
    BY <1>0, <1>9, <2>1, <2>2 DEF DeleteResource, Answer
<1>10. ASSUME NEW p \in Procs, ReplaceState(p) PROVE TypeOK' /\ InStep'
  <2>1. req[p].body \in Stores
    BY <1>10, RequestForms, HandlerAssumption DEF ReplaceState
  <2>. QED
    BY <1>0, <1>10, <2>1, HandlerAssumption DEF ReplaceState, Answer
<1>11. CASE UNCHANGED vars
  BY <1>11 DEF vars
<1>. QED
  BY <1>1, <1>2, <1>3, <1>4, <1>5, <1>6, <1>7, <1>8, <1>9, <1>10, <1>11 DEF Next

LEMMA InStepHolds == Spec => [](TypeOK /\ InStep)
BY InitTypeOK, NextTypeOK, PTL DEF Spec

(* Every variable keeps the type that the model gives it. *)
THEOREM TypeCorrect == Spec => []TypeOK
BY InStepHolds, PTL

-----------------------------------------------------------------------------
(* A request that no delete overtook still has what it checked: its parent *)
(* once the first Get has found it, and the resource a PATCH has read.     *)
NotOvertaken ==
  \A p \in Procs : ~raced[p] =>
    /\ pc[p] \in {"reread", "check", "store"} /\ req[p].id \in Nested =>
         Has(resources, Parent(req[p].id))
    /\ pc[p] = "merge" => Has(resources, req[p].id)

TreeInv == NotOvertaken /\ OrphansAreStrays

LEMMA InitTreeInv == Init => TreeInv
BY ParentIsId DEF Init, TreeInv, NotOvertaken, OrphansAreStrays, NewMemoryStore, Has

(* A write only adds to what the store holds. *)
LEMMA PutKeeps ==
  ASSUME resources \in Stores, NEW id \in Ids, NEW b \in Bodies,
         resources' = Put(resources, id, b)
  PROVE  \A k \in Ids : Has(resources', k) <=> (k = id \/ Has(resources, k))
BY StoreAssumption DEF Put, Has, Stores

LEMMA NextTreeInv ==
  TypeOK /\ InStep /\ TreeInv /\ [Next]_vars => TreeInv'
<1> SUFFICES ASSUME TypeOK, InStep, TreeInv, [Next]_vars PROVE TreeInv'
  OBVIOUS
<1> USE DEF TypeOK, InStep, TreeInv, NotOvertaken
<1>1. ASSUME NEW p \in Procs, Receive(p) PROVE TreeInv'
  <2>1. PICK r \in Requests :
          /\ req' = [req EXCEPT ![p] = r]
          /\ pc' = [pc EXCEPT ![p] = FirstCall(r)]
    BY <1>1 DEF Receive
  <2>2. /\ FirstCall(r) \notin {"reread", "store", "merge"}
        /\ FirstCall(r) = "check" => r.id \notin Nested
    BY RequestForms DEF FirstCall
  <2>. QED
    BY <1>1, <2>1, <2>2 DEF Receive, OrphansAreStrays
<1>2. ASSUME NEW p \in Procs, Refuse(p) PROVE TreeInv'
  BY <1>2 DEF Refuse, Answer, OrphansAreStrays
<1>3. ASSUME NEW p \in Procs, CheckParent(p) PROVE TreeInv'
  BY <1>3 DEF CheckParent, Answer, OrphansAreStrays
<1>4. ASSUME NEW p \in Procs, RereadParent(p) PROVE TreeInv'
  BY <1>4 DEF RereadParent, Answer, OrphansAreStrays
<1>5. ASSUME NEW p \in Procs, CheckExists(p) PROVE TreeInv'
  BY <1>5 DEF CheckExists, Goto, OrphansAreStrays
<1>6. ASSUME NEW p \in Procs, StoreResource(p) PROVE TreeInv'
  <2>1. req[p].id \in Ids /\ req[p].body \in Bodies
    BY <1>6, RequestForms DEF StoreResource
  <2>2. \A k \in Ids : Has(resources', k) <=> (k = req[p].id \/ Has(resources, k))
    BY <1>6, <2>1, PutKeeps DEF StoreResource
  <2>3. \A q \in Procs : req[q].id \in Nested => Parent(req[q].id) \in Ids
    BY ParentIsId
  <2>4. \A q \in Procs : pc[q] = "merge" => req[q].id \in Ids
    BY RequestForms
  <2>5. NotOvertaken'
    BY <1>6, <2>2, <2>3, <2>4 DEF StoreResource, Answer, NoteWrite
  <2>6. OrphansAreStrays'
    BY <1>6, <2>2, ParentIsId DEF StoreResource, NoteWrite, OrphansAreStrays
  <2>. QED
    BY <2>5, <2>6
<1>7. ASSUME NEW p \in Procs, ReadForPatch(p) PROVE TreeInv'
  BY <1>7 DEF ReadForPatch, Answer, OrphansAreStrays
<1>8. ASSUME NEW p \in Procs, StorePatch(p) PROVE TreeInv'
  <2>1. req[p].id \in Ids /\ Merged(seen[p], req[p].body) \in Bodies
    BY <1>8, RequestForms, MergedIsBody DEF StorePatch
  <2>2. \A k \in Ids : Has(resources', k) <=> (k = req[p].id \/ Has(resources, k))
    BY <1>8, <2>1, PutKeeps DEF StorePatch
  <2>3. \A q \in Procs : req[q].id \in Nested => Parent(req[q].id) \in Ids
    BY ParentIsId
  <2>4. \A q \in Procs : pc[q] = "merge" => req[q].id \in Ids
    BY RequestForms
  <2>5. NotOvertaken'
    BY <1>8, <2>2, <2>3, <2>4 DEF StorePatch, Answer, NoteWrite
  <2>6. OrphansAreStrays'
    BY <1>8, <2>2, ParentIsId DEF StorePatch, NoteWrite, OrphansAreStrays
  <2>. QED
    BY <2>5, <2>6
<1>9. ASSUME NEW p \in Procs, DeleteResource(p) PROVE TreeInv'
  <2> DEFINE id == req[p].id
  <2>1. id \in Ids
    BY <1>9, RequestForms DEF DeleteResource
  <2>2. \A k \in Ids : Has(resources', k) <=> Has(resources, k) /\ ~IsPrefix(id, k)
    BY <1>9 DEF DeleteResource, Delete, Covered, Has, Stores
  <2>3. \A q \in Procs : raced'[q] = (raced[q] \/ IsPrefix(id, req[q].id))
    BY <1>9 DEF DeleteResource
  <2>4. \A k \in Nested : IsPrefix(id, Parent(k)) => IsPrefix(id, k)
    BY <2>1, PrefixOfParent
  <2>5. \A q \in Procs : pc[q] = "merge" => req[q].id \in Ids
    BY RequestForms
  <2>6. NotOvertaken'
    BY <1>9, <2>2, <2>3, <2>4, <2>5, ParentIsId DEF DeleteResource, Answer
  <2>7. \A k \in Ids : k \in strays' <=> k \in strays /\ ~IsPrefix(id, k)
    BY <1>9 DEF DeleteResource, Covered
  <2>8. OrphansAreStrays'
    BY <2>2, <2>4, <2>7, ParentIsId DEF OrphansAreStrays
  <2>. QED
    BY <2>6, <2>8
<1>10. ASSUME NEW p \in Procs, ReplaceState(p) PROVE TreeInv'
  BY <1>10 DEF ReplaceState, Answer, OrphansAreStrays
<1>11. CASE UNCHANGED vars
  BY <1>11 DEF vars, OrphansAreStrays
<1>. QED
  BY <1>1, <1>2, <1>3, <1>4, <1>5, <1>6, <1>7, <1>8, <1>9, <1>10, <1>11 DEF Next

LEMMA TreeInvHolds == Spec => []TreeInv
BY InitTreeInv, NextTreeInv, InStepHolds, PTL DEF Spec

(* Whatever the interleaving, a nested resource without its parent was     *)
(* written by a request that a DELETE or a state replacement overtook.     *)
THEOREM OrphansAreStraysHolds == Spec => []OrphansAreStrays
BY TreeInvHolds, PTL DEF TreeInv

-----------------------------------------------------------------------------
(* No write under a swept id is in flight: it would have been overtaken by *)
(* the delete, which then did not count the id as swept.                   *)
SweptInv ==
  /\ \A id \in swept, p \in Procs : InFlight(p) => ~IsPrefix(id, req[p].id)
  /\ SweptIsEmpty

LEMMA InitSweptInv == Init => SweptInv
BY DEF Init, SweptInv, SweptIsEmpty

LEMMA NextSweptInv == TypeOK /\ InStep /\ SweptInv /\ [Next]_vars => SweptInv'
<1> SUFFICES ASSUME TypeOK, InStep, SweptInv, [Next]_vars PROVE SweptInv'
  OBVIOUS
<1> USE DEF TypeOK, InStep, SweptInv, SweptIsEmpty, InFlight, Writes
<1>1. ASSUME NEW p \in Procs, Receive(p) PROVE SweptInv'
  BY <1>1 DEF Receive, Covered
<1>2. ASSUME NEW p \in Procs, Refuse(p) PROVE SweptInv'
  BY <1>2 DEF Refuse, Answer
<1>3. ASSUME NEW p \in Procs, CheckParent(p) PROVE SweptInv'
  BY <1>3 DEF CheckParent, Answer
<1>4. ASSUME NEW p \in Procs, RereadParent(p) PROVE SweptInv'
  BY <1>4 DEF RereadParent, Answer
<1>5. ASSUME NEW p \in Procs, CheckExists(p) PROVE SweptInv'
  BY <1>5 DEF CheckExists, Goto
<1>6. ASSUME NEW p \in Procs, NEW b \in Bodies,
             pc[p] # "idle", Writes(req[p]), req[p].id \in Ids,
             resources' = Put(resources, req[p].id, b),
             Answer(p, status'[p]), NoteWrite(p)
      PROVE  SweptInv'
  <2>1. \A k \in Ids : Has(resources', k) <=> (k = req[p].id \/ Has(resources, k))
    BY <1>6, PutKeeps
  <2>2. \A id \in swept : ~IsPrefix(id, req[p].id)
    BY <1>6
  <2>. QED
    BY <1>6, <2>1, <2>2 DEF Answer, NoteWrite, Covered
<1>7. ASSUME NEW p \in Procs, StoreResource(p) PROVE SweptInv'
  <2>1. req[p].id \in Ids /\ req[p].body \in Bodies
    BY <1>7, RequestForms DEF StoreResource
  <2>. QED
    BY <1>6, <1>7, <2>1 DEF StoreResource, Answer
<1>8. ASSUME NEW p \in Procs, ReadForPatch(p) PROVE SweptInv'
  BY <1>8 DEF ReadForPatch, Answer
<1>9. ASSUME NEW p \in Procs, StorePatch(p) PROVE SweptInv'
  <2>1. req[p].id \in Ids /\ Merged(seen[p], req[p].body) \in Bodies
    BY <1>9, RequestForms, MergedIsBody DEF StorePatch
  <2>. QED
    BY <1>6, <1>9, <2>1 DEF StorePatch, Answer
<1>10. ASSUME NEW p \in Procs, DeleteResource(p) PROVE SweptInv'
  <2>1. \A k \in Ids : Has(resources', k) <=>
                         Has(resources, k) /\ ~IsPrefix(req[p].id, k)
    BY <1>10 DEF DeleteResource, Delete, Covered, Has, Stores
  <2>. QED
    BY <1>10, <2>1 DEF DeleteResource, Answer, Covered
<1>11. ASSUME NEW p \in Procs, ReplaceState(p) PROVE SweptInv'
  BY <1>11 DEF ReplaceState, Answer
<1>12. CASE UNCHANGED vars
  BY <1>12 DEF vars, Covered
<1>. QED
  BY <1>1, <1>2, <1>3, <1>4, <1>5, <1>7, <1>8, <1>9, <1>10, <1>11, <1>12 DEF Next

(* After a DELETE has answered nothing is left at or below its id, orphans *)
(* of earlier races included, until the next write there is received.      *)
THEOREM SweptIsEmptyHolds == Spec => []SweptIsEmpty
<1>1. SweptInv => SweptIsEmpty
  BY DEF SweptInv
<1>. QED
  BY <1>1, InitSweptInv, NextSweptInv, InStepHolds, PTL DEF Spec

-----------------------------------------------------------------------------
LEMMA InitOnlyRacesPanic == Init => OnlyRacesPanic
BY DEF Init, OnlyRacesPanic

LEMMA NextOnlyRacesPanic ==
  TypeOK /\ InStep /\ TreeInv /\ OnlyRacesPanic /\ [Next]_vars => OnlyRacesPanic'
<1> SUFFICES ASSUME TypeOK, InStep, TreeInv, OnlyRacesPanic, [Next]_vars
             PROVE  OnlyRacesPanic'
  OBVIOUS
<1> USE DEF TypeOK, InStep, OnlyRacesPanic
<1>1. ASSUME NEW p \in Procs, Receive(p) PROVE OnlyRacesPanic'
  BY <1>1 DEF Receive
<1>2. ASSUME NEW p \in Procs, Refuse(p) PROVE OnlyRacesPanic'
  BY <1>2 DEF Refuse, Answer
<1>3. ASSUME NEW p \in Procs, CheckParent(p) PROVE OnlyRacesPanic'
  BY <1>3 DEF CheckParent, Answer
<1>4. ASSUME NEW p \in Procs, RereadParent(p) PROVE OnlyRacesPanic'
  BY <1>4 DEF RereadParent, Answer, TreeInv, NotOvertaken
<1>5. ASSUME NEW p \in Procs, CheckExists(p) PROVE OnlyRacesPanic'
  BY <1>5 DEF CheckExists
<1>6. ASSUME NEW p \in Procs, StoreResource(p) PROVE OnlyRacesPanic'
  BY <1>6 DEF StoreResource, Answer, NoteWrite
<1>7. ASSUME NEW p \in Procs, ReadForPatch(p) PROVE OnlyRacesPanic'
  BY <1>7 DEF ReadForPatch, Answer
<1>8. ASSUME NEW p \in Procs, StorePatch(p) PROVE OnlyRacesPanic'
  BY <1>8 DEF StorePatch, Answer, NoteWrite
<1>9. ASSUME NEW p \in Procs, DeleteResource(p) PROVE OnlyRacesPanic'
  BY <1>9 DEF DeleteResource, Answer
<1>10. ASSUME NEW p \in Procs, ReplaceState(p) PROVE OnlyRacesPanic'
  BY <1>10 DEF ReplaceState, Answer
<1>11. CASE UNCHANGED vars
  BY <1>11 DEF vars
<1>. QED
  BY <1>1, <1>2, <1>3, <1>4, <1>5, <1>6, <1>7, <1>8, <1>9, <1>10, <1>11 DEF Next

(* A handler that read its parent twice can crash only because the parent  *)
(* was deleted, or the state replaced, between the two reads.              *)
THEOREM OnlyRacesPanicHolds == Spec => []OnlyRacesPanic
BY InitOnlyRacesPanic, NextOnlyRacesPanic, InStepHolds, TreeInvHolds, PTL DEF Spec

-----------------------------------------------------------------------------
(* Requests one at a time. *)
OneRequest == \A p, q \in Procs : p = q

(* What a request has read is then still so when it writes. *)
Undisturbed ==
  \A p \in Procs :
    /\ raced[p] => pc[p] = "idle"
    /\ pc[p] = "store" => existed[p] = Has(resources, req[p].id)
    /\ pc[p] = "merge" => seen[p] = resources[req[p].id]

LEMMA InitUndisturbed == Init => Undisturbed
BY DEF Init, Undisturbed

LEMMA NextUndisturbed ==
  ASSUME OneRequest
  PROVE  TypeOK /\ Undisturbed /\ [Next]_vars => Undisturbed'
<1> SUFFICES ASSUME TypeOK, Undisturbed, [Next]_vars PROVE Undisturbed'
  OBVIOUS
<1> USE DEF TypeOK, Undisturbed, OneRequest
<1>1. ASSUME NEW p \in Procs, Receive(p) PROVE Undisturbed'
  BY ZenonT(40), <1>1 DEF Receive, FirstCall, Requests
<1>2. ASSUME NEW p \in Procs, Refuse(p) PROVE Undisturbed'
  BY <1>2 DEF Refuse, Answer
<1>3. ASSUME NEW p \in Procs, CheckParent(p) PROVE Undisturbed'
  BY <1>3 DEF CheckParent, Answer
<1>4. ASSUME NEW p \in Procs, RereadParent(p) PROVE Undisturbed'
  BY <1>4 DEF RereadParent, Answer
<1>5. ASSUME NEW p \in Procs, CheckExists(p) PROVE Undisturbed'
  BY <1>5 DEF CheckExists, Goto
<1>6. ASSUME NEW p \in Procs, StoreResource(p) PROVE Undisturbed'
  BY ZenonT(40), <1>6 DEF StoreResource, Answer, NoteWrite
<1>7. ASSUME NEW p \in Procs, ReadForPatch(p) PROVE Undisturbed'
  BY <1>7 DEF ReadForPatch, Answer
<1>8. ASSUME NEW p \in Procs, StorePatch(p) PROVE Undisturbed'
  BY <1>8 DEF StorePatch, Answer, NoteWrite
<1>9. ASSUME NEW p \in Procs, DeleteResource(p) PROVE Undisturbed'
  BY <1>9 DEF DeleteResource, Answer
<1>10. ASSUME NEW p \in Procs, ReplaceState(p) PROVE Undisturbed'
  BY <1>10 DEF ReplaceState, Answer
<1>11. CASE UNCHANGED vars
  BY <1>11 DEF vars
<1>. QED
  BY <1>1, <1>2, <1>3, <1>4, <1>5, <1>6, <1>7, <1>8, <1>9, <1>10, <1>11 DEF Next

LEMMA UndisturbedHolds == ASSUME OneRequest PROVE Spec => []Undisturbed
BY InitUndisturbed, NextUndisturbed, InStepHolds, PTL DEF Spec

(* Any step of the handlers is a step of the tree, or leaves it alone. *)
LEMMA StepIsTreeStep ==
  TypeOK /\ InStep /\ TreeInv /\ Undisturbed /\ [Next]_vars =>
    [Tree!Next]_resources
<1> SUFFICES ASSUME TypeOK, InStep, TreeInv, Undisturbed, [Next]_vars,
                    resources' # resources
             PROVE  Tree!Next
  OBVIOUS
<1> USE DEF TypeOK, InStep, Undisturbed
<1>1. ASSUME NEW p \in Procs, StoreResource(p) PROVE Tree!Next
  <2>1. req[p].id \in Ids /\ req[p].body \in Bodies
    BY <1>1, RequestForms DEF StoreResource
  <2>2. req[p].id \in Nested => Has(resources, Parent(req[p].id))
    BY <1>1 DEF StoreResource, TreeInv, NotOvertaken
  <2>3. Tree!Upsert(req[p].id, req[p].body)
    BY <1>1, <2>2
    DEF StoreResource, Parent, Put, Has, Front,
        Tree!Upsert, Tree!Parent, Tree!Put, Tree!Has, Tree!Front
  <2>. QED
    BY <2>1, <2>3 DEF Tree!Next
<1>2. ASSUME NEW p \in Procs, StorePatch(p) PROVE Tree!Next
  <2>1. req[p].id \in Ids /\ Merged(seen[p], req[p].body) \in Bodies
    BY <1>2, RequestForms, MergedIsBody DEF StorePatch
  <2>2. Has(resources, req[p].id)
    BY <1>2 DEF StorePatch, TreeInv, NotOvertaken
  <2>3. Tree!Update(req[p].id, Merged(seen[p], req[p].body))
    BY <1>2, <2>2 DEF StorePatch, Put, Has, Tree!Update, Tree!Put, Tree!Has
  <2>. QED
    BY <2>1, <2>3 DEF Tree!Next
<1>3. ASSUME NEW p \in Procs, DeleteResource(p) PROVE Tree!Next
  <2>1. req[p].id \in Ids
    BY <1>3, RequestForms DEF DeleteResource
  <2>. QED
    BY <1>3, <2>1
    DEF DeleteResource, Delete, Covered, IsPrefix, Tree!Next, Tree!RemoveSubtree,
        Tree!Delete, Tree!Covered, Tree!IsPrefix
<1>4. ASSUME NEW p \in Procs, ReplaceState(p) PROVE Tree!Next
  BY <1>4, RequestForms DEF ReplaceState, Tree!Next, Tree!Restore
<1>. QED
  BY <1>1, <1>2, <1>3, <1>4
  DEF Next, vars, Receive, Refuse, CheckParent, RereadParent, CheckExists, ReadForPatch

(* One request at a time, the handlers implement the atomic tree: the last *)
(* store call of each takes the effect that the whole request promises.    *)
THEOREM OneAtATimeTree == ASSUME OneRequest PROVE Spec => ImplementsTree
<1>1. Init => Tree!Init
  BY DEF Init, NewMemoryStore, Tree!Init, Tree!NewMemoryStore
<1>. QED
  BY <1>1, StepIsTreeStep, InStepHolds, TreeInvHolds, UndisturbedHolds, PTL
  DEF Spec, ImplementsTree, Tree!Spec

(* One request at a time, 201 says that the resource was new and 200 that  *)
(* it was not.                                                             *)
THEOREM OneAtATimeStatus == ASSUME OneRequest PROVE Spec => StatusIsExact
<1>1. TypeOK /\ Undisturbed /\ [Next]_vars =>
        [\A p \in Procs :
           pc[p] = "store" /\ status'[p] \in {"200", "201"} =>
             (status'[p] = "201") = ~Has(resources, req[p].id)]_vars
  <2> SUFFICES ASSUME TypeOK, Undisturbed, Next,
                      NEW p \in Procs, pc[p] = "store",
                      status'[p] \in {"200", "201"}
               PROVE  (status'[p] = "201") = ~Has(resources, req[p].id)
    OBVIOUS
  <2> USE DEF TypeOK, Undisturbed
  <2>1. StoreResource(p)
    BY OneRequest DEF OneRequest, Next, Receive, Refuse, CheckParent, RereadParent,
       CheckExists, ReadForPatch, StorePatch, DeleteResource, ReplaceState, Goto
  <2>. QED
    BY <2>1 DEF StoreResource, Answer
<1>. QED
  BY <1>1, TypeCorrect, UndisturbedHolds, PTL DEF Spec, StatusIsExact

(* One request at a time, a PATCH changes the keys that it was sent alone. *)
THEOREM OneAtATimePatch == ASSUME OneRequest PROVE Spec => PatchTouchesOnlySent
<1>1. TypeOK /\ InStep /\ Undisturbed /\ [Next]_vars =>
        [\A p \in Procs :
           pc[p] = "merge" /\ status'[p] = "200" /\ Has(resources, req[p].id) =>
             \A f \in Fields \ DOMAIN req[p].body :
               resources'[req[p].id][f] = resources[req[p].id][f]]_vars
  <2> SUFFICES ASSUME TypeOK, InStep, Undisturbed, Next,
                      NEW p \in Procs, pc[p] = "merge", status'[p] = "200",
                      Has(resources, req[p].id),
                      NEW f \in Fields \ DOMAIN req[p].body
               PROVE  resources'[req[p].id][f] = resources[req[p].id][f]
    OBVIOUS
  <2>1. StorePatch(p)
    BY OneRequest DEF OneRequest, TypeOK, Next, Receive, Refuse, CheckParent, RereadParent,
       CheckExists, ReadForPatch, StoreResource, DeleteResource, ReplaceState, Goto, Answer
  <2>2. seen[p] = resources[req[p].id]
    BY DEF Undisturbed
  <2>3. req[p].id \in Ids
    BY <2>1, RequestForms DEF StorePatch, TypeOK, InStep
  <2>4. resources'[req[p].id] = Merged(seen[p], req[p].body)
    BY <2>1, <2>3 DEF StorePatch, Put, TypeOK, Stores
  <2>. QED
    BY <2>2, <2>4 DEF Merged
<1>. QED
  BY <1>1, TypeCorrect, InStepHolds, UndisturbedHolds, PTL DEF Spec, PatchTouchesOnlySent
=============================================================================
