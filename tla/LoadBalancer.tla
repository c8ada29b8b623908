---------------------------- MODULE LoadBalancer ----------------------------
(***************************************************************************)
(* The load balancers of internal/arm/lb.go.  Probes, rules and backend    *)
(* pools are store entries below the load balancer.  A PUT of the load     *)
(* balancer carries whole arrays of probes and rules: it stores the load   *)
(* balancer, then makes the entries of each array that is present match    *)
(* it, Put by Put and Delete by Delete.  Children also have a PUT and a    *)
(* DELETE of their own.  No handler holds a lock over its store calls:     *)
(* there is one action per call.                                           *)
(***************************************************************************)
EXTENDS MemoryStore

CONSTANTS Procs,      \* the requests being served at one time
          Inline,     \* the kinds a PUT carries arrays of, in order
          OtherKinds, \* the kinds of children it does not: backend pools
          Names,      \* names of children
          PutMayFail  \* a FileStore: Put may fail after it changed the map

InlineKinds == ToSet(Inline)
Kinds == InlineKinds \cup OtherKinds

LB == <<"lb">>
Child(k, n) == <<"lb", k, n>>
ChildrenOf(k) == {Child(k, n) : n \in Names}
Children == UNION {ChildrenOf(k) : k \in Kinds}

ASSUME LoadBalancerAssumption ==
  /\ Inline \in Seq(Segments) /\ Ids = {LB} \cup Children
  /\ IsInjective(Inline) /\ InlineKinds \cap OtherKinds = {}
  /\ PutMayFail \in BOOLEAN

VARIABLES
  resources,  \* the store
  pc,         \* the next store call of each request
  req,        \* the request being served
  existed,    \* what the handler's Get of the resource said
  at,         \* the array that a PUT reconciles, by its place in Inline
  todo,       \* the children of that array it has yet to store
  doomed,     \* the listed children it has yet to delete
  status,     \* the latest answer: a status code for its request
  disturbed   \* history: another write or delete overlapped the request

progress == <<at, todo, doomed>>
vars == <<resources, pc, req, existed, progress, status, disturbed>>

(* For each array that the PUT carries, the children and their bodies. *)
Arrays == UNION {[K -> UNION {[S -> Bodies] : S \in SUBSET Names}] : K \in SUBSET InlineKinds}

Requests ==
  [op : {"putlb"}, id : {LB}, body : Bodies, arrays : Arrays]
    \cup [op : {"putchild"}, id : Children, body : Bodies]
    \cup [op : {"delete"}, id : Ids]

NoRequest == [op |-> "none"]

Busy == {p \in Procs : pc[p] # "idle"}

FirstCall(r) ==
  CASE r.op = "putlb" -> "check"
    [] r.op = "putchild" -> "parent"
    [] r.op = "delete" -> "delete"

Init ==
  /\ resources = NewMemoryStore
  /\ pc = [p \in Procs |-> "idle"]
  /\ req = [p \in Procs |-> NoRequest]
  /\ existed = [p \in Procs |-> FALSE]
  /\ at = [p \in Procs |-> 0]
  /\ todo = [p \in Procs |-> {}]
  /\ doomed = [p \in Procs |-> {}]
  /\ status = [p \in Procs |-> "none"]
  /\ disturbed = [p \in Procs |-> FALSE]

-----------------------------------------------------------------------------
Receive(p) ==
  /\ pc[p] = "idle"
  /\ \E r \in Requests :
       /\ req' = [req EXCEPT ![p] = r]
       /\ pc' = [pc EXCEPT ![p] = FirstCall(r)]
  /\ disturbed' = [q \in Procs |-> IF q = p THEN Busy # {}
                                   ELSE q \in Busy \/ disturbed[q]]
  /\ status' = [status EXCEPT ![p] = "none"]
  /\ UNCHANGED <<resources, existed, progress>>

(* What the request held is gone, and what was noted of it. *)
Answer(p, code) ==
  /\ pc' = [pc EXCEPT ![p] = "idle"]
  /\ req' = [req EXCEPT ![p] = NoRequest]
  /\ existed' = [existed EXCEPT ![p] = FALSE]
  /\ at' = [at EXCEPT ![p] = 0]
  /\ todo' = [todo EXCEPT ![p] = {}]
  /\ doomed' = [doomed EXCEPT ![p] = {}]
  /\ status' = [q \in Procs |-> IF q = p THEN code ELSE "none"]
  /\ disturbed' = [disturbed EXCEPT ![p] = FALSE]

Goto(p, step) ==
  /\ pc' = [pc EXCEPT ![p] = step]
  /\ UNCHANGED <<req, status, disturbed>>

(* A body that does not decode or has no location; a child's is looked at  *)
(* after the first Get of the parent.                                      *)
Refuse(p) ==
  /\ pc[p] = "reread" \/ (pc[p] = "check" /\ req[p].op = "putlb")
  /\ Answer(p, "400")
  /\ UNCHANGED resources

(* PUT of a child: the parent is read twice, the second time its absence   *)
(* is a nil dereference that chi's Recoverer answers.                      *)
CheckParent(p) ==
  /\ pc[p] = "parent"
  /\ IF Has(resources, LB) THEN Goto(p, "reread") /\ UNCHANGED <<existed, progress>>
                           ELSE Answer(p, "404")
  /\ UNCHANGED resources

RereadParent(p) ==
  /\ pc[p] = "reread"
  /\ IF Has(resources, LB) THEN Goto(p, "check") /\ UNCHANGED <<existed, progress>>
                           ELSE Answer(p, "recovered")
  /\ UNCHANGED resources

CheckExists(p) ==
  /\ pc[p] = "check"
  /\ Goto(p, "store")
  /\ existed' = [existed EXCEPT ![p] = Has(resources, req[p].id)]
  /\ UNCHANGED <<resources, progress>>

Created(p) == IF existed[p] THEN "200" ELSE "201"

StoreChild(p) ==
  /\ pc[p] = "store"
  /\ req[p].op = "putchild"
  /\ resources' = Put(resources, req[p].id, req[p].body)
  /\ Answer(p, Created(p)) \/ (PutMayFail /\ Answer(p, "500"))

-----------------------------------------------------------------------------
Places == 1..Len(Inline)

(* Mutant of Present: an array that is absent is taken for an empty one. *)
PresentAlways(r, i) == TRUE

(* Whether the PUT carries the array at this place of Inline. *)
Present(r, i) == Inline[i] \in DOMAIN r.arrays

Array(r, k) == IF k \in DOMAIN r.arrays THEN r.arrays[k] ELSE <<>>
Listed(r, k) == {Child(k, n) : n \in DOMAIN Array(r, k)}

(* The PUT goes on to the first array from place i on that it carries. *)
Reconcile(p, i) ==
  LET present == {j \in Places : i <= j /\ Present(req[p], j)} IN
    /\ \/ /\ present = {}
          /\ at' = [at EXCEPT ![p] = Len(Inline) + 1]
          /\ todo' = [todo EXCEPT ![p] = {}]
          /\ Goto(p, "respond")
       \/ \E j \in present :
            /\ \A m \in present : j <= m
            /\ at' = [at EXCEPT ![p] = j]
            /\ todo' = [todo EXCEPT ![p] = Listed(req[p], Inline[j])]
            /\ Goto(p, "upsert")
    /\ UNCHANGED <<existed, doomed>>

StoreLB(p) ==
  /\ pc[p] = "store"
  /\ req[p].op = "putlb"
  /\ resources' = Put(resources, LB, req[p].body)
  /\ Reconcile(p, 1) \/ (PutMayFail /\ Answer(p, "500"))

(* The array's order is the client's, so any child may come next. *)
UpsertChild(p) ==
  /\ pc[p] = "upsert"
  /\ \E c \in todo[p] :
       /\ resources' = Put(resources, c, Array(req[p], c[2])[c[3]])
       /\ \/ /\ todo' = [todo EXCEPT ![p] = @ \ {c}]
             /\ Goto(p, "upsert")
             /\ UNCHANGED <<existed, at, doomed>>
          \/ PutMayFail /\ Answer(p, "500")

(* Mutant of Unlisted: nothing is deleted. *)
UnlistedNone(r, k) == {}

Unlisted(r, k) == (ListBelow(resources, LB) \cap ChildrenOf(k)) \ Listed(r, k)

ListKind(p) ==
  /\ pc[p] = "upsert"
  /\ todo[p] = {}
  /\ doomed' = [doomed EXCEPT ![p] = Unlisted(req[p], Inline[at[p]])]
  /\ Goto(p, "drop")
  /\ UNCHANGED <<resources, existed, at, todo>>

DropChild(p) ==
  /\ pc[p] = "drop"
  /\ \E c \in doomed[p] :
       /\ resources' = Delete(resources, c)
       /\ doomed' = [doomed EXCEPT ![p] = @ \ {c}]
  /\ UNCHANGED <<pc, req, existed, at, todo, status, disturbed>>

NextKind(p) ==
  /\ pc[p] = "drop"
  /\ doomed[p] = {}
  /\ Reconcile(p, at[p] + 1)
  /\ UNCHANGED resources

(* The answer embeds the children, listed once more. *)
Respond(p) ==
  /\ pc[p] = "respond"
  /\ Answer(p, Created(p))
  /\ UNCHANGED resources

-----------------------------------------------------------------------------
(* DELETE of the load balancer, which cascades, or of a child. *)
DeleteResource(p) ==
  /\ pc[p] = "delete"
  /\ LET id == req[p].id IN
       /\ resources' = Delete(resources, id)
       /\ Answer(p, IF Deleted(resources, id) THEN "202" ELSE "404")

Next ==
  \E p \in Procs :
    \/ Receive(p) \/ Refuse(p)
    \/ CheckParent(p) \/ RereadParent(p) \/ CheckExists(p) \/ StoreChild(p)
    \/ StoreLB(p) \/ UpsertChild(p) \/ ListKind(p) \/ DropChild(p) \/ NextKind(p)
    \/ Respond(p)
    \/ DeleteResource(p)

Spec == Init /\ [][Next]_vars

-----------------------------------------------------------------------------
TypeOK ==
  /\ resources \in Stores
  /\ pc \in [Procs -> {"idle", "parent", "reread", "check", "store", "upsert",
                       "drop", "respond", "delete"}]
  /\ req \in [Procs -> Requests \cup {NoRequest}]
  /\ existed \in [Procs -> BOOLEAN]
  /\ at \in [Procs -> 0..Len(Inline) + 1]
  /\ todo \in [Procs -> SUBSET Children]
  /\ doomed \in [Procs -> SUBSET Children]
  /\ status \in [Procs -> {"none", "200", "201", "202", "400", "404", "500", "recovered"}]
  /\ disturbed \in [Procs -> BOOLEAN]

Held(k) == {c \in ChildrenOf(k) : Has(resources, c)}

(* The stored children of kind k are those of array a, with its bodies. *)
Matches(k, a) ==
  /\ Held(k) = {Child(k, n) : n \in DOMAIN a}
  /\ \A n \in DOMAIN a : resources[Child(k, n)] = a[n]

(* A PUT that nothing overlapped, when it answers, has made the children   *)
(* of every array it carried match the array, after any earlier failures,  *)
(* partial reconciliations and races.                                      *)
LonePutMatches ==
  \A p \in Procs :
    pc[p] = "respond" /\ ~disturbed[p] =>
      \A k \in DOMAIN req[p].arrays : Matches(k, req[p].arrays[k])

(* A child disappears only by a DELETE, or by a PUT that carries its array *)
(* without it.  A PUT that omits an array "does not disturb children       *)
(* managed by azurerm_lb_probe / azurerm_lb_rule", no PUT disturbs backend *)
(* pools, and a child that is listed stays in the store throughout:        *)
(* reconciling stores before it deletes.                                   *)
ListedChildrenStay ==
  [][\A c \in Children :
       Has(resources, c) /\ resources'[c] = NoResource =>
         \E p \in Procs :
           \/ /\ req[p].op = "putlb"
              /\ c[2] \in DOMAIN req[p].arrays /\ c \notin Listed(req[p], c[2])
           \/ req[p].op = "delete" /\ IsPrefix(req[p].id, c)]_vars
=============================================================================
