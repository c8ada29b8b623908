-------------------------- MODULE CompoundHandlers --------------------------
(***************************************************************************)
(* The handlers whose one request is several writes, or whose decision is  *)
(* a scan of the whole store: DNS zones (internal/arm/dns.go), which seed  *)
(* the SOA and NS record sets of a new zone, and storage accounts          *)
(* (storage_account.go), whose names are unique over all resource groups   *)
(* and whose DELETE looks for containers once more after its cascade.      *)
(* No handler holds a lock over its store calls: there is one action per   *)
(* call.  A resource group is an id to delete: no handler here reads it.   *)
(***************************************************************************)
EXTENDS MemoryStore

CONSTANTS Procs,      \* the requests being served at one time
          Groups,     \* resource groups
          Zones,      \* DNS zones
          Accounts,   \* storage accounts, all of one name
          Containers, \* blob containers
          Seed, User, \* bodies: a seeded record set, what a client sent
          PutMayFail  \* a FileStore: Put may fail after it changed the map

(* The order in which a new zone is given its record sets. *)
Seeds == <<"SOA", "NS">>
SeedOf(z, t) == Append(z, t)
SeedsOf(z) == {SeedOf(z, t) : t \in ToSet(Seeds)}
RecordSets == UNION {SeedsOf(z) : z \in Zones}
Children == RecordSets \cup Containers
Parent(id) == Front(id)

(* An id is of one type, and below an account lie containers alone. *)
ASSUME CompoundAssumption ==
  /\ Ids = Groups \cup Zones \cup Accounts \cup Children
  /\ Groups \cap (Zones \cup Accounts) = {} /\ Zones \cap Accounts = {}
  /\ Children \cap (Groups \cup Zones \cup Accounts) = {}
  /\ RecordSets \cap Containers = {}
  /\ \A a \in Accounts : Covered(a) \ {a} \subseteq Containers
  /\ \A c \in Containers : Len(c) > 1 /\ Parent(c) \in Accounts
  /\ Bodies = {Seed, User} /\ Seed # User
  /\ PutMayFail \in BOOLEAN

VARIABLES
  resources,  \* the store
  pc,         \* the next store call of each request
  req,        \* the request being served
  existed,    \* what the handler's Get of the resource said
  todo,       \* the seeds a PUT has yet to store, in order
  doomed,     \* the listed children a DELETE has yet to delete
  status,     \* the answer that the last step gave, if it gave one
  fresh,      \* history: what others have stored since a request came in
  raced,      \* history: a delete at or above req.id landed meanwhile
  rivals,     \* history: a PUT of another account overlapped this one
  strays,     \* history: what a raced request has stored
  unseeded,   \* history: seeds that are known to be missing, see Excuse
  doubtful    \* history: the accounts that a PUT with a rival has stored

progress == <<existed, todo, doomed>>
history == <<fresh, raced, rivals, strays, unseeded, doubtful>>
vars == <<resources, pc, req, progress, status, history>>

Requests ==
  [op : {"putzone"}, id : Zones]
    \cup [op : {"putaccount"}, id : Accounts]
    \cup [op : {"putchild"}, id : Children]
    \cup [op : {"delete"}, id : Ids]

NoRequest == [op |-> "none"]

Busy == {p \in Procs : pc[p] # "idle"}

FirstCall(r) ==
  CASE r.op = "putzone" -> "check"
    [] r.op = "putaccount" -> "scan"
    [] r.op = "putchild" -> "parent"
    [] r.op = "delete" -> "delete"

Init ==
  /\ resources = NewMemoryStore
  /\ pc = [p \in Procs |-> "idle"]
  /\ req = [p \in Procs |-> NoRequest]
  /\ existed = [p \in Procs |-> FALSE]
  /\ todo = [p \in Procs |-> <<>>]
  /\ doomed = [p \in Procs |-> {}]
  /\ status = [p \in Procs |-> "none"]
  /\ fresh = [p \in Procs |-> {}]
  /\ raced = [p \in Procs |-> FALSE]
  /\ rivals = [p \in Procs |-> FALSE]
  /\ strays = {}
  /\ unseeded = {}
  /\ doubtful = {}

-----------------------------------------------------------------------------
Rival(r, s) == r.op = "putaccount" /\ s.op = "putaccount" /\ r.id # s.id

Receive(p) ==
  /\ pc[p] = "idle"
  /\ \E r \in Requests :
       /\ req' = [req EXCEPT ![p] = r]
       /\ pc' = [pc EXCEPT ![p] = FirstCall(r)]
       /\ rivals' = [q \in Procs |->
                       IF q = p THEN \E o \in Busy : Rival(r, req[o])
                                ELSE rivals[q] \/ (q \in Busy /\ Rival(r, req[q]))]
  /\ status' = [q \in Procs |-> "none"]
  /\ UNCHANGED <<resources, progress, fresh, raced, strays, unseeded, doubtful>>

(* What the request held is gone, and what was noted of it. *)
Answer(p, code) ==
  /\ pc' = [pc EXCEPT ![p] = "idle"]
  /\ req' = [req EXCEPT ![p] = NoRequest]
  /\ existed' = [existed EXCEPT ![p] = FALSE]
  /\ todo' = [todo EXCEPT ![p] = <<>>]
  /\ doomed' = [doomed EXCEPT ![p] = {}]
  /\ status' = [q \in Procs |-> IF q = p THEN code ELSE "none"]
  /\ rivals' = [rivals EXCEPT ![p] = FALSE]

Goto(p, step) ==
  /\ pc' = [pc EXCEPT ![p] = step]
  /\ status' = [q \in Procs |-> "none"]
  /\ UNCHANGED <<req, rivals>>

(* The history of a step of p that stores and removes these ids, and after *)
(* which these seeds are known to be missing.                              *)
Note(p, stored, removed, missing) ==
  /\ fresh' = [q \in Procs |-> IF pc'[q] = "idle" THEN {}
                               ELSE fresh[q] \cup IF q = p THEN {} ELSE stored]
  /\ raced' = [q \in Procs |-> pc'[q] # "idle" /\
                               (raced[q] \/ (q # p /\ req[q].id \in removed))]
  /\ LET kept(S) == S \ (stored \cup removed) IN
       /\ strays' = kept(strays) \cup IF raced[p] THEN stored ELSE {}
       /\ doubtful' = kept(doubtful) \cup IF rivals[p] THEN stored ELSE {}
       /\ unseeded' = kept(unseeded) \cup missing

NoteNothing(p) == Note(p, {}, {}, {})

(* A body that does not decode or has no location, before the first store  *)
(* call of a zone or an account and after a child's look at its parent.    *)
Refuse(p) ==
  /\ pc[p] \in {"scan", "check"}
  /\ Answer(p, "400")
  /\ NoteNothing(p)
  /\ UNCHANGED resources

-----------------------------------------------------------------------------
CheckParent(p) ==
  /\ pc[p] = "parent"
  /\ IF Has(resources, Parent(req[p].id))
     THEN Goto(p, "check") /\ UNCHANGED progress
     ELSE Answer(p, "404")
  /\ NoteNothing(p)
  /\ UNCHANGED resources

(* Mutant of CheckExists: the Get comes after the Put. *)
CheckExistsLate(p) ==
  /\ pc[p] = "check"
  /\ Goto(p, "store")
  /\ existed' = [existed EXCEPT ![p] = TRUE]
  /\ NoteNothing(p)
  /\ UNCHANGED <<resources, todo, doomed>>

CheckExists(p) ==
  /\ pc[p] = "check"
  /\ Goto(p, "store")
  /\ existed' = [existed EXCEPT ![p] = Has(resources, req[p].id)]
  /\ NoteNothing(p)
  /\ UNCHANGED <<resources, todo, doomed>>

Created(p) == IF existed[p] THEN "200" ELSE "201"

StoreChild(p) ==
  /\ pc[p] = "store"
  /\ req[p].op = "putchild"
  /\ resources' = Put(resources, req[p].id, User)
  /\ Answer(p, Created(p)) \/ (PutMayFail /\ Answer(p, "500"))
  /\ Note(p, {req[p].id}, {}, {})

-----------------------------------------------------------------------------
(* PUT of a zone. *)

(* Mutant of ToSeed: every PUT seeds, of an old zone also. *)
ToSeedAlways(p) == Seeds

(* "Auto-seed SOA and NS at the apex on first create only." *)
ToSeed(p) == IF existed[p] THEN <<>> ELSE Seeds

(* The PUT goes on to the seeds in ts, or answers. *)
SeedNext(p, ts) ==
  IF ts = <<>> THEN Answer(p, Created(p))
  ELSE /\ Goto(p, "seed")
       /\ todo' = [todo EXCEPT ![p] = ts]
       /\ UNCHANGED <<existed, doomed>>

(* A zone that this PUT stores is not seeded when the Put fails, and when  *)
(* a DELETE has removed the zone that the PUT had found.                   *)
StoreZone(p) ==
  /\ pc[p] = "store"
  /\ req[p].op = "putzone"
  /\ LET z == req[p].id
         gone == {s \in SeedsOf(z) : ~Has(resources, s)}
     IN
       /\ resources' = Put(resources, z, User)
       /\ \/ /\ SeedNext(p, ToSeed(p))
             /\ Note(p, {z}, {}, IF existed[p] /\ raced[p] THEN gone ELSE {})
          \/ /\ PutMayFail /\ Answer(p, "500")
             /\ Note(p, {z}, {}, IF Has(resources, z) THEN {} ELSE gone)

(* autoCreateSOA, then autoCreateNS: neither looks at the zone again. *)
StoreSeed(p) ==
  /\ pc[p] = "seed"
  /\ LET z == req[p].id
         s == SeedOf(z, Head(todo[p]))
         left == {r \in SeedsOf(z) \ {s} : ~Has(resources, r)}
     IN
       /\ resources' = Put(resources, s, Seed)
       /\ \/ SeedNext(p, Tail(todo[p])) /\ Note(p, {s}, {}, {})
          \/ PutMayFail /\ Answer(p, "500") /\ Note(p, {s}, {}, left)

-----------------------------------------------------------------------------
(* PUT of a storage account.  Its Get serves the log line alone. *)

(* Mutant of Taken: the scan stays in the account's resource group. *)
TakenInGroup(id) == \E a \in Accounts \ {id} : a[1] = id[1] /\ Has(resources, a)

Taken(id) == \E a \in Accounts \ {id} : Has(resources, a)

ScanNames(p) ==
  /\ pc[p] = "scan"
  /\ IF Taken(req[p].id) THEN Answer(p, "409")
                         ELSE Goto(p, "store") /\ UNCHANGED progress
  /\ NoteNothing(p)
  /\ UNCHANGED resources

StoreAccount(p) ==
  /\ pc[p] = "store"
  /\ req[p].op = "putaccount"
  /\ resources' = Put(resources, req[p].id, User)
  /\ Answer(p, "200") \/ (PutMayFail /\ Answer(p, "500"))
  /\ Note(p, {req[p].id}, {}, {})

-----------------------------------------------------------------------------
(* DELETE: asynchronous for groups and zones, and an account goes on to    *)
(* look for containers that its own cascade has left.                      *)
Accepted(id) ==
  CASE id \in Groups \cup Zones -> "202"
    [] id \in RecordSets -> "204"
    [] id \in Containers -> "200"

DeleteResource(p) ==
  /\ pc[p] = "delete"
  /\ LET id == req[p].id IN
       /\ resources' = Delete(resources, id)
       /\ IF ~Deleted(resources, id) THEN Answer(p, "404")
          ELSE IF id \in Accounts THEN Goto(p, "list") /\ UNCHANGED progress
          ELSE Answer(p, Accepted(id))
       /\ Note(p, {}, Covered(id), {id} \cap RecordSets)

(* Mutant of Remaining: the containers are looked up by account name. *)
RemainingByName(id) == {c \in Containers : Has(resources, c) /\ c[2] = id[2]}

Remaining(id) == ListBelow(resources, id)

ListChildren(p) ==
  /\ pc[p] = "list"
  /\ doomed' = [doomed EXCEPT ![p] = Remaining(req[p].id)]
  /\ Goto(p, "sweep")
  /\ NoteNothing(p)
  /\ UNCHANGED <<resources, existed, todo>>

SweepChild(p) ==
  /\ pc[p] = "sweep"
  /\ \E c \in doomed[p] :
       /\ resources' = Delete(resources, c)
       /\ doomed' = [doomed EXCEPT ![p] = @ \ {c}]
       /\ Goto(p, "sweep")
       /\ Note(p, {}, Covered(c), {})
  /\ UNCHANGED <<existed, todo>>

EndSweep(p) ==
  /\ pc[p] = "sweep"
  /\ doomed[p] = {}
  /\ Answer(p, "200")
  /\ NoteNothing(p)
  /\ UNCHANGED resources

Next ==
  \E p \in Procs :
    \/ Receive(p) \/ Refuse(p)
    \/ CheckParent(p) \/ CheckExists(p) \/ StoreChild(p)
    \/ StoreZone(p) \/ StoreSeed(p)
    \/ ScanNames(p) \/ StoreAccount(p)
    \/ DeleteResource(p) \/ ListChildren(p) \/ SweepChild(p) \/ EndSweep(p)

Spec == Init /\ [][Next]_vars

-----------------------------------------------------------------------------
TypeOK ==
  /\ resources \in Stores
  /\ pc \in [Procs -> {"idle", "parent", "check", "store", "seed", "scan",
                       "delete", "list", "sweep"}]
  /\ req \in [Procs -> Requests \cup {NoRequest}]
  /\ existed \in [Procs -> BOOLEAN]
  /\ todo \in [Procs -> Seq(ToSet(Seeds))]
  /\ doomed \in [Procs -> SUBSET Children]
  /\ status \in [Procs -> {"none", "200", "201", "202", "204", "400", "404",
                           "409", "500"}]
  /\ fresh \in [Procs -> SUBSET Ids]
  /\ raced \in [Procs -> BOOLEAN]
  /\ rivals \in [Procs -> BOOLEAN]
  /\ strays \subseteq Ids
  /\ unseeded \subseteq RecordSets
  /\ doubtful \subseteq Accounts

Seeding(z) == \E p \in Procs : pc[p] = "seed" /\ req[p].id = z

(* A zone lacks its SOA or NS record set for three reasons only: a client  *)
(* deleted it, a Put of the PUT that created the zone failed, or the zone  *)
(* was deleted under a PUT that had found it and put it back.              *)
ZonesAreSeeded ==
  \A z \in Zones : Has(resources, z) /\ ~Seeding(z) =>
    \A s \in SeedsOf(z) : Has(resources, s) \/ s \in unseeded

(* "on first create only": a seed replaces no record set of a client but   *)
(* one that was stored while the zone's PUT ran, or that an earlier race   *)
(* had left without its zone.                                              *)
SeedsKeepRecords ==
  [][\A p \in Procs, s \in RecordSets :
       /\ pc[p] = "seed" /\ s \in SeedsOf(req[p].id)
       /\ resources[s] = User /\ resources'[s] = Seed
       => s \in fresh[p] \cup strays]_vars

(* putStorageAccount: names are "unique across the emulator".  Two groups  *)
(* have accounts of one name only if the PUTs of two such overlapped.      *)
DuplicatesAreRaces ==
  \A a, b \in Accounts :
    a # b /\ Has(resources, a) /\ Has(resources, b) => {a, b} \cap doubtful # {}

(* A DELETE removes what is at or below its id, and what its second look   *)
(* removes was stored by others while it ran: it takes nothing older.      *)
DeletesTakeTheirOwn ==
  [][\A k \in Ids :
       Has(resources, k) /\ resources'[k] = NoResource =>
         \E p \in Procs :
           /\ req[p].op = "delete" /\ IsPrefix(req[p].id, k)
           /\ pc[p] = "delete" \/ k \in fresh[p]]_vars
=============================================================================
