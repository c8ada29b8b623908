------------------------------ MODULE KeyVault ------------------------------
(***************************************************************************)
(* The Key Vault data plane of internal/arm/keyvault_secret.go and         *)
(* keyvault_key.go, and the vaults of keyvault.go.  A secret or key is     *)
(* kept as one store entry for each version and one, "current", that names *)
(* the latest version.  No handler holds a lock over its store calls: a    *)
(* PUT stores the version and then the pointer, a DELETE lists the entries *)
(* and deletes them one by one.  There is one action per store call.       *)
(*                                                                         *)
(* Versions are numbered in the order in which their uuids are drawn.      *)
(***************************************************************************)
EXTENDS Naturals, FiniteSets, Sequences, SequencesExt

CONSTANTS Procs,        \* the requests being served at one time
          Groups,       \* resource groups
          Vaults,       \* vault names, shared by all the resource groups
          Names,        \* names of secrets and keys
          Keys,         \* the names that are keys: only these have a PATCH
          Tags,         \* what a key's tags and attributes can hold
          NoTags,       \* what a new version holds
          MaxVersions,  \* bound on the versions of a behaviour
          PutMayFail    \* a FileStore: Put may fail after it changed the map

ASSUME KeyVaultAssumption ==
  /\ Keys \subseteq Names /\ Names # {}
  /\ NoTags \notin Tags
  /\ MaxVersions \in Nat
  /\ PutMayFail \in BOOLEAN

VARIABLES
  arm,       \* the vault resources, as <<group, vault>>
  entries,   \* the versions in the store, for each item
  current,   \* the version that an item's pointer names, 0 for no pointer
  tags,      \* what the Properties map of each version holds
  issued,    \* how many versions have been drawn
  pc, req,   \* each request's next store call, and the request
  ver,       \* the version a request works on
  todo,      \* the listed entries a DELETE has yet to delete
  status,    \* the latest answer: a status code for its request
  disturbed, \* history: a delete of the same item overlapped the request
  hit,       \* history: versions whose writer a delete overlapped
  swept,     \* history: deleted items nothing could have written to since
  earlier    \* history: the versions whose PUT had ended when one was drawn

stored == <<arm, entries, current, tags>>
answered == <<req, ver, status, disturbed, hit>>
vars == <<stored, issued, pc, req, ver, todo, status, disturbed, hit, swept, earlier>>

Versions == 1..MaxVersions
Items == Vaults \X Names
Pointer == 0
Entries == Items \X (Versions \cup {Pointer})

(* A PUT of a secret, and the creation or import of a key; a PATCH of a    *)
(* key, of its current version or of one that the URL names.               *)
Requests ==
  [op : {"put", "get", "delete"}, items : {{i} : i \in Items}]
    \cup [op : {"patch"}, items : {{i} : i \in Vaults \X Keys},
          version : Versions \cup {0}, tags : Tags]
    \cup [op : {"putvault", "deletevault"}, group : Groups,
          items : {{v} \X Names : v \in Vaults}]
    \cup [op : {"deletegroup"}, group : Groups, items : {{}}]

NoRequest == [op |-> "none", items |-> {}]

Item(p) == CHOOSE i \in req[p].items : TRUE
VaultOf(r) == (CHOOSE i \in r.items : TRUE)[1]

Writes(r) == r.op \in {"put", "patch"}
Deletes(r) == r.op \in {"delete", "deletevault"}

(* Whether o and r, about the same item, are a delete and something else   *)
(* that r depends on.                                                      *)
Disturbs(o, r) ==
  /\ o.items \cap r.items # {}
  /\ IF Deletes(r) THEN Writes(o) ELSE Deletes(o)

PutSteps == <<"version", "pointer">>

FirstStep(r) ==
  CASE r.op = "put" -> PutSteps[1]
    [] r.op = "get" -> "resolve"
    [] r.op = "patch" -> IF r.version = 0 THEN "resolve" ELSE "fetch"
    [] r.op = "delete" -> "check"
    [] OTHER -> r.op

Init ==
  /\ arm = {}
  /\ entries = [i \in Items |-> {}]
  /\ current = [i \in Items |-> 0]
  /\ tags = [v \in Versions |-> NoTags]
  /\ issued = 0
  /\ pc = [p \in Procs |-> "idle"]
  /\ req = [p \in Procs |-> NoRequest]
  /\ ver = [p \in Procs |-> 0]
  /\ todo = [p \in Procs |-> {}]
  /\ status = [p \in Procs |-> "none"]
  /\ disturbed = [p \in Procs |-> FALSE]
  /\ hit = {}
  /\ swept = {}
  /\ earlier = [v \in Versions |-> {}]

-----------------------------------------------------------------------------
(* A PUT draws its version before its first store call. *)
Receive(p) ==
  /\ pc[p] = "idle"
  /\ \E r \in Requests :
       /\ r.op = "put" => issued < MaxVersions
       /\ r.op = "patch" => r.version <= issued
       /\ req' = [req EXCEPT ![p] = r]
       /\ pc' = [pc EXCEPT ![p] = FirstStep(r)]
       /\ issued' = IF r.op = "put" THEN issued + 1 ELSE issued
       /\ ver' = [ver EXCEPT ![p] = CASE r.op = "put" -> issued'
                                      [] r.op = "patch" -> r.version
                                      [] OTHER -> 0]
       /\ disturbed' =
            [q \in Procs |->
               IF q = p THEN \E o \in Procs : Disturbs(req[o], r)
                        ELSE disturbed[q] \/ Disturbs(r, req[q])]
       /\ swept' = IF Writes(r) THEN swept \ r.items ELSE swept
       /\ earlier' =
            IF r.op # "put" THEN earlier
            ELSE [earlier EXCEPT ![issued'] =
                    (1..issued) \ {ver[q] : q \in {o \in Procs : req[o].op = "put"}}]
  /\ status' = [status EXCEPT ![p] = "none"]
  /\ UNCHANGED <<stored, todo, hit>>

(* A request names its vault by its host.  If the host names none, the     *)
(* first vault in a scan that has such an item is taken, which may be any  *)
(* of these: Receive leaves the vault open, and here there is none.        *)
FindVaultForItem(n) == {v \in Vaults : current[<<v, n>>] # 0}

WithoutVault(p) ==
  /\ pc[p] = "idle"
  /\ \E n \in Names : FindVaultForItem(n) = {}
  /\ status' = [status EXCEPT ![p] = "404"]
  /\ UNCHANGED <<stored, issued, pc, req, ver, todo, disturbed, hit, swept, earlier>>

Step(p, from, to) == pc[p] = from /\ pc' = [pc EXCEPT ![p] = to]

Answer(p, code) ==
  /\ pc' = [pc EXCEPT ![p] = "idle"]
  /\ req' = [req EXCEPT ![p] = NoRequest]
  /\ ver' = [ver EXCEPT ![p] = 0]
  /\ status' = [q \in Procs |-> IF q = p THEN code ELSE "none"]
  /\ disturbed' = [disturbed EXCEPT ![p] = FALSE]
  /\ hit' = IF Writes(req[p]) /\ (disturbed[p] \/ code = "500")
            THEN hit \cup ({ver[p]} \ {0}) ELSE hit

(* A PUT goes on to its other store call, or is done. *)
PutDone(p) ==
  IF pc[p] = PutSteps[1]
  THEN pc' = [pc EXCEPT ![p] = PutSteps[2]] /\ UNCHANGED answered
  ELSE Answer(p, "200")

PutVersion(p) ==
  /\ pc[p] = "version"
  /\ entries' = [entries EXCEPT ![Item(p)] = @ \cup {ver[p]}]
  /\ PutDone(p) \/ (PutMayFail /\ Answer(p, "500"))
  /\ UNCHANGED <<arm, current, tags, issued, todo, swept, earlier>>

PutPointer(p) ==
  /\ pc[p] = "pointer"
  /\ current' = [current EXCEPT ![Item(p)] = ver[p]]
  /\ PutDone(p) \/ (PutMayFail /\ Answer(p, "500"))
  /\ UNCHANGED <<arm, entries, tags, issued, todo, swept, earlier>>

-----------------------------------------------------------------------------
(* GET, and PATCH without a version, follow the pointer. *)
Resolve(p) ==
  /\ pc[p] = "resolve"
  /\ IF current[Item(p)] = 0
     THEN Answer(p, "404")
     ELSE /\ pc' = [pc EXCEPT ![p] = "fetch"]
          /\ ver' = [ver EXCEPT ![p] = current[Item(p)]]
          /\ UNCHANGED <<req, status, disturbed, hit>>
  /\ UNCHANGED <<stored, issued, todo, swept, earlier>>

Fetch(p) ==
  /\ pc[p] = "fetch"
  /\ IF ver[p] \notin entries[Item(p)] THEN Answer(p, "404")
     ELSE IF req[p].op = "get" THEN Answer(p, "200")
     ELSE pc' = [pc EXCEPT ![p] = "merge"] /\ UNCHANGED answered
  /\ UNCHANGED <<stored, issued, todo, swept, earlier>>

(* Get's copy is shallow: its Properties are the map that the store holds, *)
(* so the PATCH changes the stored version here, with no lock.             *)
MergeTags(p) ==
  /\ Step(p, "merge", "putback")
  /\ tags' = [tags EXCEPT ![ver[p]] = req[p].tags]
  /\ UNCHANGED <<arm, entries, current, issued, todo, answered, swept, earlier>>

(* Mutant of PutBack: the update is stored the way a new version is. *)
PutBackAsNew(p) ==
  /\ pc[p] = "putback"
  /\ entries' = [entries EXCEPT ![Item(p)] = @ \cup {ver[p]}]
  /\ current' = [current EXCEPT ![Item(p)] = ver[p]]
  /\ Answer(p, "200")
  /\ UNCHANGED <<arm, tags, issued, todo, swept, earlier>>

PutBack(p) ==
  /\ pc[p] = "putback"
  /\ entries' = [entries EXCEPT ![Item(p)] = @ \cup {ver[p]}]
  /\ Answer(p, "200") \/ (PutMayFail /\ Answer(p, "500"))
  /\ UNCHANGED <<arm, current, tags, issued, todo, swept, earlier>>

(* A body that does not decode: a PATCH looks at it after the fetch. *)
Refuse(p) ==
  /\ pc[p] = "merge"
  /\ Answer(p, "400")
  /\ UNCHANGED <<stored, issued, todo, swept, earlier>>

-----------------------------------------------------------------------------
CheckPointer(p) ==
  /\ pc[p] = "check"
  /\ IF current[Item(p)] = 0
     THEN Answer(p, "404")
     ELSE pc' = [pc EXCEPT ![p] = "list"] /\ UNCHANGED answered
  /\ UNCHANGED <<stored, issued, todo, swept, earlier>>

DeleteVault(p) ==
  /\ pc[p] = "deletevault"
  /\ LET vault == <<req[p].group, VaultOf(req[p])>> IN
       IF vault \notin arm
       THEN Answer(p, "404") /\ UNCHANGED arm
       ELSE /\ arm' = arm \ {vault}
            /\ pc' = [pc EXCEPT ![p] = "list"]
            /\ UNCHANGED answered
  /\ UNCHANGED <<entries, current, tags, issued, todo, swept, earlier>>

(* Everything the store holds of these items. *)
Stored(items) ==
  {e \in Entries : e[1] \in items /\
     (e[2] \in entries[e[1]] \/ (e[2] = Pointer /\ current[e[1]] # 0))}

(* Mutant of ListEntries: only the versions that the pointer leads to. *)
ListCurrent(p) ==
  /\ Step(p, "list", "sweep")
  /\ todo' = [todo EXCEPT ![p] =
                {e \in Stored(req[p].items) : e[2] \in {Pointer, current[e[1]]}}]
  /\ UNCHANGED <<stored, issued, answered, swept, earlier>>

ListEntries(p) ==
  /\ Step(p, "list", "sweep")
  /\ todo' = [todo EXCEPT ![p] = Stored(req[p].items)]
  /\ UNCHANGED <<stored, issued, answered, swept, earlier>>

(* The entries are deleted in the order of a Go map, that is in any order. *)
SweepEntry(p) ==
  /\ pc[p] = "sweep"
  /\ \E e \in todo[p] :
       /\ todo' = [todo EXCEPT ![p] = @ \ {e}]
       /\ IF e[2] = Pointer
          THEN current' = [current EXCEPT ![e[1]] = 0] /\ UNCHANGED entries
          ELSE entries' = [entries EXCEPT ![e[1]] = @ \ {e[2]}] /\ UNCHANGED current
  /\ UNCHANGED <<arm, tags, issued, pc, answered, swept, earlier>>

(* The DELETE of an item ends with one more Delete of the pointer.  Only a *)
(* secret is answered 202; a key and a vault are answered 200.             *)
DeletePointer(p) ==
  /\ pc[p] = "sweep"
  /\ todo[p] = {}
  /\ current' = IF req[p].op = "delete" THEN [current EXCEPT ![Item(p)] = 0]
                                        ELSE current
  /\ Answer(p, IF req[p].op = "delete" /\ Item(p)[2] \notin Keys THEN "202" ELSE "200")
  /\ swept' = IF disturbed[p] THEN swept ELSE swept \cup req[p].items
  /\ UNCHANGED <<arm, entries, tags, issued, todo, earlier>>

-----------------------------------------------------------------------------
(* Which of 200 and 201 depends on an earlier Get: see ResourceHandlers. *)
PutVault(p) ==
  /\ pc[p] = "putvault"
  /\ arm' = arm \cup {<<req[p].group, VaultOf(req[p])>>}
  /\ \/ \E code \in {"200", "201"} : Answer(p, code)
     \/ PutMayFail /\ Answer(p, "500")
  /\ UNCHANGED <<entries, current, tags, issued, todo, swept, earlier>>

(* The group's DELETE takes the vault resources, which lie below its id,   *)
(* and leaves the data plane, which does not.  An empty group that does    *)
(* not exist is a 404.                                                     *)
DeleteGroup(p) ==
  /\ pc[p] = "deletegroup"
  /\ arm' = {a \in arm : a[1] # req[p].group}
  /\ Answer(p, "202") \/ (arm' = arm /\ Answer(p, "404"))
  /\ UNCHANGED <<entries, current, tags, issued, todo, swept, earlier>>

Next ==
  \E p \in Procs :
    \/ Receive(p) \/ WithoutVault(p) \/ Refuse(p)
    \/ PutVersion(p) \/ PutPointer(p)
    \/ Resolve(p) \/ Fetch(p) \/ MergeTags(p) \/ PutBack(p)
    \/ CheckPointer(p) \/ DeleteVault(p)
    \/ ListEntries(p) \/ SweepEntry(p) \/ DeletePointer(p)
    \/ PutVault(p) \/ DeleteGroup(p)

Spec == Init /\ [][Next]_vars

-----------------------------------------------------------------------------
TypeOK ==
  /\ arm \subseteq Groups \X Vaults
  /\ entries \in [Items -> SUBSET Versions]
  /\ current \in [Items -> 0..MaxVersions]
  /\ tags \in [Versions -> Tags \cup {NoTags}]
  /\ issued \in 0..MaxVersions
  /\ pc \in [Procs -> {"idle", "version", "pointer", "resolve", "fetch", "merge",
                       "putback", "check", "list", "sweep", "putvault",
                       "deletevault", "deletegroup"}]
  /\ req \in [Procs -> Requests \cup {NoRequest}]
  /\ ver \in [Procs -> 0..MaxVersions]
  /\ todo \in [Procs -> SUBSET Entries]
  /\ status \in [Procs -> {"none", "200", "201", "202", "400", "404", "500"}]
  /\ disturbed \in [Procs -> BOOLEAN]
  /\ hit \subseteq Versions
  /\ swept \subseteq Items
  /\ earlier \in [Versions -> SUBSET Versions]

BeingDeleted(i) == \E p \in Procs : Deletes(req[p]) /\ i \in req[p].items
BeingWritten(v) == \E p \in Procs : Writes(req[p]) /\ ver[p] = v

(* A version without a pointer, or a pointer to a version that is gone, is *)
(* left behind only by a PUT or PATCH that failed or that a DELETE         *)
(* overlapped.                                                             *)
HalfItemsAreRaces ==
  \A i \in Items : ~BeingDeleted(i) =>
    LET half == IF current[i] = 0 THEN entries[i] ELSE {current[i]} \ entries[i]
    IN \A v \in half : v \in hit \/ BeingWritten(v)

(* A DELETE of an item or of its vault that no write overlapped leaves no  *)
(* version and no pointer, until a write to the item is received.          *)
SweptIsEmpty == \A i \in swept : entries[i] = {} /\ current[i] = 0

(* "current" tracks the latest version: it never goes back to a version    *)
(* whose PUT had ended before the one it names was drawn.                  *)
LatestNeverReverts ==
  [][\A i \in Items :
       current[i] # 0 /\ current'[i] \notin {0, current[i]} =>
         current'[i] \notin earlier[current[i]]]_vars
=============================================================================
