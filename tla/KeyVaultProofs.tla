---------------------------- MODULE KeyVaultProofs ----------------------------
(***************************************************************************)
(* Proofs about KeyVault, for any number of requests, vaults, names and    *)
(* versions, over a memory store or a file store.                          *)
(***************************************************************************)
EXTENDS KeyVault, TLAPS

(* What the requests are, field by field. *)
LEMMA RequestForms ==
  ASSUME NEW r \in Requests
  PROVE  \/ r.op \in {"put", "get", "delete"} /\ \E i \in Items : r.items = {i}
         \/ /\ r.op = "patch" /\ \E i \in Items : r.items = {i}
            /\ r.version \in Versions \cup {0} /\ r.tags \in Tags
         \/ /\ r.op \in {"putvault", "deletevault"} /\ r.group \in Groups
            /\ \E v \in Vaults : r.items = {v} \X Names
         \/ r.op = "deletegroup" /\ r.group \in Groups /\ r.items = {}
<1>1. CASE r \in [op : {"put", "get", "delete"}, items : {{i} : i \in Items}]
  BY <1>1
<1>2. CASE r \in [op : {"patch"}, items : {{i} : i \in Vaults \X Keys},
                  version : Versions \cup {0}, tags : Tags]
  BY <1>2, KeyVaultAssumption DEF Items
<1>3. CASE r \in [op : {"putvault", "deletevault"}, group : Groups,
                  items : {{v} \X Names : v \in Vaults}]
  BY <1>3
<1>4. CASE r \in [op : {"deletegroup"}, group : Groups, items : {{}}]
  BY <1>4
<1>. QED
  BY <1>1, <1>2, <1>3, <1>4 DEF Requests

LEMMA VaultIsNamed ==
  ASSUME NEW r \in Requests, r.op \in {"putvault", "deletevault"}
  PROVE  VaultOf(r) \in Vaults /\ r.items \subseteq Items
<1>1. PICK v \in Vaults : r.items = {v} \X Names
  BY RequestForms
<1>2. PICK n \in Names : TRUE
  BY KeyVaultAssumption
<1>3. <<v, n>> \in r.items
  BY <1>1
<1>4. (CHOOSE i \in r.items : TRUE) \in r.items
  BY <1>3
<1>. QED
  BY <1>1, <1>4 DEF VaultOf, Items

LEMMA FirstSteps ==
  ASSUME NEW r \in Requests
  PROVE  /\ r.op = "put" => FirstStep(r) = "version"
         /\ r.op = "get" => FirstStep(r) = "resolve"
         /\ r.op = "patch" => FirstStep(r) = IF r.version = 0 THEN "resolve" ELSE "fetch"
         /\ r.op = "delete" => FirstStep(r) = "check"
         /\ r.op \in {"putvault", "deletevault", "deletegroup"} => FirstStep(r) = r.op
BY DEF FirstStep, PutSteps

(* The one item of a request that names one. *)
LEMMA ItemIs ==
  ASSUME NEW p \in Procs, req[p] \in Requests,
         req[p].op \in {"put", "get", "patch", "delete"}
  PROVE  Item(p) \in Items /\ req[p].items = {Item(p)}
<1>1. PICK i \in Items : req[p].items = {i}
  BY RequestForms
<1>. QED
  BY <1>1 DEF Item

-----------------------------------------------------------------------------
(* What a request is, by its next step. *)
Form ==
  /\ TypeOK
  /\ \A p \in Procs :
       /\ pc[p] = "idle" <=> req[p] = NoRequest
       /\ pc[p] \in {"version", "pointer"} <=> req[p].op = "put"
       /\ pc[p] \in {"resolve", "fetch"} => req[p].op \in {"get", "patch"}
       /\ pc[p] = "resolve" => ver[p] = 0
       /\ pc[p] \in {"merge", "putback"} => req[p].op = "patch" /\ ver[p] \in Versions
       /\ pc[p] = "check" => req[p].op = "delete"
       /\ pc[p] \in {"list", "sweep"} => Deletes(req[p])
       /\ pc[p] \in {"putvault", "deletevault", "deletegroup"} => req[p].op = pc[p]
       /\ req[p].op = "put" => ver[p] \in 1..issued

LEMMA InitForm == Init => Form
<1> SUFFICES ASSUME Init PROVE Form
  OBVIOUS
<1>1. MaxVersions \in Nat
  BY KeyVaultAssumption
<1>2. TypeOK
  BY <1>1 DEF Init, TypeOK
<1>. QED
  BY <1>2 DEF Init, Form, NoRequest, Deletes

LEMMA AnswerForm ==
  ASSUME Form, NEW p \in Procs,
         NEW code \in {"200", "201", "202", "400", "404", "500"}, Answer(p, code),
         arm' \subseteq Groups \X Vaults, entries' \in [Items -> SUBSET Versions],
         current' \in [Items -> 0..MaxVersions], swept' \subseteq Items,
         UNCHANGED <<tags, issued, todo, earlier>>
  PROVE  Form'
<1>1. /\ pc' = [pc EXCEPT ![p] = "idle"] /\ req' = [req EXCEPT ![p] = NoRequest]
      /\ ver' = [ver EXCEPT ![p] = 0] /\ disturbed' = [disturbed EXCEPT ![p] = FALSE]
      /\ status' = [q \in Procs |-> IF q = p THEN code ELSE "none"]
      /\ hit' = IF Writes(req[p]) /\ (disturbed[p] \/ code = "500")
                THEN hit \cup ({ver[p]} \ {0}) ELSE hit
  BY DEF Answer
<1>2. hit' \subseteq Versions
  <2>1. {ver[p]} \ {0} \subseteq Versions
    BY KeyVaultAssumption DEF Form, TypeOK, Versions
  <2>. QED
    BY <1>1, <2>1 DEF Form, TypeOK
<1>3. ver' \in [Procs -> 0..MaxVersions]
  BY <1>1, KeyVaultAssumption DEF Form, TypeOK
<1>4. TypeOK'
  BY <1>1, <1>2, <1>3 DEF Form, TypeOK
<1>5. pc'[p] = "idle" /\ req'[p] = NoRequest /\ req'[p].op = "none"
  BY <1>1 DEF Form, TypeOK, NoRequest
<1>6. \A q \in Procs \ {p} : pc'[q] = pc[q] /\ req'[q] = req[q] /\ ver'[q] = ver[q]
  BY <1>1 DEF Form, TypeOK
<1>. QED
  BY <1>4, <1>5, <1>6 DEF Form, Deletes

LEMMA ReceiveForm ==
  ASSUME Form, NEW p \in Procs, Receive(p)
  PROVE  Form'
<1>1. PICK r \in Requests :
        /\ r.op = "put" => issued < MaxVersions
        /\ r.op = "patch" => r.version <= issued
        /\ req' = [req EXCEPT ![p] = r]
        /\ pc' = [pc EXCEPT ![p] = FirstStep(r)]
        /\ issued' = IF r.op = "put" THEN issued + 1 ELSE issued
        /\ ver' = [ver EXCEPT ![p] = CASE r.op = "put" -> issued'
                                       [] r.op = "patch" -> r.version
                                       [] OTHER -> 0]
        /\ disturbed' = [q \in Procs |->
             IF q = p THEN \E o \in Procs : Disturbs(req[o], r)
                      ELSE disturbed[q] \/ Disturbs(r, req[q])]
        /\ swept' = IF Writes(r) THEN swept \ r.items ELSE swept
        /\ earlier' = IF r.op # "put" THEN earlier
                      ELSE [earlier EXCEPT ![issued'] =
                              (1..issued) \ {ver[q] : q \in {o \in Procs : req[o].op = "put"}}]
  BY DEF Receive
<1>2. status' = [status EXCEPT ![p] = "none"] /\ UNCHANGED <<stored, todo, hit>>
  BY DEF Receive
<1>3. issued \in Nat /\ issued <= MaxVersions /\ MaxVersions \in Nat
  BY KeyVaultAssumption DEF Form, TypeOK
<1>4. issued' \in 0..MaxVersions /\ issued <= issued'
  BY <1>1, <1>3
<1>5. ver' \in [Procs -> 0..MaxVersions] /\ (r.op = "put" => ver'[p] = issued')
  <2>1. (CASE r.op = "put" -> issued' [] r.op = "patch" -> r.version [] OTHER -> 0)
          \in 0..MaxVersions
    BY <1>3, <1>4, RequestForms DEF Versions
  <2>. QED
    BY <1>1, <2>1 DEF Form, TypeOK
<1>6. disturbed' \in [Procs -> BOOLEAN]
  BY <1>1
<1>7. earlier' \in [Versions -> SUBSET Versions]
  <2>1. 1..issued \subseteq Versions
    BY <1>3 DEF Versions
  <2>2. (1..issued) \ {ver[q] : q \in {o \in Procs : req[o].op = "put"}} \in SUBSET Versions
    BY <2>1
  <2>. QED
    BY <1>1, <2>2 DEF Form, TypeOK
<1>8. /\ FirstStep(r) \in {"version", "resolve", "fetch", "check", "putvault",
                           "deletevault", "deletegroup"}
      /\ r # NoRequest
  BY RequestForms, FirstSteps DEF NoRequest
<1>9. TypeOK'
  BY <1>1, <1>2, <1>4, <1>5, <1>6, <1>7, <1>8 DEF Form, TypeOK, stored
<1>10. \A q \in Procs : req'[q].op = "put" => ver'[q] \in 1..issued'
  BY <1>1, <1>3, <1>4, <1>5 DEF Form, TypeOK
<1>. QED
  <2>1. ASSUME NEW q \in Procs \ {p}
        PROVE  pc'[q] = pc[q] /\ req'[q] = req[q] /\ ver'[q] = ver[q]
    BY <1>1 DEF Form, TypeOK
  <2>2. pc'[p] = FirstStep(r) /\ req'[p] = r
    BY <1>1 DEF Form, TypeOK
  <2>3. /\ FirstStep(r) = "version" <=> r.op = "put"
        /\ FirstStep(r) \in {"resolve", "fetch"} => r.op \in {"get", "patch"}
        /\ FirstStep(r) = "check" => r.op = "delete"
        /\ FirstStep(r) \in {"putvault", "deletevault", "deletegroup"} => r.op = FirstStep(r)
    BY RequestForms, FirstSteps
  <2>4. FirstStep(r) = "resolve" => ver'[p] = 0
    <3>1. FirstStep(r) = "resolve" => r.op = "get" \/ (r.op = "patch" /\ r.version = 0)
      BY RequestForms, FirstSteps
    <3>2. ver'[p] = CASE r.op = "put" -> issued' [] r.op = "patch" -> r.version [] OTHER -> 0
      BY <1>1 DEF Form, TypeOK
    <3>. QED
      BY <3>1, <3>2
  <2>. QED
    BY <1>8, <1>9, <1>10, <2>1, <2>2, <2>3, <2>4 DEF Form, Deletes

(* A step that leads to the next store call of the same request. *)
LEMMA GotoForm ==
  ASSUME Form, NEW p \in Procs, NEW step, pc' = [pc EXCEPT ![p] = step],
         \/ pc[p] = "version" /\ step = "pointer"
         \/ pc[p] = "resolve" /\ step = "fetch"
         \/ pc[p] = "fetch" /\ step = "merge" /\ req[p].op = "patch" /\ ver[p] \in Versions
         \/ pc[p] = "merge" /\ step = "putback"
         \/ pc[p] = "check" /\ step = "list"
         \/ pc[p] = "deletevault" /\ step = "list"
         \/ pc[p] = "list" /\ step = "sweep"
         \/ pc[p] = "sweep" /\ step = "sweep",
         pc[p] = "resolve" \/ ver' = ver,
         NEW v \in 0..MaxVersions, ver' = [ver EXCEPT ![p] = v],
         TypeOK', UNCHANGED <<req, issued>>
  PROVE  Form'
<1>1. pc'[p] = step /\ \A q \in Procs \ {p} : pc'[q] = pc[q] /\ ver'[q] = ver[q]
  BY DEF Form, TypeOK
<1>2. pc[p] = "resolve" => req[p].op \in {"get", "patch"}
  BY DEF Form
<1>. QED
  BY <1>1, <1>2 DEF Form, Deletes

LEMMA StepForm ==
  ASSUME Form, NEW p \in Procs,
         \/ Receive(p) \/ Refuse(p)
         \/ PutVersion(p) \/ PutPointer(p)
         \/ Resolve(p) \/ Fetch(p) \/ MergeTags(p) \/ PutBack(p)
         \/ CheckPointer(p) \/ DeleteVault(p)
         \/ ListEntries(p) \/ SweepEntry(p) \/ DeletePointer(p)
         \/ PutVault(p) \/ DeleteGroup(p)
  PROVE  Form'
<1>0. /\ req[p] # NoRequest => req[p] \in Requests
      /\ arm \subseteq Groups \X Vaults /\ entries \in [Items -> SUBSET Versions]
      /\ current \in [Items -> 0..MaxVersions] /\ swept \subseteq Items
      /\ ver \in [Procs -> 0..MaxVersions] /\ MaxVersions \in Nat
      /\ ver = [ver EXCEPT ![p] = ver[p]]
  BY KeyVaultAssumption DEF Form, TypeOK
<1>1. ASSUME NEW code \in {"200", "201", "202", "400", "404", "500"}, Answer(p, code),
             UNCHANGED <<arm, entries, current, swept, tags, issued, todo, earlier>>
      PROVE  Form'
  BY <1>0, <1>1, AnswerForm
<1>2. CASE Refuse(p)
  BY <1>1, <1>2 DEF Refuse, stored
<1>3. CASE PutVersion(p) \/ PutPointer(p) \/ PutBack(p)
  <2>1. /\ pc[p] \in {"version", "pointer", "putback"}
        /\ req[p].op \in {"put", "patch"} /\ ver[p] \in Versions /\ Item(p) \in Items
    <3>1. req[p].op \in {"put", "patch"} /\ req[p] \in Requests /\ ver[p] \in Versions
      BY <1>0, <1>3, KeyVaultAssumption
         DEF PutVersion, PutPointer, PutBack, Form, TypeOK, Versions, NoRequest
    <3>. QED
      BY <1>3, <3>1, ItemIs DEF PutVersion, PutPointer, PutBack
  <2>2. /\ entries' \in [Items -> SUBSET Versions] /\ current' \in [Items -> 0..MaxVersions]
        /\ UNCHANGED <<arm, tags, issued, todo, swept, earlier>>
    <3>1. CASE PutVersion(p) \/ PutBack(p)
      <4>1. entries[Item(p)] \cup {ver[p]} \in SUBSET Versions
        BY <1>0, <2>1
      <4>. QED
        BY <1>0, <3>1, <4>1 DEF PutVersion, PutBack
    <3>2. CASE PutPointer(p)
      BY <1>0, <2>1, <3>2 DEF PutPointer
    <3>. QED
      BY <1>3, <3>1, <3>2
  <2>3. \/ Answer(p, "200") \/ Answer(p, "500")
        \/ pc[p] = "version" /\ pc' = [pc EXCEPT ![p] = "pointer"] /\ UNCHANGED answered
    BY <1>3, <2>1 DEF PutVersion, PutPointer, PutBack, PutDone, PutSteps
  <2>4. CASE Answer(p, "200") \/ Answer(p, "500")
    BY <1>0, <2>2, <2>4, AnswerForm
  <2>5. CASE pc[p] = "version" /\ pc' = [pc EXCEPT ![p] = "pointer"] /\ UNCHANGED answered
    <3>1. TypeOK'
      BY <1>0, <2>2, <2>5 DEF Form, TypeOK, answered
    <3>. QED
      BY <1>0, <2>2, <2>5, <3>1, GotoForm DEF answered
  <2>. QED
    BY <2>3, <2>4, <2>5
<1>4. CASE Resolve(p) \/ Fetch(p) \/ CheckPointer(p)
  <2>1. /\ pc[p] \in {"resolve", "fetch", "check"} /\ Item(p) \in Items
    <3>1. /\ pc[p] \in {"resolve", "fetch", "check"} /\ req[p] \in Requests
          /\ req[p].op \in {"get", "patch", "delete"}
      BY <1>0, <1>4 DEF Resolve, Fetch, CheckPointer, Form, NoRequest
    <3>. QED
      BY <3>1, ItemIs
  <2>2. CASE Answer(p, "404") \/ Answer(p, "200")
    BY <1>1, <1>4, <2>2 DEF Resolve, Fetch, CheckPointer, stored
  <2>3. CASE ~(Answer(p, "404") \/ Answer(p, "200")) /\ Resolve(p)
    <3>1. /\ pc[p] = "resolve" /\ pc' = [pc EXCEPT ![p] = "fetch"]
          /\ ver' = [ver EXCEPT ![p] = current[Item(p)]] /\ current[Item(p)] \in 0..MaxVersions
          /\ UNCHANGED <<stored, issued, todo, swept, earlier, req, status, disturbed, hit>>
      BY <1>0, <2>1, <2>3 DEF Resolve
    <3>2. TypeOK'
      BY <1>0, <3>1 DEF Form, TypeOK, stored
    <3>. QED
      BY <3>1, <3>2, GotoForm
  <2>4. CASE ~(Answer(p, "404") \/ Answer(p, "200")) /\ Fetch(p)
    <3>1. /\ pc[p] = "fetch" /\ pc' = [pc EXCEPT ![p] = "merge"]
          /\ ver[p] \in entries[Item(p)] /\ req[p].op # "get"
          /\ UNCHANGED <<stored, issued, todo, swept, earlier, answered>>
      BY <2>4 DEF Fetch
    <3>2. TypeOK'
      BY <1>0, <3>1 DEF Form, TypeOK, stored, answered
    <3>3. req[p].op = "patch" /\ ver[p] \in Versions
      BY <1>0, <2>1, <3>1 DEF Form
    <3>. QED
      BY <1>0, <3>1, <3>2, <3>3, GotoForm DEF answered
  <2>5. CASE ~(Answer(p, "404") \/ Answer(p, "200")) /\ CheckPointer(p)
    <3>1. /\ pc[p] = "check" /\ pc' = [pc EXCEPT ![p] = "list"]
          /\ UNCHANGED <<stored, issued, todo, swept, earlier, answered>>
      BY <2>5 DEF CheckPointer
    <3>2. TypeOK'
      BY <3>1 DEF Form, TypeOK, stored, answered
    <3>. QED
      BY <1>0, <3>1, <3>2, GotoForm DEF answered
  <2>. QED
    BY <1>4, <2>2, <2>3, <2>4, <2>5
<1>5. CASE MergeTags(p)
  <2>1. /\ pc[p] = "merge" /\ pc' = [pc EXCEPT ![p] = "putback"]
        /\ tags' = [tags EXCEPT ![ver[p]] = req[p].tags]
        /\ UNCHANGED <<arm, entries, current, issued, todo, answered, swept, earlier>>
    BY <1>5 DEF MergeTags, Step
  <2>2. req[p].tags \in Tags
    BY <1>0, <2>1, RequestForms DEF Form, NoRequest
  <2>3. TypeOK'
    BY <2>1, <2>2 DEF Form, TypeOK, answered
  <2>. QED
    BY <1>0, <2>1, <2>3, GotoForm DEF answered
<1>6. CASE DeleteVault(p)
  <2>1. CASE Answer(p, "404")
    <3>1. /\ arm' \subseteq arm
          /\ UNCHANGED <<entries, current, tags, issued, todo, swept, earlier>>
      BY <1>6 DEF DeleteVault
    <3>. QED
      BY <1>0, <2>1, <3>1, AnswerForm
  <2>2. CASE ~Answer(p, "404")
    <3>1. /\ pc[p] = "deletevault" /\ pc' = [pc EXCEPT ![p] = "list"] /\ arm' \subseteq arm
          /\ UNCHANGED <<entries, current, tags, issued, todo, swept, earlier, answered>>
      BY <1>6, <2>2 DEF DeleteVault
    <3>2. TypeOK'
      BY <3>1 DEF Form, TypeOK, answered
    <3>. QED
      BY <1>0, <3>1, <3>2, GotoForm DEF answered
  <2>. QED
    BY <2>1, <2>2
<1>7. CASE ListEntries(p)
  <2>1. /\ pc[p] = "list" /\ pc' = [pc EXCEPT ![p] = "sweep"]
        /\ todo' = [todo EXCEPT ![p] = Stored(req[p].items)]
        /\ UNCHANGED <<stored, issued, answered, swept, earlier>>
    BY <1>7 DEF ListEntries, Step
  <2>2. Stored(req[p].items) \in SUBSET Entries
    BY DEF Stored
  <2>3. TypeOK'
    BY <2>1, <2>2 DEF Form, TypeOK, stored, answered
  <2>. QED
    BY <1>0, <2>1, <2>3, GotoForm DEF answered
<1>8. CASE SweepEntry(p)
  <2>1. PICK e \in todo[p] :
          /\ todo' = [todo EXCEPT ![p] = todo[p] \ {e}]
          /\ IF e[2] = Pointer
             THEN current' = [current EXCEPT ![e[1]] = 0] /\ UNCHANGED entries
             ELSE entries' = [entries EXCEPT ![e[1]] = entries[e[1]] \ {e[2]}]
                    /\ UNCHANGED current
    BY <1>8 DEF SweepEntry
  <2>2. e \in Entries /\ e[1] \in Items
    BY <2>1 DEF Form, TypeOK, Entries
  <2>3. todo' \in [Procs -> SUBSET Entries]
    BY <2>1 DEF Form, TypeOK
  <2>4. current' \in [Items -> 0..MaxVersions] /\ entries' \in [Items -> SUBSET Versions]
    <3>1. CASE e[2] = Pointer
      BY <1>0, <2>1, <2>2, <3>1
    <3>2. CASE e[2] # Pointer
      <4>1. entries[e[1]] \ {e[2]} \in SUBSET Versions
        BY <1>0, <2>2
      <4>. QED
        BY <1>0, <2>1, <2>2, <3>2, <4>1
    <3>. QED
      BY <3>1, <3>2
  <2>5. UNCHANGED <<arm, tags, issued, pc, answered, swept, earlier>> /\ pc[p] = "sweep"
    BY <1>8 DEF SweepEntry
  <2>6. TypeOK'
    BY <2>3, <2>4, <2>5 DEF Form, TypeOK, answered
  <2>. QED
    BY <2>5, <2>6 DEF Form, answered
<1>9. CASE DeletePointer(p)
  <2>1. current' \in [Items -> 0..MaxVersions]
    <3>1. current' = current \/ current' = [current EXCEPT ![Item(p)] = 0]
      BY <1>9 DEF DeletePointer
    <3>2. 0 \in 0..MaxVersions
      BY <1>0
    <3>. QED
      BY <1>0, <3>1, <3>2
  <2>2. req[p].items \subseteq Items
    <3>1. req[p] \in Requests /\ req[p].op \in {"delete", "deletevault"}
      BY <1>0, <1>9 DEF DeletePointer, Form, Deletes, NoRequest
    <3>. QED
      BY <3>1, ItemIs, VaultIsNamed
  <2>3. swept' \subseteq Items
    BY <1>0, <1>9, <2>2 DEF DeletePointer
  <2>4. Answer(p, "202") \/ Answer(p, "200")
    BY <1>9 DEF DeletePointer
  <2>. QED
    BY <1>0, <1>9, <2>1, <2>3, <2>4, AnswerForm DEF DeletePointer
<1>10. CASE PutVault(p)
  <2>1. VaultOf(req[p]) \in Vaults /\ req[p].group \in Groups
    BY <1>0, <1>10, VaultIsNamed, RequestForms DEF PutVault, Form, NoRequest
  <2>2. arm' \subseteq Groups \X Vaults
    BY <1>0, <1>10, <2>1 DEF PutVault
  <2>3. \E code \in {"200", "201", "500"} : Answer(p, code)
    BY <1>10 DEF PutVault
  <2>. QED
    BY <1>0, <1>10, <2>2, <2>3, AnswerForm DEF PutVault
<1>11. CASE DeleteGroup(p)
  <2>1. arm' \subseteq Groups \X Vaults
    BY <1>0, <1>11 DEF DeleteGroup
  <2>2. Answer(p, "202") \/ Answer(p, "404")
    BY <1>11 DEF DeleteGroup
  <2>. QED
    BY <1>0, <1>11, <2>1, <2>2, AnswerForm DEF DeleteGroup
<1>. QED
  BY <1>2, <1>3, <1>4, <1>5, <1>6, <1>7, <1>8, <1>9, <1>10, <1>11, ReceiveForm

LEMMA NextForm == Form /\ [Next]_vars => Form'
<1> SUFFICES ASSUME Form, [Next]_vars PROVE Form'
  OBVIOUS
<1>1. CASE UNCHANGED vars
  BY <1>1 DEF vars, stored, Form, TypeOK, Deletes
<1>2. CASE Next
  <2>1. ASSUME NEW p \in Procs, WithoutVault(p) PROVE Form'
    BY <2>1 DEF WithoutVault, stored, Form, TypeOK, Deletes
  <2>. QED
    BY <1>2, <2>1, StepForm DEF Next
<1>. QED
  BY <1>1, <1>2

-----------------------------------------------------------------------------
(* A delete and a write of the same item know that they overlap. *)
Known ==
  \A p, q \in Procs :
    Deletes(req[p]) /\ Writes(req[q]) /\ req[p].items \cap req[q].items # {} =>
      disturbed[p] /\ disturbed[q]

(* A sweep deletes entries of its own items. *)
OwnItems ==
  \A p \in Procs : pc[p] = "sweep" => \A e \in todo[p] : e[1] \in req[p].items

(* What a PUT or a PATCH that no delete overlapped has stored or found is  *)
(* still there.                                                            *)
Unmoved ==
  \A p \in Procs :
    ~disturbed[p] /\ (pc[p] = "merge" \/ pc[p] = "putback" \/ pc[p] = "pointer") =>
      ver[p] \in entries[Item(p)]

Sweeping(p, i) == pc[p] = "sweep" /\ i \in req[p].items

(* Whether a version is one that a failure or an overlap accounts for, or  *)
(* that a PUT of the item has stored and not yet pointed to.               *)
Marked(i, v) ==
  \/ v \in hit
  \/ \E p \in Procs :
       /\ Writes(req[p]) /\ ver[p] = v /\ i \in req[p].items
       /\ disturbed[p] \/ pc[p] = "pointer"

(* What a sweep has not listed came from a write that overlapped it. *)
ListedOrMarked ==
  \A p \in Procs, i \in Items : Sweeping(p, i) =>
    /\ \A v \in entries[i] : <<i, v>> \in todo[p] \/ Marked(i, v)
    /\ current[i] # 0 => <<i, Pointer>> \in todo[p] \/ Marked(i, current[i])

Half(i) == IF current[i] = 0 THEN entries[i] ELSE {current[i]} \ entries[i]

HalvesMarked ==
  \A i \in Items : (\A p \in Procs : ~Sweeping(p, i)) => \A v \in Half(i) : Marked(i, v)

(* A sweep that no write overlapped has everything listed. *)
AllListed ==
  \A p \in Procs : pc[p] = "sweep" /\ ~disturbed[p] => Stored(req[p].items) \subseteq todo[p]

SweptQuiet ==
  \A i \in swept :
    /\ entries[i] = {} /\ current[i] = 0
    /\ \A p \in Procs : Writes(req[p]) => i \notin req[p].items

(* The versions counted as earlier had been drawn, and no PUT still holds one. *)
Drawn ==
  /\ \A v \in Versions : earlier[v] \subseteq 1..issued
  /\ \A p \in Procs, v \in Versions : req[p].op = "put" => ver[p] \notin earlier[v]


KeyVaultInv ==
  /\ Form /\ Known /\ OwnItems /\ Unmoved /\ ListedOrMarked /\ HalvesMarked
  /\ AllListed /\ SweptQuiet /\ Drawn

(* The steps of a request after it was received. *)
Serve(p) ==
  \/ Refuse(p)
  \/ PutVersion(p) \/ PutPointer(p)
  \/ Resolve(p) \/ Fetch(p) \/ MergeTags(p) \/ PutBack(p)
  \/ CheckPointer(p) \/ DeleteVault(p)
  \/ ListEntries(p) \/ SweepEntry(p) \/ DeletePointer(p)
  \/ PutVault(p) \/ DeleteGroup(p)

Continues(p) ==
  /\ req' = req /\ disturbed' = disturbed /\ hit' = hit
  /\ pc[p] # "resolve" => ver' = ver

Ends(p) ==
  /\ pc' = [pc EXCEPT ![p] = "idle"] /\ req' = [req EXCEPT ![p] = NoRequest]
  /\ disturbed' = [disturbed EXCEPT ![p] = FALSE]
  /\ hit \subseteq hit' /\ hit' \subseteq hit \cup {ver[p]}
  /\ Writes(req[p]) /\ disturbed[p] => {ver[p]} \ {0} \subseteq hit'

Same(q) ==
  /\ req'[q] = req[q] /\ pc'[q] = pc[q] /\ ver'[q] = ver[q]
  /\ todo'[q] = todo[q] /\ disturbed'[q] = disturbed[q]

LEMMA AnswerEnds ==
  ASSUME Form, NEW p \in Procs, NEW code, Answer(p, code)
  PROVE  /\ Ends(p)
         /\ \A q \in Procs \ {p} : req'[q] = req[q] /\ pc'[q] = pc[q]
                                   /\ ver'[q] = ver[q] /\ disturbed'[q] = disturbed[q]
<1>1. Ends(p)
  BY DEF Answer, Ends
<1>. QED
  BY <1>1 DEF Answer, Form, TypeOK

LEMMA ServeShape ==
  ASSUME Form, NEW p \in Procs, Serve(p)
  PROVE  /\ Continues(p) \/ Ends(p)
         /\ \A q \in Procs \ {p} : Same(q)
         /\ UNCHANGED <<issued, earlier>>
<1>1. UNCHANGED <<issued, earlier>>
  BY DEF Serve, Refuse, PutVersion, PutPointer, Resolve, Fetch, MergeTags, PutBack,
         CheckPointer, DeleteVault, ListEntries, SweepEntry, DeletePointer, PutVault,
         DeleteGroup
<1>2. \A q \in Procs \ {p} : todo'[q] = todo[q]
  <2>1. todo' = todo \/ \E s : todo' = [todo EXCEPT ![p] = s]
    BY DEF Serve, Refuse, PutVersion, PutPointer, Resolve, Fetch, MergeTags, PutBack,
           CheckPointer, DeleteVault, ListEntries, SweepEntry, DeletePointer, PutVault,
           DeleteGroup
  <2>. QED
    BY <2>1 DEF Form, TypeOK
<1>3. CASE \E code : Answer(p, code)
  BY <1>1, <1>2, <1>3, AnswerEnds DEF Same
<1>4. CASE ~(\E code : Answer(p, code))
  <2>1. /\ Continues(p)
        /\ pc' = pc \/ \E s : pc' = [pc EXCEPT ![p] = s]
        /\ ver' = ver \/ \E v : ver' = [ver EXCEPT ![p] = v]
    BY <1>4 DEF Serve, Refuse, PutVersion, PutPointer, Resolve, Fetch, MergeTags, PutBack,
           CheckPointer, DeleteVault, ListEntries, SweepEntry, DeletePointer, PutVault,
           DeleteGroup, PutDone, Step, Continues, answered
  <2>2. \A q \in Procs \ {p} : pc'[q] = pc[q] /\ ver'[q] = ver[q]
    BY <2>1 DEF Form, TypeOK
  <2>. QED
    BY <1>1, <1>2, <2>1, <2>2 DEF Same, Continues
<1>. QED
  BY <1>3, <1>4

(* What a received request finds and leaves. *)
LEMMA ReceiveShape ==
  ASSUME Form, NEW p \in Procs, Receive(p)
  PROVE  /\ \A q \in Procs \ {p} : /\ req'[q] = req[q] /\ pc'[q] = pc[q]
                                 /\ ver'[q] = ver[q] /\ todo'[q] = todo[q]
                                 /\ disturbed'[q] =
                                      (disturbed[q] \/ Disturbs(req'[p], req[q]))
         /\ disturbed'[p] = (\E o \in Procs : Disturbs(req[o], req'[p]))
         /\ req[p] = NoRequest /\ req'[p] \in Requests
         /\ pc'[p] \in {"version", "resolve", "fetch", "check", "putvault",
                        "deletevault", "deletegroup"}
         /\ swept' = IF Writes(req'[p]) THEN swept \ req'[p].items ELSE swept
         /\ UNCHANGED <<entries, current, hit, todo>>
<1>1. PICK r \in Requests :
        /\ req' = [req EXCEPT ![p] = r]
        /\ pc' = [pc EXCEPT ![p] = FirstStep(r)]
        /\ \E v : ver' = [ver EXCEPT ![p] = v]
        /\ disturbed' = [q \in Procs |->
             IF q = p THEN \E o \in Procs : Disturbs(req[o], r)
                      ELSE disturbed[q] \/ Disturbs(r, req[q])]
        /\ swept' = IF Writes(r) THEN swept \ r.items ELSE swept
  BY DEF Receive
<1>2. FirstStep(r) \in {"version", "resolve", "fetch", "check", "putvault",
                       "deletevault", "deletegroup"}
  BY RequestForms, FirstSteps
<1>3. req'[p] = r /\ pc'[p] = FirstStep(r)
  BY <1>1 DEF Form, TypeOK
<1>4. req[p] = NoRequest /\ UNCHANGED <<entries, current, hit, todo>>
  BY DEF Receive, Form, stored
<1>5. \A q \in Procs \ {p} : req'[q] = req[q] /\ pc'[q] = pc[q] /\ ver'[q] = ver[q]
  BY <1>1 DEF Form, TypeOK
<1>. QED
  BY <1>1, <1>2, <1>3, <1>4, <1>5

(* The versions that a PUT finds drawn are earlier than its own. *)
LEMMA ReceiveDrawn ==
  ASSUME Form, Drawn, NEW p \in Procs, Receive(p)
  PROVE  Drawn'
<1>1. PICK r \in Requests :
        /\ r.op = "put" => issued < MaxVersions
        /\ req' = [req EXCEPT ![p] = r]
        /\ issued' = IF r.op = "put" THEN issued + 1 ELSE issued
        /\ ver' = [ver EXCEPT ![p] = CASE r.op = "put" -> issued'
                                       [] r.op = "patch" -> r.version
                                       [] OTHER -> 0]
        /\ earlier' = IF r.op # "put" THEN earlier
                      ELSE [earlier EXCEPT ![issued'] =
                              (1..issued) \ {ver[q] : q \in {o \in Procs : req[o].op = "put"}}]
  BY DEF Receive
<1>2. issued \in Nat /\ req[p] = NoRequest
  BY DEF Form, TypeOK, Receive
<1>3. \A q \in Procs \ {p} : req'[q] = req[q] /\ ver'[q] = ver[q]
  BY <1>1 DEF Form, TypeOK
<1>4. CASE r.op # "put"
  <2>1. issued' = issued /\ earlier' = earlier /\ req'[p].op # "put"
    BY <1>1, <1>4 DEF Form, TypeOK
  <2>. QED
    BY <1>3, <2>1 DEF Drawn
<1>5. CASE r.op = "put"
  <2>1. issued' = issued + 1 /\ ver'[p] = issued + 1
    BY <1>1, <1>5 DEF Form, TypeOK
  <2>2. \A v \in Versions : earlier'[v] = IF v = issued + 1
          THEN (1..issued) \ {ver[q] : q \in {o \in Procs : req[o].op = "put"}}
          ELSE earlier[v]
    BY <1>1, <1>5, <2>1 DEF Form, TypeOK
  <2>3. \A v \in Versions : earlier'[v] \subseteq 1..issued
    BY <2>2 DEF Drawn
  <2>4. 1..issued \subseteq 1..issued' /\ issued + 1 \notin 1..issued
    BY <1>2, <2>1
  <2>5. ASSUME NEW q \in Procs, NEW v \in Versions, req'[q].op = "put"
        PROVE  ver'[q] \notin earlier'[v]
    <3>1. CASE q = p
      BY <2>1, <2>3, <2>4, <3>1
    <3>2. CASE q # p
      <4>1. req[q].op = "put" /\ ver'[q] = ver[q]
        BY <1>3, <2>5, <3>2
      <4>2. ver[q] \in {ver[o] : o \in {n \in Procs : req[n].op = "put"}}
        BY <4>1
      <4>3. ver[q] \notin earlier[v]
        BY <4>1 DEF Drawn
      <4>. QED
        BY <2>2, <4>1, <4>2, <4>3
    <3>. QED
      BY <3>1, <3>2
  <2>. QED
    BY <2>3, <2>4, <2>5 DEF Drawn
<1>. QED
  BY <1>4, <1>5

LEMMA ServeDrawn ==
  ASSUME Form, Drawn, NEW p \in Procs, Serve(p)
  PROVE  Drawn'
<1>1. UNCHANGED <<issued, earlier>> /\ \A q \in Procs \ {p} : Same(q)
  BY ServeShape
<1>2. req'[p].op = "put" => req[p].op = "put" /\ ver'[p] = ver[p]
  <2>1. CASE Continues(p)
    BY <2>1 DEF Continues, Form
  <2>2. CASE Ends(p)
    BY <2>2 DEF Ends, Form, TypeOK, NoRequest
  <2>. QED
    BY <2>1, <2>2, ServeShape
<1>3. \A q \in Procs : req'[q].op = "put" => req[q].op = "put" /\ ver'[q] = ver[q]
  BY <1>1, <1>2 DEF Same
<1>. QED
  BY <1>1, <1>3 DEF Drawn

(* Deletes and writes of an item meet when the second one is received. *)
LEMMA ReceiveKnown ==
  ASSUME Form, Known, NEW p \in Procs, Receive(p)
  PROVE  Known'
<1> SUFFICES ASSUME NEW d \in Procs, NEW w \in Procs,
                    Deletes(req'[d]), Writes(req'[w]),
                    req'[d].items \cap req'[w].items # {}
             PROVE  disturbed'[d] /\ disturbed'[w]
  BY DEF Known, Deletes, Writes
<1>0. d # w
  BY DEF Deletes, Writes
<1>1. CASE d # p /\ w # p
  BY <1>1, ReceiveShape DEF Known
<1>2. CASE d = p
  <2>1. w # p /\ req'[w] = req[w]
    BY <1>0, <1>2, ReceiveShape
  <2>2. Disturbs(req[w], req'[p]) /\ Disturbs(req'[p], req[w])
    BY <1>2, <2>1 DEF Disturbs, Deletes, Writes
  <2>. QED
    BY <1>2, <2>1, <2>2, ReceiveShape
<1>3. CASE w = p
  <2>1. d # p /\ req'[d] = req[d]
    BY <1>0, <1>3, ReceiveShape
  <2>2. Disturbs(req[d], req'[p]) /\ Disturbs(req'[p], req[d])
    BY <1>3, <2>1 DEF Disturbs, Deletes, Writes
  <2>. QED
    BY <1>3, <2>1, <2>2, ReceiveShape
<1>. QED
  BY <1>1, <1>2, <1>3

LEMMA ServeKnown ==
  ASSUME Form, Known, NEW p \in Procs, Serve(p)
  PROVE  Known'
<1>1. CASE Continues(p)
  BY <1>1 DEF Continues, Known
<1>2. CASE Ends(p)
  <2>1. req'[p] = NoRequest /\ ~Deletes(req'[p]) /\ ~Writes(req'[p])
    BY <1>2 DEF Ends, Form, TypeOK, NoRequest, Deletes, Writes
  <2>2. \A q \in Procs \ {p} : req'[q] = req[q] /\ disturbed'[q] = disturbed[q]
    BY ServeShape DEF Same
  <2>. QED
    BY <2>1, <2>2 DEF Known
<1>. QED
  BY <1>1, <1>2, ServeShape

(* The one item of a write, and the state of the store after it. *)
LEMMA WriteEffect ==
  ASSUME Form, NEW p \in Procs, PutVersion(p) \/ PutPointer(p) \/ PutBack(p)
  PROVE  /\ Item(p) \in Items /\ req[p].items = {Item(p)} /\ Writes(req[p])
         /\ ~Deletes(req[p]) /\ ver[p] \in Versions
         /\ PutPointer(p) =>
              entries' = entries /\ current' = [current EXCEPT ![Item(p)] = ver[p]]
         /\ ~PutPointer(p) =>
              current' = current /\ entries' = [entries EXCEPT ![Item(p)] = @ \cup {ver[p]}]
         /\ UNCHANGED <<todo, swept>>
<1>1. /\ pc[p] \in {"version", "pointer", "putback"} /\ req[p].op \in {"put", "patch"}
      /\ ver[p] \in Versions
  BY KeyVaultAssumption DEF PutVersion, PutPointer, PutBack, Form, TypeOK, Versions
<1>2. req[p] \in Requests
  BY <1>1 DEF Form, TypeOK, NoRequest
<1>3. Item(p) \in Items /\ req[p].items = {Item(p)}
  BY <1>1, <1>2, ItemIs
<1>. QED
  BY <1>1, <1>3 DEF PutVersion, PutPointer, PutBack, Writes, Deletes

(* What the other steps do to the store. *)
LEMMA OtherEffect ==
  ASSUME Form, NEW p \in Procs, Serve(p), ~PutVersion(p), ~PutPointer(p), ~PutBack(p)
  PROVE  \/ SweepEntry(p) \/ DeletePointer(p)
         \/ UNCHANGED <<entries, current, swept>>
BY DEF Serve, Refuse, Resolve, Fetch, MergeTags, CheckPointer, DeleteVault, ListEntries,
       PutVault, DeleteGroup, stored

LEMMA SweepEffect ==
  ASSUME Form, NEW p \in Procs, SweepEntry(p)
  PROVE  \E e \in todo[p] :
           /\ e \in Entries /\ e[1] \in Items /\ todo'[p] = todo[p] \ {e}
           /\ e[2] = Pointer =>
                entries' = entries /\ current' = [current EXCEPT ![e[1]] = 0]
           /\ e[2] # Pointer =>
                current' = current /\ entries' = [entries EXCEPT ![e[1]] = @ \ {e[2]}]
           /\ UNCHANGED <<pc, req, ver, disturbed, hit, swept>>
<1>1. PICK e \in todo[p] :
        /\ todo' = [todo EXCEPT ![p] = todo[p] \ {e}]
        /\ IF e[2] = Pointer
           THEN current' = [current EXCEPT ![e[1]] = 0] /\ UNCHANGED entries
           ELSE entries' = [entries EXCEPT ![e[1]] = entries[e[1]] \ {e[2]}]
                  /\ UNCHANGED current
  BY DEF SweepEntry
<1>2. e \in Entries /\ e[1] \in Items /\ todo'[p] = todo[p] \ {e}
  BY <1>1 DEF Form, TypeOK, Entries
<1>. QED
  BY <1>1, <1>2 DEF SweepEntry, answered

LEMMA ServeOwnItems ==
  ASSUME Form, OwnItems, NEW p \in Procs, Serve(p)
  PROVE  OwnItems'
<1> SUFFICES ASSUME NEW q \in Procs, pc'[q] = "sweep", NEW e \in todo'[q]
             PROVE  e[1] \in req'[q].items
  BY DEF OwnItems
<1>1. CASE q # p
  BY <1>1, ServeShape DEF Same, OwnItems
<1>2. CASE q = p /\ pc[p] = "sweep"
  <2>1. todo'[p] \subseteq todo[p] /\ Continues(p)
    <3>1. SweepEntry(p) \/ DeletePointer(p)
      BY <1>2 DEF Serve, Refuse, PutVersion, PutPointer, Resolve, Fetch, MergeTags, PutBack,
         CheckPointer, DeleteVault, ListEntries, Step, PutVault, DeleteGroup
    <3>2. ~Ends(p)
      BY <1>2 DEF Ends, Form, TypeOK
    <3>. QED
      BY <3>1, <3>2, SweepEffect, ServeShape DEF DeletePointer
  <2>. QED
    BY <1>2, <2>1 DEF Continues, OwnItems
<1>3. CASE q = p /\ pc[p] # "sweep"
  <2>1. ListEntries(p)
    <3>1. ~Ends(p)
      BY <1>3 DEF Ends, Form, TypeOK
    <3>2. ~(\E code : Answer(p, code))
      BY <3>1, AnswerEnds
    <3>. QED
      BY <1>3, <3>2 DEF Serve, Refuse, PutVersion, PutPointer, Resolve, Fetch, MergeTags,
         PutBack, CheckPointer, DeleteVault, SweepEntry, DeletePointer, Step, PutVault,
         DeleteGroup, PutDone, PutSteps, Form, TypeOK
  <2>2. todo'[p] = Stored(req[p].items) /\ req' = req
    BY <2>1 DEF ListEntries, Form, TypeOK, answered
  <2>. QED
    BY <1>3, <2>2 DEF Stored
<1>. QED
  BY <1>1, <1>2, <1>3

(* A version stays marked until the PUT that stored it has pointed to it. *)
LEMMA MarkedStays ==
  ASSUME Form, NEW p \in Procs, Serve(p), NEW i \in Items, NEW v \in Versions,
         Marked(i, v),
         ~(pc[p] = "pointer" /\ ~disturbed[p] /\ i \in req[p].items /\ ver[p] = v)
  PROVE  Marked(i, v)'
<1>1. hit \subseteq hit'
  BY ServeShape DEF Continues, Ends
<1>2. CASE v \in hit
  BY <1>1, <1>2 DEF Marked
<1>3. CASE v \notin hit
  <2>1. PICK q \in Procs :
          /\ Writes(req[q]) /\ ver[q] = v /\ i \in req[q].items
          /\ disturbed[q] \/ pc[q] = "pointer"
    BY <1>3 DEF Marked
  <2>2. CASE q # p
    BY <2>1, <2>2, ServeShape DEF Same, Marked, Writes
  <2>3. CASE q = p
    <3>1. disturbed[p] /\ v # 0
      BY <2>1, <2>3 DEF Versions
    <3>2. CASE Ends(p)
      BY <2>1, <2>3, <3>1, <3>2 DEF Ends, Marked, Writes
    <3>3. CASE Continues(p)
      <4>1. pc[p] # "resolve"
        BY <2>1, <2>3, <3>1 DEF Form
      <4>2. req'[p] = req[p] /\ ver'[p] = ver[p] /\ disturbed'[p]
        BY <3>1, <3>3, <4>1 DEF Continues
      <4>. QED
        BY <2>1, <2>3, <4>2 DEF Marked, Writes
    <3>. QED
      BY <3>2, <3>3, ServeShape
  <2>. QED
    BY <2>2, <2>3
<1>. QED
  BY <1>2, <1>3

LEMMA ReceiveMarked ==
  ASSUME Form, NEW p \in Procs, Receive(p), NEW i \in Items, NEW v \in Versions,
         Marked(i, v)
  PROVE  Marked(i, v)'
<1>1. CASE v \in hit
  BY <1>1, ReceiveShape DEF Marked
<1>2. CASE v \notin hit
  <2>1. PICK q \in Procs :
          /\ Writes(req[q]) /\ ver[q] = v /\ i \in req[q].items
          /\ disturbed[q] \/ pc[q] = "pointer"
    BY <1>2 DEF Marked
  <2>2. q # p
    <3>1. req[p] = NoRequest
      BY ReceiveShape
    <3>. QED
      BY <2>1, <3>1 DEF Writes, NoRequest
  <2>3. /\ req'[q] = req[q] /\ pc'[q] = pc[q] /\ ver'[q] = ver[q]
        /\ disturbed[q] => disturbed'[q]
    BY <2>2, ReceiveShape
  <2>. QED
    BY <2>1, <2>3 DEF Marked, Writes
<1>. QED
  BY <1>1, <1>2

LEMMA ReceiveRest ==
  ASSUME KeyVaultInv, NEW p \in Procs, Receive(p)
  PROVE  OwnItems' /\ Unmoved' /\ ListedOrMarked' /\ HalvesMarked' /\ AllListed' /\ SweptQuiet'
<1>1. Form
  BY DEF KeyVaultInv
<1>2. UNCHANGED <<entries, current, hit, todo>>
  BY <1>1, ReceiveShape
<1>3. \A q \in Procs :
        pc'[q] \in {"sweep", "merge", "putback", "pointer"} =>
          /\ q # p /\ pc'[q] = pc[q] /\ req'[q] = req[q] /\ ver'[q] = ver[q]
          /\ disturbed[q] => disturbed'[q]
  BY <1>1, ReceiveShape
<1>4. OwnItems'
  BY <1>2, <1>3 DEF KeyVaultInv, OwnItems
<1>5. Unmoved'
  BY <1>2, <1>3 DEF KeyVaultInv, Unmoved, Item
<1>6. \A i \in Items : entries[i] \subseteq Versions /\ (current[i] # 0 => current[i] \in Versions)
  BY <1>1, KeyVaultAssumption DEF Form, TypeOK, Versions
<1>7. ListedOrMarked'
  <2> SUFFICES ASSUME NEW q \in Procs, NEW i \in Items, Sweeping(q, i)'
               PROVE  /\ \A v \in entries[i] : <<i, v>> \in todo[q] \/ Marked(i, v)'
                      /\ \A v \in {current[i]} \ {0} :
                           <<i, Pointer>> \in todo[q] \/ Marked(i, v)'
    BY <1>2 DEF ListedOrMarked, Marked
  <2>1. Sweeping(q, i)
    BY <1>3 DEF Sweeping
  <2>2. /\ \A v \in entries[i] : <<i, v>> \in todo[q] \/ Marked(i, v)
        /\ \A v \in {current[i]} \ {0} : <<i, Pointer>> \in todo[q] \/ Marked(i, v)
    BY <2>1 DEF KeyVaultInv, ListedOrMarked
  <2>3. \A v \in Versions : Marked(i, v) => Marked(i, v)'
    BY <1>1, ReceiveMarked
  <2>. QED
    BY <1>6, <2>2, <2>3
<1>8. HalvesMarked'
  <2> SUFFICES ASSUME NEW i \in Items, \A q \in Procs : ~Sweeping(q, i)', NEW v \in Half(i)
               PROVE  Marked(i, v)'
    BY <1>2 DEF HalvesMarked, Half, Marked
  <2>1. ASSUME NEW q \in Procs, Sweeping(q, i) PROVE FALSE
    <3>1. q # p
      <4>1. req[p] = NoRequest
        BY <1>1, ReceiveShape
      <4>. QED
        BY <2>1, <4>1 DEF Sweeping, NoRequest
    <3>. QED
      BY <1>1, <2>1, <3>1, ReceiveShape DEF Sweeping
  <2>2. v \in Versions
    BY <1>6 DEF Half
  <2>. QED
    BY <1>1, <2>1, <2>2, ReceiveMarked DEF KeyVaultInv, HalvesMarked
<1>9. AllListed'
  BY <1>2, <1>3 DEF KeyVaultInv, AllListed, Stored
<1>10. SweptQuiet'
  <2> SUFFICES ASSUME NEW i \in swept'
               PROVE  /\ entries[i] = {} /\ current[i] = 0
                      /\ \A q \in Procs : Writes(req'[q]) => i \notin req'[q].items
    BY <1>2 DEF SweptQuiet, Writes
  <2>1. i \in swept /\ (Writes(req'[p]) => i \notin req'[p].items)
    BY <1>1, ReceiveShape
  <2>. QED
    BY <1>1, <2>1, ReceiveShape DEF KeyVaultInv, SweptQuiet
<1>. QED
  BY <1>4, <1>5, <1>7, <1>8, <1>9, <1>10

LEMMA OnlySweepsRemove ==
  ASSUME Form, NEW p \in Procs, Serve(p), ~SweepEntry(p), NEW i \in Items
  PROVE  entries[i] \subseteq entries'[i]
<1>1. CASE PutVersion(p) \/ PutPointer(p) \/ PutBack(p)
  BY <1>1, WriteEffect DEF Form, TypeOK
<1>2. CASE ~(PutVersion(p) \/ PutPointer(p) \/ PutBack(p))
  BY <1>2, OtherEffect DEF DeletePointer
<1>. QED
  BY <1>1, <1>2

LEMMA ServeUnmoved ==
  ASSUME KeyVaultInv, NEW p \in Procs, Serve(p)
  PROVE  Unmoved'
<1> SUFFICES ASSUME NEW q \in Procs, ~disturbed'[q],
                    pc'[q] \in {"merge", "putback", "pointer"}
             PROVE  ver'[q] \in entries'[Item(q)']
  BY DEF Unmoved
<1>0. Form /\ Known /\ OwnItems /\ Unmoved
  BY DEF KeyVaultInv
<1>1. CASE q = p
  <2>1. ~Ends(p)
    BY <1>0, <1>1 DEF Ends, Form, TypeOK
  <2>2. Continues(p) /\ ~(\E code : Answer(p, code))
    BY <1>0, <2>1, ServeShape, AnswerEnds
  <2>3. Item(p)' = Item(p) /\ disturbed'[p] = disturbed[p]
    BY <2>2 DEF Continues, Item
  <2>4. \/ pc[p] = "fetch" /\ Fetch(p)
        \/ pc[p] = "merge" /\ MergeTags(p)
        \/ pc[p] = "version" /\ PutVersion(p)
    <3>1. Resolve(p) => pc' = [pc EXCEPT ![p] = "fetch"]
      BY <2>2 DEF Resolve
    <3>2. CheckPointer(p) \/ DeleteVault(p) => pc' = [pc EXCEPT ![p] = "list"]
      BY <2>2 DEF CheckPointer, DeleteVault
    <3>3. ListEntries(p) => pc' = [pc EXCEPT ![p] = "sweep"]
      BY DEF ListEntries, Step
    <3>4. SweepEntry(p) => pc[p] = "sweep" /\ pc' = pc
      BY DEF SweepEntry
    <3>5. ~(Refuse(p) \/ PutPointer(p) \/ PutBack(p) \/ DeletePointer(p)
              \/ PutVault(p) \/ DeleteGroup(p))
      BY <2>2 DEF Refuse, PutPointer, PutDone, PutSteps, PutBack, DeletePointer, PutVault,
                  DeleteGroup
    <3>6. ~(Resolve(p) \/ CheckPointer(p) \/ DeleteVault(p) \/ ListEntries(p)
              \/ SweepEntry(p))
      BY <1>0, <1>1, <3>1, <3>2, <3>3, <3>4 DEF Form, TypeOK
    <3>7. Fetch(p) \/ MergeTags(p) \/ PutVersion(p)
      BY <3>5, <3>6 DEF Serve
    <3>. QED
      BY <3>7 DEF Fetch, MergeTags, PutVersion, Step
  <2>5. CASE pc[p] = "fetch" /\ Fetch(p)
    BY <1>1, <2>2, <2>3, <2>5 DEF Fetch, stored, answered
  <2>6. CASE pc[p] = "merge" /\ MergeTags(p)
    BY <1>0, <1>1, <2>2, <2>3, <2>6 DEF MergeTags, Unmoved, answered
  <2>7. CASE pc[p] = "version" /\ PutVersion(p)
    <3>1. /\ Item(p) \in Items /\ ver'[p] = ver[p]
          /\ entries' = [entries EXCEPT ![Item(p)] = entries[Item(p)] \cup {ver[p]}]
      BY <1>0, <2>2, <2>7, WriteEffect DEF Continues, PutVersion
    <3>. QED
      BY <1>0, <1>1, <2>3, <3>1 DEF Form, TypeOK
  <2>. QED
    BY <2>4, <2>5, <2>6, <2>7
<1>2. CASE q # p
  <2>1. Same(q) /\ Item(q)' = Item(q)
    BY <1>0, <1>2, ServeShape DEF Same, Item
  <2>2. /\ req[q] \in Requests /\ req[q].op \in {"put", "patch"}
        /\ ver[q] \in entries[Item(q)]
    BY <1>0, <2>1 DEF Same, Form, TypeOK, NoRequest, Unmoved
  <2>3. Item(q) \in Items /\ req[q].items = {Item(q)}
    BY <2>2, ItemIs
  <2>4. CASE ~SweepEntry(p)
    BY <1>0, <2>1, <2>2, <2>3, <2>4, OnlySweepsRemove DEF Same
  <2>5. CASE SweepEntry(p)
    <3>1. PICK e \in todo[p] :
            /\ e[2] = Pointer => entries' = entries
            /\ e[2] # Pointer => entries' = [entries EXCEPT ![e[1]] = entries[e[1]] \ {e[2]}]
      BY <1>0, <2>5, SweepEffect
    <3>2. e[1] \in req[p].items /\ Deletes(req[p])
      BY <1>0, <2>5, <3>1 DEF SweepEntry, OwnItems, Form
    <3>3. Item(q) # e[1]
      BY <1>0, <2>1, <2>2, <2>3, <3>2 DEF Known, Writes, Same
    <3>4. entries'[Item(q)] = entries[Item(q)]
      BY <1>0, <2>3, <3>1, <3>3 DEF Form, TypeOK
    <3>. QED
      BY <2>1, <2>2, <3>4 DEF Same
  <2>. QED
    BY <2>4, <2>5
<1>. QED
  BY <1>1, <1>2

(* Only a write of an item adds to its entries. *)
LEMMA OnlyWritesAdd ==
  ASSUME Form, NEW p \in Procs, Serve(p), NEW i \in Items,
         Writes(req[p]) => i \notin req[p].items
  PROVE  entries'[i] \subseteq entries[i] /\ current'[i] \in {current[i], 0}
<1>0. entries \in [Items -> SUBSET Versions] /\ current \in [Items -> 0..MaxVersions]
  BY DEF Form, TypeOK
<1>1. CASE PutVersion(p) \/ PutPointer(p) \/ PutBack(p)
  <2>1. Item(p) \in Items /\ i # Item(p)
    BY <1>1, WriteEffect
  <2>. QED
    BY <1>0, <1>1, <2>1, WriteEffect
<1>2. CASE SweepEntry(p)
  BY <1>0, <1>2, SweepEffect
<1>3. CASE DeletePointer(p)
  BY <1>0, <1>3 DEF DeletePointer
<1>. QED
  BY <1>1, <1>2, <1>3, OtherEffect

LEMMA ServeAllListed ==
  ASSUME KeyVaultInv, NEW p \in Procs, Serve(p)
  PROVE  AllListed'
<1> SUFFICES ASSUME NEW q \in Procs, pc'[q] = "sweep", ~disturbed'[q],
                    NEW e \in Stored(req[q].items)', req'[q] = req[q]
             PROVE  e \in todo'[q]
  <2>1. \A q \in Procs : pc'[q] = "sweep" => req'[q] = req[q]
    BY ServeShape DEF KeyVaultInv, Same, Continues, Ends, Form, TypeOK
  <2>. QED
    BY <2>1 DEF AllListed
<1>0. Form /\ Known /\ OwnItems /\ AllListed
  BY DEF KeyVaultInv
<1>1. /\ e \in Entries /\ e[1] \in req[q].items /\ e[1] \in Items
      /\ e[2] \in entries'[e[1]] \/ (e[2] = Pointer /\ current'[e[1]] # 0)
  BY DEF Stored, Entries
<1>2. ASSUME pc[q] = "sweep", ~disturbed[q] PROVE e \in Stored(req[q].items)
  <2>1. Writes(req[p]) => e[1] \notin req[p].items
    <3>1. Deletes(req[q])
      BY <1>0, <1>2 DEF Form
    <3>. QED
      BY <1>0, <1>1, <1>2, <3>1 DEF Known
  <2>2. entries'[e[1]] \subseteq entries[e[1]] /\ current'[e[1]] \in {current[e[1]], 0}
    BY <1>0, <1>1, <2>1, OnlyWritesAdd
  <2>. QED
    BY <1>1, <2>2 DEF Stored
<1>3. CASE q # p
  BY <1>0, <1>2, <1>3, ServeShape DEF Same, AllListed
<1>4. CASE q = p /\ ListEntries(p)
  <2>1. todo'[p] = Stored(req[p].items) /\ UNCHANGED <<entries, current>>
    BY <1>0, <1>4 DEF ListEntries, Form, TypeOK, stored
  <2>. QED
    BY <1>1, <1>4, <2>1 DEF Stored
<1>5. CASE q = p /\ SweepEntry(p)
  <2>1. PICK d \in todo[p] :
          /\ d[1] \in Items /\ todo'[p] = todo[p] \ {d} /\ d \in Entries
          /\ d[2] = Pointer => current' = [current EXCEPT ![d[1]] = 0] /\ entries' = entries
          /\ d[2] # Pointer => entries' = [entries EXCEPT ![d[1]] = entries[d[1]] \ {d[2]}]
          /\ UNCHANGED <<pc, disturbed>>
    BY <1>0, <1>5, SweepEffect
  <2>2. e \in todo[p]
    BY <1>0, <1>2, <1>5, <2>1 DEF AllListed
  <2>3. e # d
    <3>1. CASE d[2] = Pointer
      <4>1. current'[d[1]] = 0 /\ entries'[d[1]] \subseteq Versions
        BY <1>0, <2>1, <3>1 DEF Form, TypeOK
      <4>2. Pointer \notin Versions
        BY KeyVaultAssumption DEF Pointer, Versions
      <4>. QED
        BY <1>1, <3>1, <4>1, <4>2
    <3>2. CASE d[2] # Pointer
      BY <1>0, <1>1, <2>1, <3>2 DEF Form, TypeOK
    <3>. QED
      BY <3>1, <3>2
  <2>. QED
    BY <1>5, <2>1, <2>2, <2>3
<1>6. CASE q = p /\ ~ListEntries(p) /\ ~SweepEntry(p)
  <2>1. ~Ends(p)
    BY <1>0, <1>6 DEF Ends, Form, TypeOK
  <2>2. ~(\E code : Answer(p, code))
    BY <1>0, <2>1, AnswerEnds
  <2>. QED
    BY <1>0, <1>6, <2>2 DEF Serve, Refuse, PutVersion, PutPointer, Resolve, Fetch, MergeTags,
       PutBack, CheckPointer, DeleteVault, DeletePointer, Step, PutVault, DeleteGroup, PutDone,
       PutSteps, Form, TypeOK
<1>. QED
  BY <1>3, <1>4, <1>5, <1>6

LEMMA ServeSweptQuiet ==
  ASSUME KeyVaultInv, NEW p \in Procs, Serve(p)
  PROVE  SweptQuiet'
<1>0. Form /\ Known /\ AllListed /\ SweptQuiet
  BY DEF KeyVaultInv
<1>1. \A q \in Procs : Writes(req'[q]) => req'[q] = req[q]
  <2>1. \A q \in Procs : req'[q] \in {req[q], NoRequest}
    BY <1>0, ServeShape DEF Same, Continues, Ends, Form, TypeOK
  <2>. QED
    BY <2>1 DEF Writes, NoRequest
<1>2. ASSUME NEW i \in swept
      PROVE  /\ entries'[i] = {} /\ current'[i] = 0
             /\ \A q \in Procs : Writes(req'[q]) => i \notin req'[q].items
  <2>1. i \in Items /\ entries[i] = {} /\ current[i] = 0
    BY <1>0 DEF Form, TypeOK, SweptQuiet
  <2>2. \A q \in Procs : Writes(req[q]) => i \notin req[q].items
    BY <1>0 DEF SweptQuiet
  <2>3. entries'[i] \subseteq entries[i] /\ current'[i] \in {current[i], 0}
    BY <1>0, <2>1, <2>2, OnlyWritesAdd
  <2>. QED
    BY <1>1, <2>1, <2>2, <2>3
<1>3. CASE ~DeletePointer(p)
  <2>1. swept' = swept
    <3>1. CASE PutVersion(p) \/ PutPointer(p) \/ PutBack(p)
      BY <1>0, <3>1, WriteEffect
    <3>2. CASE SweepEntry(p)
      BY <3>2 DEF SweepEntry
    <3>. QED
      BY <1>0, <1>3, <3>1, <3>2, OtherEffect
  <2>. QED
    BY <1>2, <2>1 DEF SweptQuiet, Writes
<1>4. CASE DeletePointer(p)
  <2>1. /\ pc[p] = "sweep" /\ todo[p] = {} /\ entries' = entries
        /\ swept' = IF disturbed[p] THEN swept ELSE swept \cup req[p].items
    BY <1>4 DEF DeletePointer
  <2>2. ASSUME NEW i \in req[p].items, ~disturbed[p], i \in Items
        PROVE  /\ entries'[i] = {} /\ current'[i] = 0
               /\ \A q \in Procs : Writes(req'[q]) => i \notin req'[q].items
    <3>1. Stored(req[p].items) = {}
      BY <1>0, <2>1, <2>2 DEF AllListed
    <3>2. entries[i] = {} /\ current[i] = 0
      <4>1. entries[i] \subseteq Versions
        BY <1>0, <2>2 DEF Form, TypeOK
      <4>2. ASSUME NEW v \in entries[i] PROVE FALSE
        <5>1. <<i, v>> \in Stored(req[p].items)
          BY <2>2, <4>1, <4>2 DEF Stored, Entries
        <5>. QED
          BY <3>1, <5>1
      <4>3. ASSUME current[i] # 0 PROVE FALSE
        <5>1. <<i, Pointer>> \in Stored(req[p].items)
          BY <2>2, <4>3 DEF Stored, Entries
        <5>. QED
          BY <3>1, <5>1
      <4>. QED
        BY <4>2, <4>3
    <3>3. \A q \in Procs : Writes(req[q]) => i \notin req[q].items
      <4>1. Deletes(req[p])
        BY <1>0, <2>1 DEF Form
      <4>. QED
        BY <1>0, <2>2, <4>1 DEF Known
    <3>4. entries'[i] \subseteq entries[i] /\ current'[i] \in {current[i], 0}
      BY <1>0, <2>2, <3>3, OnlyWritesAdd
    <3>. QED
      BY <1>1, <3>2, <3>3, <3>4
  <2>3. Form'
    BY <1>0, StepForm DEF Serve
  <2>4. swept' \subseteq Items
    BY <2>3 DEF Form, TypeOK
  <2>. QED
    BY <1>2, <2>1, <2>2, <2>4 DEF SweptQuiet, Writes
<1>. QED
  BY <1>3, <1>4

LEMMA ServeListedOrMarked ==
  ASSUME KeyVaultInv, NEW p \in Procs, Serve(p)
  PROVE  ListedOrMarked'
<1> SUFFICES ASSUME NEW q \in Procs, NEW i \in Items, Sweeping(q, i)'
             PROVE  /\ \A v \in entries'[i] : <<i, v>> \in todo'[q] \/ Marked(i, v)'
                    /\ \A v \in {current'[i]} \ {0} :
                         <<i, Pointer>> \in todo'[q] \/ Marked(i, v)'
  BY DEF ListedOrMarked, Marked
<1>0. Form /\ Known /\ ListedOrMarked
  BY DEF KeyVaultInv
<1>1. /\ entries[i] \subseteq Versions /\ current[i] \in Versions \cup {0}
      /\ entries'[i] \subseteq Versions /\ current'[i] \in Versions \cup {0}
  <2>1. Form'
    BY <1>0, StepForm DEF Serve
  <2>. QED
    BY <1>0, <2>1, KeyVaultAssumption DEF Form, TypeOK, Versions
<1>2. req'[q] = req[q] /\ i \in req[q].items /\ pc'[q] = "sweep"
  BY <1>0, ServeShape DEF Sweeping, Same, Continues, Ends, Form, TypeOK
<1>3. CASE pc[q] = "sweep"
  <2>1. /\ \A v \in entries[i] : <<i, v>> \in todo[q] \/ Marked(i, v)
        /\ \A v \in {current[i]} \ {0} : <<i, Pointer>> \in todo[q] \/ Marked(i, v)
    BY <1>0, <1>2, <1>3 DEF ListedOrMarked, Sweeping
  <2>2. Deletes(req[q])
    BY <1>0, <1>3 DEF Form
  <2>3. Writes(req[p]) /\ i \in req[p].items => disturbed[p]
    BY <1>0, <1>2, <2>2 DEF Known
  <2>4. ASSUME NEW v \in Versions, Marked(i, v) PROVE Marked(i, v)'
    <3>1. ~(pc[p] = "pointer" /\ ~disturbed[p] /\ i \in req[p].items /\ ver[p] = v)
      BY <1>0, <2>3 DEF Form, Writes
    <3>. QED
      BY <1>0, <2>4, <3>1, MarkedStays
  <2>5. CASE PutVersion(p) \/ PutPointer(p) \/ PutBack(p)
    <3>1. /\ entries'[i] \subseteq entries[i] \cup {ver[p]}
          /\ current'[i] \in {current[i], ver[p]} /\ todo' = todo
          /\ i # Item(p) => entries'[i] = entries[i] /\ current'[i] = current[i]
      BY <1>0, <2>5, WriteEffect DEF Form, TypeOK
    <3>2. i = Item(p) => Marked(i, ver[p])
      BY <1>0, <2>3, <2>5, WriteEffect DEF Marked
    <3>3. ver[p] \in Versions
      BY <1>0, <2>5, WriteEffect
    <3>4. \A v \in Versions : i = Item(p) /\ v = ver[p] => Marked(i, v)'
      BY <2>4, <3>2
    <3>5. \A v \in entries'[i] : <<i, v>> \in todo'[q] \/ Marked(i, v)'
      BY <1>1, <2>1, <2>4, <3>1, <3>4
    <3>6. \A v \in {current'[i]} \ {0} : <<i, Pointer>> \in todo'[q] \/ Marked(i, v)'
      BY <1>1, <2>1, <2>4, <3>1, <3>4
    <3>. QED
      BY <3>5, <3>6
  <2>6. CASE ~(PutVersion(p) \/ PutPointer(p) \/ PutBack(p))
    <3>1. entries'[i] \subseteq entries[i] /\ current'[i] \in {current[i], 0}
      <4>1. CASE SweepEntry(p) \/ DeletePointer(p)
        <5>1. ~Writes(req[p])
          BY <1>0, <4>1 DEF SweepEntry, DeletePointer, Form, Deletes, Writes
        <5>. QED
          BY <1>0, <5>1, OnlyWritesAdd
      <4>. QED
        BY <1>0, <2>6, <4>1, OtherEffect
    <3>2. CASE q # p \/ ~SweepEntry(p)
      <4>1. todo'[q] = todo[q]
        <5>1. CASE q # p
          BY <1>0, <5>1, ServeShape DEF Same
        <5>2. CASE q = p
          BY <1>3, <2>6, <3>2, <5>2 DEF Serve, Refuse, Resolve, Fetch, MergeTags,
             CheckPointer, DeleteVault, ListEntries, DeletePointer, Step, PutVault, DeleteGroup
        <5>. QED
          BY <5>1, <5>2
      <4>2. \A v \in entries'[i] : <<i, v>> \in todo'[q] \/ Marked(i, v)'
        BY <1>1, <2>1, <2>4, <3>1, <4>1
      <4>3. \A v \in {current'[i]} \ {0} : <<i, Pointer>> \in todo'[q] \/ Marked(i, v)'
        BY <1>1, <2>1, <2>4, <3>1, <4>1
      <4>. QED
        BY <4>2, <4>3
    <3>3. CASE q = p /\ SweepEntry(p)
      <4>1. PICK e \in todo[p] :
              /\ todo'[p] = todo[p] \ {e} /\ e[1] \in Items /\ e \in Entries
              /\ e[2] = Pointer => current' = [current EXCEPT ![e[1]] = 0]
              /\ e[2] # Pointer => entries' = [entries EXCEPT ![e[1]] = entries[e[1]] \ {e[2]}]
        BY <1>0, <3>3, SweepEffect
      <4>2. ASSUME NEW v \in entries'[i], <<i, v>> = e PROVE FALSE
        <5>1. e[1] = i /\ e[2] = v /\ v # Pointer
          BY <1>1, <4>2, KeyVaultAssumption DEF Pointer, Versions
        <5>. QED
          BY <1>0, <4>1, <4>2, <5>1 DEF Form, TypeOK
      <4>3. ASSUME NEW v \in {current'[i]} \ {0}, <<i, Pointer>> = e PROVE FALSE
        <5>1. e[1] = i /\ e[2] = Pointer
          BY <4>3
        <5>. QED
          BY <1>0, <4>1, <4>3, <5>1 DEF Form, TypeOK
      <4>4. \A v \in entries'[i] : <<i, v>> \in todo'[q] \/ Marked(i, v)'
        BY <1>1, <2>1, <2>4, <3>1, <3>3, <4>1, <4>2
      <4>5. \A v \in {current'[i]} \ {0} : <<i, Pointer>> \in todo'[q] \/ Marked(i, v)'
        BY <1>1, <2>1, <2>4, <3>1, <3>3, <4>1, <4>3
      <4>. QED
        BY <4>4, <4>5
    <3>. QED
      BY <3>2, <3>3
  <2>. QED
    BY <2>5, <2>6
<1>4. CASE pc[q] # "sweep"
  <2>1. q = p /\ ~(\E code : Answer(p, code))
    <3>1. q = p
      BY <1>0, <1>2, <1>4, ServeShape DEF Same
    <3>2. ~Ends(p)
      BY <1>0, <1>2, <3>1 DEF Ends, Form, TypeOK
    <3>. QED
      BY <1>0, <3>1, <3>2, AnswerEnds
  <2>2. ListEntries(p)
    BY <1>0, <1>2, <1>4, <2>1 DEF Serve, Refuse, PutVersion, PutPointer, Resolve, Fetch,
       MergeTags, PutBack, CheckPointer, DeleteVault, SweepEntry, DeletePointer, Step,
       PutVault, DeleteGroup, PutDone, PutSteps, Form, TypeOK
  <2>3. todo'[q] = Stored(req[q].items) /\ entries' = entries /\ current' = current
    BY <1>0, <2>1, <2>2 DEF ListEntries, Form, TypeOK, stored
  <2>4. \A v \in entries'[i] : <<i, v>> \in todo'[q]
    BY <1>1, <1>2, <2>3 DEF Stored, Entries
  <2>5. current'[i] # 0 => <<i, Pointer>> \in todo'[q]
    BY <1>2, <2>3 DEF Stored, Entries
  <2>. QED
    BY <2>4, <2>5
<1>. QED
  BY <1>3, <1>4

(* A step leaves every item that it does not name as it was. *)
LEMMA OwnItemsOnly ==
  ASSUME Form, OwnItems, NEW p \in Procs, Serve(p), NEW i \in Items,
         \/ i \notin req[p].items
         \/ ~Writes(req[p]) /\ pc[p] # "sweep"
  PROVE  entries'[i] = entries[i] /\ current'[i] = current[i]
<1>0. entries \in [Items -> SUBSET Versions] /\ current \in [Items -> 0..MaxVersions]
  BY DEF Form, TypeOK
<1>1. CASE PutVersion(p) \/ PutPointer(p) \/ PutBack(p)
  <2>1. Item(p) \in Items /\ i # Item(p)
    BY <1>1, WriteEffect
  <2>. QED
    BY <1>0, <1>1, <2>1, WriteEffect
<1>2. CASE SweepEntry(p)
  <2>1. PICK e \in todo[p] :
          /\ e[2] = Pointer => entries' = entries /\ current' = [current EXCEPT ![e[1]] = 0]
          /\ e[2] # Pointer =>
               current' = current /\ entries' = [entries EXCEPT ![e[1]] = entries[e[1]] \ {e[2]}]
    BY <1>2, SweepEffect
  <2>2. pc[p] = "sweep" /\ e[1] \in req[p].items
    BY <1>2, <2>1 DEF SweepEntry, OwnItems
  <2>. QED
    BY <1>0, <2>1, <2>2
<1>3. CASE DeletePointer(p)
  <2>1. pc[p] = "sweep" /\ i \notin req[p].items /\ entries' = entries
    BY <1>3 DEF DeletePointer
  <2>2. CASE req[p].op = "delete"
    <3>1. req[p] \in Requests
      BY <2>2 DEF Form, TypeOK, NoRequest
    <3>2. Item(p) \in Items /\ i # Item(p)
      BY <2>1, <2>2, <3>1, ItemIs
    <3>. QED
      BY <1>0, <1>3, <2>1, <3>2 DEF DeletePointer
  <2>3. CASE req[p].op # "delete"
    BY <1>3, <2>1, <2>3 DEF DeletePointer
  <2>. QED
    BY <2>2, <2>3
<1>. QED
  BY <1>1, <1>2, <1>3, OtherEffect

LEMMA ServeHalvesMarked ==
  ASSUME KeyVaultInv, NEW p \in Procs, Serve(p)
  PROVE  HalvesMarked'
<1> SUFFICES ASSUME NEW i \in Items, \A q \in Procs : ~Sweeping(q, i)', NEW v \in Half(i)'
             PROVE  Marked(i, v)'
  BY DEF HalvesMarked, Marked, Half
<1>0. Form /\ Known /\ OwnItems /\ Unmoved /\ ListedOrMarked /\ HalvesMarked
  BY DEF KeyVaultInv
<1>1. /\ entries \in [Items -> SUBSET Versions] /\ current[i] \in Versions \cup {0}
      /\ current \in [Items -> 0..MaxVersions] /\ v \in Versions
      /\ v \in IF current'[i] = 0 THEN entries'[i] ELSE {current'[i]} \ entries'[i]
  <2>1. Form'
    BY <1>0, StepForm DEF Serve
  <2>. QED
    BY <1>0, <2>1, KeyVaultAssumption DEF Form, TypeOK, Half, Versions
<1>2. CASE \E q \in Procs : Sweeping(q, i)
  <2>1. PICK q \in Procs : Sweeping(q, i)
    BY <1>2
  <2>2. q = p
    BY <1>0, <2>1, ServeShape DEF Same, Sweeping
  <2>3. DeletePointer(p)
    BY <2>1, <2>2 DEF Serve, Refuse, PutVersion, PutPointer, Resolve, Fetch,
       MergeTags, PutBack, CheckPointer, DeleteVault, ListEntries, SweepEntry, Step,
       PutVault, DeleteGroup, Sweeping, answered
  <2>4. pc[p] = "sweep" /\ todo[p] = {} /\ entries' = entries /\ current'[i] \in {current[i], 0}
    BY <1>0, <1>1, <2>3 DEF DeletePointer
  <2>5. Marked(i, v)
    BY <1>0, <1>1, <2>1, <2>2, <2>4 DEF ListedOrMarked
  <2>. QED
    BY <1>0, <1>1, <2>4, <2>5, MarkedStays
<1>3. CASE \A q \in Procs : ~Sweeping(q, i)
  <2>1. \A u \in Half(i) : Marked(i, u)
    BY <1>0, <1>3 DEF HalvesMarked
  <2>2. CASE PutPointer(p) /\ i \in req[p].items
    <3>1. Item(p) = i /\ pc[p] = "pointer" /\ entries' = entries /\ current'[i] = ver[p]
      BY <1>0, <1>1, <2>2, WriteEffect DEF PutPointer
    <3>2. v = ver[p] /\ v \notin entries[i]
      BY <1>0, <1>1, <2>2, <3>1, WriteEffect DEF Versions
    <3>3. disturbed[p]
      BY <1>0, <3>1, <3>2 DEF Unmoved
    <3>4. Marked(i, v)
      BY <1>0, <2>2, <3>2, <3>3, WriteEffect DEF Marked
    <3>. QED
      BY <1>0, <1>1, <3>3, <3>4, MarkedStays
  <2>3. CASE (PutVersion(p) \/ PutBack(p)) /\ i \in req[p].items
    <3>1. /\ Item(p) = i /\ pc[p] # "pointer" /\ current' = current
          /\ entries'[i] = entries[i] \cup {ver[p]} /\ Writes(req[p])
      BY <1>0, <1>1, <2>3, WriteEffect DEF PutVersion, PutBack, PutPointer
    <3>2. CASE v \in Half(i)
      BY <1>0, <1>1, <2>1, <3>1, <3>2, MarkedStays
    <3>3. CASE v \notin Half(i)
      <4>1. v = ver[p] /\ v \notin entries[i]
        BY <1>1, <3>1, <3>3 DEF Half
      <4>2. CASE disturbed[p]
        <5>1. Marked(i, v)
          BY <2>3, <3>1, <4>1, <4>2 DEF Marked
        <5>. QED
          BY <1>0, <1>1, <4>2, <5>1, MarkedStays
      <4>3. CASE ~disturbed[p]
        <5>1. pc[p] # "putback"
          BY <1>0, <3>1, <4>1, <4>3 DEF Unmoved
        <5>2. PutVersion(p) /\ pc[p] = "version"
          BY <2>3, <5>1 DEF PutBack, PutVersion
        <5>3. \/ pc' = [pc EXCEPT ![p] = "pointer"] /\ UNCHANGED answered
              \/ Answer(p, "500")
          BY <5>2 DEF PutVersion, PutDone, PutSteps
        <5>4. CASE Answer(p, "500")
          BY <1>1, <3>1, <4>1, <5>4 DEF Answer, Marked, Versions
        <5>5. CASE pc' = [pc EXCEPT ![p] = "pointer"] /\ UNCHANGED answered
          <6>1. pc'[p] = "pointer" /\ req'[p] = req[p] /\ ver'[p] = ver[p]
            BY <1>0, <5>5 DEF Form, TypeOK, answered
          <6>. QED
            BY <2>3, <3>1, <4>1, <6>1 DEF Marked, Writes
        <5>. QED
          BY <5>3, <5>4, <5>5
      <4>. QED
        BY <4>2, <4>3
    <3>. QED
      BY <3>2, <3>3
  <2>4. CASE i \notin req[p].items \/ ~(PutPointer(p) \/ PutVersion(p) \/ PutBack(p))
    <3>1. i \notin req[p].items \/ (~Writes(req[p]) /\ pc[p] # "sweep")
            \/ UNCHANGED <<entries, current>>
      <4>1. CASE SweepEntry(p) \/ DeletePointer(p)
        BY <1>3, <4>1 DEF SweepEntry, DeletePointer, Sweeping
      <4>. QED
        BY <1>0, <2>4, <4>1, OtherEffect
    <3>2. entries'[i] = entries[i] /\ current'[i] = current[i]
      BY <1>0, <3>1, OwnItemsOnly
    <3>3. Marked(i, v)
      BY <1>1, <2>1, <3>2 DEF Half
    <3>4. ~(pc[p] = "pointer" /\ i \in req[p].items)
      <4>1. pc[p] = "pointer" => PutPointer(p)
        BY <1>0 DEF Serve, Refuse, PutVersion, Resolve, Fetch, MergeTags, PutBack,
           CheckPointer, DeleteVault, ListEntries, SweepEntry, DeletePointer, Step,
           PutVault, DeleteGroup
      <4>. QED
        BY <2>4, <4>1
    <3>. QED
      BY <1>0, <1>1, <3>3, <3>4, MarkedStays
  <2>. QED
    BY <2>2, <2>3, <2>4
<1>. QED
  BY <1>2, <1>3

-----------------------------------------------------------------------------
LEMMA InitInv == Init => KeyVaultInv
<1> SUFFICES ASSUME Init PROVE KeyVaultInv
  OBVIOUS
<1>1. Form
  BY InitForm
<1>2. \A p \in Procs : pc[p] = "idle" /\ req[p].op = "none"
  BY DEF Init, NoRequest
<1>3. Known /\ OwnItems /\ Unmoved /\ AllListed
  BY <1>2 DEF Known, OwnItems, Unmoved, AllListed, Deletes
<1>4. ListedOrMarked /\ HalvesMarked
  BY <1>2 DEF Init, ListedOrMarked, HalvesMarked, Sweeping, Half
<1>5. SweptQuiet /\ Drawn
  BY <1>2 DEF Init, SweptQuiet, Drawn
<1>. QED
  BY <1>1, <1>3, <1>4, <1>5 DEF KeyVaultInv

LEMMA NextInv == KeyVaultInv /\ [Next]_vars => KeyVaultInv'
<1> SUFFICES ASSUME KeyVaultInv, [Next]_vars PROVE KeyVaultInv'
  OBVIOUS
<1>1. CASE UNCHANGED vars \/ \E p \in Procs : WithoutVault(p)
  <2>1. UNCHANGED <<entries, current, issued, pc, req, ver, todo, disturbed, hit, swept, earlier>>
    BY <1>1 DEF vars, stored, WithoutVault
  <2>2. Form'
    BY NextForm DEF KeyVaultInv
  <2>. QED
    BY <2>1, <2>2 DEF KeyVaultInv, Known, OwnItems, Unmoved, ListedOrMarked, HalvesMarked,
       AllListed, SweptQuiet, Drawn, Deletes, Writes, Item, Marked, Sweeping, Half, Stored
<1>2. ASSUME NEW p \in Procs, Serve(p) PROVE KeyVaultInv'
  <2>1. Form /\ Known /\ OwnItems /\ Drawn
    BY DEF KeyVaultInv
  <2>2. Form'
    BY <1>2, <2>1, StepForm DEF Serve
  <2>3. Known' /\ OwnItems' /\ Drawn'
    BY <1>2, <2>1, ServeKnown, ServeOwnItems, ServeDrawn
  <2>4. Unmoved' /\ ListedOrMarked' /\ HalvesMarked' /\ AllListed' /\ SweptQuiet'
    BY <1>2, ServeUnmoved, ServeListedOrMarked, ServeHalvesMarked, ServeAllListed,
       ServeSweptQuiet
  <2>. QED
    BY <2>2, <2>3, <2>4 DEF KeyVaultInv
<1>3. ASSUME NEW p \in Procs, Receive(p) PROVE KeyVaultInv'
  <2>1. Form' /\ Known' /\ Drawn'
    BY <1>3, ReceiveForm, ReceiveKnown, ReceiveDrawn DEF KeyVaultInv
  <2>. QED
    BY <1>3, <2>1, ReceiveRest DEF KeyVaultInv
<1>. QED
  BY <1>1, <1>2, <1>3 DEF Next, Serve

LEMMA InvHolds == Spec => []KeyVaultInv
BY InitInv, NextInv, PTL DEF Spec

(* Every variable keeps the type that the model gives it. *)
THEOREM TypeCorrect == Spec => []TypeOK
<1>1. KeyVaultInv => TypeOK
  BY DEF KeyVaultInv, Form
<1>. QED
  BY <1>1, InvHolds, PTL

(* A DELETE that no write of the same item overlapped leaves nothing of it *)
(* in the store until the next write is received.                          *)
THEOREM SweptIsEmptyHolds == Spec => []SweptIsEmpty
<1>1. KeyVaultInv => SweptIsEmpty
  BY DEF KeyVaultInv, SweptQuiet, SweptIsEmpty
<1>. QED
  BY <1>1, InvHolds, PTL

(* Where no DELETE is in progress, half an item is one that a write is     *)
(* still working on, or that a failure or an overlap accounts for.         *)
THEOREM HalfItemsAreRacesHolds == Spec => []HalfItemsAreRaces
<1>1. KeyVaultInv => HalfItemsAreRaces
  <2> SUFFICES ASSUME KeyVaultInv, NEW i \in Items, ~BeingDeleted(i), NEW v \in Half(i)
               PROVE  v \in hit \/ BeingWritten(v)
    BY DEF HalfItemsAreRaces, Half
  <2>1. \A p \in Procs : ~Sweeping(p, i)
    BY DEF KeyVaultInv, Form, Sweeping, BeingDeleted
  <2>2. Marked(i, v)
    BY <2>1 DEF KeyVaultInv, HalvesMarked
  <2>. QED
    BY <2>2 DEF Marked, BeingWritten
<1>. QED
  BY <1>1, InvHolds, PTL

(* The pointer never goes back to a version whose PUT had ended when the   *)
(* one that it names was drawn.                                            *)
THEOREM LatestNeverRevertsHolds == Spec => LatestNeverReverts
<1>1. KeyVaultInv /\ [Next]_vars =>
        [\A i \in Items :
           current[i] # 0 /\ current'[i] \notin {0, current[i]} =>
             current'[i] \notin earlier[current[i]]]_vars
  <2> SUFFICES ASSUME KeyVaultInv, Next, NEW i \in Items,
                      current[i] # 0, current'[i] \notin {0, current[i]}
               PROVE  current'[i] \notin earlier[current[i]]
    OBVIOUS
  <2>0. Form /\ Drawn
    BY DEF KeyVaultInv
  <2>1. PICK p \in Procs : Serve(p) \/ Receive(p)
    BY DEF Next, Serve, WithoutVault, stored
  <2>2. Serve(p)
    BY <2>0, <2>1, ReceiveShape
  <2>3. current[i] \in Versions
    BY <2>0, KeyVaultAssumption DEF Form, TypeOK, Versions
  <2>4. PutPointer(p)
    <3>1. PutVersion(p) \/ PutPointer(p) \/ PutBack(p)
      <4>1. CASE SweepEntry(p) \/ DeletePointer(p)
        <5>1. ~Writes(req[p])
          BY <2>0, <4>1 DEF SweepEntry, DeletePointer, Form, Deletes, Writes
        <5>. QED
          BY <2>0, <2>2, <5>1, OnlyWritesAdd
      <4>. QED
        BY <2>0, <2>2, <4>1, OtherEffect
    <3>. QED
      BY <2>0, <3>1, WriteEffect
  <2>5. current'[i] = ver[p] /\ req[p].op = "put"
    BY <2>0, <2>4, WriteEffect DEF PutPointer, Form, TypeOK
  <2>. QED
    BY <2>0, <2>3, <2>5 DEF Drawn
<1>. QED
  BY <1>1, InvHolds, PTL DEF Spec, LatestNeverReverts
=============================================================================
