------------------------- MODULE LoadBalancerProofs -------------------------
(***************************************************************************)
(* Proofs about LoadBalancer, for any number of requests, arrays and       *)
(* children, over a memory store or a file store.                          *)
(***************************************************************************)
EXTENDS LoadBalancer, TLAPS

LEMMA ChildIs ==
  ASSUME NEW k \in Kinds, NEW n \in Names
  PROVE  /\ Child(k, n) \in Ids /\ Child(k, n) \in Children /\ Child(k, n) \in ChildrenOf(k)
         /\ Child(k, n)[2] = k /\ Child(k, n)[3] = n /\ Len(Child(k, n)) = 3
         /\ Child(k, n) # LB
<1>1. /\ Child(k, n)[2] = k /\ Child(k, n)[3] = n /\ Len(Child(k, n)) = 3
      /\ Len(LB) = 1
  BY DEF Child, LB
<1>2. Child(k, n) \in ChildrenOf(k) /\ Child(k, n) \in Children
  BY DEF ChildrenOf, Children
<1>3. Child(k, n) # LB
  BY <1>1
<1>4. Child(k, n) \in Ids
  BY <1>2, LoadBalancerAssumption
<1>. QED
  BY <1>1, <1>2, <1>3, <1>4

LEMMA ChildrenAre ==
  ASSUME NEW c \in Children
  PROVE  /\ c \in Ids /\ c # LB /\ c[2] \in Kinds /\ c[3] \in Names /\ c = Child(c[2], c[3])
         /\ \A k : c \in ChildrenOf(k) <=> k = c[2]
<1>1. PICK k \in Kinds, n \in Names : c = Child(k, n)
  BY DEF Children, ChildrenOf
<1>2. c \in Ids /\ c # LB /\ c[2] = k /\ c[3] = n
  BY <1>1, ChildIs
<1>3. ASSUME NEW j, c \in ChildrenOf(j) PROVE j = c[2]
  BY <1>3 DEF ChildrenOf, Child
<1>4. c \in ChildrenOf(c[2])
  BY <1>1, <1>2, ChildIs
<1>. QED
  BY <1>1, <1>2, <1>3, <1>4

LEMMA IdsAre == LB \in Ids /\ Children \subseteq Ids /\ \A k \in Ids : k = LB \/ k \in Children
BY LoadBalancerAssumption

LEMMA PrefixIsPointwise ==
  ASSUME NEW S, NEW s \in Seq(S), NEW t \in Seq(S)
  PROVE  IsPrefix(s, t) <=> Len(s) <= Len(t) /\ \A i \in 1..Len(s) : s[i] = t[i]
BY DEF IsPrefix

(* The load balancer covers its children, and a child itself alone. *)
LEMMA Covers ==
  /\ \A k \in Ids : IsPrefix(LB, k)
  /\ \A c \in Children, k \in Ids : IsPrefix(c, k) <=> k = c
<1>1. \A k \in Ids : k \in Seq(Segments)
  BY StoreAssumption
<1>2. LB = <<"lb">> /\ Len(LB) = 1 /\ LB[1] = "lb"
  BY DEF LB
<1>3. ASSUME NEW c \in Children
      PROVE  Len(c) = 3 /\ c[1] = "lb" /\ c \in Ids /\ c = <<"lb", c[2], c[3]>>
  <2>1. c = Child(c[2], c[3]) /\ c[2] \in Kinds /\ c[3] \in Names /\ c \in Ids
    BY ChildrenAre
  <2>2. c = <<"lb", c[2], c[3]>>
    BY <2>1 DEF Child
  <2>3. <<"lb", c[2], c[3]>>[1] = "lb" /\ Len(<<"lb", c[2], c[3]>>) = 3
    OBVIOUS
  <2>. QED
    BY <2>1, <2>2, <2>3
<1>4. ASSUME NEW k \in Ids PROVE IsPrefix(LB, k)
  <2>1. Len(k) >= 1 /\ k[1] = "lb"
    BY <1>2, <1>3, IdsAre
  <2>2. \A i \in 1..Len(LB) : LB[i] = k[i]
    BY <1>2, <2>1
  <2>. QED
    BY <1>1, <1>2, <2>1, <2>2, IdsAre, PrefixIsPointwise
<1>5. ASSUME NEW c \in Children, NEW k \in Ids, IsPrefix(c, k) PROVE k = c
  <2>1. Len(c) = 3 /\ c \in Ids
    BY <1>3
  <2>2. Len(c) <= Len(k) /\ \A i \in 1..Len(c) : c[i] = k[i]
    BY <1>1, <1>5, <2>1, PrefixIsPointwise
  <2>3. k \in Children
    BY <1>2, <2>1, <2>2, IdsAre
  <2>4. k[2] = c[2] /\ k[3] = c[3]
    BY <2>1, <2>2
  <2>. QED
    BY <2>3, <2>4, ChildrenAre
<1>6. \A k \in Ids : IsPrefix(k, k)
  BY DEF IsPrefix
<1>. QED
  BY <1>3, <1>4, <1>5, <1>6

LEMMA RequestForms ==
  ASSUME NEW r \in Requests
  PROVE  /\ r.op \in {"putlb", "putchild", "delete"} /\ r.id \in Ids
         /\ r.op # "delete" => r.body \in Bodies
         /\ r.op = "putlb" => r.id = LB /\ r.arrays \in Arrays
         /\ r.op = "putchild" => r.id \in Children
BY LoadBalancerAssumption DEF Requests

LEMMA FirstCalls ==
  ASSUME NEW r \in Requests
  PROVE  /\ r.op = "putlb" => FirstCall(r) = "check"
         /\ r.op = "putchild" => FirstCall(r) = "parent"
         /\ r.op = "delete" => FirstCall(r) = "delete"
BY DEF FirstCall

(* An array that a PUT carries maps names to bodies. *)
LEMMA ArrayForms ==
  ASSUME NEW r \in Requests, r.op = "putlb", NEW k \in DOMAIN r.arrays
  PROVE  /\ k \in InlineKinds /\ k \in Kinds
         /\ Array(r, k) = r.arrays[k]
         /\ DOMAIN r.arrays[k] \subseteq Names
         /\ \A n \in DOMAIN r.arrays[k] : r.arrays[k][n] \in Bodies
         /\ Listed(r, k) \subseteq ChildrenOf(k)
         /\ \A n \in DOMAIN r.arrays[k] : Child(k, n) \in Listed(r, k)
<1>1. r.arrays \in Arrays
  BY RequestForms
<1>2. PICK K \in SUBSET InlineKinds : r.arrays \in [K -> UNION {[S -> Bodies] : S \in SUBSET Names}]
  BY <1>1 DEF Arrays
<1>3. k \in K /\ r.arrays[k] \in UNION {[S -> Bodies] : S \in SUBSET Names}
  BY <1>2
<1>4. PICK S \in SUBSET Names : r.arrays[k] \in [S -> Bodies]
  BY <1>3
<1>5. Array(r, k) = r.arrays[k]
  BY DEF Array
<1>. QED
  BY <1>2, <1>3, <1>4, <1>5 DEF Listed, ChildrenOf, Kinds

LEMMA PutIsStore ==
  ASSUME resources \in Stores, NEW id \in Ids, NEW body \in Bodies
  PROVE  /\ Put(resources, id, body) \in Stores
         /\ \A k \in Ids : Put(resources, id, body)[k] = IF k = id THEN body ELSE resources[k]
BY DEF Put, Stores

LEMMA DeleteIsStore ==
  ASSUME resources \in Stores, NEW id \in Ids
  PROVE  /\ Delete(resources, id) \in Stores
         /\ \A k \in Ids : Delete(resources, id)[k] =
                              IF IsPrefix(id, k) THEN NoResource ELSE resources[k]
BY DEF Delete, Stores, Covered

LEMMA InlineIs ==
  ASSUME NEW i \in Places
  PROVE  /\ Inline[i] \in InlineKinds
         /\ \A j \in Places : Inline[i] = Inline[j] => i = j
BY LoadBalancerAssumption DEF Places, InlineKinds, ToSet, IsInjective

-----------------------------------------------------------------------------
(* What a request is and holds, by its next step. *)
FormOf(p) ==
  /\ pc[p] = "idle" <=> req[p] = NoRequest
  /\ pc[p] \in {"parent", "reread"} => req[p].op = "putchild"
  /\ pc[p] \in {"check", "store"} => req[p].op \in {"putlb", "putchild"}
  /\ pc[p] \in {"upsert", "drop", "respond"} => req[p].op = "putlb"
  /\ pc[p] \in {"upsert", "drop"} => at[p] \in Places /\ Present(req[p], at[p])
  /\ pc[p] = "respond" => at[p] = Len(Inline) + 1
  /\ pc[p] = "delete" => req[p].op = "delete"
  /\ pc[p] = "upsert" => todo[p] \subseteq Listed(req[p], Inline[at[p]])
  /\ pc[p] # "upsert" => todo[p] = {}
  /\ pc[p] = "drop" =>
       doomed[p] \subseteq ChildrenOf(Inline[at[p]]) \ Listed(req[p], Inline[at[p]])
  /\ pc[p] # "drop" => doomed[p] = {}

Form == TypeOK /\ \A p \in Procs : FormOf(p)

(* Nobody else is served while a request is undisturbed. *)
Alone ==
  \A p, q \in Procs : pc[p] # "idle" /\ ~disturbed[p] /\ pc[q] # "idle" => p = q

LEMMA InitForm == Init => Form /\ Alone
<1> SUFFICES ASSUME Init PROVE Form /\ Alone
  OBVIOUS
<1>1. TypeOK
  <2>1. Len(Inline) \in Nat
    BY LoadBalancerAssumption
  <2>. QED
    BY <2>1 DEF Init, TypeOK, NewMemoryStore, Stores
<1>. QED
  BY <1>1 DEF Init, Form, FormOf, Alone, NoRequest

LEMMA ReceiveShape ==
  ASSUME Form, NEW p \in Procs, Receive(p)
  PROVE  /\ req[p] = NoRequest /\ req'[p] \in Requests /\ pc'[p] = FirstCall(req'[p])
         /\ pc' \in [Procs -> {"idle", "parent", "reread", "check", "store", "upsert", "drop",
                               "respond", "delete"}]
         /\ req' \in [Procs -> Requests \cup {NoRequest}]
         /\ \A q \in Procs \ {p} : pc'[q] = pc[q] /\ req'[q] = req[q]
         /\ UNCHANGED <<resources, existed, at, todo, doomed>>
         /\ \A q \in Procs : disturbed'[q] <=> IF q = p THEN Busy # {}
                                                 ELSE pc[q] # "idle" \/ disturbed[q]
<1>1. PICK r \in Requests :
        /\ req' = [req EXCEPT ![p] = r]
        /\ pc' = [pc EXCEPT ![p] = FirstCall(r)]
  BY DEF Receive
<1>2. req'[p] = r /\ pc'[p] = FirstCall(r)
  BY <1>1 DEF Form, TypeOK
<1>3. FirstCall(r) \in {"check", "parent", "delete"}
  BY RequestForms, FirstCalls
<1>4. req[p] = NoRequest
  BY DEF Receive, Form, FormOf
<1>5. UNCHANGED <<resources, existed, at, todo, doomed>>
  BY DEF Receive, progress
<1>6. \A q \in Procs : disturbed'[q] <=> IF q = p THEN Busy # {}
                                          ELSE pc[q] # "idle" \/ disturbed[q]
  BY DEF Receive, Busy
<1>. QED
  BY <1>1, <1>2, <1>3, <1>4, <1>5, <1>6 DEF Form, TypeOK

LEMMA ReceiveForm ==
  ASSUME Form, Alone, NEW p \in Procs, Receive(p)
  PROVE  Form' /\ Alone'
<1>1. TypeOK'
  <2>1. disturbed' \in [Procs -> BOOLEAN]
    BY DEF Receive, Form, TypeOK
  <2>2. status' \in [Procs -> {"none", "200", "201", "202", "400", "404", "500", "recovered"}]
    BY DEF Receive, Form, TypeOK
  <2>. QED
    BY <2>1, <2>2, ReceiveShape DEF Form, TypeOK
<1>2. pc[p] = "idle"
  BY DEF Receive
<1>3. req'[p] # NoRequest
  BY ReceiveShape, RequestForms DEF NoRequest
<1>4. /\ pc'[p] \in {"check", "parent", "delete"}
      /\ pc'[p] = "parent" => req'[p].op = "putchild"
      /\ pc'[p] = "check" => req'[p].op = "putlb"
      /\ pc'[p] = "delete" => req'[p].op = "delete"
  BY ReceiveShape, RequestForms, FirstCalls
<1>5. UNCHANGED <<resources, existed, at, todo, doomed>>
  BY ReceiveShape
<1>6. ASSUME NEW q \in Procs PROVE FormOf(q)'
  <2>1. CASE q = p
    BY <1>2, <1>3, <1>4, <1>5, <2>1 DEF FormOf, Form
  <2>2. CASE q # p
    <3>1. pc'[q] = pc[q] /\ req'[q] = req[q]
      BY <2>2, ReceiveShape
    <3>. QED
      BY <1>5, <3>1 DEF FormOf, Form, Present, Listed, Array
  <2>. QED
    BY <2>1, <2>2
<1>7. Alone'
  <2> SUFFICES ASSUME NEW q \in Procs, NEW o \in Procs, pc'[q] # "idle", ~disturbed'[q],
                      pc'[o] # "idle"
               PROVE  q = o
    BY DEF Alone
  <2>1. CASE q = p
    <3>1. \A s \in Procs : pc[s] = "idle"
      BY <2>1, ReceiveShape DEF Busy
    <3>. QED
      BY <2>1, <3>1, ReceiveShape
  <2>2. CASE q # p
    BY <2>2, ReceiveShape
  <2>. QED
    BY <2>1, <2>2
<1>. QED
  BY <1>1, <1>6, <1>7 DEF Form

-----------------------------------------------------------------------------
(* The steps of a request after it was received. *)
Serve(p) ==
  \/ Refuse(p)
  \/ CheckParent(p) \/ RereadParent(p) \/ CheckExists(p) \/ StoreChild(p)
  \/ StoreLB(p) \/ UpsertChild(p) \/ ListKind(p) \/ DropChild(p) \/ NextKind(p)
  \/ Respond(p)
  \/ DeleteResource(p)

(* Steps that store and remove one id, and that change no resource. *)
Storing(id, body) ==
  resources' = Put(resources, id, body) /\ id \in Ids /\ body \in Bodies
Removing(id) == resources' = Delete(resources, id) /\ id \in Ids
Quiet == resources' = resources

LEMMA StoringIs ==
  ASSUME Form, NEW id, NEW body, Storing(id, body)
  PROVE  /\ resources' \in Stores
         /\ \A k \in Ids : resources'[k] = IF k = id THEN body ELSE resources[k]
BY PutIsStore DEF Storing, Form, TypeOK

LEMMA RemovingIs ==
  ASSUME Form, NEW id, Removing(id)
  PROVE  /\ resources' \in Stores
         /\ \A k \in Ids : resources'[k] = IF IsPrefix(id, k) THEN NoResource ELSE resources[k]
BY DeleteIsStore DEF Removing, Form, TypeOK

LEMMA ServedIs ==
  ASSUME Form, NEW p \in Procs, Serve(p)
  PROVE  pc[p] # "idle" /\ req[p] \in Requests
<1>1. pc[p] # "idle"
  BY DEF Serve, Refuse, CheckParent, RereadParent, CheckExists, StoreChild, StoreLB, UpsertChild,
     ListKind, DropChild, NextKind, Respond, DeleteResource
<1>. QED
  BY <1>1 DEF Form, FormOf, TypeOK

(* The array that a PUT reconciles, and a child that it lists. *)
LEMMA CurrentIs ==
  ASSUME Form, NEW p \in Procs, pc[p] \in {"upsert", "drop"}
  PROVE  /\ at[p] \in Places /\ Inline[at[p]] \in DOMAIN req[p].arrays
         /\ req[p] \in Requests /\ req[p].op = "putlb"
BY DEF Form, FormOf, TypeOK, Present

LEMMA ListedIs ==
  ASSUME NEW r \in Requests, r.op = "putlb", NEW k \in DOMAIN r.arrays, NEW c \in Listed(r, k)
  PROVE  /\ c \in Children /\ c \in Ids /\ c[2] = k /\ c[3] \in DOMAIN r.arrays[k]
         /\ c = Child(k, c[3]) /\ Array(r, c[2])[c[3]] = r.arrays[k][c[3]]
<1>1. k \in Kinds /\ Array(r, k) = r.arrays[k] /\ DOMAIN r.arrays[k] \subseteq Names
  BY ArrayForms
<1>2. PICK n \in DOMAIN r.arrays[k] : c = Child(k, n)
  BY <1>1 DEF Listed
<1>. QED
  BY <1>1, <1>2, ChildIs

LEMMA StoreKinds ==
  ASSUME Form, NEW p \in Procs, Serve(p)
  PROVE  /\ StoreChild(p) \/ StoreLB(p) => Storing(req[p].id, req[p].body)
         /\ UpsertChild(p) => \E c \in todo[p] : Storing(c, Array(req[p], c[2])[c[3]])
         /\ DropChild(p) => \E c \in doomed[p] : Removing(c)
         /\ DeleteResource(p) => Removing(req[p].id)
         /\ \/ StoreChild(p) \/ StoreLB(p) \/ UpsertChild(p) \/ DropChild(p) \/ DeleteResource(p)
            \/ Quiet
<1>0. req[p] \in Requests
  BY ServedIs
<1>1. StoreChild(p) => Storing(req[p].id, req[p].body)
  BY <1>0, RequestForms DEF StoreChild, Storing
<1>2. StoreLB(p) => Storing(req[p].id, req[p].body)
  BY <1>0, RequestForms DEF StoreLB, Storing
<1>3. ASSUME UpsertChild(p)
      PROVE  \E c \in todo[p] : Storing(c, Array(req[p], c[2])[c[3]])
  <2>1. pc[p] = "upsert"
    BY <1>3 DEF UpsertChild
  <2>2. PICK c \in todo[p] : resources' = Put(resources, c, Array(req[p], c[2])[c[3]])
    BY <1>3 DEF UpsertChild
  <2>3. c \in Listed(req[p], Inline[at[p]])
    BY <2>1, <2>2 DEF Form, FormOf
  <2>4. c \in Ids /\ Array(req[p], c[2])[c[3]] \in Bodies
    BY <2>1, <2>3, CurrentIs, ListedIs, ArrayForms
  <2>. QED
    BY <2>2, <2>4 DEF Storing
<1>4. ASSUME DropChild(p) PROVE \E c \in doomed[p] : Removing(c)
  <2>1. PICK c \in doomed[p] : resources' = Delete(resources, c)
    BY <1>4 DEF DropChild
  <2>2. c \in Ids
    BY <2>1, IdsAre DEF Form, TypeOK
  <2>. QED
    BY <2>1, <2>2 DEF Removing
<1>5. DeleteResource(p) => Removing(req[p].id)
  BY <1>0, RequestForms DEF DeleteResource, Removing
<1>6. Refuse(p) \/ CheckParent(p) \/ RereadParent(p) \/ CheckExists(p) \/ ListKind(p)
        \/ NextKind(p) \/ Respond(p) => Quiet
  BY DEF Refuse, CheckParent, RereadParent, CheckExists, ListKind, NextKind, Respond, Quiet
<1>. QED
  BY <1>1, <1>2, <1>3, <1>4, <1>5, <1>6 DEF Serve

LEMMA StoresStay ==
  ASSUME Form, NEW p \in Procs, Serve(p)
  PROVE  resources' \in Stores
BY StoreKinds, StoringIs, RemovingIs DEF Quiet, Form, TypeOK

-----------------------------------------------------------------------------
LEMMA FormStays ==
  ASSUME NEW q \in Procs, FormOf(q), pc'[q] = pc[q], req'[q] = req[q], at'[q] = at[q],
         todo'[q] = todo[q], doomed'[q] = doomed[q]
  PROVE  FormOf(q)'
<1>1. Present(req[q], at[q])' <=> Present(req[q], at[q])
  BY DEF Present
<1>2. Listed(req[q], Inline[at[q]])' = Listed(req[q], Inline[at[q]])
  BY DEF Listed, Array
<1>. QED
  BY <1>1, <1>2 DEF FormOf

LEMMA AnswerForm ==
  ASSUME Form, Alone, NEW p \in Procs, Serve(p),
         NEW code \in {"200", "201", "202", "400", "404", "500", "recovered"}, Answer(p, code)
  PROVE  Form' /\ Alone'
<1>1. /\ pc' = [pc EXCEPT ![p] = "idle"] /\ req' = [req EXCEPT ![p] = NoRequest]
      /\ existed' = [existed EXCEPT ![p] = FALSE] /\ at' = [at EXCEPT ![p] = 0]
      /\ todo' = [todo EXCEPT ![p] = {}] /\ doomed' = [doomed EXCEPT ![p] = {}]
      /\ status' = [q \in Procs |-> IF q = p THEN code ELSE "none"]
      /\ disturbed' = [disturbed EXCEPT ![p] = FALSE]
  BY DEF Answer
<1>2. TypeOK'
  <2>1. 0 \in 0..Len(Inline) + 1
    BY LoadBalancerAssumption
  <2>. QED
    BY <1>1, <2>1, StoresStay DEF Form, TypeOK
<1>3. /\ pc'[p] = "idle" /\ req'[p] = NoRequest /\ todo'[p] = {} /\ doomed'[p] = {}
      /\ \A q \in Procs \ {p} : /\ pc'[q] = pc[q] /\ req'[q] = req[q] /\ at'[q] = at[q]
                               /\ todo'[q] = todo[q] /\ doomed'[q] = doomed[q]
                               /\ disturbed'[q] = disturbed[q]
  BY <1>1 DEF Form, TypeOK
<1>4. ASSUME NEW q \in Procs PROVE FormOf(q)'
  <2>1. CASE q = p
    BY <1>3, <2>1 DEF FormOf
  <2>2. CASE q # p
    BY <1>3, <2>2, FormStays DEF Form
  <2>. QED
    BY <2>1, <2>2
<1>5. Alone'
  BY <1>3 DEF Alone
<1>. QED
  BY <1>2, <1>4, <1>5 DEF Form

(* A step to a later store call, with the array at i, the children in t to *)
(* be stored and those in d to be deleted.                                 *)
Onward(p, step, i, t, d) ==
  /\ Goto(p, step) /\ step \in {"reread", "check", "store", "upsert", "drop", "respond"}
  /\ existed' \in [Procs -> BOOLEAN]
  /\ i \in 0..Len(Inline) + 1 /\ at' = [at EXCEPT ![p] = i]
  /\ todo' = [todo EXCEPT ![p] = t] /\ doomed' = [doomed EXCEPT ![p] = d]
  /\ step = "reread" => req[p].op = "putchild"
  /\ step \in {"check", "store"} => req[p].op \in {"putlb", "putchild"}
  /\ step \in {"upsert", "drop", "respond"} => req[p].op = "putlb"
  /\ step \in {"upsert", "drop"} => i \in Places /\ Present(req[p], i)
  /\ step = "respond" => i = Len(Inline) + 1
  /\ step = "upsert" => t \subseteq Listed(req[p], Inline[i])
  /\ step # "upsert" => t = {}
  /\ step = "drop" => d \subseteq ChildrenOf(Inline[i]) \ Listed(req[p], Inline[i])
  /\ step # "drop" => d = {}

LEMMA GotoForm ==
  ASSUME Form, Alone, NEW p \in Procs, Serve(p), NEW step, NEW i, NEW t, NEW d,
         Onward(p, step, i, t, d)
  PROVE  Form' /\ Alone'
<1>1. pc' = [pc EXCEPT ![p] = step] /\ UNCHANGED <<req, status, disturbed>>
  BY DEF Onward, Goto
<1>2. pc'[p] = step /\ req'[p] = req[p] /\ at'[p] = i /\ todo'[p] = t /\ doomed'[p] = d
  BY <1>1 DEF Onward, Form, TypeOK
<1>3. \A q \in Procs \ {p} : /\ pc'[q] = pc[q] /\ req'[q] = req[q] /\ at'[q] = at[q]
                            /\ todo'[q] = todo[q] /\ doomed'[q] = doomed[q]
  BY <1>1 DEF Onward, Form, TypeOK
<1>4. t \subseteq Children /\ d \subseteq Children
  <2>1. CASE step = "upsert"
    <3>1. req[p] \in Requests /\ req[p].op = "putlb" /\ Inline[i] \in DOMAIN req[p].arrays
      BY <2>1, ServedIs DEF Onward, Present
    <3>. QED
      BY <2>1, <3>1, ListedIs DEF Onward
  <2>2. CASE step = "drop"
    <3>1. Inline[i] \in Kinds
      BY <2>2, InlineIs DEF Onward, Kinds
    <3>. QED
      BY <2>2, <3>1 DEF Onward, Children
  <2>. QED
    BY <2>1, <2>2 DEF Onward
<1>5. TypeOK'
  BY <1>1, <1>4, StoresStay DEF Onward, Form, TypeOK
<1>6. ASSUME NEW q \in Procs PROVE FormOf(q)'
  <2>1. CASE q = p
    <3>1. req[p] # NoRequest
      BY ServedIs DEF Form, FormOf
    <3>. QED
      BY <1>2, <2>1, <3>1 DEF Onward, FormOf, Present, Listed, Array
  <2>2. CASE q # p
    BY <1>3, <2>2, FormStays DEF Form
  <2>. QED
    BY <2>1, <2>2
<1>7. Alone'
  <2>1. pc[p] # "idle"
    BY ServedIs
  <2>2. \A q \in Procs : pc'[q] # "idle" => pc[q] # "idle"
    BY <1>2, <1>3, <2>1 DEF Onward
  <2>. QED
    BY <1>1, <2>2 DEF Alone
<1>. QED
  BY <1>5, <1>6, <1>7 DEF Form

(* A step of a request that keeps what it holds of a PUT. *)
LEMMA PlainGotos ==
  ASSUME Form, Alone, NEW p \in Procs, Serve(p), NEW step, Goto(p, step),
         existed' \in [Procs -> BOOLEAN], UNCHANGED progress,
         step \in {"reread", "check", "store"}, pc[p] \notin {"upsert", "drop"},
         step = "reread" => req[p].op = "putchild",
         req[p].op \in {"putlb", "putchild"}
  PROVE  Form' /\ Alone'
<1>1. /\ at' = [at EXCEPT ![p] = at[p]] /\ todo' = [todo EXCEPT ![p] = {}]
      /\ doomed' = [doomed EXCEPT ![p] = {}] /\ at[p] \in 0..Len(Inline) + 1
  BY DEF progress, Form, FormOf, TypeOK
<1>2. Onward(p, step, at[p], {}, {})
  BY <1>1 DEF Onward
<1>. QED
  BY <1>2, GotoForm

LEMMA ReconcileForm ==
  ASSUME Form, Alone, NEW p \in Procs, Serve(p), NEW i \in Nat, Reconcile(p, i),
         req[p].op = "putlb", doomed[p] = {}
  PROVE  Form' /\ Alone'
<1>0. /\ existed' \in [Procs -> BOOLEAN] /\ doomed' = [doomed EXCEPT ![p] = {}]
      /\ Len(Inline) \in Nat
  BY LoadBalancerAssumption DEF Reconcile, Form, TypeOK
<1>1. CASE /\ at' = [at EXCEPT ![p] = Len(Inline) + 1]
           /\ todo' = [todo EXCEPT ![p] = {}]
           /\ Goto(p, "respond")
  <2>1. Len(Inline) + 1 \in 0..Len(Inline) + 1
    BY <1>0
  <2>2. Onward(p, "respond", Len(Inline) + 1, {}, {})
    BY <1>0, <1>1, <2>1 DEF Onward
  <2>. QED
    BY <2>2, GotoForm
<1>2. CASE \E j \in {j \in Places : i <= j /\ Present(req[p], j)} :
             /\ at' = [at EXCEPT ![p] = j]
             /\ todo' = [todo EXCEPT ![p] = Listed(req[p], Inline[j])]
             /\ Goto(p, "upsert")
  <2>1. PICK j \in Places :
          /\ Present(req[p], j)
          /\ at' = [at EXCEPT ![p] = j]
          /\ todo' = [todo EXCEPT ![p] = Listed(req[p], Inline[j])]
          /\ Goto(p, "upsert")
    BY <1>2
  <2>2. j \in 0..Len(Inline) + 1
    BY <1>0 DEF Places
  <2>3. Onward(p, "upsert", j, Listed(req[p], Inline[j]), {})
    BY <1>0, <2>1, <2>2 DEF Onward
  <2>. QED
    BY <2>3, GotoForm
<1>. QED
  BY <1>1, <1>2 DEF Reconcile

LEMMA CreatedIs == \A p \in Procs : Created(p) \in {"200", "201"}
BY DEF Created

LEMMA ServeForm ==
  ASSUME Form, Alone, NEW p \in Procs, Serve(p)
  PROVE  Form' /\ Alone'
<1>0. pc[p] # "idle" /\ req[p] \in Requests
  BY ServedIs
<1>1. CASE Refuse(p) \/ Respond(p) \/ DeleteResource(p)
  <2>1. \E code \in {"200", "201", "202", "400", "404"} : Answer(p, code)
    BY <1>1, CreatedIs DEF Refuse, Respond, DeleteResource
  <2>. QED
    BY <2>1, AnswerForm
<1>2. CASE CheckParent(p)
  <2>1. CASE Answer(p, "404")
    BY <2>1, AnswerForm
  <2>2. CASE Goto(p, "reread") /\ UNCHANGED <<existed, progress>>
    <3>1. pc[p] = "parent" /\ req[p].op = "putchild"
      BY <1>2 DEF CheckParent, Form, FormOf
    <3>2. existed' \in [Procs -> BOOLEAN] /\ UNCHANGED progress
      BY <2>2 DEF Form, TypeOK
    <3>. QED
      BY <2>2, <3>1, <3>2, PlainGotos
  <2>. QED
    BY <1>2, <2>1, <2>2 DEF CheckParent
<1>3. CASE RereadParent(p)
  <2>1. CASE Answer(p, "recovered")
    BY <2>1, AnswerForm
  <2>2. CASE Goto(p, "check") /\ UNCHANGED <<existed, progress>>
    <3>1. pc[p] = "reread" /\ req[p].op = "putchild"
      BY <1>3 DEF RereadParent, Form, FormOf
    <3>2. existed' \in [Procs -> BOOLEAN] /\ UNCHANGED progress
      BY <2>2 DEF Form, TypeOK
    <3>. QED
      BY <2>2, <3>1, <3>2, PlainGotos
  <2>. QED
    BY <1>3, <2>1, <2>2 DEF RereadParent
<1>4. CASE CheckExists(p)
  <2>1. pc[p] = "check" /\ req[p].op \in {"putlb", "putchild"} /\ Goto(p, "store")
          /\ UNCHANGED progress
    BY <1>4 DEF CheckExists, Form, FormOf
  <2>2. existed' \in [Procs -> BOOLEAN]
    BY <1>4 DEF CheckExists, Form, TypeOK, Has
  <2>. QED
    BY <2>1, <2>2, PlainGotos
<1>5. CASE StoreChild(p)
  <2>1. \E code \in {"200", "201", "500"} : Answer(p, code)
    BY <1>5, CreatedIs DEF StoreChild
  <2>. QED
    BY <2>1, AnswerForm
<1>6. CASE StoreLB(p)
  <2>1. CASE Answer(p, "500")
    BY <2>1, AnswerForm
  <2>2. CASE Reconcile(p, 1)
    <3>1. req[p].op = "putlb" /\ doomed[p] = {}
      BY <1>6 DEF StoreLB, Form, FormOf
    <3>. QED
      BY <2>2, <3>1, ReconcileForm
  <2>. QED
    BY <1>6, <2>1, <2>2 DEF StoreLB
<1>7. CASE UpsertChild(p)
  <2>1. pc[p] = "upsert" /\ todo[p] \subseteq Listed(req[p], Inline[at[p]]) /\ doomed[p] = {}
    BY <1>7 DEF UpsertChild, Form, FormOf
  <2>2. PICK c \in todo[p] :
          \/ /\ todo' = [todo EXCEPT ![p] = @ \ {c}]
             /\ Goto(p, "upsert")
             /\ UNCHANGED <<existed, at, doomed>>
          \/ Answer(p, "500")
    BY <1>7 DEF UpsertChild
  <2>3. CASE Answer(p, "500")
    BY <2>3, AnswerForm
  <2>4. CASE /\ todo' = [todo EXCEPT ![p] = @ \ {c}]
             /\ Goto(p, "upsert")
             /\ UNCHANGED <<existed, at, doomed>>
    <3>1. /\ todo' = [todo EXCEPT ![p] = todo[p] \ {c}]
          /\ at' = [at EXCEPT ![p] = at[p]] /\ doomed' = [doomed EXCEPT ![p] = {}]
          /\ existed' \in [Procs -> BOOLEAN] /\ at[p] \in 0..Len(Inline) + 1
      BY <2>1, <2>4 DEF Form, TypeOK
    <3>2. at[p] \in Places /\ Present(req[p], at[p]) /\ req[p].op = "putlb"
      BY <2>1 DEF Form, FormOf
    <3>3. Onward(p, "upsert", at[p], todo[p] \ {c}, {})
      BY <2>1, <2>4, <3>1, <3>2 DEF Onward
    <3>. QED
      BY <3>3, GotoForm
  <2>. QED
    BY <2>2, <2>3, <2>4
<1>8. CASE ListKind(p)
  <2>1. /\ pc[p] = "upsert" /\ todo[p] = {} /\ Goto(p, "drop")
        /\ doomed' = [doomed EXCEPT ![p] = Unlisted(req[p], Inline[at[p]])]
        /\ UNCHANGED <<existed, at, todo>>
    BY <1>8 DEF ListKind
  <2>2. /\ todo' = [todo EXCEPT ![p] = {}] /\ at' = [at EXCEPT ![p] = at[p]]
        /\ existed' \in [Procs -> BOOLEAN] /\ at[p] \in 0..Len(Inline) + 1
    BY <2>1 DEF Form, TypeOK
  <2>3. at[p] \in Places /\ Present(req[p], at[p]) /\ req[p].op = "putlb"
    BY <2>1 DEF Form, FormOf
  <2>4. Unlisted(req[p], Inline[at[p]])
          \subseteq ChildrenOf(Inline[at[p]]) \ Listed(req[p], Inline[at[p]])
    BY DEF Unlisted
  <2>5. Onward(p, "drop", at[p], {}, Unlisted(req[p], Inline[at[p]]))
    BY <2>1, <2>2, <2>3, <2>4 DEF Onward
  <2>. QED
    BY <2>5, GotoForm
<1>9. CASE DropChild(p)
  <2>1. PICK c \in doomed[p] : doomed' = [doomed EXCEPT ![p] = @ \ {c}]
    BY <1>9 DEF DropChild
  <2>2. pc[p] = "drop" /\ UNCHANGED <<pc, req, existed, at, todo, status, disturbed>>
    BY <1>9 DEF DropChild
  <2>3. /\ doomed' = [doomed EXCEPT ![p] = doomed[p] \ {c}]
        /\ todo' = [todo EXCEPT ![p] = {}] /\ at' = [at EXCEPT ![p] = at[p]]
        /\ existed' \in [Procs -> BOOLEAN] /\ at[p] \in 0..Len(Inline) + 1
        /\ Goto(p, "drop")
    BY <2>1, <2>2 DEF Form, FormOf, TypeOK, Goto
  <2>4. at[p] \in Places /\ Present(req[p], at[p]) /\ req[p].op = "putlb"
        /\ doomed[p] \subseteq ChildrenOf(Inline[at[p]]) \ Listed(req[p], Inline[at[p]])
    BY <2>2 DEF Form, FormOf
  <2>5. Onward(p, "drop", at[p], {}, doomed[p] \ {c})
    BY <2>3, <2>4 DEF Onward
  <2>. QED
    BY <2>5, GotoForm
<1>10. CASE NextKind(p)
  <2>1. req[p].op = "putlb" /\ doomed[p] = {} /\ at[p] \in Places /\ Reconcile(p, at[p] + 1)
    BY <1>10 DEF NextKind, Form, FormOf
  <2>2. at[p] + 1 \in Nat
    BY <2>1, LoadBalancerAssumption DEF Places
  <2>. QED
    BY <2>1, <2>2, ReconcileForm
<1>. QED
  BY <1>1, <1>2, <1>3, <1>4, <1>5, <1>6, <1>7, <1>8, <1>9, <1>10 DEF Serve

-----------------------------------------------------------------------------
LEMMA ServeShape ==
  ASSUME Form, NEW p \in Procs, Serve(p), NEW q \in Procs \ {p}
  PROVE  pc'[q] = pc[q] /\ disturbed'[q] = disturbed[q]
<1>1. CASE \E code : Answer(p, code)
  BY <1>1 DEF Answer, Form, TypeOK
<1>2. CASE \E step : Goto(p, step)
  BY <1>2 DEF Goto, Form, TypeOK
<1>3. CASE DropChild(p)
  BY <1>3 DEF DropChild
<1>4. Serve(p) => DropChild(p) \/ (\E code : Answer(p, code)) \/ (\E step : Goto(p, step))
  <2>1. Refuse(p) \/ CheckParent(p) \/ RereadParent(p) \/ CheckExists(p) \/ StoreChild(p)
          \/ Respond(p) \/ DeleteResource(p) \/ UpsertChild(p) \/ ListKind(p)
        => (\E code : Answer(p, code)) \/ (\E step : Goto(p, step))
    BY DEF Refuse, CheckParent, RereadParent, CheckExists, StoreChild, Respond, DeleteResource,
       UpsertChild, ListKind
  <2>2. StoreLB(p) \/ NextKind(p) => (\E code : Answer(p, code)) \/ (\E step : Goto(p, step))
    BY DEF StoreLB, NextKind, Reconcile
  <2>. QED
    BY <2>1, <2>2 DEF Serve
<1>. QED
  BY <1>1, <1>2, <1>3, <1>4

(* Where a PUT goes on: to the first array from place i that it carries.   *)
LEMMA ReconcileShape ==
  ASSUME Form, NEW p \in Procs, NEW i \in Nat, Reconcile(p, i)
  PROVE  /\ UNCHANGED <<req, disturbed>>
         /\ \A m \in Places : i <= m /\ m < at'[p] => ~Present(req[p], m)
         /\ \/ pc'[p] = "respond" /\ at'[p] = Len(Inline) + 1
            \/ pc'[p] = "upsert" /\ at'[p] \in Places /\ todo'[p] = Listed(req[p], Inline[at'[p]])
<1> DEFINE present == {j \in Places : i <= j /\ Present(req[p], j)}
<1>0. Places \subseteq Nat /\ Len(Inline) \in Nat /\ \A m \in Places : m < Len(Inline) + 1
  BY LoadBalancerAssumption DEF Places
<1>1. CASE /\ present = {}
           /\ at' = [at EXCEPT ![p] = Len(Inline) + 1]
           /\ Goto(p, "respond")
  <2>1. at'[p] = Len(Inline) + 1 /\ pc'[p] = "respond" /\ UNCHANGED <<req, disturbed>>
    BY <1>1 DEF Goto, Form, TypeOK
  <2>. QED
    BY <1>1, <2>1
<1>2. CASE \E j \in present :
             /\ \A m \in present : j <= m
             /\ at' = [at EXCEPT ![p] = j]
             /\ todo' = [todo EXCEPT ![p] = Listed(req[p], Inline[j])]
             /\ Goto(p, "upsert")
  <2>1. PICK j \in present :
          /\ \A m \in present : j <= m
          /\ at' = [at EXCEPT ![p] = j]
          /\ todo' = [todo EXCEPT ![p] = Listed(req[p], Inline[j])]
          /\ Goto(p, "upsert")
    BY <1>2
  <2>2. /\ at'[p] = j /\ todo'[p] = Listed(req[p], Inline[j]) /\ pc'[p] = "upsert"
        /\ UNCHANGED <<req, disturbed>>
    BY <2>1 DEF Goto, Form, TypeOK
  <2>3. \A m \in Places : i <= m /\ m < j => m \notin present
    BY <1>0, <2>1
  <2>. QED
    BY <2>1, <2>2, <2>3
<1>. QED
  BY <1>1, <1>2 DEF Reconcile

(* What matching an array comes to, and when it lasts. *)
LEMMA MatchesIf ==
  ASSUME NEW r \in Requests, r.op = "putlb", NEW k \in DOMAIN r.arrays,
         \A c \in Listed(r, k) : resources[c] = Array(r, c[2])[c[3]],
         Held(k) \subseteq Listed(r, k)
  PROVE  Matches(k, r.arrays[k])
<1>1. \A n \in DOMAIN r.arrays[k] :
        /\ Child(k, n) \in Listed(r, k) /\ Child(k, n) \in ChildrenOf(k)
        /\ resources[Child(k, n)] = r.arrays[k][n] /\ r.arrays[k][n] \in Bodies
  <2>1. \A n \in DOMAIN r.arrays[k] : /\ Child(k, n) \in Listed(r, k) /\ n \in Names
                                    /\ r.arrays[k][n] \in Bodies
    BY ArrayForms
  <2>2. \A n \in DOMAIN r.arrays[k] : Child(k, n)[3] = n /\ Child(k, n) \in ChildrenOf(k)
    BY <2>1, ChildIs, ArrayForms
  <2>. QED
    BY <2>1, <2>2, ListedIs
<1>2. \A n \in DOMAIN r.arrays[k] : Child(k, n) \in Held(k)
  BY <1>1, StoreAssumption DEF Held, Has
<1>3. Listed(r, k) = {Child(k, n) : n \in DOMAIN r.arrays[k]}
  BY ArrayForms DEF Listed
<1>. QED
  BY <1>1, <1>2, <1>3 DEF Matches

LEMMA MatchesStays ==
  ASSUME NEW r \in Requests, r.op = "putlb", NEW k \in DOMAIN r.arrays, Matches(k, r.arrays[k]),
         \A c \in ChildrenOf(k) : resources'[c] = resources[c]
  PROVE  Matches(k, r.arrays[k])'
<1>1. Held(k)' = Held(k)
  BY DEF Held, Has
<1>2. \A n \in DOMAIN r.arrays[k] : Child(k, n) \in ChildrenOf(k)
  BY ArrayForms DEF ChildrenOf
<1>. QED
  BY <1>1, <1>2 DEF Matches

-----------------------------------------------------------------------------
(* What an undisturbed PUT has done: the arrays before the current one     *)
(* match; of the current one what it has left aside is stored, and in the  *)
(* end what is not listed is about to go.                                  *)
WorkOf(p) ==
  pc[p] \in {"upsert", "drop", "respond"} /\ ~disturbed[p] =>
    /\ \A i \in Places : i < at[p] /\ Present(req[p], i) =>
                        Matches(Inline[i], req[p].arrays[Inline[i]])
    /\ pc[p] # "respond" =>
         \A c \in Listed(req[p], Inline[at[p]]) \ todo[p] :
           resources[c] = Array(req[p], c[2])[c[3]]
    /\ pc[p] = "drop" =>
         Held(Inline[at[p]]) \subseteq Listed(req[p], Inline[at[p]]) \cup doomed[p]

Work == \A p \in Procs : WorkOf(p)

LEMMA WorkReceive ==
  ASSUME Form, Alone, Work, NEW p \in Procs, Receive(p)
  PROVE  Work'
<1> SUFFICES ASSUME NEW q \in Procs, pc'[q] \in {"upsert", "drop", "respond"}, ~disturbed'[q]
             PROVE  FALSE
  BY DEF Work, WorkOf
<1>1. pc'[p] \in {"check", "parent", "delete"}
  BY ReceiveShape, RequestForms, FirstCalls
<1>2. q # p /\ pc[q] # "idle"
  BY <1>1, ReceiveShape
<1>. QED
  BY <1>2, ReceiveShape

(* Storing or removing a child of one kind keeps the arrays of the others. *)
LEMMA OthersMatch ==
  ASSUME Form, NEW r \in Requests, r.op = "putlb", NEW i \in Places, NEW c \in Children,
         c[2] # Inline[i], Present(r, i), Matches(Inline[i], r.arrays[Inline[i]]),
         (\E body : Storing(c, body)) \/ Removing(c)
  PROVE  Matches(Inline[i], r.arrays[Inline[i]])'
<1>1. Inline[i] \in DOMAIN r.arrays /\ Inline[i] \in Kinds
  BY InlineIs DEF Present, Kinds
<1>2. \A d \in ChildrenOf(Inline[i]) : d \in Ids /\ d # c
  BY <1>1, ChildrenAre DEF Children
<1>3. \A d \in ChildrenOf(Inline[i]) : resources'[d] = resources[d]
  BY <1>2, StoringIs, RemovingIs, Covers
<1>. QED
  BY <1>1, <1>3, MatchesStays

LEMMA WorkUpsert ==
  ASSUME Form, NEW p \in Procs, WorkOf(p), UpsertChild(p), pc'[p] # "idle"
  PROVE  WorkOf(p)'
<1>1. pc[p] = "upsert"
  BY DEF UpsertChild
<1>2. PICK c \in todo[p] :
        /\ resources' = Put(resources, c, Array(req[p], c[2])[c[3]])
        /\ \/ /\ todo' = [todo EXCEPT ![p] = @ \ {c}]
              /\ Goto(p, "upsert")
              /\ UNCHANGED <<existed, at, doomed>>
           \/ Answer(p, "500")
  BY DEF UpsertChild
<1>3. ~Answer(p, "500")
  BY DEF Answer, Form, TypeOK
<1>4. /\ pc'[p] = "upsert" /\ UNCHANGED <<req, disturbed, at>> /\ todo'[p] = todo[p] \ {c}
  BY <1>2, <1>3 DEF Goto, Form, TypeOK
<1> DEFINE k == Inline[at[p]]
<1>5. /\ at[p] \in Places /\ k \in DOMAIN req[p].arrays /\ req[p] \in Requests
      /\ req[p].op = "putlb" /\ c \in Listed(req[p], k)
  BY <1>1, CurrentIs DEF Form, FormOf
<1>6. c \in Children /\ c \in Ids /\ c[2] = k /\ Array(req[p], c[2])[c[3]] \in Bodies
  BY <1>5, ListedIs, ArrayForms
<1>7. Storing(c, Array(req[p], c[2])[c[3]])
  BY <1>2, <1>6 DEF Storing
<1>8. ASSUME ~disturbed[p], NEW i \in Places, i < at[p], Present(req[p], i)
      PROVE  Matches(Inline[i], req[p].arrays[Inline[i]])'
  <2>1. Inline[i] # k
    BY <1>5, <1>8, InlineIs DEF Places
  <2>2. Matches(Inline[i], req[p].arrays[Inline[i]])
    BY <1>1, <1>8 DEF WorkOf
  <2>3. \A r \in Requests : \A a : r = req[p] /\ a = r.arrays[Inline[i]] => Matches(Inline[i], a)'
    BY <1>5, <1>6, <1>7, <1>8, <2>1, <2>2, OthersMatch
  <2>. QED
    BY <1>4, <1>5, <2>3 DEF Matches
<1>9. ASSUME ~disturbed[p], NEW d \in Listed(req[p], k), d \notin todo'[p]
      PROVE  resources'[d] = Array(req[p], d[2])[d[3]]
  <2>1. d \in Ids
    BY <1>5, ListedIs
  <2>. QED
    BY <1>1, <1>4, <1>7, <1>9, <2>1, StoringIs DEF WorkOf
<1>10. \A d : Array(req[p], d[2])' = Array(req[p], d[2])
  BY <1>4 DEF Array
<1>11. Listed(req[p], Inline[at[p]])' = Listed(req[p], k)
  BY <1>4 DEF Listed, Array
<1>. QED
  BY <1>4, <1>8, <1>9, <1>10, <1>11 DEF WorkOf, Present
LEMMA WorkList ==
  ASSUME Form, NEW p \in Procs, WorkOf(p), ListKind(p)
  PROVE  WorkOf(p)'
<1> DEFINE k == Inline[at[p]]
<1>1. /\ pc[p] = "upsert" /\ todo[p] = {} /\ Goto(p, "drop")
      /\ doomed' = [doomed EXCEPT ![p] = Unlisted(req[p], k)]
      /\ UNCHANGED <<resources, existed, at, todo>>
  BY DEF ListKind
<1>2. /\ pc'[p] = "drop" /\ UNCHANGED <<req, disturbed, at, todo, resources>>
      /\ doomed'[p] = Unlisted(req[p], k)
  BY <1>1 DEF Goto, Form, TypeOK
<1>3. k \in Kinds
  BY <1>1, CurrentIs, InlineIs DEF Kinds
<1>4. Held(k) \subseteq ListBelow(resources, LB) \cap ChildrenOf(k)
  <2>1. ASSUME NEW c \in Held(k) PROVE c \in ListBelow(resources, LB) /\ c \in ChildrenOf(k)
    <3>1. c \in ChildrenOf(k) /\ Has(resources, c) /\ c \in Children
      BY <1>3, <2>1 DEF Held, Children
    <3>2. c \in Ids /\ c # LB /\ IsPrefix(LB, c)
      BY <3>1, ChildrenAre, Covers
    <3>. QED
      BY <3>1, <3>2 DEF ListBelow, Covered
  <2>. QED
    BY <2>1
<1>5. Held(k) \subseteq Listed(req[p], k) \cup doomed'[p]
  BY <1>2, <1>4 DEF Unlisted
<1>6. /\ Held(Inline[at[p]])' = Held(k)
      /\ Listed(req[p], Inline[at[p]])' = Listed(req[p], k)
      /\ \A d : Array(req[p], d[2])' = Array(req[p], d[2])
  BY <1>2 DEF Held, Has, Listed, Array
<1>7. \A i \in Places : Matches(Inline[i], req[p].arrays[Inline[i]])'
                        <=> Matches(Inline[i], req[p].arrays[Inline[i]])
  BY <1>2 DEF Matches, Held, Has
<1>. QED
  BY <1>1, <1>2, <1>5, <1>6, <1>7 DEF WorkOf, Present

LEMMA WorkDrop ==
  ASSUME Form, NEW p \in Procs, WorkOf(p), DropChild(p)
  PROVE  WorkOf(p)'
<1> DEFINE k == Inline[at[p]]
<1>1. /\ pc[p] = "drop" /\ UNCHANGED <<pc, req, at, todo, disturbed>>
  BY DEF DropChild
<1>2. PICK c \in doomed[p] : /\ resources' = Delete(resources, c)
                             /\ doomed' = [doomed EXCEPT ![p] = @ \ {c}]
  BY DEF DropChild
<1>3. doomed'[p] = doomed[p] \ {c}
  BY <1>2 DEF Form, TypeOK
<1>4. /\ at[p] \in Places /\ k \in DOMAIN req[p].arrays /\ req[p] \in Requests
      /\ req[p].op = "putlb" /\ c \in ChildrenOf(k) \ Listed(req[p], k) /\ k \in Kinds
  BY <1>1, CurrentIs, ArrayForms DEF Form, FormOf
<1>5. c \in Children /\ c \in Ids /\ c[2] = k
  BY <1>4, ChildrenAre DEF Children
<1>6. Removing(c)
  BY <1>2, <1>5 DEF Removing
<1>7. \A d \in Ids : resources'[d] = IF d = c THEN NoResource ELSE resources[d]
  BY <1>5, <1>6, RemovingIs, Covers
<1>8. ASSUME ~disturbed[p], NEW i \in Places, i < at[p], Present(req[p], i)
      PROVE  Matches(Inline[i], req[p].arrays[Inline[i]])'
  <2>1. Inline[i] # k
    BY <1>4, <1>8, InlineIs DEF Places
  <2>2. Matches(Inline[i], req[p].arrays[Inline[i]])
    BY <1>1, <1>8 DEF WorkOf
  <2>3. \A r \in Requests : \A a : r = req[p] /\ a = r.arrays[Inline[i]] => Matches(Inline[i], a)'
    BY <1>4, <1>5, <1>6, <1>8, <2>1, <2>2, OthersMatch
  <2>. QED
    BY <1>1, <1>4, <2>3 DEF Matches
<1>9. ASSUME ~disturbed[p], NEW d \in Listed(req[p], k)
      PROVE  resources'[d] = Array(req[p], d[2])[d[3]]
  <2>1. d \in Ids /\ d # c /\ todo[p] = {}
    BY <1>1, <1>4, ListedIs DEF Form, FormOf
  <2>. QED
    BY <1>1, <1>7, <1>9, <2>1 DEF WorkOf
<1>10. ~disturbed[p] => Held(k)' \subseteq Listed(req[p], k) \cup doomed'[p]
  <2> SUFFICES ASSUME ~disturbed[p], NEW d \in Held(k)'
               PROVE  d \in Listed(req[p], k) \cup doomed'[p]
    OBVIOUS
  <2>1. d \in ChildrenOf(k) /\ resources'[d] # NoResource
    BY <1>1 DEF Held, Has
  <2>2. d \in Ids
    BY <1>4, <2>1, ChildrenAre DEF Children
  <2>3. d # c /\ d \in Held(k)
    BY <1>7, <2>1, <2>2 DEF Held, Has
  <2>. QED
    BY <1>1, <1>3, <2>3 DEF WorkOf
<1>11. /\ Listed(req[p], Inline[at[p]])' = Listed(req[p], k)
       /\ \A d : Array(req[p], d[2])' = Array(req[p], d[2])
       /\ Held(Inline[at[p]])' = Held(k)'
  BY <1>1 DEF Listed, Array
<1>. QED
  BY <1>1, <1>8, <1>9, <1>10, <1>11 DEF WorkOf, Present

LEMMA WorkNext ==
  ASSUME Form, NEW p \in Procs, WorkOf(p), NextKind(p)
  PROVE  WorkOf(p)'
<1> DEFINE k == Inline[at[p]]
<1>1. pc[p] = "drop" /\ doomed[p] = {} /\ Reconcile(p, at[p] + 1) /\ resources' = resources
  BY DEF NextKind
<1>2. /\ at[p] \in Places /\ k \in DOMAIN req[p].arrays /\ req[p] \in Requests
      /\ req[p].op = "putlb" /\ todo[p] = {}
  BY <1>1, CurrentIs DEF Form, FormOf
<1>3. at[p] \in Nat /\ at[p] + 1 \in Nat /\ Places \subseteq Nat
  BY <1>2, LoadBalancerAssumption DEF Places
<1>4. /\ UNCHANGED <<req, disturbed>>
      /\ \A m \in Places : at[p] + 1 <= m /\ m < at'[p] => ~Present(req[p], m)
      /\ \/ pc'[p] = "respond" /\ at'[p] = Len(Inline) + 1
         \/ pc'[p] = "upsert" /\ at'[p] \in Places /\ todo'[p] = Listed(req[p], Inline[at'[p]])
  BY <1>1, <1>3, ReconcileShape
<1>5. ~disturbed[p] => Matches(k, req[p].arrays[k])
  BY <1>1, <1>2, MatchesIf DEF WorkOf
<1>6. ASSUME ~disturbed[p], NEW i \in Places, i < at'[p], Present(req[p], i)
      PROVE  Matches(Inline[i], req[p].arrays[Inline[i]])
  <2>1. i <= at[p]
    BY <1>3, <1>4, <1>6
  <2>2. CASE i = at[p]
    BY <1>5, <1>6, <2>2
  <2>3. CASE i < at[p]
    BY <1>1, <1>6, <2>3 DEF WorkOf
  <2>. QED
    BY <1>3, <2>1, <2>2, <2>3
<1>7. \A i \in Places : Matches(Inline[i], req[p].arrays[Inline[i]])'
                        <=> Matches(Inline[i], req[p].arrays[Inline[i]])
  BY <1>1, <1>4 DEF Matches, Held, Has
<1>8. pc'[p] # "respond" => Listed(req[p], Inline[at[p]])' = todo'[p]
  BY <1>4 DEF Listed, Array
<1>9. /\ pc'[p] # "drop" /\ disturbed' = disturbed
      /\ \A i \in Places : i < at'[p] /\ Present(req[p], i)' => i < at'[p] /\ Present(req[p], i)
  BY <1>4 DEF Present
<1>. QED
  BY <1>6, <1>7, <1>8, <1>9 DEF WorkOf

LEMMA WorkStore ==
  ASSUME Form, NEW p \in Procs, StoreLB(p), pc'[p] # "idle"
  PROVE  WorkOf(p)'
<1>1. ~Answer(p, "500")
  BY DEF Answer, Form, TypeOK
<1>2. Reconcile(p, 1)
  BY <1>1 DEF StoreLB
<1>3. /\ UNCHANGED <<req, disturbed>>
      /\ \A m \in Places : m < at'[p] => ~Present(req[p], m)
      /\ \/ pc'[p] = "respond" /\ at'[p] = Len(Inline) + 1
         \/ pc'[p] = "upsert" /\ at'[p] \in Places /\ todo'[p] = Listed(req[p], Inline[at'[p]])
  <2>1. \A m \in Places : 1 <= m
    BY LoadBalancerAssumption DEF Places
  <2>. QED
    BY <1>2, <2>1, ReconcileShape
<1>4. pc'[p] # "respond" => Listed(req[p], Inline[at[p]])' = todo'[p]
  BY <1>3 DEF Listed, Array
<1>5. /\ pc'[p] # "drop"
      /\ \A i \in Places : i < at'[p] => ~Present(req[p], i)'
  BY <1>3 DEF Present
<1>. QED
  BY <1>4, <1>5 DEF WorkOf

LEMMA WorkServe ==
  ASSUME Form, Alone, Work, NEW p \in Procs, Serve(p)
  PROVE  Work'
<1>1. ASSUME NEW q \in Procs \ {p}, pc'[q] # "idle" PROVE disturbed'[q]
  BY <1>1, ServeShape, ServedIs DEF Alone, Form, TypeOK
<1>2. ASSUME pc'[p] \in {"upsert", "drop", "respond"} PROVE WorkOf(p)'
  <2>1. \A code : ~Answer(p, code)
    BY <1>2 DEF Answer, Form, TypeOK
  <2>2. \A step : Goto(p, step) => step \in {"upsert", "drop", "respond"}
    BY <1>2 DEF Goto, Form, TypeOK
  <2>3. StoreLB(p) \/ UpsertChild(p) \/ ListKind(p) \/ DropChild(p) \/ NextKind(p)
    BY <2>1, <2>2 DEF Serve, Refuse, CheckParent, RereadParent, CheckExists, StoreChild, Respond,
       DeleteResource
  <2>. QED
    BY <1>2, <2>3, WorkStore, WorkUpsert, WorkList, WorkDrop, WorkNext DEF Work
<1>3. ASSUME NEW q \in Procs PROVE WorkOf(q)'
  <2>1. CASE q = p /\ pc'[p] \in {"upsert", "drop", "respond"}
    BY <1>2, <2>1
  <2>2. CASE q # p /\ pc'[q] # "idle"
    BY <1>1, <2>2 DEF WorkOf
  <2>3. CASE pc'[q] \notin {"upsert", "drop", "respond"}
    BY <2>3 DEF WorkOf
  <2>. QED
    BY <2>1, <2>2, <2>3
<1>. QED
  BY <1>3 DEF Work

-----------------------------------------------------------------------------
LoadBalancerInv == Form /\ Alone /\ Work

LEMMA NextSplits == Next <=> \E p \in Procs : Receive(p) \/ Serve(p)
BY DEF Next, Serve

LEMMA InitInv == Init => LoadBalancerInv
BY InitForm DEF LoadBalancerInv, Work, WorkOf, Init

LEMMA NextInv == LoadBalancerInv /\ [Next]_vars => LoadBalancerInv'
<1>1. ASSUME LoadBalancerInv, NEW p \in Procs, Receive(p) PROVE LoadBalancerInv'
  BY <1>1, ReceiveForm, WorkReceive DEF LoadBalancerInv
<1>2. ASSUME LoadBalancerInv, NEW p \in Procs, Serve(p) PROVE LoadBalancerInv'
  BY <1>2, ServeForm, WorkServe DEF LoadBalancerInv
<1>3. ASSUME LoadBalancerInv, UNCHANGED vars PROVE LoadBalancerInv'
  <2>0. UNCHANGED <<resources, pc, req, existed, at, todo, doomed, status, disturbed>>
    BY <1>3 DEF vars, progress
  <2>1. TypeOK' /\ Alone'
    BY <1>3, <2>0 DEF LoadBalancerInv, Form, TypeOK, Alone
  <2>2. \A q \in Procs : FormOf(q)'
    BY <1>3, <2>0, FormStays DEF LoadBalancerInv, Form
  <2>3. ASSUME NEW q \in Procs PROVE WorkOf(q)'
    <3>0. \A k : Held(k)' = Held(k)
      BY <2>0 DEF Held, Has
    <3>1. /\ \A i \in Places : Matches(Inline[i], req[q].arrays[Inline[i]])
                               => Matches(Inline[i], req[q].arrays[Inline[i]])'
          /\ \A i \in Places : Present(req[q], i)' <=> Present(req[q], i)
          /\ Listed(req[q], Inline[at[q]])' = Listed(req[q], Inline[at[q]])
          /\ Held(Inline[at[q]])' = Held(Inline[at[q]])
          /\ \A c : Array(req[q], c[2])' = Array(req[q], c[2])
      <4>1. \A i \in Places : Matches(Inline[i], req[q].arrays[Inline[i]])
                             => Matches(Inline[i], req[q].arrays[Inline[i]])'
        BY <2>0, <3>0 DEF Matches
      <4>2. \A i \in Places : Present(req[q], i)' <=> Present(req[q], i)
        BY <2>0 DEF Present
      <4>3. /\ Listed(req[q], Inline[at[q]])' = Listed(req[q], Inline[at[q]])
            /\ Held(Inline[at[q]])' = Held(Inline[at[q]])
            /\ \A c : Array(req[q], c[2])' = Array(req[q], c[2])
        BY <2>0, <3>0 DEF Listed, Array
      <4>. QED
        BY <4>1, <4>2, <4>3
    <3>2. WorkOf(q)
      BY <1>3 DEF LoadBalancerInv, Work
    <3>. QED
      BY <2>0, <3>1, <3>2 DEF WorkOf
  <2>. QED
    BY <2>1, <2>2, <2>3 DEF LoadBalancerInv, Form, Work
<1>. QED
  BY <1>1, <1>2, <1>3, NextSplits

LEMMA InvHolds == Spec => []LoadBalancerInv
BY InitInv, NextInv, PTL DEF Spec

(* Every variable of the handlers stays in its type. *)
THEOREM TypeCorrect == Spec => []TypeOK
<1>1. LoadBalancerInv => TypeOK
  BY DEF LoadBalancerInv, Form
<1>. QED
  BY <1>1, InvHolds, PTL

LEMMA WorkSuffices == LoadBalancerInv => LonePutMatches
<1> SUFFICES ASSUME LoadBalancerInv, NEW p \in Procs, pc[p] = "respond", ~disturbed[p],
                    NEW k \in DOMAIN req[p].arrays
             PROVE  Matches(k, req[p].arrays[k])
  BY DEF LonePutMatches
<1>1. req[p] \in Requests /\ req[p].op = "putlb" /\ at[p] = Len(Inline) + 1
  BY DEF LoadBalancerInv, Form, FormOf, TypeOK
<1>2. k \in InlineKinds
  BY <1>1, ArrayForms
<1>3. PICK i \in Places : Inline[i] = k
  BY <1>2, LoadBalancerAssumption DEF InlineKinds, ToSet, Places
<1>4. i < at[p] /\ Present(req[p], i)
  BY <1>1, <1>3, LoadBalancerAssumption DEF Places, Present
<1>. QED
  BY <1>3, <1>4 DEF LoadBalancerInv, Work, WorkOf

(* An undisturbed PUT leaves exactly the children that its arrays list,    *)
(* after whatever came before it.                                          *)
THEOREM LonePutMatchesHolds == Spec => []LonePutMatches
BY InvHolds, WorkSuffices, PTL

LEMMA StepKeepsListed ==
  LoadBalancerInv /\ [Next]_vars =>
    \A c \in Children :
      Has(resources, c) /\ resources'[c] = NoResource =>
        \E p \in Procs :
          \/ /\ req[p].op = "putlb"
             /\ c[2] \in DOMAIN req[p].arrays /\ c \notin Listed(req[p], c[2])
          \/ req[p].op = "delete" /\ IsPrefix(req[p].id, c)
<1> SUFFICES ASSUME LoadBalancerInv, [Next]_vars, NEW c \in Children,
                    resources[c] # NoResource, resources'[c] = NoResource
             PROVE  \E p \in Procs :
                      \/ /\ req[p].op = "putlb"
                         /\ c[2] \in DOMAIN req[p].arrays /\ c \notin Listed(req[p], c[2])
                      \/ req[p].op = "delete" /\ IsPrefix(req[p].id, c)
  BY DEF Has
<1>0. Form /\ c \in Ids
  BY ChildrenAre DEF LoadBalancerInv
<1>1. PICK p \in Procs : Serve(p)
  BY <1>0, NextSplits, ReceiveShape DEF vars
<1>2. ~Quiet /\ ~\E id, body : Storing(id, body)
  BY <1>0, StoringIs, StoreAssumption DEF Quiet, Storing
<1>3. DropChild(p) \/ DeleteResource(p)
  BY <1>0, <1>1, <1>2, StoreKinds
<1>4. CASE DropChild(p)
  <2>1. PICK d \in doomed[p] : Removing(d)
    BY <1>0, <1>1, <1>4, StoreKinds
  <2>2. d \in Children /\ pc[p] = "drop"
    BY <1>0, <1>4 DEF DropChild, Form, TypeOK
  <2>3. d = c
    BY <1>0, <2>1, <2>2, RemovingIs, Covers
  <2>4. /\ req[p] \in Requests /\ req[p].op = "putlb" /\ Inline[at[p]] \in DOMAIN req[p].arrays
        /\ c \in ChildrenOf(Inline[at[p]]) \ Listed(req[p], Inline[at[p]])
    BY <1>0, <2>2, <2>3, CurrentIs DEF Form, FormOf
  <2>5. c[2] = Inline[at[p]]
    BY <2>4, ChildrenAre
  <2>. QED
    BY <2>4, <2>5
<1>5. CASE DeleteResource(p)
  <2>1. Removing(req[p].id) /\ req[p].op = "delete"
    BY <1>0, <1>1, <1>5, StoreKinds DEF DeleteResource, Form, FormOf
  <2>. QED
    BY <1>0, <2>1, RemovingIs
<1>. QED
  BY <1>3, <1>4, <1>5

(* No overlap loses a child that every PUT in progress lists or omits.     *)
THEOREM ListedChildrenStayHolds == Spec => ListedChildrenStay
<1>1. LoadBalancerInv /\ [Next]_vars =>
        [\A c \in Children :
           Has(resources, c) /\ resources'[c] = NoResource =>
             \E p \in Procs :
               \/ /\ req[p].op = "putlb"
                  /\ c[2] \in DOMAIN req[p].arrays /\ c \notin Listed(req[p], c[2])
               \/ req[p].op = "delete" /\ IsPrefix(req[p].id, c)]_vars
  BY StepKeepsListed
<1>. QED
  BY <1>1, InvHolds, PTL DEF Spec, ListedChildrenStay
=============================================================================
