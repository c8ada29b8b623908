------------------------ MODULE CompoundHandlersProofs ------------------------
(***************************************************************************)
(* Proofs about CompoundHandlers, for any number of requests, zones,       *)
(* accounts and containers, over a memory store or a file store.           *)
(***************************************************************************)
EXTENDS CompoundHandlers, TLAPS

LEMMA RequestForms ==
  ASSUME NEW r \in Requests
  PROVE  /\ r.op \in {"putzone", "putaccount", "putchild", "delete"} /\ r.id \in Ids
         /\ r.op = "putzone" => r.id \in Zones
         /\ r.op = "putaccount" => r.id \in Accounts
         /\ r.op = "putchild" => r.id \in Children
BY CompoundAssumption DEF Requests

LEMMA FirstCalls ==
  ASSUME NEW r \in Requests
  PROVE  /\ r.op = "putzone" => FirstCall(r) = "check"
         /\ r.op = "putaccount" => FirstCall(r) = "scan"
         /\ r.op = "putchild" => FirstCall(r) = "parent"
         /\ r.op = "delete" => FirstCall(r) = "delete"
BY DEF FirstCall

LEMMA PutIsStore ==
  ASSUME resources \in Stores, NEW id \in Ids, NEW body \in Bodies
  PROVE  /\ Put(resources, id, body) \in Stores
         /\ \A k \in Ids : Put(resources, id, body)[k] = IF k = id THEN body ELSE resources[k]
BY DEF Put, Stores

LEMMA DeleteIsStore ==
  ASSUME resources \in Stores, NEW id \in Ids
  PROVE  /\ Delete(resources, id) \in Stores
         /\ \A k \in Ids : Delete(resources, id)[k] =
                              IF k \in Covered(id) THEN NoResource ELSE resources[k]
BY DEF Delete, Stores

LEMMA SeedForms ==
  /\ ToSet(Seeds) = {"SOA", "NS"} /\ Seeds = <<"SOA", "NS">>
  /\ Head(Seeds) = "SOA" /\ Tail(Seeds) = <<"NS">>
  /\ Head(<<"NS">>) = "NS" /\ Tail(<<"NS">>) = <<>>
  /\ Seeds # <<>> /\ <<"NS">> # <<>> /\ Seeds # <<"NS">>
<1>1. Seeds = <<"SOA", "NS">> /\ Len(Seeds) = 2 /\ Seeds[1] = "SOA" /\ Seeds[2] = "NS"
  BY DEF Seeds
<1>2. DOMAIN Seeds = {1, 2}
  BY DEF Seeds
<1>3. ToSet(Seeds) = {"SOA", "NS"}
  BY <1>1, <1>2 DEF ToSet
<1>4. Tail(Seeds) = <<"NS">>
  BY DEF Seeds
<1>. QED
  BY <1>1, <1>3, <1>4

-----------------------------------------------------------------------------
(* What a request is and holds, by its next step. *)
Form ==
  /\ TypeOK
  /\ \A p \in Procs :
       /\ pc[p] = "idle" <=> req[p] = NoRequest
       /\ pc[p] = "parent" => req[p].op = "putchild"
       /\ pc[p] = "scan" => req[p].op = "putaccount"
       /\ pc[p] = "check" => req[p].op \in {"putchild", "putzone"}
       /\ pc[p] = "store" => req[p].op \in {"putchild", "putzone", "putaccount"}
       /\ pc[p] = "seed" => req[p].op = "putzone" /\ todo[p] \in {Seeds, <<"NS">>}
       /\ pc[p] # "seed" => todo[p] = <<>>
       /\ pc[p] = "delete" => req[p].op = "delete"
       /\ pc[p] \in {"list", "sweep"} => req[p].op = "delete" /\ req[p].id \in Accounts
       /\ pc[p] = "sweep" => doomed[p] \subseteq Covered(req[p].id) \ {req[p].id}
       /\ pc[p] # "sweep" => doomed[p] = {}
       /\ pc[p] = "idle" => ~raced[p]
       /\ rivals[p] => req[p].op = "putaccount"

LEMMA InitForm == Init => Form
<1> SUFFICES ASSUME Init PROVE Form
  OBVIOUS
<1>1. TypeOK
  BY DEF Init, TypeOK, NewMemoryStore, Stores
<1>. QED
  BY <1>1 DEF Init, Form, NoRequest

LEMMA NoteForm ==
  ASSUME Form, NEW p \in Procs, pc' \in [Procs -> {"idle", "parent", "check", "store", "seed",
                                                  "scan", "delete", "list", "sweep"}],
         NEW S \in SUBSET Ids, NEW R \in SUBSET Ids, NEW M \in SUBSET RecordSets,
         Note(p, S, R, M), S \subseteq Accounts \/ rivals[p] = FALSE
  PROVE  /\ fresh' \in [Procs -> SUBSET Ids] /\ raced' \in [Procs -> BOOLEAN]
         /\ strays' \subseteq Ids /\ unseeded' \subseteq RecordSets /\ doubtful' \subseteq Accounts
         /\ \A q \in Procs : pc'[q] = "idle" => ~raced'[q]
BY DEF Form, TypeOK, Note

LEMMA AnswerForm ==
  ASSUME Form, NEW p \in Procs,
         NEW code \in {"200", "201", "202", "204", "400", "404", "409", "500"}, Answer(p, code),
         resources' \in Stores, NEW S \in SUBSET Ids, NEW R \in SUBSET Ids,
         NEW M \in SUBSET RecordSets, Note(p, S, R, M), S \subseteq Accounts \/ ~rivals[p]
  PROVE  Form'
<1>1. /\ pc' = [pc EXCEPT ![p] = "idle"] /\ req' = [req EXCEPT ![p] = NoRequest]
      /\ existed' = [existed EXCEPT ![p] = FALSE] /\ todo' = [todo EXCEPT ![p] = <<>>]
      /\ doomed' = [doomed EXCEPT ![p] = {}] /\ rivals' = [rivals EXCEPT ![p] = FALSE]
      /\ status' = [q \in Procs |-> IF q = p THEN code ELSE "none"]
  BY DEF Answer
<1>2. pc' \in [Procs -> {"idle", "parent", "check", "store", "seed", "scan", "delete",
                        "list", "sweep"}]
  BY <1>1 DEF Form, TypeOK
<1>3. rivals[p] \in BOOLEAN
  BY DEF Form, TypeOK
<1>4. /\ fresh' \in [Procs -> SUBSET Ids] /\ raced' \in [Procs -> BOOLEAN]
      /\ strays' \subseteq Ids /\ unseeded' \subseteq RecordSets /\ doubtful' \subseteq Accounts
      /\ \A q \in Procs : pc'[q] = "idle" => ~raced'[q]
  BY <1>2, <1>3, NoteForm
<1>5. TypeOK'
  <2>1. todo' \in [Procs -> Seq(ToSet(Seeds))]
    BY <1>1 DEF Form, TypeOK
  <2>. QED
    BY <1>1, <1>2, <1>4, <2>1 DEF Form, TypeOK
<1>6. \A q \in Procs \ {p} : /\ pc'[q] = pc[q] /\ req'[q] = req[q] /\ todo'[q] = todo[q]
                            /\ doomed'[q] = doomed[q] /\ rivals'[q] = rivals[q]
  BY <1>1 DEF Form, TypeOK
<1>7. /\ pc'[p] = "idle" /\ req'[p] = NoRequest /\ todo'[p] = <<>> /\ doomed'[p] = {}
      /\ ~rivals'[p]
  BY <1>1 DEF Form, TypeOK
<1>. QED
  BY <1>4, <1>5, <1>6, <1>7 DEF Form, Covered

LEMMA GotoForm ==
  ASSUME Form, NEW p \in Procs, NEW step, Goto(p, step),
         \/ pc[p] = "parent" /\ step = "check"
         \/ pc[p] = "check" /\ step = "store"
         \/ pc[p] = "scan" /\ step = "store"
         \/ pc[p] \in {"store", "seed"} /\ step = "seed"
         \/ pc[p] = "delete" /\ step = "list" /\ req[p].id \in Accounts
         \/ pc[p] \in {"list", "sweep"} /\ step = "sweep",
         NEW e \in BOOLEAN, existed' = [existed EXCEPT ![p] = e],
         NEW t \in {<<>>, Seeds, <<"NS">>}, todo' = [todo EXCEPT ![p] = t],
         IF step = "seed" THEN t # <<>> /\ req[p].op = "putzone" ELSE t = <<>>,
         NEW d, doomed' = [doomed EXCEPT ![p] = d],
         IF step = "sweep" THEN d \subseteq Covered(req[p].id) \ {req[p].id} ELSE d = {},
         resources' \in Stores, NEW S \in SUBSET Ids, NEW R \in SUBSET Ids,
         NEW M \in SUBSET RecordSets, Note(p, S, R, M), S \subseteq Accounts \/ ~rivals[p]
  PROVE  Form'
<1>1. /\ pc' = [pc EXCEPT ![p] = step] /\ req' = req /\ rivals' = rivals
      /\ status' = [q \in Procs |-> "none"]
  BY DEF Goto
<1>2. pc' \in [Procs -> {"idle", "parent", "check", "store", "seed", "scan", "delete",
                        "list", "sweep"}]
  BY <1>1 DEF Form, TypeOK
<1>3. rivals[p] \in BOOLEAN
  BY DEF Form, TypeOK
<1>4. /\ fresh' \in [Procs -> SUBSET Ids] /\ raced' \in [Procs -> BOOLEAN]
      /\ strays' \subseteq Ids /\ unseeded' \subseteq RecordSets /\ doubtful' \subseteq Accounts
      /\ \A q \in Procs : pc'[q] = "idle" => ~raced'[q]
  BY <1>2, <1>3, NoteForm
<1>5. d \subseteq Children
  <2>1. CASE step = "sweep"
    <3>1. req[p].id \in Accounts
      BY <2>1 DEF Form
    <3>. QED
      BY <2>1, <3>1, CompoundAssumption DEF Children
  <2>. QED
    BY <2>1
<1>6. TypeOK'
  <2>1. t \in Seq(ToSet(Seeds))
    <3>1. <<>> \in Seq({"SOA", "NS"}) /\ <<"SOA", "NS">> \in Seq({"SOA", "NS"})
          /\ <<"NS">> \in Seq({"SOA", "NS"})
      OBVIOUS
    <3>. QED
      BY <3>1, SeedForms
  <2>. QED
    BY <1>1, <1>2, <1>4, <1>5, <2>1 DEF Form, TypeOK
<1>7. \A q \in Procs \ {p} : /\ pc'[q] = pc[q] /\ req'[q] = req[q] /\ todo'[q] = todo[q]
                            /\ doomed'[q] = doomed[q] /\ rivals'[q] = rivals[q]
  BY <1>1 DEF Form, TypeOK
<1>8. pc'[p] = step /\ req'[p] = req[p] /\ todo'[p] = t /\ doomed'[p] = d
        /\ rivals'[p] = rivals[p]
  BY <1>1 DEF Form, TypeOK
<1>9. \A q \in Procs \ {p} :
        /\ pc'[q] = "idle" <=> req'[q] = NoRequest
        /\ pc'[q] = "parent" => req'[q].op = "putchild"
        /\ pc'[q] = "scan" => req'[q].op = "putaccount"
        /\ pc'[q] = "check" => req'[q].op \in {"putchild", "putzone"}
        /\ pc'[q] = "store" => req'[q].op \in {"putchild", "putzone", "putaccount"}
        /\ pc'[q] = "seed" => req'[q].op = "putzone" /\ todo'[q] \in {Seeds, <<"NS">>}
        /\ pc'[q] # "seed" => todo'[q] = <<>>
        /\ pc'[q] = "delete" => req'[q].op = "delete"
        /\ pc'[q] \in {"list", "sweep"} => req'[q].op = "delete" /\ req'[q].id \in Accounts
        /\ pc'[q] = "sweep" => doomed'[q] \subseteq Covered(req'[q].id) \ {req'[q].id}
        /\ pc'[q] # "sweep" => doomed'[q] = {}
        /\ rivals'[q] => req'[q].op = "putaccount"
  BY <1>7 DEF Form
<1>10. /\ req[p] # NoRequest
       /\ step = "check" => req[p].op = "putchild"
       /\ step = "store" => req[p].op \in {"putchild", "putzone", "putaccount"}
       /\ step \in {"list", "sweep"} => req[p].op = "delete" /\ req[p].id \in Accounts
       /\ rivals[p] => req[p].op = "putaccount"
       /\ step \in {"check", "store", "seed", "list", "sweep"}
  BY DEF Form
<1>. QED
  BY <1>4, <1>6, <1>8, <1>9, <1>10, SeedForms DEF Form, Covered

(* What a received request finds and leaves. *)
LEMMA ReceiveShape ==
  ASSUME Form, NEW p \in Procs, Receive(p)
  PROVE  /\ req[p] = NoRequest /\ req'[p] \in Requests /\ pc'[p] = FirstCall(req'[p])
         /\ pc' \in [Procs -> {"idle", "parent", "check", "store", "seed", "scan", "delete",
                               "list", "sweep"}]
         /\ req' \in [Procs -> Requests \cup {NoRequest}]
         /\ \A q \in Procs \ {p} : pc'[q] = pc[q] /\ req'[q] = req[q]
         /\ rivals' = [q \in Procs |->
                         IF q = p THEN \E o \in Busy : Rival(req'[p], req[o])
                         ELSE rivals[q] \/ (q \in Busy /\ Rival(req'[p], req[q]))]
         /\ UNCHANGED <<resources, progress, fresh, raced, strays, unseeded, doubtful>>
<1>1. PICK r \in Requests :
        /\ req' = [req EXCEPT ![p] = r]
        /\ pc' = [pc EXCEPT ![p] = FirstCall(r)]
        /\ rivals' = [q \in Procs |->
                        IF q = p THEN \E o \in Busy : Rival(r, req[o])
                        ELSE rivals[q] \/ (q \in Busy /\ Rival(r, req[q]))]
  BY DEF Receive
<1>2. req'[p] = r /\ pc'[p] = FirstCall(r)
  BY <1>1 DEF Form, TypeOK
<1>3. FirstCall(r) \in {"check", "scan", "parent", "delete"}
  BY RequestForms, FirstCalls
<1>4. req[p] = NoRequest
  BY DEF Receive, Form
<1>. QED
  BY <1>1, <1>2, <1>3, <1>4 DEF Receive, Form, TypeOK

LEMMA ReceiveForm ==
  ASSUME Form, NEW p \in Procs, Receive(p)
  PROVE  Form'
<1>1. rivals' \in [Procs -> BOOLEAN]
  BY ReceiveShape
<1>2. status' \in [Procs -> {"none", "200", "201", "202", "204", "400", "404", "409", "500"}]
  BY DEF Receive
<1>3. TypeOK'
  BY ZenonT(40), <1>1, <1>2, ReceiveShape DEF Form, TypeOK, progress
<1>0. /\ req[p] = NoRequest /\ req'[p] \in Requests /\ pc'[p] = FirstCall(req'[p])
      /\ \A q \in Procs \ {p} : pc'[q] = pc[q] /\ req'[q] = req[q]
      /\ rivals' = [q \in Procs |->
                      IF q = p THEN \E o \in Busy : Rival(req'[p], req[o])
                      ELSE rivals[q] \/ (q \in Busy /\ Rival(req'[p], req[q]))]
  BY ReceiveShape
<1>4. req'[p] # NoRequest
  <2>1. req'[p].op # "none"
    BY <1>0, RequestForms
  <2>. QED
    BY <2>1 DEF NoRequest
<1>5. /\ FirstCall(req'[p]) \in {"check", "scan", "parent", "delete"}
      /\ FirstCall(req'[p]) = "parent" => req'[p].op = "putchild"
      /\ FirstCall(req'[p]) = "scan" => req'[p].op = "putaccount"
      /\ FirstCall(req'[p]) = "check" => req'[p].op = "putzone"
      /\ FirstCall(req'[p]) = "delete" => req'[p].op = "delete"
  BY ReceiveShape, RequestForms, FirstCalls
<1>6. ASSUME NEW q \in Procs, rivals'[q] PROVE req'[q].op = "putaccount"
  <2>1. CASE q = p
    BY <1>0, <1>6, <2>1 DEF Rival
  <2>2. CASE q # p
    BY <1>0, <1>6, <2>2 DEF Rival, Form
  <2>. QED
    BY <2>1, <2>2
<1>7. /\ pc[p] = "idle" /\ \A q \in Procs : todo'[q] = todo[q] /\ doomed'[q] = doomed[q]
                                          /\ raced'[q] = raced[q]
  BY ReceiveShape DEF progress, Receive
<1>8. ASSUME NEW q \in Procs
      PROVE  /\ pc'[q] = "idle" <=> req'[q] = NoRequest
             /\ pc'[q] = "parent" => req'[q].op = "putchild"
             /\ pc'[q] = "scan" => req'[q].op = "putaccount"
             /\ pc'[q] = "check" => req'[q].op \in {"putchild", "putzone"}
             /\ pc'[q] = "store" => req'[q].op \in {"putchild", "putzone", "putaccount"}
             /\ pc'[q] = "seed" => req'[q].op = "putzone" /\ todo'[q] \in {Seeds, <<"NS">>}
             /\ pc'[q] # "seed" => todo'[q] = <<>>
             /\ pc'[q] = "delete" => req'[q].op = "delete"
             /\ pc'[q] \in {"list", "sweep"} => req'[q].op = "delete" /\ req'[q].id \in Accounts
             /\ pc'[q] = "sweep" => doomed'[q] \subseteq Covered(req'[q].id) \ {req'[q].id}
             /\ pc'[q] # "sweep" => doomed'[q] = {}
             /\ pc'[q] = "idle" => ~raced'[q]
  <2>1. CASE q = p
    BY <1>0, <1>4, <1>5, <1>7, <2>1 DEF Form
  <2>2. CASE q # p
    BY <1>0, <1>7, <2>2 DEF Form
  <2>. QED
    BY <2>1, <2>2
<1>. QED
  BY <1>3, <1>6, <1>8 DEF Form, Covered

(* The steps of a request after it was received. *)
Serve(p) ==
  \/ Refuse(p)
  \/ CheckParent(p) \/ CheckExists(p) \/ StoreChild(p)
  \/ StoreZone(p) \/ StoreSeed(p)
  \/ ScanNames(p) \/ StoreAccount(p)
  \/ DeleteResource(p) \/ ListChildren(p) \/ SweepChild(p) \/ EndSweep(p)

(* Steps that change nothing but the request, that store one resource, and *)
(* that remove what is at or below an id.                                  *)
Quiet(p) == resources' = resources /\ NoteNothing(p)

Storing(p, id, body, M) ==
  /\ resources' = Put(resources, id, body) /\ body \in Bodies
  /\ Note(p, {id}, {}, M) /\ M \in SUBSET RecordSets
  /\ id \in Ids /\ (id \in Accounts \/ ~rivals[p])

Removing(p, id, M) ==
  /\ resources' = Delete(resources, id) /\ id \in Ids
  /\ Note(p, {}, Covered(id), M) /\ M \in SUBSET RecordSets

LEMMA Answers ==
  ASSUME Form, NEW p \in Procs,
         NEW code \in {"200", "201", "202", "204", "400", "404", "409", "500"}, Answer(p, code),
         \/ Quiet(p)
         \/ \E id, body, M : Storing(p, id, body, M)
         \/ \E id, M : Removing(p, id, M)
  PROVE  Form'
<1>1. CASE Quiet(p)
  BY ZenonT(40), <1>1, AnswerForm DEF Quiet, NoteNothing, Form, TypeOK
<1>2. CASE \E id, body, M : Storing(p, id, body, M)
  <2>1. PICK id, body, M : Storing(p, id, body, M)
    BY <1>2
  <2>2. resources' \in Stores
    BY <2>1, PutIsStore DEF Storing, Form, TypeOK
  <2>. QED
    BY <2>1, <2>2, AnswerForm DEF Storing
<1>3. CASE \E id, M : Removing(p, id, M)
  <2>1. PICK id, M : Removing(p, id, M)
    BY <1>3
  <2>2. resources' \in Stores
    BY <2>1, DeleteIsStore DEF Removing, Form, TypeOK
  <2>. QED
    BY <2>1, <2>2, AnswerForm DEF Removing, Covered
<1>. QED
  BY <1>1, <1>2, <1>3

(* What each handler does to the store. *)
LEMMA StoreKinds ==
  ASSUME Form, NEW p \in Procs, Serve(p)
  PROVE  /\ Refuse(p) \/ CheckParent(p) \/ CheckExists(p) \/ ScanNames(p) \/ ListChildren(p)
               \/ EndSweep(p) => Quiet(p)
         /\ StoreChild(p) => Storing(p, req[p].id, User, {})
         /\ StoreZone(p) => \E M : Storing(p, req[p].id, User, M)
         /\ StoreSeed(p) => \E M : Storing(p, SeedOf(req[p].id, Head(todo[p])), Seed, M)
         /\ StoreAccount(p) => Storing(p, req[p].id, User, {})
         /\ DeleteResource(p) => Removing(p, req[p].id, {req[p].id} \cap RecordSets)
         /\ SweepChild(p) => \E c \in doomed[p] : Removing(p, c, {})
<1>1. req[p] # NoRequest => req[p] \in Requests
  BY DEF Form, TypeOK
<1>2. Seed \in Bodies /\ User \in Bodies
  BY CompoundAssumption
<1>3. Refuse(p) \/ CheckParent(p) \/ CheckExists(p) \/ ScanNames(p) \/ ListChildren(p)
               \/ EndSweep(p) => Quiet(p)
  BY DEF Refuse, CheckParent, CheckExists, ScanNames, ListChildren, EndSweep, Quiet
<1>4. StoreChild(p) => Storing(p, req[p].id, User, {})
  <2> SUFFICES ASSUME StoreChild(p) PROVE Storing(p, req[p].id, User, {})
    OBVIOUS
  <2>1. pc[p] = "store" /\ req[p].op = "putchild" /\ req[p] \in Requests /\ ~rivals[p]
    BY <1>1 DEF StoreChild, Form
  <2>. QED
    BY <1>2, <2>1, RequestForms DEF StoreChild, Storing
<1>5. StoreZone(p) => \E M : Storing(p, req[p].id, User, M)
  <2> SUFFICES ASSUME StoreZone(p) PROVE \E M : Storing(p, req[p].id, User, M)
    OBVIOUS
  <2>1. /\ req[p].op = "putzone" /\ req[p] \in Requests /\ ~rivals[p]
        /\ req[p].id \in Zones /\ req[p].id \in Ids
    BY <1>1, RequestForms DEF StoreZone, Form
  <2>2. \E M \in SUBSET SeedsOf(req[p].id) : Note(p, {req[p].id}, {}, M)
    BY DEF StoreZone
  <2>3. SeedsOf(req[p].id) \subseteq RecordSets
    BY <2>1 DEF RecordSets
  <2>. QED
    BY <1>2, <2>1, <2>2, <2>3 DEF StoreZone, Storing
<1>6. StoreSeed(p) => \E M : Storing(p, SeedOf(req[p].id, Head(todo[p])), Seed, M)
  <2> SUFFICES ASSUME StoreSeed(p)
               PROVE  \E M : Storing(p, SeedOf(req[p].id, Head(todo[p])), Seed, M)
    OBVIOUS
  <2>1. /\ req[p].op = "putzone" /\ req[p] \in Requests /\ ~rivals[p]
        /\ req[p].id \in Zones /\ Head(todo[p]) \in ToSet(Seeds)
    BY <1>1, RequestForms, SeedForms DEF StoreSeed, Form
  <2>2. \E M \in SUBSET SeedsOf(req[p].id) :
          Note(p, {SeedOf(req[p].id, Head(todo[p]))}, {}, M)
    BY DEF StoreSeed
  <2>3. /\ SeedsOf(req[p].id) \subseteq RecordSets
        /\ SeedOf(req[p].id, Head(todo[p])) \in SeedsOf(req[p].id)
    BY <2>1 DEF RecordSets, SeedsOf
  <2>4. SeedOf(req[p].id, Head(todo[p])) \in Ids
    BY <2>3, CompoundAssumption DEF Children
  <2>. QED
    BY <1>2, <2>1, <2>2, <2>3, <2>4 DEF StoreSeed, Storing
<1>7. StoreAccount(p) => Storing(p, req[p].id, User, {})
  <2> SUFFICES ASSUME StoreAccount(p) PROVE Storing(p, req[p].id, User, {})
    OBVIOUS
  <2>1. req[p].op = "putaccount" /\ req[p] \in Requests
    BY <1>1 DEF StoreAccount, Form
  <2>. QED
    BY <1>2, <2>1, RequestForms DEF StoreAccount, Storing
<1>8. DeleteResource(p) => Removing(p, req[p].id, {req[p].id} \cap RecordSets)
  <2> SUFFICES ASSUME DeleteResource(p)
               PROVE  Removing(p, req[p].id, {req[p].id} \cap RecordSets)
    OBVIOUS
  <2>1. req[p] \in Requests
    BY <1>1 DEF DeleteResource, Form
  <2>. QED
    BY <2>1, RequestForms DEF DeleteResource, Removing
<1>9. SweepChild(p) => \E c \in doomed[p] : Removing(p, c, {})
  BY DEF SweepChild, Removing, Form, Covered
<1>. QED
  BY <1>3, <1>4, <1>5, <1>6, <1>7, <1>8, <1>9

LEMMA Gotos ==
  ASSUME Form, NEW p \in Procs, NEW step, Goto(p, step),
         \/ pc[p] = "parent" /\ step = "check"
         \/ pc[p] = "check" /\ step = "store"
         \/ pc[p] = "scan" /\ step = "store"
         \/ pc[p] \in {"store", "seed"} /\ step = "seed"
         \/ pc[p] = "delete" /\ step = "list" /\ req[p].id \in Accounts
         \/ pc[p] \in {"list", "sweep"} /\ step = "sweep",
         NEW e \in BOOLEAN, existed' = [existed EXCEPT ![p] = e],
         NEW t \in {<<>>, Seeds, <<"NS">>}, todo' = [todo EXCEPT ![p] = t],
         IF step = "seed" THEN t # <<>> /\ req[p].op = "putzone" ELSE t = <<>>,
         NEW d, doomed' = [doomed EXCEPT ![p] = d],
         IF step = "sweep" THEN d \subseteq Covered(req[p].id) \ {req[p].id} ELSE d = {},
         \/ Quiet(p)
         \/ \E id, body, M : Storing(p, id, body, M)
         \/ \E id, M : Removing(p, id, M)
  PROVE  Form'
<1>1. ASSUME resources' \in Stores, NEW S \in SUBSET Ids, NEW R \in SUBSET Ids,
             NEW M \in SUBSET RecordSets, Note(p, S, R, M), S \subseteq Accounts \/ ~rivals[p]
      PROVE  Form'
  BY <1>1, GotoForm
<1>2. CASE Quiet(p)
  <2>1. resources' \in Stores
    BY <1>2 DEF Quiet, Form, TypeOK
  <2>. QED
    BY <1>1, <1>2, <2>1 DEF Quiet, NoteNothing
<1>3. CASE \E id, body, M : Storing(p, id, body, M)
  <2>1. PICK id, body, M : Storing(p, id, body, M)
    BY <1>3
  <2>2. resources' \in Stores
    BY <2>1, PutIsStore DEF Storing, Form, TypeOK
  <2>. QED
    BY <1>1, <2>1, <2>2 DEF Storing
<1>4. CASE \E id, M : Removing(p, id, M)
  <2>1. PICK id, M : Removing(p, id, M)
    BY <1>4
  <2>2. resources' \in Stores
    BY <2>1, DeleteIsStore DEF Removing, Form, TypeOK
  <2>. QED
    BY <1>1, <2>1, <2>2 DEF Removing, Covered
<1>. QED
  BY <1>2, <1>3, <1>4

(* A request that holds nothing goes on to a step that holds nothing. *)
LEMMA PlainGotos ==
  ASSUME Form, NEW p \in Procs, NEW step, Goto(p, step),
         \/ pc[p] = "parent" /\ step = "check"
         \/ pc[p] = "check" /\ step = "store"
         \/ pc[p] = "scan" /\ step = "store"
         \/ pc[p] = "delete" /\ step = "list" /\ req[p].id \in Accounts,
         NEW e \in BOOLEAN, existed' = [existed EXCEPT ![p] = e],
         UNCHANGED <<todo, doomed>>,
         \/ Quiet(p)
         \/ \E id, body, M : Storing(p, id, body, M)
         \/ \E id, M : Removing(p, id, M)
  PROVE  Form'
<1>1. todo[p] = <<>> /\ doomed[p] = {}
  BY DEF Form
<1>2. todo' = [todo EXCEPT ![p] = <<>>] /\ doomed' = [doomed EXCEPT ![p] = {}]
  BY <1>1 DEF Form, TypeOK
<1>3. step \notin {"seed", "sweep"}
  OBVIOUS
<1>4. <<>> \in {<<>>, Seeds, <<"NS">>}
  OBVIOUS
<1>. QED
  BY <1>2, <1>3, <1>4, Gotos

LEMMA StepForm ==
  ASSUME Form, NEW p \in Procs, Serve(p)
  PROVE  Form'
<1>0. /\ existed = [existed EXCEPT ![p] = existed[p]] /\ existed[p] \in BOOLEAN
      /\ todo = [todo EXCEPT ![p] = todo[p]] /\ doomed = [doomed EXCEPT ![p] = doomed[p]]
      /\ pc[p] # "seed" => todo[p] = <<>>
      /\ pc[p] # "sweep" => doomed[p] = {}
      /\ resources \in Stores
      /\ req[p] # NoRequest => req[p] \in Requests
  BY DEF Form, TypeOK
<1>2. CASE Refuse(p) \/ EndSweep(p)
  BY <1>2, Answers, StoreKinds DEF Refuse, EndSweep
<1>3. CASE CheckParent(p)
  <2>1. Quiet(p) /\ pc[p] = "parent"
    BY <1>3, StoreKinds DEF CheckParent
  <2>2. Answer(p, "404") \/ (Goto(p, "check") /\ UNCHANGED progress)
    BY <1>3 DEF CheckParent
  <2>3. CASE Answer(p, "404")
    BY <2>1, <2>3, Answers
  <2>4. CASE Goto(p, "check") /\ UNCHANGED progress
    <3>1. UNCHANGED <<todo, doomed>> /\ existed' = [existed EXCEPT ![p] = existed[p]]
      BY <1>0, <2>1, <2>4 DEF progress
    <3>. QED
      BY <1>0, <2>1, <2>4, <3>1, PlainGotos
  <2>. QED
    BY <2>2, <2>3, <2>4
<1>4. CASE CheckExists(p)
  <2>1. /\ Quiet(p) /\ pc[p] = "check" /\ Goto(p, "store")
        /\ existed' = [existed EXCEPT ![p] = Has(resources, req[p].id)]
        /\ UNCHANGED <<todo, doomed>>
    BY <1>4, StoreKinds DEF CheckExists
  <2>2. Has(resources, req[p].id) \in BOOLEAN
    BY DEF Has
  <2>. QED
    BY <2>1, <2>2, PlainGotos
<1>5. CASE ScanNames(p)
  <2>1. Quiet(p) /\ pc[p] = "scan"
    BY <1>5, StoreKinds DEF ScanNames
  <2>2. Answer(p, "409") \/ (Goto(p, "store") /\ UNCHANGED progress)
    BY <1>5 DEF ScanNames
  <2>3. CASE Answer(p, "409")
    BY <2>1, <2>3, Answers
  <2>4. CASE Goto(p, "store") /\ UNCHANGED progress
    <3>1. UNCHANGED <<todo, doomed>> /\ existed' = [existed EXCEPT ![p] = existed[p]]
      BY <1>0, <2>1, <2>4 DEF progress
    <3>. QED
      BY <1>0, <2>1, <2>4, <3>1, PlainGotos
  <2>. QED
    BY <2>2, <2>3, <2>4
<1>6. CASE ListChildren(p)
  <2>1. /\ Quiet(p) /\ pc[p] = "list" /\ Goto(p, "sweep")
        /\ doomed' = [doomed EXCEPT ![p] = Remaining(req[p].id)]
        /\ UNCHANGED <<existed, todo>>
    BY <1>6, StoreKinds DEF ListChildren
  <2>2. Remaining(req[p].id) \subseteq Covered(req[p].id) \ {req[p].id}
    BY DEF Remaining, ListBelow
  <2>. QED
    BY <1>0, <2>1, <2>2, Gotos
<1>7. CASE SweepChild(p)
  <2>1. PICK c \in doomed[p] :
          /\ doomed' = [doomed EXCEPT ![p] = doomed[p] \ {c}] /\ Goto(p, "sweep")
    BY <1>7 DEF SweepChild
  <2>2. pc[p] = "sweep" /\ UNCHANGED <<existed, todo>>
    BY <1>7 DEF SweepChild
  <2>3. doomed[p] \ {c} \subseteq Covered(req[p].id) \ {req[p].id}
    BY <2>2 DEF Form
  <2>4. \E id, M : Removing(p, id, M)
    BY <1>7, StoreKinds
  <2>. QED
    BY <1>0, <2>1, <2>2, <2>3, <2>4, Gotos
<1>8. CASE StoreChild(p) \/ StoreAccount(p)
  <2>1. \E id, body, M : Storing(p, id, body, M)
    BY <1>8, StoreKinds
  <2>2. Answer(p, "200") \/ Answer(p, "201") \/ Answer(p, "500")
    BY <1>8 DEF StoreChild, StoreAccount, Created
  <2>. QED
    BY <2>1, <2>2, Answers
<1>9. CASE StoreZone(p) \/ StoreSeed(p)
  <2>1. \E id, body, M : Storing(p, id, body, M)
    BY <1>9, StoreKinds
  <2>2. pc[p] \in {"store", "seed"} /\ req[p].op = "putzone"
    BY <1>9 DEF StoreZone, StoreSeed, Form
  <2>3. Answer(p, "500") \/ \E t \in {<<>>, Seeds, <<"NS">>} : SeedNext(p, t)
    BY <1>9, SeedForms DEF StoreZone, StoreSeed, ToSeed, Form
  <2>4. CASE Answer(p, "500")
    BY <2>1, <2>4, Answers
  <2>5. ASSUME NEW t \in {<<>>, Seeds, <<"NS">>}, SeedNext(p, t) PROVE Form'
    <3>1. CASE t = <<>>
      <4>1. Answer(p, "200") \/ Answer(p, "201")
        BY <2>5, <3>1 DEF SeedNext, Created
      <4>. QED
        BY <2>1, <4>1, Answers
    <3>2. CASE t # <<>>
      <4>1. /\ Goto(p, "seed") /\ todo' = [todo EXCEPT ![p] = t]
            /\ UNCHANGED <<existed, doomed>>
        BY <2>5, <3>2 DEF SeedNext
      <4>. QED
        BY <1>0, <2>1, <2>2, <3>2, <4>1, Gotos
    <3>. QED
      BY <3>1, <3>2
  <2>. QED
    BY <2>3, <2>4, <2>5
<1>10. CASE DeleteResource(p)
  <2>1. (\E id, M : Removing(p, id, M)) /\ pc[p] = "delete"
    BY <1>10, StoreKinds DEF DeleteResource
  <2>2. req[p].id \in Ids
    BY <1>0, <2>1, RequestForms DEF Form
  <2>3. \/ \E code \in {"404", "202", "204", "200"} : Answer(p, code)
        \/ Goto(p, "list") /\ UNCHANGED progress /\ req[p].id \in Accounts
    <3>1. CASE ~Deleted(resources, req[p].id)
      BY <1>10, <3>1 DEF DeleteResource
    <3>2. CASE Deleted(resources, req[p].id) /\ req[p].id \in Accounts
      BY <1>10, <3>2 DEF DeleteResource
    <3>3. CASE Deleted(resources, req[p].id) /\ req[p].id \notin Accounts
      <4>1. Answer(p, Accepted(req[p].id))
        BY <1>10, <3>3 DEF DeleteResource
      <4>2. req[p].id \in Groups \cup Zones \cup RecordSets \cup Containers
        BY <2>2, <3>3, CompoundAssumption DEF Children
      <4>3. Accepted(req[p].id) \in {"202", "204", "200"}
        BY <4>2 DEF Accepted
      <4>. QED
        BY <4>1, <4>3
    <3>. QED
      BY <3>1, <3>2, <3>3
  <2>4. CASE \E code \in {"404", "202", "204", "200"} : Answer(p, code)
    BY <2>1, <2>4, Answers
  <2>5. CASE Goto(p, "list") /\ UNCHANGED progress /\ req[p].id \in Accounts
    <3>1. UNCHANGED <<todo, doomed>> /\ existed' = [existed EXCEPT ![p] = existed[p]]
      BY <1>0, <2>1, <2>5 DEF progress
    <3>. QED
      BY <1>0, <2>1, <2>5, <3>1, PlainGotos
  <2>. QED
    BY <2>3, <2>4, <2>5
<1>. QED
  BY <1>2, <1>3, <1>4, <1>5, <1>6, <1>7, <1>8, <1>9, <1>10 DEF Serve

-----------------------------------------------------------------------------
LEMMA PrefixIsPointwise ==
  ASSUME NEW S, NEW s \in Seq(S), NEW t \in Seq(S)
  PROVE  IsPrefix(s, t) <=> Len(s) <= Len(t) /\ \A i \in 1..Len(s) : s[i] = t[i]
BY DEF IsPrefix

LEMMA PrefixIsTransitive ==
  ASSUME NEW r \in Ids, NEW s \in Ids, NEW t \in Ids, IsPrefix(r, s), IsPrefix(s, t)
  PROVE  IsPrefix(r, t)
<1>1. r \in Seq(Segments) /\ s \in Seq(Segments) /\ t \in Seq(Segments)
  BY StoreAssumption
<1>2. Len(r) \in Nat /\ Len(s) \in Nat /\ Len(t) \in Nat
  BY <1>1
<1>3. /\ Len(r) <= Len(s) /\ \A i \in 1..Len(r) : r[i] = s[i]
      /\ Len(s) <= Len(t) /\ \A i \in 1..Len(s) : s[i] = t[i]
  BY <1>1, PrefixIsPointwise
<1>4. Len(r) <= Len(t) /\ \A i \in 1..Len(r) : r[i] = t[i]
  BY <1>2, <1>3
<1>. QED
  BY <1>1, <1>4, PrefixIsPointwise

LEMMA PrefixIsReflexive == ASSUME NEW s \in Ids PROVE IsPrefix(s, s)
BY DEF IsPrefix

(* A record set is right below its zone. *)
LEMMA SeedIs ==
  ASSUME NEW z \in Zones, NEW t \in ToSet(Seeds)
  PROVE  /\ SeedOf(z, t) \in RecordSets /\ SeedOf(z, t) \in Ids /\ SeedOf(z, t) \in SeedsOf(z)
         /\ z \in Ids /\ Parent(SeedOf(z, t)) = z /\ IsPrefix(z, SeedOf(z, t))
<1>1. SeedOf(z, t) \in SeedsOf(z) /\ SeedOf(z, t) \in RecordSets
  BY DEF SeedsOf, RecordSets
<1>2. SeedOf(z, t) \in Ids /\ z \in Ids
  BY <1>1, CompoundAssumption DEF Children
<1>3. z \in Seq(Segments)
  BY <1>2, StoreAssumption
<1>4. /\ Len(SeedOf(z, t)) = Len(z) + 1 /\ Len(z) \in Nat
      /\ \A i \in 1..Len(z) : SeedOf(z, t)[i] = z[i]
  BY <1>3 DEF SeedOf
<1>5. SeedOf(z, t) \in Seq(Segments)
  BY <1>2, StoreAssumption
<1>6. Front(SeedOf(z, t)) = z
  BY <1>3, <1>4 DEF Front, SeedOf
<1>7. IsPrefix(z, SeedOf(z, t))
  BY <1>3, <1>4, <1>5, PrefixIsPointwise
<1>. QED
  BY <1>1, <1>2, <1>6, <1>7 DEF Parent

LEMMA PrefixOfSeed ==
  ASSUME NEW id \in Ids, NEW z \in Zones, NEW t \in ToSet(Seeds), IsPrefix(id, SeedOf(z, t))
  PROVE  id = SeedOf(z, t) \/ IsPrefix(id, z)
<1>1. id \in Seq(Segments) /\ z \in Seq(Segments) /\ SeedOf(z, t) \in Seq(Segments)
  BY SeedIs, StoreAssumption
<1>2. /\ Len(SeedOf(z, t)) = Len(z) + 1 /\ Len(z) \in Nat /\ Len(id) \in Nat
      /\ \A i \in 1..Len(z) : SeedOf(z, t)[i] = z[i]
  BY <1>1 DEF SeedOf
<1>3. Len(id) <= Len(z) + 1 /\ \A i \in 1..Len(id) : id[i] = SeedOf(z, t)[i]
  BY <1>1, <1>2, PrefixIsPointwise
<1>4. CASE Len(id) = Len(z) + 1
  BY <1>1, <1>2, <1>3, <1>4
<1>5. CASE Len(id) <= Len(z)
  <2>1. \A i \in 1..Len(id) : id[i] = z[i]
    BY <1>2, <1>3, <1>5
  <2>. QED
    BY <1>1, <1>5, <2>1, PrefixIsPointwise
<1>. QED
  BY <1>2, <1>3, <1>4, <1>5

-----------------------------------------------------------------------------
Same(q) ==
  /\ pc'[q] = pc[q] /\ req'[q] = req[q] /\ existed'[q] = existed[q]
  /\ todo'[q] = todo[q] /\ doomed'[q] = doomed[q] /\ rivals'[q] = rivals[q]

LEMMA ServeShape ==
  ASSUME Form, NEW p \in Procs, Serve(p)
  PROVE  /\ \A q \in Procs \ {p} : Same(q)
         /\ \/ pc'[p] = "idle" /\ req'[p] = NoRequest
            \/ (\E step : Goto(p, step) /\ pc'[p] = step) /\ req' = req /\ rivals' = rivals
<1>1. /\ existed' = existed \/ \E e : existed' = [existed EXCEPT ![p] = e]
      /\ todo' = todo \/ \E t : todo' = [todo EXCEPT ![p] = t]
      /\ doomed' = doomed \/ \E d : doomed' = [doomed EXCEPT ![p] = d]
      /\ (\E code : Answer(p, code)) \/ (\E step : Goto(p, step))
  <2>1. CASE StoreZone(p) \/ StoreSeed(p)
    BY <2>1 DEF StoreZone, StoreSeed, SeedNext, Answer
  <2>2. CASE DeleteResource(p)
    BY <2>2 DEF DeleteResource, Answer, progress
  <2>3. CASE SweepChild(p) \/ ListChildren(p) \/ CheckExists(p)
    BY <2>3 DEF SweepChild, ListChildren, CheckExists
  <2>4. CASE Refuse(p) \/ CheckParent(p) \/ StoreChild(p) \/ ScanNames(p) \/ StoreAccount(p)
               \/ EndSweep(p)
    BY <2>4 DEF Refuse, CheckParent, StoreChild, ScanNames, StoreAccount, EndSweep, Answer, progress
  <2>. QED
    BY <2>1, <2>2, <2>3, <2>4 DEF Serve
<1>2. CASE \E code : Answer(p, code)
  <2>1. /\ pc' = [pc EXCEPT ![p] = "idle"] /\ req' = [req EXCEPT ![p] = NoRequest]
        /\ rivals' = [rivals EXCEPT ![p] = FALSE]
    BY <1>2 DEF Answer
  <2>. QED
    BY <1>1, <2>1 DEF Form, TypeOK, Same
<1>3. CASE \E step : Goto(p, step)
  <2>1. PICK step : Goto(p, step)
    BY <1>3
  <2>2. pc' = [pc EXCEPT ![p] = step] /\ req' = req /\ rivals' = rivals
    BY <2>1 DEF Goto
  <2>. QED
    BY <1>1, <2>1, <2>2 DEF Form, TypeOK, Same
<1>. QED
  BY <1>1, <1>2, <1>3

LEMMA Kinds ==
  ASSUME Form, NEW p \in Procs, Serve(p)
  PROVE  \/ Quiet(p)
         \/ \E id, body, M : Storing(p, id, body, M)
         \/ \E id, M : Removing(p, id, M)
BY StoreKinds DEF Serve

(* The store after each kind of step, id by id. *)
LEMMA StoringIs ==
  ASSUME Form, NEW p \in Procs, NEW id, NEW body, NEW M, Storing(p, id, body, M)
  PROVE  \A k \in Ids : resources'[k] = IF k = id THEN body ELSE resources[k]
BY PutIsStore DEF Storing, Form, TypeOK

LEMMA RemovingIs ==
  ASSUME Form, NEW p \in Procs, NEW id, NEW M, Removing(p, id, M)
  PROVE  \A k \in Ids : resources'[k] = IF IsPrefix(id, k) THEN NoResource ELSE resources[k]
BY DeleteIsStore DEF Removing, Form, TypeOK, Covered

-----------------------------------------------------------------------------
(* PUTs of two accounts know that they overlap. *)
Rivalling ==
  \A p, q \in Procs : Rival(req[p], req[q]) => rivals[p] /\ rivals[q]

(* A PUT of an account that has no rival stores into a store without its   *)
(* name.                                                                   *)
Clear ==
  \A p \in Procs :
    pc[p] = "store" /\ req[p].op = "putaccount" /\ ~rivals[p] =>
      \A a \in Accounts \ {req[p].id} : resources[a] = NoResource

LEMMA AccountsInit == Init => Rivalling /\ Clear /\ DuplicatesAreRaces
BY CompoundAssumption DEF Init, Rivalling, Clear, DuplicatesAreRaces, Rival, NoRequest,
   NewMemoryStore, Has

LEMMA AccountsReceive ==
  ASSUME Form, Rivalling, Clear, DuplicatesAreRaces, NEW p \in Procs, Receive(p)
  PROVE  Rivalling' /\ Clear' /\ DuplicatesAreRaces'
<1>1. /\ req[p] = NoRequest /\ req'[p] \in Requests /\ pc'[p] = FirstCall(req'[p])
      /\ \A q \in Procs \ {p} : pc'[q] = pc[q] /\ req'[q] = req[q]
      /\ \A q \in Procs \ {p} :
           rivals'[q] <=> rivals[q] \/ (q \in Busy /\ Rival(req'[p], req[q]))
      /\ rivals'[p] <=> \E o \in Busy : Rival(req'[p], req[o])
      /\ UNCHANGED <<resources, doubtful>>
  <2>1. rivals' = [q \in Procs |->
                    IF q = p THEN \E o \in Busy : Rival(req'[p], req[o])
                    ELSE rivals[q] \/ (q \in Busy /\ Rival(req'[p], req[q]))]
    BY ReceiveShape
  <2>2. \A q \in Procs \ {p} :
          rivals'[q] <=> rivals[q] \/ (q \in Busy /\ Rival(req'[p], req[q]))
    BY <2>1
  <2>3. rivals'[p] <=> \E o \in Busy : Rival(req'[p], req[o])
    BY <2>1
  <2>. QED
    BY <2>2, <2>3, ReceiveShape
<1>2. \A q \in Procs : req[q].op = "putaccount" => q \in Busy
  BY DEF Form, Busy, NoRequest
<1>3. Rivalling'
  <2> SUFFICES ASSUME NEW q \in Procs, NEW o \in Procs, Rival(req'[q], req'[o])
               PROVE  rivals'[q] /\ rivals'[o]
    BY DEF Rivalling, Rival
  <2>1. q # o
    BY DEF Rival
  <2>2. CASE q # p /\ o # p
    BY <1>1, <2>2 DEF Rivalling
  <2>3. CASE q = p
    <3>1. o # p /\ Rival(req'[p], req[o]) /\ o \in Busy
      BY <1>1, <1>2, <2>1, <2>3 DEF Rival
    <3>. QED
      BY <1>1, <2>3, <3>1
  <2>4. CASE o = p
    <3>1. q # p /\ Rival(req'[p], req[q]) /\ q \in Busy
      BY <1>1, <1>2, <2>1, <2>4 DEF Rival
    <3>. QED
      BY <1>1, <2>4, <3>1
  <2>. QED
    BY <2>2, <2>3, <2>4
<1>4. pc'[p] # "store"
  BY <1>1, RequestForms, FirstCalls
<1>5. Clear'
  BY <1>1, <1>4 DEF Clear
<1>. QED
  BY <1>1, <1>3, <1>5 DEF DuplicatesAreRaces, Has

(* Accounts are stored by the PUTs of accounts alone. *)
LEMMA StoresOf ==
  ASSUME Form, NEW p \in Procs, Serve(p)
  PROVE  \/ Quiet(p)
         \/ \E id, M : Removing(p, id, M)
         \/ /\ StoreAccount(p) /\ Storing(p, req[p].id, User, {}) /\ req[p].id \in Accounts
            /\ pc[p] = "store" /\ req[p].op = "putaccount"
         \/ \E id \in Zones \cup Children : \E body, M : Storing(p, id, body, M)
<1>1. req[p] # NoRequest => req[p] \in Requests
  BY DEF Form, TypeOK
<1>2. CASE StoreAccount(p)
  <2>1. req[p].id \in Accounts /\ pc[p] = "store" /\ req[p].op = "putaccount"
    BY <1>1, <1>2, RequestForms DEF StoreAccount, Form
  <2>. QED
    BY <1>2, <2>1, StoreKinds
<1>3. CASE StoreChild(p) \/ StoreZone(p)
  <2>1. req[p].id \in Zones \cup Children
    BY <1>1, <1>3, RequestForms DEF StoreChild, StoreZone, Form
  <2>. QED
    BY <1>3, <2>1, StoreKinds
<1>4. CASE StoreSeed(p)
  <2>1. req[p].id \in Zones /\ Head(todo[p]) \in ToSet(Seeds)
    BY <1>1, <1>4, RequestForms, SeedForms DEF StoreSeed, Form
  <2>2. SeedOf(req[p].id, Head(todo[p])) \in Children
    BY <2>1, SeedIs DEF Children
  <2>. QED
    BY <1>4, <2>2, StoreKinds
<1>5. CASE ~(StoreAccount(p) \/ StoreChild(p) \/ StoreZone(p) \/ StoreSeed(p))
  BY <1>5, StoreKinds DEF Serve
<1>. QED
  BY <1>2, <1>3, <1>4, <1>5

(* The steps that lead to the Put of a request's resource. *)
LEMMA ToStore ==
  ASSUME Form, NEW p \in Procs, Serve(p), pc'[p] = "store"
  PROVE  /\ CheckExists(p) \/ (ScanNames(p) /\ ~Taken(req[p].id))
         /\ req' = req /\ rivals' = rivals /\ resources' = resources
<1>1. \A code : ~Answer(p, code)
  BY DEF Answer, Form, TypeOK
<1>2. \A step : Goto(p, step) => step = "store"
  BY DEF Goto, Form, TypeOK
<1>3. ~(Refuse(p) \/ CheckParent(p) \/ StoreChild(p) \/ StoreZone(p) \/ StoreSeed(p)
           \/ StoreAccount(p) \/ ListChildren(p) \/ SweepChild(p) \/ EndSweep(p))
  BY <1>1, <1>2 DEF Refuse, CheckParent, StoreChild, StoreZone, StoreSeed, SeedNext,
     StoreAccount, ListChildren, SweepChild, EndSweep
<1>4. ~DeleteResource(p)
  BY <1>1, <1>2 DEF DeleteResource
<1>. QED
  BY <1>1, <1>3, <1>4 DEF Serve, CheckExists, ScanNames, Goto

LEMMA AccountsServe ==
  ASSUME Form, Rivalling, Clear, DuplicatesAreRaces, NEW p \in Procs, Serve(p)
  PROVE  Rivalling' /\ Clear' /\ DuplicatesAreRaces'
<1>1. \A q \in Procs :
        req'[q] = NoRequest \/ (req'[q] = req[q] /\ rivals'[q] = rivals[q])
  BY ServeShape DEF Same
<1>2. Rivalling'
  BY <1>1 DEF Rivalling, Rival, NoRequest
<1>3. /\ doubtful \subseteq Accounts /\ Accounts \subseteq Ids
      /\ Accounts \cap (Zones \cup Children) = {}
  BY CompoundAssumption DEF Form, TypeOK
<1>4. ASSUME NEW q \in Procs, pc'[q] = "store", req'[q].op = "putaccount", ~rivals'[q],
             NEW a \in Accounts \ {req'[q].id}
      PROVE  resources'[a] = NoResource
  <2>1. CASE q = p
    <3>1. ScanNames(p) /\ ~Taken(req[p].id) /\ resources' = resources /\ req' = req
      BY <1>4, <2>1, ToStore DEF CheckExists, Form
    <3>. QED
      BY <1>4, <2>1, <3>1 DEF Taken, Has
  <2>2. CASE q # p
    <3>1. Same(q)
      BY <2>2, ServeShape
    <3>2. resources[a] = NoResource
      BY <1>4, <3>1 DEF Same, Clear
    <3>3. CASE Quiet(p)
      BY <3>2, <3>3 DEF Quiet
    <3>4. CASE \E id, M : Removing(p, id, M)
      BY <1>3, <3>2, <3>4, RemovingIs
    <3>5. CASE \E id \in Zones \cup Children : \E body, M : Storing(p, id, body, M)
      BY <1>3, <3>2, <3>5, StoringIs
    <3>6. CASE /\ Storing(p, req[p].id, User, {}) /\ req[p].id \in Accounts
               /\ req[p].op = "putaccount"
      <4>1. req[p].id = req[q].id
        BY <1>4, <3>1, <3>6 DEF Same, Rivalling, Rival
      <4>. QED
        BY <1>3, <1>4, <3>1, <3>2, <3>6, <4>1, StoringIs DEF Same
    <3>. QED
      BY <3>3, <3>4, <3>5, <3>6, StoresOf
  <2>. QED
    BY <2>1, <2>2
<1>5. ASSUME NEW a \in Accounts, NEW b \in Accounts, a # b,
             resources'[a] # NoResource, resources'[b] # NoResource
      PROVE  {a, b} \cap doubtful' # {}
  <2>0. \A c \in {a, b} : c \in Ids
    BY <1>3
  <2>1. CASE Quiet(p)
    <3>1. resources' = resources /\ doubtful \subseteq doubtful'
      BY <2>1 DEF Quiet, NoteNothing, Note
    <3>. QED
      BY <1>5, <3>1 DEF DuplicatesAreRaces, Has
  <2>2. CASE \E id, M : Removing(p, id, M)
    <3>1. PICK id, M : Removing(p, id, M)
      BY <2>2
    <3>2. \A c \in {a, b} : ~IsPrefix(id, c) /\ resources[c] # NoResource
      BY <1>5, <2>0, <3>1, RemovingIs
    <3>3. doubtful \ Covered(id) \subseteq doubtful'
      BY <3>1 DEF Removing, Note
    <3>. QED
      BY <1>5, <3>2, <3>3 DEF DuplicatesAreRaces, Has, Covered
  <2>3. CASE \E id \in Zones \cup Children : \E body, M : Storing(p, id, body, M)
    <3>0. PICK id \in Zones \cup Children : \E body, M : Storing(p, id, body, M)
      BY <2>3
    <3>1. PICK body, M : Storing(p, id, body, M)
      BY <3>0
    <3>2. \A c \in {a, b} : resources[c] # NoResource
      BY <1>3, <1>5, <2>0, <3>1, StoringIs
    <3>3. doubtful \ {id} \subseteq doubtful'
      BY <3>1 DEF Storing, Note
    <3>. QED
      BY <1>3, <1>5, <3>2, <3>3 DEF DuplicatesAreRaces, Has
  <2>4. CASE /\ Storing(p, req[p].id, User, {}) /\ req[p].id \in Accounts
             /\ pc[p] = "store" /\ req[p].op = "putaccount"
    <3>1. \A c \in {a, b} : c = req[p].id \/ resources[c] # NoResource
      BY <1>5, <2>0, <2>4, StoringIs
    <3>2. rivals[p]
      BY <1>5, <2>4, <3>1 DEF Clear
    <3>3. doubtful \cup {req[p].id} \subseteq doubtful'
      BY <2>4, <3>2 DEF Storing, Note
    <3>. QED
      BY <1>5, <3>1, <3>3 DEF DuplicatesAreRaces, Has
  <2>. QED
    BY <2>1, <2>2, <2>3, <2>4, StoresOf
<1>. QED
  BY <1>2, <1>4, <1>5 DEF Clear, DuplicatesAreRaces, Has

-----------------------------------------------------------------------------
(* What a step notes of the requests that go on. *)
LEMMA Noted ==
  ASSUME Form, NEW p \in Procs, NEW S, NEW R, NEW M, Note(p, S, R, M),
         NEW q \in Procs, pc'[q] # "idle"
  PROVE  /\ fresh'[q] = fresh[q] \cup IF q = p THEN {} ELSE S
         /\ raced'[q] <=> raced[q] \/ (q # p /\ req[q].id \in R)
BY DEF Note, Form, TypeOK

(* What a DELETE's second look can find was stored while it ran. *)
Emptied ==
  \A p \in Procs :
    pc[p] \in {"list", "sweep"} =>
      \A k \in Covered(req[p].id) : Has(resources, k) => k \in fresh[p]

LEMMA EmptiedReceive ==
  ASSUME Form, Emptied, NEW p \in Procs, Receive(p)
  PROVE  Emptied'
<1>1. pc'[p] \notin {"list", "sweep"}
  BY ReceiveShape, RequestForms, FirstCalls
<1>2. \A q \in Procs \ {p} : pc'[q] = pc[q] /\ req'[q] = req[q]
  BY ReceiveShape
<1>3. UNCHANGED <<resources, fresh>>
  BY ReceiveShape
<1>. QED
  BY <1>1, <1>2, <1>3 DEF Emptied, Has, Covered

(* The steps that lead to a DELETE's second look. *)
LEMMA ToSweep ==
  ASSUME Form, NEW p \in Procs, Serve(p), pc'[p] \in {"list", "sweep"}
  PROVE  DeleteResource(p) \/ ListChildren(p) \/ SweepChild(p)
<1>1. \A code : ~Answer(p, code)
  BY DEF Answer, Form, TypeOK
<1>2. \A step : Goto(p, step) => step \in {"list", "sweep"}
  BY DEF Goto, Form, TypeOK
<1>. QED
  BY <1>1, <1>2 DEF Serve, Refuse, CheckParent, CheckExists, StoreChild, StoreZone, StoreSeed,
     SeedNext, ScanNames, StoreAccount, EndSweep

LEMMA EmptiedServe ==
  ASSUME Form, Emptied, NEW p \in Procs, Serve(p)
  PROVE  Emptied'
<1> SUFFICES ASSUME NEW q \in Procs, pc'[q] \in {"list", "sweep"},
                    NEW k \in Covered(req'[q].id), resources'[k] # NoResource
             PROVE  k \in fresh'[q]
  BY DEF Emptied, Has, Covered
<1>0. k \in Ids /\ req'[q] = req[q]
  BY ServeShape DEF Same, Covered
<1>1. CASE q = p
  <2>1. DeleteResource(p) \/ ListChildren(p) \/ SweepChild(p)
    BY <1>1, ToSweep
  <2>2. CASE DeleteResource(p)
    <3>1. Removing(p, req[p].id, {req[p].id} \cap RecordSets)
      BY <2>2, StoreKinds DEF Serve
    <3>. QED
      BY <1>0, <1>1, <3>1, RemovingIs DEF Covered
  <2>3. CASE ListChildren(p)
    <3>1. Quiet(p) /\ pc[p] = "list"
      BY <2>3, StoreKinds DEF ListChildren
    <3>2. fresh[q] \subseteq fresh'[q]
      BY <3>1, Noted DEF Quiet, NoteNothing
    <3>. QED
      BY <1>0, <1>1, <3>1, <3>2 DEF Emptied, Quiet, Has
  <2>4. CASE SweepChild(p)
    <3>1. pc[p] = "sweep"
      BY <2>4 DEF SweepChild
    <3>2. PICK c \in doomed[p] : Removing(p, c, {})
      BY <2>4, StoreKinds
    <3>3. fresh[q] \subseteq fresh'[q]
      BY <3>2, Noted DEF Removing
    <3>4. resources[k] # NoResource
      BY <1>0, <3>2, RemovingIs
    <3>. QED
      BY <1>0, <1>1, <3>1, <3>3, <3>4 DEF Emptied, Has
  <2>. QED
    BY <2>1, <2>2, <2>3, <2>4
<1>2. CASE q # p
  <2>1. pc[q] \in {"list", "sweep"}
    BY <1>2, ServeShape DEF Same
  <2>2. CASE Quiet(p)
    <3>1. fresh[q] \subseteq fresh'[q]
      BY <2>2, Noted DEF Quiet, NoteNothing
    <3>. QED
      BY <1>0, <2>1, <2>2, <3>1 DEF Emptied, Quiet, Has
  <2>3. CASE \E id, body, M : Storing(p, id, body, M)
    <3>1. PICK id, body, M : Storing(p, id, body, M)
      BY <2>3
    <3>2. fresh'[q] = fresh[q] \cup {id}
      BY <1>2, <3>1, Noted DEF Storing
    <3>3. k = id \/ resources[k] # NoResource
      BY <1>0, <3>1, StoringIs
    <3>. QED
      BY <1>0, <2>1, <3>2, <3>3 DEF Emptied, Has
  <2>4. CASE \E id, M : Removing(p, id, M)
    <3>1. PICK id, M : Removing(p, id, M)
      BY <2>4
    <3>2. fresh[q] \subseteq fresh'[q]
      BY <3>1, Noted DEF Removing
    <3>3. resources[k] # NoResource
      BY <1>0, <3>1, RemovingIs
    <3>. QED
      BY <1>0, <2>1, <3>2, <3>3 DEF Emptied, Has
  <2>. QED
    BY <2>2, <2>3, <2>4, Kinds
<1>. QED
  BY <1>1, <1>2

-----------------------------------------------------------------------------
(* A request that no delete has raced still has the zone it found: the PUT *)
(* of a record set, the PUT of a zone that was there, and one that seeds.  *)
Live ==
  \A p \in Procs :
    ~raced[p] =>
      /\ req[p].op = "putchild" /\ pc[p] \in {"check", "store"} =>
           \A z \in Zones : req[p].id \in SeedsOf(z) => Has(resources, z)
      /\ req[p].op = "putzone" /\ pc[p] = "store" /\ existed[p] => Has(resources, req[p].id)
      /\ pc[p] = "seed" => Has(resources, req[p].id)

(* A record set without its zone was left by a raced request. *)
OrphansStray ==
  \A z \in Zones : \A s \in SeedsOf(z) :
    Has(resources, s) /\ ~Has(resources, z) => s \in strays

Pending(p, z, t) ==
  /\ pc[p] = "seed" /\ req[p].id = z
  /\ todo[p] = Seeds \/ (todo[p] = <<"NS">> /\ t = "NS")

(* The seeds of a zone: there, known to be missing, or still to be stored. *)
Seeded ==
  \A z \in Zones : \A t \in ToSet(Seeds) :
    Has(resources, z) =>
      \/ Has(resources, SeedOf(z, t))
      \/ SeedOf(z, t) \in unseeded
      \/ \E p \in Procs : Pending(p, z, t)

(* What a client has stored and a PUT of the zone is going to replace. *)
Exposed ==
  \A p \in Procs :
    pc[p] = "seed" \/ (pc[p] = "store" /\ req[p].op = "putzone" /\ ~existed[p]) =>
      \A s \in SeedsOf(req[p].id) : resources[s] = User => s \in fresh[p] \cup strays

LEMMA SeedsAre ==
  ASSUME NEW z \in Zones, NEW s \in SeedsOf(z)
  PROVE  /\ s \in RecordSets /\ s \in Ids /\ z \in Ids /\ IsPrefix(z, s) /\ Parent(s) = z
         /\ s # z /\ s \notin Zones \cup Accounts \cup Containers
<1>1. PICK t \in ToSet(Seeds) : s = SeedOf(z, t)
  BY DEF SeedsOf
<1>2. s \in RecordSets /\ s \in Ids /\ z \in Ids /\ IsPrefix(z, s) /\ Parent(s) = z
  BY <1>1, SeedIs
<1>. QED
  BY <1>2, CompoundAssumption DEF Children

(* The two seeds of a zone are two ids. *)
LEMMA SeedsDiffer ==
  ASSUME NEW z \in Zones, NEW t \in ToSet(Seeds), NEW u \in ToSet(Seeds), t # u
  PROVE  SeedOf(z, t) # SeedOf(z, u)
<1>1. z \in Seq(Segments)
  BY SeedIs, StoreAssumption
<1>2. Append(z, t)[Len(z) + 1] = t /\ Append(z, u)[Len(z) + 1] = u
  BY <1>1
<1>. QED
  BY <1>2 DEF SeedOf

LEMMA ZonesInit == Init => Live /\ OrphansStray /\ Seeded /\ Exposed
<1> SUFFICES ASSUME Init PROVE Live /\ OrphansStray /\ Seeded /\ Exposed
  OBVIOUS
<1>1. \A k \in Ids : resources[k] = NoResource
  BY DEF Init, NewMemoryStore
<1>2. \A z \in Zones : ~Has(resources, z) /\ \A s \in SeedsOf(z) : ~Has(resources, s)
  BY <1>1, SeedsAre, CompoundAssumption DEF Has
<1>. QED
  BY <1>2 DEF Init, Live, OrphansStray, Seeded, Exposed

LEMMA ZonesReceive ==
  ASSUME Form, Live, OrphansStray, Seeded, Exposed, NEW p \in Procs, Receive(p)
  PROVE  Live' /\ OrphansStray' /\ Seeded' /\ Exposed'
<1>1. /\ pc'[p] \notin {"store", "seed"}
      /\ req'[p].op = "putchild" => pc'[p] = "parent"
  BY ReceiveShape, RequestForms, FirstCalls
<1>2. \A q \in Procs \ {p} : pc'[q] = pc[q] /\ req'[q] = req[q]
  BY ReceiveShape
<1>3. UNCHANGED <<resources, existed, todo, fresh, raced, strays, unseeded>>
  BY ReceiveShape DEF progress
<1>4. Live'
  BY <1>1, <1>2, <1>3 DEF Live, Has
<1>5. OrphansStray'
  BY <1>3 DEF OrphansStray, Has
<1>6. Exposed'
  BY <1>1, <1>2, <1>3 DEF Exposed
<1>7. pc[p] = "idle"
  BY DEF Receive
<1>8. ASSUME NEW z \in Zones, NEW t \in ToSet(Seeds), NEW q \in Procs, Pending(q, z, t)
      PROVE  Pending(q, z, t)'
  BY <1>2, <1>3, <1>7, <1>8 DEF Pending
<1>9. Seeded'
  BY <1>3, <1>8 DEF Seeded, Has
<1>. QED
  BY <1>4, <1>5, <1>6, <1>9

(* What a step leaves of the resources that no delete of it covers. *)
LEMMA Survives ==
  ASSUME Form, NEW p \in Procs, Serve(p), NEW k \in Ids, resources[k] # NoResource,
         \A id, M : Removing(p, id, M) => ~IsPrefix(id, k)
  PROVE  resources'[k] # NoResource
<1>1. CASE Quiet(p)
  BY <1>1 DEF Quiet
<1>2. CASE \E id, body, M : Storing(p, id, body, M)
  BY <1>2, StoringIs, StoreAssumption DEF Storing
<1>3. CASE \E id, M : Removing(p, id, M)
  BY <1>3, RemovingIs
<1>. QED
  BY <1>1, <1>2, <1>3, Kinds

(* A zone stays for the requests that the step does not race. *)
LEMMA ZoneStays ==
  ASSUME Form, NEW p \in Procs, Serve(p), NEW q \in Procs \ {p}, pc[q] # "idle",
         NEW z \in Ids, Has(resources, z), req[q].id \in Ids, IsPrefix(z, req[q].id), ~raced'[q]
  PROVE  Has(resources, z)' /\ ~raced[q]
<1>0. pc'[q] # "idle"
  BY ServeShape DEF Same
<1>1. ~raced[q]
  BY <1>0, Kinds, Noted DEF Quiet, NoteNothing, Storing, Removing
<1>2. ASSUME NEW id, NEW M, Removing(p, id, M) PROVE ~IsPrefix(id, z)
  <2>1. id \in Ids /\ req[q].id \notin Covered(id)
    BY <1>0, <1>2, Noted DEF Removing
  <2>. QED
    BY <2>1, PrefixIsTransitive DEF Covered
<1>. QED
  BY <1>1, <1>2, Survives DEF Has

LEMMA ToCheck ==
  ASSUME Form, NEW p \in Procs, Serve(p), pc'[p] = "check"
  PROVE  CheckParent(p) /\ Has(resources, Parent(req[p].id)) /\ req' = req /\ Quiet(p)
<1>1. \A code : ~Answer(p, code)
  BY DEF Answer, Form, TypeOK
<1>2. \A step : Goto(p, step) => step = "check"
  BY DEF Goto, Form, TypeOK
<1>3. ~(Refuse(p) \/ CheckExists(p) \/ StoreChild(p) \/ StoreZone(p) \/ StoreSeed(p)
           \/ StoreAccount(p) \/ ScanNames(p) \/ ListChildren(p) \/ SweepChild(p) \/ EndSweep(p))
  BY <1>1, <1>2 DEF Refuse, CheckExists, StoreChild, StoreZone, StoreSeed, SeedNext,
     StoreAccount, ScanNames, ListChildren, SweepChild, EndSweep
<1>4. ~DeleteResource(p)
  BY <1>1, <1>2 DEF DeleteResource
<1>5. CheckParent(p)
  BY <1>3, <1>4 DEF Serve
<1>. QED
  BY <1>1, <1>5, StoreKinds DEF CheckParent, Goto

(* A request that seeds has stored its zone, which it had not found, or    *)
(* the seed before.                                                        *)
LEMMA ToSeeding ==
  ASSUME Form, NEW p \in Procs, Serve(p), pc'[p] = "seed"
  PROVE  /\ req' = req /\ req[p].op = "putzone" /\ req[p].id \in Zones
         /\ \/ /\ StoreZone(p) /\ pc[p] = "store" /\ ~existed[p] /\ todo'[p] = Seeds
               /\ \E M : Storing(p, req[p].id, User, M)
            \/ /\ StoreSeed(p) /\ pc[p] = "seed" /\ todo'[p] = Tail(todo[p])
               /\ \E M : Storing(p, SeedOf(req[p].id, Head(todo[p])), Seed, M)
<1>1. \A code : ~Answer(p, code)
  BY DEF Answer, Form, TypeOK
<1>2. \A step : Goto(p, step) => step = "seed" /\ req' = req
  BY DEF Goto, Form, TypeOK
<1>3. ~(Refuse(p) \/ CheckExists(p) \/ StoreChild(p) \/ CheckParent(p)
           \/ StoreAccount(p) \/ ScanNames(p) \/ ListChildren(p) \/ SweepChild(p) \/ EndSweep(p))
  BY <1>1, <1>2 DEF Refuse, CheckExists, StoreChild, CheckParent,
     StoreAccount, ScanNames, ListChildren, SweepChild, EndSweep
<1>4. ~DeleteResource(p)
  BY <1>1, <1>2 DEF DeleteResource
<1>5. StoreZone(p) \/ StoreSeed(p)
  BY <1>3, <1>4 DEF Serve
<1>6. req[p].op = "putzone" /\ req[p].id \in Zones
  BY <1>5, RequestForms DEF StoreZone, StoreSeed, Form, TypeOK
<1>7. CASE StoreZone(p)
  <2>1. SeedNext(p, ToSeed(p)) /\ pc[p] = "store"
    BY <1>1, <1>7 DEF StoreZone
  <2>2. ToSeed(p) # <<>>
    BY <1>1, <2>1 DEF SeedNext
  <2>3. ~existed[p] /\ ToSeed(p) = Seeds
    BY <2>2 DEF ToSeed
  <2>4. Goto(p, "seed") /\ todo' = [todo EXCEPT ![p] = Seeds]
    BY <2>1, <2>2, <2>3 DEF SeedNext
  <2>5. todo'[p] = Seeds
    BY <2>4 DEF Form, TypeOK
  <2>. QED
    BY <1>2, <1>6, <1>7, <2>1, <2>3, <2>4, <2>5, StoreKinds
<1>8. CASE StoreSeed(p)
  <2>1. SeedNext(p, Tail(todo[p])) /\ pc[p] = "seed"
    BY <1>1, <1>8 DEF StoreSeed
  <2>2. Goto(p, "seed") /\ todo' = [todo EXCEPT ![p] = Tail(todo[p])]
    BY <1>1, <2>1 DEF SeedNext
  <2>3. todo'[p] = Tail(todo[p])
    BY <2>2 DEF Form, TypeOK
  <2>. QED
    BY <1>2, <1>6, <1>8, <2>1, <2>2, <2>3, StoreKinds
<1>. QED
  BY <1>5, <1>7, <1>8

LEMMA LiveServe ==
  ASSUME Form, Live, NEW p \in Procs, Serve(p)
  PROVE  Live'
<1>1. ASSUME NEW q \in Procs, ~raced'[q], req'[q].op = "putchild", pc'[q] \in {"check", "store"},
             NEW z \in Zones, req'[q].id \in SeedsOf(z)
      PROVE  Has(resources, z)'
  <2>0. req'[q] = req[q]
    BY <1>1, ServeShape DEF Same, NoRequest
  <2>1. /\ req[q].id \in Ids /\ z \in Ids /\ IsPrefix(z, req[q].id)
        /\ Parent(req[q].id) = z
    BY <1>1, <2>0, SeedsAre
  <2>2. CASE q # p
    <3>1. pc[q] = pc'[q]
      BY <2>2, ServeShape DEF Same
    <3>2. ~raced[q]
      BY <1>1, <2>2, <3>1, Kinds, Noted DEF Quiet, NoteNothing, Storing, Removing
    <3>3. Has(resources, z)
      BY <1>1, <2>0, <3>1, <3>2 DEF Live
    <3>. QED
      BY <1>1, <2>0, <2>1, <2>2, <3>1, <3>3, ZoneStays
  <2>3. CASE q = p /\ pc'[p] = "check"
    <3>1. Has(resources, z) /\ Quiet(p)
      BY <2>1, <2>3, ToCheck
    <3>. QED
      BY <3>1 DEF Quiet, Has
  <2>4. CASE q = p /\ pc'[p] = "store"
    <3>1. CheckExists(p) /\ resources' = resources
      BY <1>1, <2>0, <2>4, ToStore DEF ScanNames, Form
    <3>2. ~raced[p] /\ pc[p] = "check"
      BY <1>1, <2>4, <3>1, Noted DEF CheckExists, NoteNothing
    <3>. QED
      BY <1>1, <2>0, <2>4, <3>1, <3>2 DEF Live, Has
  <2>. QED
    BY <1>1, <2>2, <2>3, <2>4
<1>2. ASSUME NEW q \in Procs, ~raced'[q], req'[q].op = "putzone", pc'[q] = "store", existed'[q]
      PROVE  Has(resources, req[q].id)'
  <2>0. req'[q] = req[q]
    BY <1>2, ServeShape DEF Same, NoRequest
  <2>1. req[q].id \in Zones /\ req[q].id \in Ids
    BY <1>2, <2>0, RequestForms DEF Form, TypeOK, NoRequest
  <2>2. CASE q # p
    <3>1. pc[q] = pc'[q] /\ existed[q] = existed'[q]
      BY <2>2, ServeShape DEF Same
    <3>2. ~raced[q]
      BY <1>2, <2>2, <3>1, Kinds, Noted DEF Quiet, NoteNothing, Storing, Removing
    <3>3. Has(resources, req[q].id)
      BY <1>2, <2>0, <3>1, <3>2 DEF Live
    <3>4. Has(resources, req[q].id) /\ IsPrefix(req[q].id, req[q].id)
      BY <2>1, <3>3, PrefixIsReflexive
    <3>5. \A z \in Ids : z = req[q].id => resources'[z] # NoResource
      BY <1>2, <2>1, <2>2, <3>1, <3>4, ZoneStays DEF Has
    <3>. QED
      BY <2>0, <2>1, <3>5 DEF Has
  <2>3. CASE q = p
    <3>1. CheckExists(p) /\ resources' = resources
      BY <1>2, <2>0, <2>3, ToStore DEF ScanNames, Form
    <3>2. existed'[p] = Has(resources, req[p].id)
      BY <3>1 DEF CheckExists, Form, TypeOK
    <3>. QED
      BY <1>2, <2>0, <2>3, <3>1, <3>2 DEF Has
  <2>. QED
    BY <2>2, <2>3
<1>3. ASSUME NEW q \in Procs, ~raced'[q], pc'[q] = "seed"
      PROVE  Has(resources, req[q].id)'
  <2>2. CASE q # p
    <3>1. pc[q] = pc'[q] /\ req'[q] = req[q]
      BY <2>2, ServeShape DEF Same
    <3>2. ~raced[q]
      BY <1>3, <2>2, <3>1, Kinds, Noted DEF Quiet, NoteNothing, Storing, Removing
    <3>3. req[q].id \in Ids
      BY <1>3, <3>1, RequestForms DEF Form, TypeOK, NoRequest
    <3>4. Has(resources, req[q].id) /\ IsPrefix(req[q].id, req[q].id)
      BY <1>3, <3>1, <3>2, <3>3, PrefixIsReflexive DEF Live
    <3>5. \A z \in Ids : z = req[q].id => resources'[z] # NoResource
      BY <1>3, <2>2, <3>1, <3>3, <3>4, ZoneStays DEF Has
    <3>. QED
      BY <3>1, <3>3, <3>5 DEF Has
  <2>3. CASE q = p
    <3>1. /\ req' = req /\ req[p].id \in Zones /\ req[p].id \in Ids
      BY <1>3, <2>3, ToSeeding, CompoundAssumption
    <3>2. CASE \E M : Storing(p, req[p].id, User, M)
      BY <2>3, <3>1, <3>2, StoringIs, StoreAssumption, CompoundAssumption DEF Has
    <3>3. CASE /\ pc[p] = "seed"
               /\ \E M : Storing(p, SeedOf(req[p].id, Head(todo[p])), Seed, M)
      <4>1. ~raced[p]
        BY <1>3, <2>3, <3>3, Noted DEF Storing
      <4>2. Has(resources, req[p].id)
        BY <3>3, <4>1 DEF Live
      <4>3. resources'[req[p].id] # NoResource
        BY <3>1, <3>3, <4>2, StoringIs, StoreAssumption, CompoundAssumption DEF Has
      <4>. QED
        BY <2>3, <3>1, <4>3 DEF Has
    <3>. QED
      BY <1>3, <2>3, <3>2, <3>3, ToSeeding
  <2>. QED
    BY <2>2, <2>3
<1>4. \A q \in Procs : pc'[q] \in {"store", "seed"} => req'[q] = req[q]
  BY ServeShape DEF Same
<1>. QED
  BY <1>1, <1>2, <1>3, <1>4 DEF Live, Has

(* The stores of a step that is neither quiet nor a delete. *)
LEMMA Storers ==
  ASSUME Form, NEW p \in Procs, Serve(p)
  PROVE  \/ Quiet(p)
         \/ \E id, M : Removing(p, id, M)
         \/ /\ pc[p] = "store" /\ req[p].op = "putaccount" /\ req[p].id \in Accounts
            /\ Storing(p, req[p].id, User, {})
         \/ /\ pc[p] = "store" /\ req[p].op = "putchild" /\ req[p].id \in Children
            /\ Storing(p, req[p].id, User, {})
         \/ /\ StoreZone(p) /\ pc[p] = "store" /\ req[p].op = "putzone" /\ req[p].id \in Zones
            /\ \E M : Storing(p, req[p].id, User, M)
         \/ /\ StoreSeed(p) /\ pc[p] = "seed" /\ req[p].id \in Zones
            /\ Head(todo[p]) \in ToSet(Seeds)
            /\ \E M : Storing(p, SeedOf(req[p].id, Head(todo[p])), Seed, M)
<1>1. req[p] # NoRequest => req[p] \in Requests
  BY DEF Form, TypeOK
<1>2. CASE StoreAccount(p)
  BY <1>1, <1>2, RequestForms, StoreKinds DEF StoreAccount, Form
<1>3. CASE StoreChild(p)
  BY <1>1, <1>3, RequestForms, StoreKinds DEF StoreChild, Form
<1>4. CASE StoreZone(p)
  <2>1. pc[p] = "store" /\ req[p].op = "putzone" /\ req[p].id \in Zones
    BY <1>1, <1>4, RequestForms DEF StoreZone, Form
  <2>. QED
    BY <1>4, <2>1, StoreKinds
<1>5. CASE StoreSeed(p)
  <2>1. pc[p] = "seed" /\ req[p].id \in Zones /\ Head(todo[p]) \in ToSet(Seeds)
    BY <1>1, <1>5, RequestForms, SeedForms DEF StoreSeed, Form
  <2>. QED
    BY <1>5, <2>1, StoreKinds
<1>6. CASE ~(StoreAccount(p) \/ StoreChild(p) \/ StoreZone(p) \/ StoreSeed(p))
  BY <1>6, StoreKinds DEF Serve
<1>. QED
  BY <1>2, <1>3, <1>4, <1>5, <1>6

(* A record set is stored while its zone is there, or by a raced request. *)
LEMMA SeedsStored ==
  ASSUME Form, Live, NEW p \in Procs, Serve(p), NEW z \in Zones, NEW s \in SeedsOf(z)
  PROVE  \/ Quiet(p)
         \/ \E id, M : Removing(p, id, M)
         \/ \E id, body, M :
              Storing(p, id, body, M) /\ (id = s => raced[p] \/ Has(resources, z))
<1>1. s \in Ids /\ s \notin Zones \cup Accounts /\ z \in Ids /\ Parent(s) = z
  BY SeedsAre
<1>2. CASE /\ pc[p] = "store" /\ req[p].op = "putchild"
           /\ Storing(p, req[p].id, User, {})
  <2>1. req[p].id = s => raced[p] \/ Has(resources, z)
    BY <1>2 DEF Live
  <2>. QED
    BY <1>2, <2>1
<1>3. CASE /\ pc[p] = "seed" /\ req[p].id \in Zones /\ Head(todo[p]) \in ToSet(Seeds)
           /\ \E M : Storing(p, SeedOf(req[p].id, Head(todo[p])), Seed, M)
  <2>1. Parent(SeedOf(req[p].id, Head(todo[p]))) = req[p].id
    BY <1>3, SeedIs
  <2>2. SeedOf(req[p].id, Head(todo[p])) = s => raced[p] \/ Has(resources, z)
    BY <1>1, <1>3, <2>1 DEF Live
  <2>. QED
    BY <1>3, <2>2
<1>4. CASE /\ req[p].id \in Zones \cup Accounts
           /\ \E M : Storing(p, req[p].id, User, M)
  BY <1>1, <1>4
<1>. QED
  BY <1>2, <1>3, <1>4, Storers

(* What a step notes of the strays. *)
LEMMA StraysAre ==
  ASSUME NEW p \in Procs, NEW S, NEW R, NEW M, Note(p, S, R, M)
  PROVE  strays' = (strays \ (S \cup R)) \cup IF raced[p] THEN S ELSE {}
BY DEF Note

LEMMA OrphansServe ==
  ASSUME Form, Live, OrphansStray, NEW p \in Procs, Serve(p)
  PROVE  OrphansStray'
<1> SUFFICES ASSUME NEW z \in Zones, NEW s \in SeedsOf(z),
                    resources'[s] # NoResource, resources'[z] = NoResource
             PROVE  s \in strays'
  BY DEF OrphansStray, Has
<1>1. s \in Ids /\ z \in Ids /\ IsPrefix(z, s)
  BY SeedsAre
<1>2. CASE Quiet(p)
  <2>1. strays \subseteq strays'
    BY <1>2, StraysAre DEF Quiet, NoteNothing
  <2>. QED
    BY <1>2, <2>1 DEF Quiet, OrphansStray, Has
<1>3. CASE \E id, M : Removing(p, id, M)
  <2>1. PICK id, M : Removing(p, id, M)
    BY <1>3
  <2>2. ~IsPrefix(id, s) /\ resources[s] # NoResource
    BY <1>1, <2>1, RemovingIs
  <2>3. ~IsPrefix(id, z)
    BY <1>1, <2>1, <2>2, PrefixIsTransitive DEF Removing
  <2>4. resources[z] = NoResource
    BY <1>1, <2>1, <2>3, RemovingIs
  <2>5. strays \ Covered(id) \subseteq strays'
    BY <2>1, StraysAre DEF Removing
  <2>. QED
    BY <2>2, <2>4, <2>5 DEF OrphansStray, Has, Covered
<1>4. CASE \E id, body, M :
             Storing(p, id, body, M) /\ (id = s => raced[p] \/ Has(resources, z))
  <2>1. PICK id, body, M :
          Storing(p, id, body, M) /\ (id = s => raced[p] \/ Has(resources, z))
    BY <1>4
  <2>2. resources[z] = NoResource
    BY <1>1, <2>1, StoringIs, StoreAssumption DEF Storing
  <2>3. strays' = (strays \ {id}) \cup IF raced[p] THEN {id} ELSE {}
    BY <2>1, StraysAre DEF Storing
  <2>4. CASE id # s
    <3>1. resources[s] # NoResource
      BY <1>1, <2>1, <2>4, StoringIs
    <3>. QED
      BY <2>2, <2>3, <2>4, <3>1 DEF OrphansStray, Has
  <2>5. CASE id = s
    BY <2>1, <2>2, <2>3, <2>5 DEF Has
  <2>. QED
    BY <2>4, <2>5
<1>. QED
  BY <1>2, <1>3, <1>4, SeedsStored

LEMMA ExposedServe ==
  ASSUME Form, OrphansStray, Exposed, NEW p \in Procs, Serve(p)
  PROVE  Exposed'
<1> SUFFICES ASSUME NEW q \in Procs,
                    \/ pc'[q] = "seed"
                    \/ pc'[q] = "store" /\ req'[q].op = "putzone" /\ ~existed'[q],
                    NEW s \in SeedsOf(req'[q].id), resources'[s] = User
             PROVE  s \in fresh'[q] \cup strays'
  BY DEF Exposed
<1>0. /\ pc'[q] # "idle" /\ req'[q] = req[q] /\ req[q].op = "putzone"
      /\ req[q].id \in Zones
  <2>0. pc'[q] # "idle" /\ req'[q] = req[q]
    BY ServeShape DEF Same
  <2>1. pc[q] # "idle"
    <3>1. pc[p] # "idle"
      BY DEF Serve, Refuse, CheckParent, CheckExists, StoreChild, StoreZone, StoreSeed,
         ScanNames, StoreAccount, DeleteResource, ListChildren, SweepChild, EndSweep
    <3>. QED
      BY <2>0, <3>1, ServeShape DEF Same
  <2>2. req[q].op = "putzone"
    <3>1. CASE q = p /\ pc'[p] = "seed"
      BY <3>1, ToSeeding
    <3>2. CASE q # p
      BY <2>0, <3>2, ServeShape DEF Same, Form
    <3>. QED
      BY <2>0, <3>1, <3>2
  <2>. QED
    BY <2>0, <2>1, <2>2, RequestForms DEF Form, TypeOK
<1>1. s \in Ids /\ s \in SeedsOf(req[q].id) /\ s \notin Zones /\ User # NoResource
  BY <1>0, SeedsAre, StoreAssumption, CompoundAssumption
<1>2. CASE q # p
  <2>1. pc[q] = "seed" \/ (pc[q] = "store" /\ req[q].op = "putzone" /\ ~existed[q])
    BY <1>0, <1>2, ServeShape DEF Same
  <2>2. resources[s] = User => s \in fresh[q] \cup strays
    BY <1>1, <2>1 DEF Exposed
  <2>3. CASE Quiet(p)
    <3>1. fresh[q] \subseteq fresh'[q] /\ strays \subseteq strays'
      BY <1>0, <2>3, Noted, StraysAre DEF Quiet, NoteNothing
    <3>. QED
      BY <2>2, <2>3, <3>1 DEF Quiet
  <2>4. CASE \E id, M : Removing(p, id, M)
    <3>1. PICK id, M : Removing(p, id, M)
      BY <2>4
    <3>2. ~IsPrefix(id, s) /\ resources[s] = User
      BY <1>1, <3>1, RemovingIs
    <3>3. fresh[q] \subseteq fresh'[q] /\ strays \ Covered(id) \subseteq strays'
      BY <1>0, <3>1, Noted, StraysAre DEF Removing
    <3>. QED
      BY <2>2, <3>2, <3>3 DEF Covered
  <2>5. CASE \E id, body, M : Storing(p, id, body, M)
    <3>1. PICK id, body, M : Storing(p, id, body, M)
      BY <2>5
    <3>2. fresh'[q] = fresh[q] \cup {id} /\ strays \ {id} \subseteq strays'
      BY <1>0, <1>2, <3>1, Noted, StraysAre DEF Storing
    <3>3. id = s \/ resources[s] = User
      BY <1>1, <3>1, StoringIs
    <3>. QED
      BY <2>2, <3>2, <3>3
  <2>. QED
    BY <2>3, <2>4, <2>5, Kinds
<1>3. CASE q = p /\ pc'[p] = "store" /\ ~existed'[p]
  <2>1. CheckExists(p) /\ resources' = resources /\ NoteNothing(p)
    BY <1>0, <1>3, ToStore DEF CheckExists, ScanNames, Form
  <2>2. existed'[p] = Has(resources, req[p].id)
    BY <2>1 DEF CheckExists, Form, TypeOK
  <2>3. s \in strays
    BY <1>0, <1>1, <1>3, <2>1, <2>2 DEF OrphansStray, Has
  <2>4. strays \subseteq strays'
    BY <2>1, StraysAre DEF NoteNothing
  <2>. QED
    BY <2>3, <2>4
<1>4. CASE q = p /\ pc'[p] = "seed"
  <2>1. pc[p] = "seed" \/ (pc[p] = "store" /\ req[p].op = "putzone" /\ ~existed[p])
    BY <1>0, <1>4, ToSeeding
  <2>2. PICK id, body, M : Storing(p, id, body, M) /\ (id \in Zones \/ body = Seed)
    BY <1>4, ToSeeding
  <2>3. id # s
    BY <1>1, <2>2, StoringIs, CompoundAssumption
  <2>4. resources[s] = User
    BY <1>1, <2>2, <2>3, StoringIs
  <2>5. fresh[p] \subseteq fresh'[p] /\ strays \ {id} \subseteq strays'
    BY <1>0, <1>4, <2>2, Noted, StraysAre DEF Storing
  <2>. QED
    BY <1>1, <1>4, <2>1, <2>3, <2>4, <2>5 DEF Exposed
<1>. QED
  BY <1>2, <1>3, <1>4

-----------------------------------------------------------------------------
LEMMA UnseededAre ==
  ASSUME NEW p \in Procs, NEW S, NEW R, NEW M, Note(p, S, R, M)
  PROVE  unseeded' = (unseeded \ (S \cup R)) \cup M
BY DEF Note

(* A seed that is stored or known to be missing stays so when others are   *)
(* stored.                                                                 *)
LEMMA SeedStays ==
  ASSUME Form, NEW p \in Procs, NEW id, NEW body, NEW M, Storing(p, id, body, M),
         NEW s \in Ids, Has(resources, s) \/ s \in unseeded
  PROVE  Has(resources, s)' \/ s \in unseeded'
<1>1. unseeded' = (unseeded \ {id}) \cup M
  BY UnseededAre DEF Storing
<1>2. resources'[s] = IF s = id THEN body ELSE resources[s]
  BY StoringIs
<1>. QED
  BY <1>1, <1>2, StoreAssumption DEF Storing, Has

LEMMA SeedSteps ==
  ASSUME Form, NEW p \in Procs, Serve(p), pc[p] = "seed"
  PROVE  StoreSeed(p)
BY DEF Serve, Refuse, CheckParent, CheckExists, StoreChild, StoreZone, ScanNames, StoreAccount,
   DeleteResource, ListChildren, SweepChild, EndSweep

LEMMA PendingStays ==
  ASSUME Form, NEW p \in Procs, Serve(p), NEW q \in Procs \ {p}, NEW z, NEW t, Pending(q, z, t)
  PROVE  Pending(q, z, t)'
BY ServeShape DEF Same, Pending

LEMMA SeededByStoreSeed ==
  ASSUME Form, Seeded, NEW p \in Procs, Serve(p), StoreSeed(p), NEW z \in Zones,
         NEW t \in ToSet(Seeds), Has(resources, z)'
  PROVE  \/ Has(resources, SeedOf(z, t))' \/ SeedOf(z, t) \in unseeded'
         \/ \E q \in Procs : Pending(q, z, t)'
<1> DEFINE y == req[p].id
           u == Head(todo[p])
<1>1. y \in Zones /\ u \in ToSet(Seeds) /\ pc[p] = "seed" /\ todo[p] \in {Seeds, <<"NS">>}
  BY RequestForms, SeedForms DEF StoreSeed, Form, TypeOK
<1>2. PICK M : Storing(p, SeedOf(y, u), Seed, M)
  BY StoreKinds
<1>3. /\ SeedOf(z, t) \in Ids /\ SeedOf(y, u) \in Ids /\ z \in Ids /\ SeedOf(y, u) \notin Zones
      /\ Seed # NoResource
  BY <1>1, SeedIs, SeedsAre, StoreAssumption, CompoundAssumption
<1>4. Has(resources, z)
  BY <1>2, <1>3, StoringIs DEF Has
<1>5. CASE Has(resources, SeedOf(z, t)) \/ SeedOf(z, t) \in unseeded
  BY <1>2, <1>3, <1>5, SeedStays
<1>6. CASE \E q \in Procs \ {p} : Pending(q, z, t)
  BY <1>6, PendingStays
<1>7. CASE Pending(p, z, t)
  <2>1. y = z /\ (todo[p] = Seeds \/ (todo[p] = <<"NS">> /\ t = "NS"))
    BY <1>7 DEF Pending
  <2>2. CASE t = u
    BY <1>2, <1>3, <2>1, <2>2, StoringIs DEF Has
  <2>3. CASE t # u
    <3>1. todo[p] = Seeds /\ t = "NS" /\ Tail(todo[p]) = <<"NS">>
      BY <2>1, <2>3, SeedForms
    <3>2. CASE SeedNext(p, Tail(todo[p]))
      <4>1. Goto(p, "seed") /\ todo' = [todo EXCEPT ![p] = <<"NS">>]
        BY <3>1, <3>2, SeedForms DEF SeedNext
      <4>2. pc'[p] = "seed" /\ req' = req /\ todo'[p] = <<"NS">>
        BY <4>1 DEF Goto, Form, TypeOK
      <4>. QED
        BY <2>1, <3>1, <4>2 DEF Pending
    <3>3. CASE Note(p, {SeedOf(y, u)}, {},
                    {r \in SeedsOf(y) \ {SeedOf(y, u)} : ~Has(resources, r)})
      <4>1. {r \in SeedsOf(y) \ {SeedOf(y, u)} : ~Has(resources, r)} \subseteq unseeded'
        BY <3>3, UnseededAre
      <4>2. SeedOf(z, t) \in SeedsOf(y) /\ SeedOf(z, t) # SeedOf(y, u)
        BY <1>1, <2>1, <2>3, SeedIs, SeedsDiffer
      <4>. QED
        BY <1>2, <1>3, <4>1, <4>2, SeedStays
    <3>. QED
      BY <3>2, <3>3 DEF StoreSeed
  <2>. QED
    BY <2>2, <2>3
<1>. QED
  BY <1>4, <1>5, <1>6, <1>7 DEF Seeded

LEMMA SeededByStoreZone ==
  ASSUME Form, Live, Seeded, NEW p \in Procs, Serve(p), StoreZone(p), NEW t \in ToSet(Seeds),
         NEW z \in Zones, z = req[p].id
  PROVE  \/ Has(resources, SeedOf(z, t))' \/ SeedOf(z, t) \in unseeded'
         \/ \E q \in Procs : Pending(q, z, t)'
<1> DEFINE gone == {s \in SeedsOf(z) : ~Has(resources, s)}
<1>1. pc[p] = "store" /\ req[p].op = "putzone"
  BY DEF StoreZone
<1>2. PICK M : Storing(p, z, User, M)
  BY StoreKinds
<1>3. SeedOf(z, t) \in Ids /\ SeedOf(z, t) \in SeedsOf(z)
  BY <1>1, SeedIs
<1>4. CASE Has(resources, SeedOf(z, t)) \/ SeedOf(z, t) \in unseeded
  BY <1>2, <1>3, <1>4, SeedStays
<1>5. CASE \E q \in Procs : Pending(q, z, t)
  <2>1. PICK q \in Procs : Pending(q, z, t)
    BY <1>5
  <2>2. q # p
    BY <1>1, <2>1 DEF Pending
  <2>. QED
    BY <2>1, <2>2, PendingStays
<1>6. CASE gone \subseteq unseeded' /\ ~Has(resources, SeedOf(z, t))
  BY <1>3, <1>6
<1>7. CASE ~existed[p] /\ SeedNext(p, ToSeed(p))
  <2>1. Goto(p, "seed") /\ todo' = [todo EXCEPT ![p] = Seeds]
    BY <1>7, SeedForms DEF SeedNext, ToSeed
  <2>2. pc'[p] = "seed" /\ req' = req /\ todo'[p] = Seeds
    BY <2>1 DEF Goto, Form, TypeOK
  <2>. QED
    BY <2>2 DEF Pending
<1>8. CASE Has(resources, z)
  BY <1>1, <1>4, <1>5, <1>8 DEF Seeded
<1>9. \/ ~existed[p] /\ SeedNext(p, ToSeed(p))
      \/ gone \subseteq unseeded'
      \/ Has(resources, z)
  <2>1. CASE SeedNext(p, ToSeed(p)) /\ Note(p, {z}, {}, IF existed[p] /\ raced[p] THEN gone ELSE {})
    <3>1. CASE existed[p] /\ raced[p]
      BY <2>1, <3>1, UnseededAre
    <3>2. CASE existed[p] /\ ~raced[p]
      BY <1>1, <3>2 DEF Live
    <3>. QED
      BY <2>1, <3>1, <3>2
  <2>2. CASE Note(p, {z}, {}, IF Has(resources, z) THEN {} ELSE gone)
    BY <2>2, UnseededAre
  <2>. QED
    BY <2>1, <2>2 DEF StoreZone
<1>. QED
  BY <1>4, <1>6, <1>7, <1>8, <1>9

LEMMA SeededByDelete ==
  ASSUME Form, Seeded, NEW p \in Procs, Serve(p), pc[p] # "seed", NEW id, NEW M, Removing(p, id, M),
         id \in RecordSets => id \in M, NEW z \in Zones, NEW t \in ToSet(Seeds),
         Has(resources, z)'
  PROVE  \/ Has(resources, SeedOf(z, t))' \/ SeedOf(z, t) \in unseeded'
         \/ \E q \in Procs : Pending(q, z, t)'
<1>1. /\ SeedOf(z, t) \in Ids /\ SeedOf(z, t) \in RecordSets /\ z \in Ids /\ id \in Ids
  BY SeedIs DEF Removing
<1>2. ~IsPrefix(id, z) /\ Has(resources, z)
  BY <1>1, RemovingIs DEF Has
<1>3. unseeded' = (unseeded \ Covered(id)) \cup M
  BY UnseededAre DEF Removing
<1>4. CASE id = SeedOf(z, t)
  BY <1>1, <1>3, <1>4
<1>5. CASE id # SeedOf(z, t)
  <2>1. ~IsPrefix(id, SeedOf(z, t))
    BY <1>1, <1>2, <1>5, PrefixOfSeed
  <2>2. resources'[SeedOf(z, t)] = resources[SeedOf(z, t)]
    BY <1>1, <2>1, RemovingIs
  <2>3. CASE \E q \in Procs : Pending(q, z, t)
    <3>1. PICK q \in Procs : Pending(q, z, t)
      BY <2>3
    <3>. QED
      BY <3>1, PendingStays DEF Pending
  <2>. QED
    BY <1>2, <1>3, <2>1, <2>2, <2>3 DEF Seeded, Has, Covered
<1>. QED
  BY <1>4, <1>5

LEMMA SeededServe ==
  ASSUME Form, Live, Seeded, NEW p \in Procs, Serve(p)
  PROVE  Seeded'
<1> SUFFICES ASSUME NEW z \in Zones, NEW t \in ToSet(Seeds), Has(resources, z)'
             PROVE  \/ Has(resources, SeedOf(z, t))' \/ SeedOf(z, t) \in unseeded'
                    \/ \E q \in Procs : Pending(q, z, t)'
  BY DEF Seeded
<1>0. SeedOf(z, t) \in Ids /\ z \in Ids
  BY SeedIs
<1>1. CASE StoreSeed(p)
  BY <1>1, SeededByStoreSeed
<1>2. CASE StoreZone(p) /\ req[p].id = z
  BY <1>2, SeededByStoreZone
<1>3. ASSUME NEW id, NEW body, NEW M, Storing(p, id, body, M), id # z, pc[p] # "seed"
      PROVE  \/ Has(resources, SeedOf(z, t))' \/ SeedOf(z, t) \in unseeded'
             \/ \E q \in Procs : Pending(q, z, t)'
  <2>1. Has(resources, z)
    BY <1>0, <1>3, StoringIs DEF Has
  <2>2. CASE \E q \in Procs : Pending(q, z, t)
    BY <1>3, <2>2, PendingStays DEF Pending
  <2>. QED
    BY <1>0, <1>3, <2>1, <2>2, SeedStays DEF Seeded
<1>4. CASE StoreZone(p) /\ req[p].id # z
  <2>1. pc[p] # "seed" /\ \E M : Storing(p, req[p].id, User, M)
    BY <1>4, StoreKinds DEF StoreZone
  <2>. QED
    BY <1>3, <1>4, <2>1
<1>5. CASE StoreChild(p) \/ StoreAccount(p)
  <2>1. pc[p] # "seed" /\ Storing(p, req[p].id, User, {})
    BY <1>5, StoreKinds DEF StoreChild, StoreAccount
  <2>2. req[p].id \in Children \cup Accounts
    BY <1>5, RequestForms DEF StoreChild, StoreAccount, Form, TypeOK
  <2>. QED
    BY <1>3, <2>1, <2>2, CompoundAssumption
<1>6. CASE DeleteResource(p)
  <2>1. pc[p] # "seed" /\ Removing(p, req[p].id, {req[p].id} \cap RecordSets)
    BY <1>6, StoreKinds DEF DeleteResource
  <2>. QED
    BY <2>1, SeededByDelete
<1>7. CASE SweepChild(p)
  <2>1. pc[p] = "sweep" /\ \E c \in doomed[p] : Removing(p, c, {})
    BY <1>7, StoreKinds DEF SweepChild
  <2>2. doomed[p] \subseteq Containers
    BY <2>1, CompoundAssumption DEF Form
  <2>. QED
    BY <2>1, <2>2, SeededByDelete, CompoundAssumption
<1>8. CASE Quiet(p) /\ pc[p] # "seed"
  <2>1. resources' = resources /\ unseeded \subseteq unseeded'
    BY <1>8, UnseededAre DEF Quiet, NoteNothing
  <2>2. CASE \E q \in Procs : Pending(q, z, t)
    BY <1>8, <2>2, PendingStays DEF Pending
  <2>. QED
    BY <2>1, <2>2 DEF Seeded, Has
<1>9. CASE ~(StoreSeed(p) \/ StoreZone(p) \/ StoreChild(p) \/ StoreAccount(p)
              \/ DeleteResource(p) \/ SweepChild(p))
  <2>1. Quiet(p) /\ pc[p] # "seed"
    BY <1>9, StoreKinds, SeedSteps DEF Serve
  <2>. QED
    BY <1>8, <2>1
<1>. QED
  BY <1>1, <1>2, <1>4, <1>5, <1>6, <1>7, <1>9

-----------------------------------------------------------------------------
CompoundInv ==
  /\ Form
  /\ Rivalling /\ Clear /\ DuplicatesAreRaces
  /\ Emptied
  /\ Live /\ OrphansStray /\ Seeded /\ Exposed

LEMMA NextSplits == Next <=> \E p \in Procs : Receive(p) \/ Serve(p)
BY DEF Next, Serve

LEMMA InitInv == Init => CompoundInv
BY InitForm, AccountsInit, ZonesInit DEF CompoundInv, Init, Emptied

LEMMA NextInv == CompoundInv /\ [Next]_vars => CompoundInv'
<1>1. ASSUME CompoundInv, NEW p \in Procs, Receive(p) PROVE CompoundInv'
  BY <1>1, ReceiveForm, AccountsReceive, EmptiedReceive, ZonesReceive DEF CompoundInv
<1>2. ASSUME CompoundInv, NEW p \in Procs, Serve(p) PROVE CompoundInv'
  BY <1>2, StepForm, AccountsServe, EmptiedServe, LiveServe, OrphansServe, ExposedServe,
     SeededServe DEF CompoundInv
<1>3. ASSUME CompoundInv, UNCHANGED vars PROVE CompoundInv'
  <2>0. UNCHANGED <<resources, pc, req, existed, todo, doomed, status, fresh, raced, rivals,
                    strays, unseeded, doubtful>>
    BY <1>3 DEF vars, progress, history
  <2>1. Form'
    BY <1>3, <2>0 DEF CompoundInv, Form, TypeOK, Covered
  <2>2. Rivalling' /\ Clear'
    BY <1>3, <2>0 DEF CompoundInv, Rivalling, Clear, Rival
  <2>3. DuplicatesAreRaces' /\ Emptied'
    BY <1>3, <2>0 DEF CompoundInv, DuplicatesAreRaces, Emptied, Has, Covered
  <2>4. Live' /\ OrphansStray'
    BY <1>3, <2>0 DEF CompoundInv, Live, OrphansStray, Has
  <2>5. Seeded' /\ Exposed'
    BY <1>3, <2>0 DEF CompoundInv, Seeded, Pending, Exposed, Has
  <2>. QED
    BY <2>1, <2>2, <2>3, <2>4, <2>5 DEF CompoundInv
<1>. QED
  BY <1>1, <1>2, <1>3, NextSplits

LEMMA InvHolds == Spec => []CompoundInv
BY InitInv, NextInv, PTL DEF Spec

(* Every variable of the handlers stays in its type. *)
THEOREM TypeCorrect == Spec => []TypeOK
<1>1. CompoundInv => TypeOK
  BY DEF CompoundInv, Form
<1>. QED
  BY <1>1, InvHolds, PTL

(* Two groups have accounts of one name only after overlapping PUTs. *)
THEOREM DuplicatesAreRacesHolds == Spec => []DuplicatesAreRaces
<1>1. CompoundInv => DuplicatesAreRaces
  BY DEF CompoundInv
<1>. QED
  BY <1>1, InvHolds, PTL

LEMMA StepTakesItsOwn ==
  CompoundInv /\ [Next]_vars =>
    \A k \in Ids :
      Has(resources, k) /\ resources'[k] = NoResource =>
        \E p \in Procs :
          /\ req[p].op = "delete" /\ IsPrefix(req[p].id, k)
          /\ pc[p] = "delete" \/ k \in fresh[p]
<1> SUFFICES ASSUME CompoundInv, [Next]_vars, NEW k \in Ids,
                    resources[k] # NoResource, resources'[k] = NoResource
             PROVE  \E p \in Procs :
                      /\ req[p].op = "delete" /\ IsPrefix(req[p].id, k)
                      /\ pc[p] = "delete" \/ k \in fresh[p]
  BY DEF Has
<1>0. Form /\ Emptied
  BY DEF CompoundInv
<1>1. resources' # resources
  OBVIOUS
<1>2. PICK p \in Procs : Serve(p)
  BY <1>0, <1>1, NextSplits, ReceiveShape DEF vars
<1>3. ~\E id, body, M : Storing(p, id, body, M)
  <2>1. ASSUME NEW id, NEW body, NEW M, Storing(p, id, body, M) PROVE FALSE
    <3>1. resources'[k] = IF k = id THEN body ELSE resources[k]
      BY <1>0, <2>1, StoringIs
    <3>2. body # NoResource
      BY <2>1, StoreAssumption DEF Storing
    <3>. QED
      BY <3>1, <3>2
  <2>. QED
    BY <2>1
<1>4. DeleteResource(p) \/ SweepChild(p)
  BY <1>0, <1>1, <1>2, <1>3, StoreKinds DEF Serve, Quiet
<1>5. CASE DeleteResource(p)
  <2>1. Removing(p, req[p].id, {req[p].id} \cap RecordSets)
    BY <1>0, <1>2, <1>5, StoreKinds
  <2>2. IsPrefix(req[p].id, k)
    BY <1>0, <2>1, RemovingIs
  <2>3. pc[p] = "delete" /\ req[p].op = "delete"
    BY <1>0, <1>5 DEF DeleteResource, Form
  <2>. QED
    BY <2>2, <2>3
<1>6. CASE SweepChild(p)
  <2>1. PICK c \in doomed[p] : Removing(p, c, {})
    BY <1>0, <1>2, <1>6, StoreKinds
  <2>2. IsPrefix(c, k)
    BY <1>0, <2>1, RemovingIs
  <2>3. pc[p] = "sweep" /\ req[p].op = "delete" /\ c \in Covered(req[p].id)
    BY <1>0, <1>6 DEF SweepChild, Form
  <2>4. c \in Ids /\ IsPrefix(req[p].id, c)
    BY <2>3 DEF Covered
  <2>5. req[p].id \in Ids
    BY <1>0, <2>3, RequestForms DEF Form, TypeOK, NoRequest
  <2>6. IsPrefix(req[p].id, k)
    BY <2>2, <2>4, <2>5, PrefixIsTransitive
  <2>7. k \in fresh[p]
    BY <1>0, <2>3, <2>6 DEF Emptied, Covered, Has
  <2>. QED
    BY <2>3, <2>6, <2>7
<1>. QED
  BY <1>4, <1>5, <1>6

(* A DELETE takes nothing that was there before it but what its own        *)
(* cascade takes at once.                                                  *)
THEOREM DeletesTakeTheirOwnHolds == Spec => DeletesTakeTheirOwn
<1>1. CompoundInv /\ [Next]_vars =>
        [\A k \in Ids :
           Has(resources, k) /\ resources'[k] = NoResource =>
             \E p \in Procs :
               /\ req[p].op = "delete" /\ IsPrefix(req[p].id, k)
               /\ pc[p] = "delete" \/ k \in fresh[p]]_vars
  BY StepTakesItsOwn
<1>. QED
  BY <1>1, InvHolds, PTL DEF Spec, DeletesTakeTheirOwn

LEMMA SeededSuffices == CompoundInv => ZonesAreSeeded
<1> SUFFICES ASSUME CompoundInv, NEW z \in Zones, Has(resources, z), ~Seeding(z),
                    NEW s \in SeedsOf(z)
             PROVE  Has(resources, s) \/ s \in unseeded
  BY DEF ZonesAreSeeded
<1>1. PICK t \in ToSet(Seeds) : s = SeedOf(z, t)
  BY DEF SeedsOf
<1>2. \A p \in Procs : ~Pending(p, z, t)
  BY DEF Pending, Seeding
<1>. QED
  BY <1>1, <1>2 DEF CompoundInv, Seeded

(* A zone that no PUT is seeding lacks its SOA or NS for the named reasons *)
(* only.                                                                   *)
THEOREM ZonesAreSeededHolds == Spec => []ZonesAreSeeded
BY InvHolds, SeededSuffices, PTL

LEMMA StepKeepsRecords ==
  CompoundInv =>
    \A p \in Procs, s \in RecordSets :
      /\ pc[p] = "seed" /\ s \in SeedsOf(req[p].id)
      /\ resources[s] = User /\ resources'[s] = Seed
      => s \in fresh[p] \cup strays
BY DEF CompoundInv, Exposed

(* A seed replaces a client's record set only if it was stored meanwhile   *)
(* or left by a race.                                                      *)
THEOREM SeedsKeepRecordsHolds == Spec => SeedsKeepRecords
<1>1. CompoundInv /\ [Next]_vars =>
        [\A p \in Procs, s \in RecordSets :
           /\ pc[p] = "seed" /\ s \in SeedsOf(req[p].id)
           /\ resources[s] = User /\ resources'[s] = Seed
           => s \in fresh[p] \cup strays]_vars
  BY StepKeepsRecords
<1>. QED
  BY <1>1, InvHolds, PTL DEF Spec, SeedsKeepRecords
=============================================================================
