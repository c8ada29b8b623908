---------------------------- MODULE OidcFlowProofs ----------------------------
(***************************************************************************)
(* Proofs about OidcFlow, for any number of requests, identities,          *)
(* credentials, endpoints and runs.  Each service is proved alone: the     *)
(* other's steps leave its state as it is.                                 *)
(***************************************************************************)
EXTENDS OidcFlow, SequenceTheorems, TLAPS

LEMMA LaterPhases ==
  ASSUME NEW a \in Nat, NEW b \in Nat, a <= b
  PROVE  StatusFor(a) \in 1..3 /\ StatusFor(a) <= StatusFor(b)
BY DEF StatusFor

-----------------------------------------------------------------------------
(* What a request has read under the first lock is still so, or an         *)
(* endpoint has been deleted since; a run only grows older.                *)
DevOpsInv ==
  /\ DevOpsTypeOK
  /\ second \in Nat
  /\ update \in [Callers -> [id : EndpointIds, body : Endpoints] \cup {NoUpdate}]
  /\ lookup \in [Callers -> [run : Nat, age : Nat, known : 0..3]]
  /\ overtaken \in [Callers -> BOOLEAN]
  /\ \A r \in 1..MaxRuns : r > Len(runs) => told[r] = 0
  /\ \A r \in 1..Len(runs) : told[r] <= StatusFor(second - runs[r].created)
  /\ \A c \in Callers :
       /\ update[c] # NoUpdate /\ endpoints[update[c].id] = NoEndpoint => overtaken[c]
       /\ lookup[c] # NoLookup =>
            /\ lookup[c].run \in 1..Len(runs)
            /\ lookup[c].age <= second - runs[lookup[c].run].created
            /\ lookup[c].known <= StatusFor(lookup[c].age)

LEMMA InitDevOpsInv == DevOpsInit => DevOpsInv
BY DevOpsAssumption
   DEF DevOpsInit, DevOpsInv, DevOpsTypeOK, NoUpdate, NoLookup

LEMMA NextDevOpsInv == DevOpsInv /\ [DevOpsNext]_devOpsVars => DevOpsInv'
<1> SUFFICES ASSUME DevOpsInv, [DevOpsNext]_devOpsVars PROVE DevOpsInv'
  OBVIOUS
<1> USE DevOpsAssumption DEF DevOpsInv, DevOpsTypeOK
<1>0. /\ \A u \in [id : EndpointIds, body : Endpoints] : u # NoUpdate
      /\ Len(runs) \in Nat
      /\ \A r \in 1..Len(runs) : runs[r].created \in 0..second
  <2>1. ASSUME NEW u \in [id : EndpointIds, body : Endpoints] PROVE u # NoUpdate
    BY u.id # NoUpdate.id DEF NoUpdate
  <2>2. ASSUME NEW r \in 1..Len(runs) PROVE runs[r].created \in 0..second
    <3>1. runs[r] \in [project : Projects, created : 0..second]
      BY ElementOfSeq
    <3>. QED
      BY <3>1
  <2>. QED
    BY <2>1, <2>2
<1>1. CASE PassSecond
  <2>1. second' = second + 1 /\ UNCHANGED <<endpoints, runs, update, lookup, overtaken, told>>
    BY <1>1 DEF PassSecond
  <2>2. \A r \in 1..Len(runs) :
          StatusFor(second - runs[r].created) <= StatusFor(second' - runs[r].created)
    BY <1>0, <2>1, LaterPhases
  <2>3. runs' \in Seq([project : Projects, created : 0..second'])
    <3>1. [project : Projects, created : 0..second]
            \subseteq [project : Projects, created : 0..second']
      BY <2>1
    <3>. QED
      <4>1. runs \in Seq([project : Projects, created : 0..second])
        OBVIOUS
      <4>2. runs \in Seq([project : Projects, created : 0..second'])
        BY ZenonT(40), <3>1, <4>1, SeqMonotonic
      <4>. QED
        BY <2>1, <4>2
  <2>4. \A r \in 1..Len(runs) : told'[r] <= StatusFor(second' - runs'[r].created)
    <3>1. \A r \in 1..Len(runs) : StatusFor(second - runs[r].created) \in 1..3
                                  /\ StatusFor(second' - runs[r].created) \in 1..3
      BY DEF StatusFor
    <3>2. \A r \in 1..Len(runs) : told[r] \in 0..3
      BY <1>0
    <3>3. ASSUME NEW r \in 1..Len(runs)
          PROVE  told[r] <= StatusFor(second' - runs[r].created)
      <4> DEFINE young == StatusFor(second - runs[r].created)
                 old == StatusFor(second' - runs[r].created)
      <4>1. young \in 1..3 /\ old \in 1..3 /\ young <= old /\ told[r] \in 0..3
        BY <2>2, <3>1, <3>2
      <4>2. told[r] <= young
        OBVIOUS
      <4> HIDE DEF young, old
      <4>3. told[r] <= old
        BY <4>1, <4>2
      <4>. QED
        BY <4>3 DEF old
    <3>. QED
      BY <2>1, <3>3
  <2>5. \A c \in Callers : lookup[c] # NoLookup =>
          lookup[c].age <= second' - runs[lookup[c].run].created
    BY <1>0, <2>1
  <2>. QED
    BY <1>0, <2>1, <2>3, <2>4, <2>5
<1>2. ASSUME NEW c \in Callers, CreateEndpoint(c) PROVE DevOpsInv'
  BY <1>2 DEF CreateEndpoint
<1>3. ASSUME NEW c \in Callers, CheckEndpoint(c) PROVE DevOpsInv'
  BY <1>0, <1>3 DEF CheckEndpoint
<1>4. ASSUME NEW c \in Callers, RefuseUpdate(c) PROVE DevOpsInv'
  BY <1>0, <1>4 DEF RefuseUpdate, StopUpdate
<1>5. ASSUME NEW c \in Callers, StoreEndpoint(c) PROVE DevOpsInv'
  BY <1>0, <1>5 DEF StoreEndpoint, StopUpdate
<1>6. ASSUME NEW c \in Callers, DeleteEndpoint(c) PROVE DevOpsInv'
  <2>1. PICK e \in EndpointIds :
          /\ endpoints' = [endpoints EXCEPT ![e] = NoEndpoint]
          /\ overtaken' = [d \in Callers |-> overtaken[d] \/ update[d].id = e]
          /\ UNCHANGED <<runs, second, update, lookup, told>>
    BY <1>6 DEF DeleteEndpoint
  <2>2. \A d \in Callers : overtaken'[d] <=> overtaken[d] \/ update[d].id = e
    BY <2>1
  <2>3. overtaken' \in [Callers -> BOOLEAN]
    BY <2>1
  <2>4. \A d \in Callers : overtaken'[d] => update[d] # NoUpdate
    BY <2>2 DEF NoUpdate
  <2>5. \A d \in Callers :
          update[d] # NoUpdate /\ endpoints'[update[d].id] = NoEndpoint => overtaken'[d]
    BY <1>0, <2>1, <2>2
  <2>. QED
    BY <1>0, <2>1, <2>3, <2>4, <2>5
<1>7. ASSUME NEW c \in Callers, QueueRun(c) PROVE DevOpsInv'
  <2>1. PICK project \in Projects :
          /\ runs' = Append(runs, [project |-> project, created |-> second])
          /\ Len(runs) < MaxRuns
          /\ UNCHANGED <<endpoints, second, update, lookup, overtaken, told>>
    BY <1>7 DEF QueueRun
  <2>2. /\ runs' \in Seq([project : Projects, created : 0..second])
        /\ Len(runs') = Len(runs) + 1
        /\ \A r \in 1..Len(runs) : runs'[r] = runs[r]
        /\ runs'[Len(runs')].created = second
    BY <2>1
  <2>3. told[Len(runs')] = 0
    BY <1>0, <2>1, <2>2
  <2>4. \A r \in 1..Len(runs') : told'[r] <= StatusFor(second' - runs'[r].created)
    BY <1>0, <2>1, <2>2, <2>3 DEF StatusFor
  <2>. QED
    BY <1>0, <2>1, <2>2, <2>4
<1>8. ASSUME NEW c \in Callers, LookupBuild(c) PROVE DevOpsInv'
  <2>1. PICK id \in 1..Len(runs) :
          /\ lookup' = [lookup EXCEPT ![c] =
               [run |-> id, age |-> second - runs[id].created, known |-> told[id]]]
          /\ UNCHANGED <<endpoints, runs, second, update, overtaken, told>>
    BY <1>8 DEF LookupBuild
  <2>2. [run |-> id, age |-> second - runs[id].created, known |-> told[id]]
          \in [run : Nat, age : Nat, known : 0..3]
    BY <1>0
  <2>. QED
    BY SMTT(30), <1>0, <2>1, <2>2
<1>9. ASSUME NEW c \in Callers, ReportBuild(c) PROVE DevOpsInv'
  <2> DEFINE r == lookup[c].run
             news == Latest(told[r], StatusFor(lookup[c].age))
  <2>1. /\ lookup[c] # NoLookup
        /\ told' = [told EXCEPT ![r] = news]
        /\ lookup' = [lookup EXCEPT ![c] = NoLookup]
        /\ UNCHANGED <<endpoints, runs, second, update, overtaken>>
    BY <1>9 DEF ReportBuild
  <2>2. StatusFor(lookup[c].age) \in 1..3
        /\ StatusFor(lookup[c].age) <= StatusFor(second - runs[r].created)
    BY <1>0, <2>1, LaterPhases
  <2>3. r \in 1..Len(runs) /\ r \in 1..MaxRuns
    BY <1>0, <2>1
  <2>4. news \in 0..3 /\ news <= StatusFor(second - runs[r].created)
    BY <2>2, <2>3 DEF Latest
  <2>. QED
    BY <1>0, <2>1, <2>3, <2>4 DEF NoLookup
<1>10. CASE UNCHANGED devOpsVars
  BY <1>10 DEF devOpsVars
<1>. QED
  BY <1>1, <1>2, <1>3, <1>4, <1>5, <1>6, <1>7, <1>8, <1>9, <1>10 DEF DevOpsNext

LEMMA DevOpsInvHolds == Spec => []DevOpsInv
<1>1. [Next]_vars => [DevOpsNext]_devOpsVars
  BY DEF Next, vars
<1>. QED
  BY <1>1, InitDevOpsInv, NextDevOpsInv, PTL DEF Spec, Init

LEMMA StepStaysDeleted ==
  DevOpsInv /\ [DevOpsNext]_devOpsVars =>
    \A e \in EndpointIds :
       (\E c \in Callers : update[c].id = e /\ update'[c] = NoUpdate)
         /\ endpoints[e] = NoEndpoint /\ endpoints'[e] # NoEndpoint =>
       \E c \in Callers : update[c].id = e /\ overtaken[c]
<1> SUFFICES ASSUME DevOpsInv, NEW e \in EndpointIds, NEW c \in Callers,
                    update[c].id = e, endpoints[e] = NoEndpoint
             PROVE  overtaken[c]
  OBVIOUS
<1>. QED
  BY DevOpsAssumption DEF DevOpsInv, NoUpdate

(* An update of an endpoint brings back none but one that was deleted      *)
(* between its two locks.                                                  *)
THEOREM EndpointsStayDeletedHolds == Spec => EndpointsStayDeleted
<1>1. [Next]_vars => [DevOpsNext]_devOpsVars
  BY DEF Next, vars
<1>. QED
  BY <1>1, DevOpsInvHolds, StepStaysDeleted, PTL DEF Spec, EndpointsStayDeleted

LEMMA StepProgresses ==
  DevOpsInv =>
    \A c \in Callers : lookup[c] # NoLookup => StatusFor(lookup[c].age) >= lookup[c].known
<1> SUFFICES ASSUME DevOpsInv, NEW c \in Callers, lookup[c] # NoLookup
             PROVE  StatusFor(lookup[c].age) >= lookup[c].known
  OBVIOUS
<1>. QED
  BY LaterPhases DEF DevOpsInv

(* However requests interleave with the clock: nobody is told an earlier   *)
(* phase of a build than somebody was told before he asked.                *)
THEOREM BuildsProgressHolds == Spec => BuildsProgress
<1>1. DevOpsInv => [\A c \in Callers : lookup[c] # NoLookup /\ lookup'[c] = NoLookup =>
                      StatusFor(lookup[c].age) >= lookup[c].known]_devOpsVars
  BY StepProgresses
<1>. QED
  BY <1>1, DevOpsInvHolds, PTL DEF BuildsProgress

-----------------------------------------------------------------------------
(* The token service. *)

(* What a request has taken and read, by its next step. *)
RequestForm ==
  /\ resources \in Stores /\ now \in 0..MaxTime
  /\ \A i \in Identities : Has(resources, i) => resources[i] \in IdentityBodies
  /\ pc \in [Procs -> {"idle", "parent", "store", "read", "merge",
                       "identities", "credentials"}]
  /\ req = [p \in Procs |-> req[p]]
  /\ held \in [Procs -> Bodies \cup {NoResource}]
  /\ candidates \in
       [Procs -> SUBSET [id : Identities, oid : {b.principalId : b \in IdentityBodies}]]
  /\ status \in
       [Procs -> {"none", "stored", "200", "400", "404", "500", "invalid_grant"}]
  /\ \A p \in Procs :
       /\ pc[p] = "idle" => req[p] = NoRequest
       /\ pc[p] \in {"parent", "store"} =>
            req[p].op = "put" /\ req[p].id \in Credentials /\ req[p].trust \in Trusts[req[p].id]
       /\ pc[p] \in {"read", "merge"} =>
            req[p].op = "patch" /\ req[p].id \in Identities /\ req[p].edit \in Edits[req[p].id]
       /\ pc[p] = "merge" => held[p] \in IdentityBodies
       /\ pc[p] \in {"identities", "credentials"} => req[p].op = "exchange"

HistoryForm ==
  /\ strays \subseteq Credentials
  /\ \A p \in Procs :
       /\ granted[p] \subseteq Identities
       /\ raced[p] => pc[p] \in {"parent", "store"}

LEMMA FormIsTyped == RequestForm /\ HistoryForm => TokenTypeOK
BY DEF RequestForm, HistoryForm, TokenTypeOK

LEMMA InitForm == TokenInit => RequestForm /\ HistoryForm
<1> SUFFICES ASSUME TokenInit PROVE RequestForm /\ HistoryForm
  OBVIOUS
<1>1. RequestForm
  <2>1. resources \in Stores /\ \A i \in Identities : ~Has(resources, i)
    BY TokensAssumption DEF TokenInit, NewMemoryStore, Stores, Has
  <2>2. now \in 0..MaxTime
    <3>1. MaxTime \in Nat
      BY TokensAssumption
    <3>. QED
      BY <3>1 DEF TokenInit
  <2>3. req = [p \in Procs |-> NoRequest] /\ req = [p \in Procs |-> req[p]]
    BY DEF TokenInit
  <2>. QED
    BY <2>1, <2>2, <2>3 DEF TokenInit, RequestForm
<1>2. HistoryForm
  BY DEF TokenInit, HistoryForm
<1>. QED
  BY <1>1, <1>2

LEMMA AnswerForm ==
  ASSUME RequestForm, NEW p \in Procs, NEW token, UNCHANGED now,
         resources' \in Stores,
         \A i \in Identities : Has(resources', i) => resources'[i] \in IdentityBodies,
         NEW code \in {"stored", "200", "400", "404", "500", "invalid_grant"},
         Finish(p, code, token)
  PROVE  RequestForm'
BY DEF RequestForm, Finish, NoRequest

LEMMA StoredIdentityIsBody ==
  ASSUME NEW i \in Identities PROVE StoredIdentity(i) \in IdentityBodies
BY TokensAssumption DEF StoredIdentity, IdentityBodies

(* Putting an identity's body under an identity, or any body elsewhere. *)
LEMMA PutForm ==
  ASSUME RequestForm, NEW p \in Procs, NEW id \in Ids, NEW body \in Bodies,
         id \in Identities => body \in IdentityBodies, PutAnswered(p, id, body)
  PROVE  RequestForm'
<1>1. resources' = [resources EXCEPT ![id] = body]
  BY DEF PutAnswered, Put
<1>2. resources' \in Stores
  BY <1>1 DEF RequestForm, Stores
<1>3. \A i \in Identities : Has(resources', i) => resources'[i] \in IdentityBodies
  BY <1>1, TokensAssumption DEF RequestForm, Stores, Has
<1>. QED
  BY <1>2, <1>3, AnswerForm DEF PutAnswered, Answer

LEMMA StepForm ==
  ASSUME RequestForm, NEW p \in Procs,
         \/ PutIdentity(p) \/ DeleteResource(p)
         \/ ReceivePut(p) \/ CheckIdentity(p) \/ Refuse(p) \/ StoreCredential(p)
         \/ ReceivePatch(p) \/ ReadIdentity(p) \/ PatchIdentity(p)
         \/ MintAppToken(p) \/ MintIdentityToken(p)
         \/ ReceiveExchange(p) \/ RefuseExchange(p)
         \/ ListIdentities(p) \/ TryIdentity(p) \/ NoMatch(p)
  PROVE  RequestForm'
<1>1. ASSUME UNCHANGED <<resources, now>>, NEW token,
             NEW code \in {"stored", "200", "400", "404", "500", "invalid_grant"},
             Finish(p, code, token)
      PROVE  RequestForm'
  BY <1>1, AnswerForm DEF RequestForm
<1>2. CASE PutIdentity(p)
  BY <1>2, PutForm, StoredIdentityIsBody, TokensAssumption DEF PutIdentity, IdentityBodies
<1>3. CASE StoreCredential(p)
  <2>1. /\ req[p].id \in Credentials /\ req[p].trust \in Bodies
        /\ PutAnswered(p, req[p].id, req[p].trust)
    BY <1>3, TokensAssumption DEF StoreCredential, RequestForm
  <2>2. req[p].id \in Ids /\ req[p].id \notin Identities
    BY <2>1, TokensAssumption
  <2>. QED
    BY <2>1, <2>2, PutForm
<1>4. CASE PatchIdentity(p)
  <2>1. /\ req[p].id \in Identities /\ req[p].edit @@ held[p] \in IdentityBodies
        /\ PutAnswered(p, req[p].id, req[p].edit @@ held[p])
    BY <1>4, TokensAssumption DEF PatchIdentity, RequestForm
  <2>2. req[p].id \in Ids /\ req[p].edit @@ held[p] \in Bodies
    BY <2>1, TokensAssumption DEF IdentityBodies
  <2>. QED
    BY <2>1, <2>2, PutForm
<1>5. CASE DeleteResource(p)
  <2>1. PICK id \in Ids, code \in {"200", "404"} :
          resources' = Delete(resources, id) /\ Finish(p, code, NoToken) /\ UNCHANGED now
    BY <1>5 DEF DeleteResource, Answer
  <2>2. resources' \in Stores
    BY <2>1 DEF RequestForm, Stores, Delete
  <2>3. \A i \in Identities : Has(resources', i) => resources'[i] \in IdentityBodies
    BY <2>1, TokensAssumption DEF RequestForm, Stores, Delete, Has
  <2>. QED
    BY <2>1, <2>2, <2>3, AnswerForm
<1>6. CASE ReceivePut(p) \/ ReceivePatch(p) \/ ReceiveExchange(p)
  BY <1>6 DEF ReceivePut, ReceivePatch, ReceiveExchange, Take, Goto, Silent, progress,
              RequestForm
<1>7. CASE CheckIdentity(p)
  BY <1>1, <1>7 DEF CheckIdentity, Goto, Silent, progress, RequestForm, Answer
<1>8. CASE ReadIdentity(p)
  <2>1. CASE Has(resources, req[p].id)
    <3>1. resources[req[p].id] \in IdentityBodies
      BY <1>8, <2>1 DEF ReadIdentity, RequestForm
    <3>. QED
      <4>1. /\ pc[p] = "read" /\ pc' = [pc EXCEPT ![p] = "merge"]
            /\ held' = [held EXCEPT ![p] = resources[req[p].id]]
            /\ status' = [q \in Procs |-> "none"]
            /\ UNCHANGED <<resources, now, req, candidates>>
        BY <1>8, <2>1 DEF ReadIdentity, Goto, Silent
      <4>2. held' \in [Procs -> Bodies \cup {NoResource}]
        BY <3>1, <4>1 DEF RequestForm, IdentityBodies
      <4>. QED
        BY <3>1, <4>1, <4>2 DEF RequestForm
  <2>2. CASE ~Has(resources, req[p].id)
    BY <1>1, <1>8, <2>2 DEF ReadIdentity, Answer
  <2>. QED
    BY <2>1, <2>2
<1>9. CASE ListIdentities(p)
  <2>1. {[id |-> i, oid |-> resources[i].principalId] :
           i \in Bearers(resources, req[p].client)}
          \subseteq [id : Identities, oid : {b.principalId : b \in IdentityBodies}]
    BY <1>9 DEF ListIdentities, RequestForm, Bearers, Stored
  <2>. QED
    BY <1>9, <2>1 DEF ListIdentities, Goto, Silent, RequestForm
<1>10. CASE TryIdentity(p)
  BY <1>1, <1>10 DEF TryIdentity, Goto, Silent, RequestForm
<1>11. CASE \/ Refuse(p) \/ MintAppToken(p) \/ MintIdentityToken(p)
            \/ RefuseExchange(p) \/ NoMatch(p)
  BY <1>1, <1>11 DEF Refuse, MintAppToken, MintIdentityToken, RefuseExchange, NoMatch, Answer
<1>. QED
  BY <1>2, <1>3, <1>4, <1>5, <1>6, <1>7, <1>8, <1>9, <1>10, <1>11

-----------------------------------------------------------------------------
(* What the history says of the exchanges in progress. *)
Exchanging(q) == pc[q] # "idle" /\ req[q].op = "exchange"

Noted ==
  \A q \in Procs : Exchanging(q) =>
    /\ Grantable(resources, req[q]) \subseteq granted[q]
    /\ Grantable(resources, req[q]) = {} => denied[q]
    /\ \A i, j \in Bearers(resources, req[q].client) : i # j => shared[q]
    /\ \A x \in candidates[q] :
         Has(resources, x.id) /\ resources[x.id].clientId # req[q].client => moved[q]

LEMMA NoteFacts ==
  ASSUME NEW p \in Procs, NEW S, NEW R, Note(p, S, R)
  PROVE  /\ strays' \subseteq (strays \ (S \cup R)) \cup (IF raced[p] THEN S ELSE {})
         /\ (strays \ (S \cup R)) \cup (IF raced[p] THEN S ELSE {}) \subseteq strays'
         /\ \A q \in Procs :
              /\ raced'[q] => pc'[q] # "idle" /\ req'[q].op = "put"
              /\ pc'[q] # "idle" /\ req'[q].op = "put" /\ raced[q] => raced'[q]
              /\ pc'[q] # "idle" /\ req'[q].op = "put" /\ q # p /\ req[q].id \in R => raced'[q]
              /\ Exchanging(q)' =>
                   /\ granted'[q] = granted[q] \cup Grantable(resources', req'[q])
                   /\ denied[q] => denied'[q]
                   /\ shared[q] => shared'[q]
              /\ ~Exchanging(q)' => granted'[q] = {}
BY DEF Note, Exchanging

LEMMA NoteNotes == ASSUME NEW p \in Procs, NEW S, NEW R, Note(p, S, R) PROVE Noted'
BY DEF Note, Noted, Exchanging

LEMMA InitNoted == TokenInit => Noted
BY DEF TokenInit, Noted, Exchanging

(* A credential whose identity is gone is a stray: the PUT that stored it  *)
(* had seen the identity before a DELETE took it.                          *)
Orphaned ==
  /\ \A c \in Credentials : Has(resources, c) /\ ~Has(resources, Parent(c)) => c \in strays
  /\ \A q \in Procs : pc[q] = "store" => Has(resources, Parent(req[q].id)) \/ raced[q]

(* The one identity that an exchange could name throughout is still to be  *)
(* tried.                                                                  *)
Walk ==
  \A q \in Procs : pc[q] = "credentials" /\ ~denied[q] /\ ~shared[q] =>
    \E x \in candidates[q] : x.id \in Bearers(resources, req[q].client)

StepOf(p) ==
  \/ PutIdentity(p) \/ DeleteResource(p)
  \/ ReceivePut(p) \/ CheckIdentity(p) \/ Refuse(p) \/ StoreCredential(p)
  \/ ReceivePatch(p) \/ ReadIdentity(p) \/ PatchIdentity(p)
  \/ MintAppToken(p) \/ MintIdentityToken(p)
  \/ ReceiveExchange(p) \/ RefuseExchange(p)
  \/ ListIdentities(p) \/ TryIdentity(p) \/ NoMatch(p)

(* How a step may change the store. *)
Writing(p, S, R) ==
  \/ /\ S = {} /\ R = {} /\ resources' = resources
  \/ \E id \in Ids, body \in Bodies :
       /\ S = {id} /\ R = {} /\ resources' = Put(resources, id, body)
       /\ \/ id \in Identities /\ pc[p] \in {"idle", "merge"}
          \/ id \in Credentials /\ pc[p] = "store" /\ id = req[p].id
  \/ \E id \in Ids :
       S = {} /\ R = Covered(id) /\ resources' = Delete(resources, id) /\ pc[p] = "idle"

OthersWait(p) ==
  \A q \in Procs \ {p} : pc'[q] = pc[q] /\ req'[q] = req[q] /\ candidates'[q] = candidates[q]

LEMMA StepFacts ==
  ASSUME RequestForm, NEW p \in Procs, StepOf(p)
  PROVE  OthersWait(p) /\ \E S, R \in SUBSET Ids : Writing(p, S, R) /\ Note(p, S, R)
<1>0. ASSUME NEW token, NEW code, Finish(p, code, token)
      PROVE  OthersWait(p)
  BY <1>0 DEF Finish, OthersWait, RequestForm
<1>1. OthersWait(p)
  <2>1. CASE PutIdentity(p) \/ StoreCredential(p) \/ PatchIdentity(p)
    BY <1>0, <2>1 DEF PutIdentity, StoreCredential, PatchIdentity, PutAnswered, Answer
  <2>2. CASE \/ DeleteResource(p) \/ Refuse(p) \/ MintAppToken(p) \/ MintIdentityToken(p)
             \/ RefuseExchange(p) \/ NoMatch(p)
    BY <1>0, <2>2 DEF DeleteResource, Refuse, MintAppToken, MintIdentityToken,
                      RefuseExchange, NoMatch, Answer
  <2>3. CASE ReceivePut(p) \/ ReceivePatch(p) \/ ReceiveExchange(p)
    BY <2>3 DEF ReceivePut, ReceivePatch, ReceiveExchange, Take, Goto, progress,
                OthersWait, RequestForm
  <2>4. CASE CheckIdentity(p) \/ ReadIdentity(p)
    BY <1>0, <2>4 DEF CheckIdentity, ReadIdentity, Goto, Answer, progress,
                      OthersWait, RequestForm
  <2>5. CASE ListIdentities(p) \/ TryIdentity(p)
    BY <1>0, <2>5 DEF ListIdentities, TryIdentity, Goto, OthersWait, RequestForm
  <2>. QED
    BY <2>1, <2>2, <2>3, <2>4, <2>5 DEF StepOf
<1>2. ASSUME UNCHANGED resources, NoteNothing(p)
      PROVE  \E S, R \in SUBSET Ids : Writing(p, S, R) /\ Note(p, S, R)
  BY <1>2 DEF NoteNothing, Writing
<1>3. ASSUME NEW id \in Ids, NEW body \in Bodies, PutAnswered(p, id, body),
             \/ id \in Identities /\ pc[p] \in {"idle", "merge"}
             \/ id \in Credentials /\ pc[p] = "store" /\ id = req[p].id
      PROVE  \E S, R \in SUBSET Ids : Writing(p, S, R) /\ Note(p, S, R)
  <2>1. Writing(p, {id}, {}) /\ Note(p, {id}, {})
    BY <1>3 DEF PutAnswered, Writing
  <2>. QED
    BY <2>1
<1>4. CASE PutIdentity(p)
  BY <1>1, <1>3, <1>4, TokensAssumption DEF PutIdentity
<1>5. CASE StoreCredential(p)
  <2>1. req[p].id \in Credentials /\ req[p].id \in Ids /\ req[p].trust \in Bodies
    BY <1>5, TokensAssumption DEF StoreCredential, RequestForm
  <2>. QED
    BY <1>1, <1>3, <1>5, <2>1 DEF StoreCredential
<1>6. CASE PatchIdentity(p)
  <2>1. /\ req[p].id \in Identities /\ req[p].id \in Ids
        /\ req[p].edit @@ held[p] \in Bodies
    BY <1>6, TokensAssumption DEF PatchIdentity, RequestForm, IdentityBodies
  <2>. QED
    BY <1>1, <1>3, <1>6, <2>1 DEF PatchIdentity
<1>7. CASE DeleteResource(p)
  <2>1. PICK id \in Ids : /\ resources' = Delete(resources, id) /\ pc[p] = "idle"
                          /\ Note(p, {}, Covered(id))
    BY <1>7 DEF DeleteResource
  <2>2. Writing(p, {}, Covered(id)) /\ Covered(id) \in SUBSET Ids
    BY <2>1 DEF Writing, Covered
  <2>. QED
    BY <1>1, <2>1, <2>2
<1>8. CASE ~(PutIdentity(p) \/ StoreCredential(p) \/ PatchIdentity(p) \/ DeleteResource(p))
  BY <1>1, <1>2, <1>8
     DEF StepOf, ReceivePut, CheckIdentity, Refuse, ReceivePatch, ReadIdentity, MintAppToken,
         MintIdentityToken, ReceiveExchange, RefuseExchange, ListIdentities, TryIdentity,
         NoMatch, Take
<1>. QED
  BY <1>1, <1>4, <1>5, <1>6, <1>7, <1>8

-----------------------------------------------------------------------------
LEMMA NextHistoryForm ==
  ASSUME RequestForm, RequestForm', HistoryForm, NEW p \in Procs, StepOf(p)
  PROVE  HistoryForm'
<1>1. PICK S \in SUBSET Ids, R \in SUBSET Ids : Writing(p, S, R) /\ Note(p, S, R)
  BY StepFacts
<1>2. ASSUME NEW q \in Procs, raced'[q] PROVE pc'[q] \in {"parent", "store"}
  <2>1. pc'[q] # "idle" /\ req'[q].op = "put"
    BY <1>1, <1>2, NoteFacts
  <2>. QED
    BY <2>1 DEF RequestForm
<1>3. ASSUME NEW q \in Procs PROVE granted'[q] \subseteq Identities
  <2>1. Grantable(resources', req'[q]) \subseteq Identities
    BY DEF Grantable, Bearers, Stored
  <2>. QED
    BY <1>1, <2>1, NoteFacts DEF HistoryForm
<1>4. raced[p] => S \subseteq Credentials
  BY <1>1 DEF HistoryForm, Writing
<1>. QED
  BY <1>1, <1>2, <1>3, <1>4, NoteFacts DEF HistoryForm

-----------------------------------------------------------------------------
(* What takes the identity takes the credentials below it. *)
LEMMA CoveredBelow ==
  ASSUME NEW id \in Ids, NEW c \in Credentials, Parent(c) \in Covered(id)
  PROVE  c \in Covered(id)
<1>1. /\ id \in Seq(Segments) /\ c \in Seq(Segments) /\ c \in Ids /\ Len(c) > 1
      /\ IsPrefix(id, Parent(c))
  BY StoreAssumption, TokensAssumption DEF Covered
<1>2. Len(Parent(c)) = Len(c) - 1 /\ Len(id) <= Len(c) - 1
  BY <1>1 DEF Parent, Front, IsPrefix
<1>3. \A i \in 1..Len(id) : id[i] = c[i]
  BY <1>1, <1>2 DEF Parent, Front, IsPrefix
<1>4. IsPrefix(id, c)
  BY <1>1, <1>2, <1>3 DEF IsPrefix
<1>. QED
  BY <1>1, <1>4 DEF Covered

LEMMA BelowItsParent ==
  ASSUME NEW c \in Credentials PROVE c \in Covered(Parent(c)) \ {Parent(c)}
<1>1. c \in Seq(Segments) /\ c \in Ids /\ Len(c) > 1 /\ Parent(c) \in Ids
  BY StoreAssumption, TokensAssumption
<1>2. Parent(c) \in Seq(Segments) /\ Len(Parent(c)) = Len(c) - 1
  BY <1>1, StoreAssumption DEF Parent, Front
<1>3. \A i \in 1..Len(Parent(c)) : Parent(c)[i] = c[i]
  BY <1>1, <1>2 DEF Parent, Front
<1>4. IsPrefix(Parent(c), c)
  BY <1>1, <1>2, <1>3 DEF IsPrefix
<1>. QED
  BY <1>1, <1>2, <1>4 DEF Covered

LEMMA InitOrphaned == TokenInit => Orphaned
<1>1. Credentials \subseteq Ids
  BY TokensAssumption
<1>. QED
  BY <1>1 DEF TokenInit, Orphaned, NewMemoryStore, Has

(* A step other than CheckIdentity leads no request to its store. *)
LEMMA NewlyStoring ==
  ASSUME RequestForm, NEW p \in Procs, StepOf(p), pc'[p] = "store"
  PROVE  Has(resources', Parent(req'[p].id))
<1>1. ASSUME NEW code, NEW token, Finish(p, code, token) PROVE FALSE
  BY <1>1 DEF Finish, RequestForm
<1>2. CheckIdentity(p)
  BY <1>1 DEF StepOf, RequestForm, PutIdentity, StoreCredential, PatchIdentity, PutAnswered,
              DeleteResource, Refuse, MintAppToken, MintIdentityToken, RefuseExchange,
              NoMatch, Answer, ReceivePut, ReceivePatch, ReceiveExchange, Take, Goto,
              ReadIdentity, ListIdentities, TryIdentity
<1>. QED
  BY <1>1, <1>2 DEF CheckIdentity, Answer, progress

LEMMA NextOrphaned ==
  ASSUME RequestForm, RequestForm', Orphaned, NEW p \in Procs, StepOf(p)
  PROVE  Orphaned'
<1>1. PICK S \in SUBSET Ids, R \in SUBSET Ids : Writing(p, S, R) /\ Note(p, S, R)
  BY StepFacts
<1>2. resources \in Stores /\ Credentials \subseteq Ids /\ Identities \subseteq Ids
      /\ \A c \in Credentials : Parent(c) \in Identities /\ c \notin Identities
  BY TokensAssumption DEF RequestForm
<1>3. ASSUME NEW c \in Credentials, Has(resources', c), ~Has(resources', Parent(c))
      PROVE  c \in strays'
  <2>1. CASE resources' = resources /\ S = {} /\ R = {}
    BY <1>1, <1>3, <2>1, NoteFacts DEF Orphaned
  <2>2. ASSUME NEW id \in Identities, NEW body \in Bodies,
               S = {id}, R = {}, resources' = Put(resources, id, body)
        PROVE  c \in strays'
    <3>1. Has(resources, c) /\ ~Has(resources, Parent(c)) /\ c # id
      BY <1>2, <1>3, <2>2, StoreAssumption DEF Put, Has, Stores
    <3>. QED
      BY <1>1, <2>2, <3>1, NoteFacts DEF Orphaned
  <2>3. ASSUME NEW id \in Credentials, NEW body \in Bodies, pc[p] = "store", id = req[p].id,
               S = {id}, R = {}, resources' = Put(resources, id, body)
        PROVE  c \in strays'
    <3>1. ~Has(resources, Parent(c)) /\ (c # id => Has(resources, c))
      BY <1>2, <1>3, <2>3 DEF Put, Has, Stores
    <3>. QED
      BY <1>1, <2>3, <3>1, NoteFacts DEF Orphaned
  <2>4. ASSUME NEW id \in Ids, S = {}, R = Covered(id), resources' = Delete(resources, id)
        PROVE  c \in strays'
    <3>1. c \notin Covered(id) /\ Has(resources, c)
      BY <1>2, <1>3, <2>4 DEF Delete, Has
    <3>2. ~Has(resources, Parent(c))
      BY <1>2, <1>3, <2>4, <3>1, CoveredBelow DEF Delete, Has
    <3>. QED
      BY <1>1, <2>4, <3>1, <3>2, NoteFacts DEF Orphaned
  <2>. QED
    BY <1>1, <2>1, <2>2, <2>3, <2>4 DEF Writing
<1>4. ASSUME NEW q \in Procs, pc'[q] = "store"
      PROVE  Has(resources', Parent(req'[q].id)) \/ raced'[q]
  <2>1. CASE q = p
    BY <1>4, <2>1, NewlyStoring
  <2>2. CASE q # p
    <3>1. pc[q] = "store" /\ req'[q] = req[q] /\ req[q].op = "put" /\ req[q].id \in Credentials
      BY <1>4, <2>2, StepFacts DEF OthersWait, RequestForm
    <3>2. raced[q] => raced'[q]
      BY <1>1, <1>4, <3>1, NoteFacts
    <3>3. CASE Has(resources, Parent(req[q].id))
      <4>1. CASE resources' = resources
        BY <3>1, <3>3, <4>1
      <4>2. ASSUME NEW id \in Ids, NEW body \in Bodies, resources' = Put(resources, id, body)
            PROVE  Has(resources', Parent(req[q].id))
        BY <1>2, <3>1, <3>3, <4>2, StoreAssumption DEF Put, Has, Stores
      <4>3. ASSUME NEW id \in Ids, R = Covered(id), resources' = Delete(resources, id)
            PROVE  Has(resources', Parent(req[q].id)) \/ raced'[q]
        <5>1. CASE Parent(req[q].id) \in Covered(id)
          <6>1. req[q].id \in R
            BY <3>1, <4>3, <5>1, CoveredBelow
          <6>. QED
            BY <1>1, <1>4, <2>2, <3>1, <6>1, NoteFacts
        <5>2. CASE Parent(req[q].id) \notin Covered(id)
          BY <1>2, <3>1, <3>3, <4>3, <5>2 DEF Delete, Has
        <5>. QED
          BY <5>1, <5>2
      <4>. QED
        BY <1>1, <3>1, <4>1, <4>2, <4>3 DEF Writing
    <3>. QED
      BY <3>1, <3>2, <3>3 DEF Orphaned
  <2>. QED
    BY <2>1, <2>2
<1>. QED
  BY <1>3, <1>4 DEF Orphaned

-----------------------------------------------------------------------------
LEMMA InitWalk == TokenInit => Walk
BY DEF TokenInit, Walk

(* A fitting credential of an identity is found by its walk. *)
LEMMA FoundBelow ==
  ASSUME NEW i \in Identities, NEW claims, NEW c \in Credentials,
         Has(resources, c), Parent(c) = i, Trusting(resources[c], claims)
  PROVE  \E d \in ListBelow(resources, i) : CredentialMatches(resources[d], claims)
<1>1. c \in ListBelow(resources, i)
  BY BelowItsParent DEF ListBelow
<1>. QED
  BY <1>1 DEF Trusting, CredentialMatches

(* Whoever starts to walk lists all bearers, and one of them is grantable  *)
(* unless that is denied.                                                  *)
LEMMA StartedWalk ==
  ASSUME RequestForm, NEW p \in Procs, ListIdentities(p), Noted',
         ~denied'[p]
  PROVE  \E x \in candidates'[p] : x.id \in Bearers(resources', req'[p].client)
<1>1. /\ pc'[p] = "credentials" /\ req'[p].op = "exchange" /\ req' = req
      /\ resources' = resources
      /\ candidates'[p] = {[id |-> i, oid |-> resources[i].principalId] :
                             i \in Bearers(resources, req[p].client)}
  BY DEF ListIdentities, Goto, RequestForm
<1>2. PICK i \in Grantable(resources', req'[p]) : TRUE
  BY <1>1 DEF Noted, Exchanging
<1>3. i \in Bearers(resources', req'[p].client)
  BY <1>2 DEF Grantable
<1> DEFINE x == [id |-> i, oid |-> resources[i].principalId]
<1>4. x \in candidates'[p] /\ x.id = i
  BY <1>1, <1>3
<1>. QED
  BY <1>3, <1>4

(* A failed try is not of the one that can be named. *)
LEMMA TriedWalk ==
  ASSUME RequestForm, Noted, Walk, NEW p \in Procs, TryIdentity(p), pc'[p] = "credentials",
         ~denied[p], ~shared[p]
  PROVE  \E x \in candidates'[p] : x.id \in Bearers(resources, req[p].client)
<1>1. pc[p] = "credentials" /\ Exchanging(p)
  BY DEF TryIdentity, RequestForm, Exchanging
<1>2. PICK x \in candidates[p] : x.id \in Bearers(resources, req[p].client)
  BY <1>1 DEF Walk
<1>3. PICK i \in Grantable(resources, req[p]) : TRUE
  BY <1>1 DEF Noted
<1>4. i = x.id
  BY <1>1, <1>2, <1>3 DEF Noted, Grantable
<1>5. \E c \in ListBelow(resources, x.id) : CredentialMatches(resources[c], req[p].claims)
  <2>1. i \in Identities
    BY DEF Grantable, Bearers, Stored
  <2>2. PICK c \in Credentials :
          Has(resources, c) /\ Parent(c) = i /\ Trusting(resources[c], req[p].claims)
    BY DEF Grantable, Stored
  <2>. QED
    BY <1>4, <2>1, <2>2, FoundBelow
<1>6. PICK y \in candidates[p] :
        /\ ~\E c \in ListBelow(resources, y.id) : CredentialMatches(resources[c], req[p].claims)
        /\ candidates' = [candidates EXCEPT ![p] = @ \ {y}]
  BY DEF TryIdentity, Finish, RequestForm
<1>7. x \in candidates'[p]
  BY <1>2, <1>5, <1>6 DEF RequestForm
<1>. QED
  BY <1>2, <1>7

(* No write of another request turns the one bearer into another.          *)
LEMMA OthersWalk ==
  ASSUME RequestForm, RequestForm', Noted, Noted', Walk, NEW p \in Procs, StepOf(p),
         NEW q \in Procs, pc[q] = "credentials", pc'[q] = "credentials", req'[q] = req[q],
         ~denied[q], ~shared[q], ~denied'[q], ~shared'[q],
         NEW x \in candidates[q], x.id \in Bearers(resources, req[q].client)
  PROVE  x.id \in Bearers(resources', req'[q].client)
<1> DEFINE client == req[q].client
<1>1. Exchanging(q) /\ Exchanging(q)'
  BY DEF Exchanging, RequestForm
<1>2. PICK y \in Grantable(resources', req'[q]) : TRUE
  BY <1>1 DEF Noted
<1>3. y \in Bearers(resources', client)
  BY DEF Grantable
<1>4. x.id \in Identities /\ y \in Identities /\ Identities \subseteq Ids /\ resources \in Stores
  BY <1>3, TokensAssumption DEF Bearers, Stored, RequestForm
<1>5. SUFFICES ASSUME y # x.id PROVE x.id \in Bearers(resources', client)
  BY <1>3
<1>6. y \notin Bearers(resources, client)
  BY <1>1, <1>5 DEF Noted
<1>7. PICK S \in SUBSET Ids, R \in SUBSET Ids : Writing(p, S, R)
  BY StepFacts
<1>8. CASE resources' = resources
  BY <1>3, <1>6, <1>8
<1>9. ASSUME NEW id \in Ids, NEW body \in Bodies, resources' = Put(resources, id, body)
      PROVE  x.id \in Bearers(resources', client)
  <2>1. y = id
    BY <1>3, <1>4, <1>6, <1>9 DEF Put, Bearers, Stored, Has, Stores
  <2>. QED
    BY <1>4, <1>5, <1>9, <2>1 DEF Put, Bearers, Stored, Has, Stores
<1>10. ASSUME NEW id \in Ids, resources' = Delete(resources, id)
       PROVE  x.id \in Bearers(resources', client)
  BY <1>3, <1>4, <1>6, <1>10 DEF Delete, Bearers, Stored, Has
<1>. QED
  BY <1>7, <1>8, <1>9, <1>10 DEF Writing

LEMMA NextWalk ==
  ASSUME RequestForm, RequestForm', Noted, Noted', Walk, NEW p \in Procs, StepOf(p)
  PROVE  Walk'
<1> SUFFICES ASSUME NEW q \in Procs, pc'[q] = "credentials", ~denied'[q], ~shared'[q]
             PROVE  \E x \in candidates'[q] : x.id \in Bearers(resources', req'[q].client)
  BY DEF Walk
<1>1. ~denied[q] /\ ~shared[q]
  <2>1. Exchanging(q)'
    BY DEF Exchanging, RequestForm
  <2>. QED
    BY <2>1, StepFacts, NoteFacts
<1>2. CASE q # p
  <2>1. pc[q] = "credentials" /\ req'[q] = req[q] /\ candidates'[q] = candidates[q]
    BY <1>2, StepFacts DEF OthersWait
  <2>2. PICK x \in candidates[q] : x.id \in Bearers(resources, req[q].client)
    BY <1>1, <2>1 DEF Walk
  <2>. QED
    BY <1>1, <2>1, <2>2, OthersWalk
<1>3. CASE q = p
  <2>1. ASSUME NEW code, NEW token, Finish(p, code, token) PROVE FALSE
    BY <1>3, <2>1 DEF Finish, RequestForm
  <2>2. ListIdentities(p) \/ TryIdentity(p)
    BY <1>3, <2>1
       DEF StepOf, RequestForm, PutIdentity, StoreCredential, PatchIdentity, PutAnswered,
           DeleteResource, Refuse, MintAppToken, MintIdentityToken, RefuseExchange,
           NoMatch, Answer, ReceivePut, ReceivePatch, ReceiveExchange, Take, Goto,
           CheckIdentity, ReadIdentity
  <2>3. CASE TryIdentity(p)
    <3>1. resources' = resources /\ req' = req
      BY <2>1, <2>3 DEF TryIdentity
    <3>. QED
      BY <1>1, <1>3, <2>3, <3>1, TriedWalk
  <2>. QED
    BY <1>3, <2>2, <2>3, StartedWalk
<1>. QED
  BY <1>2, <1>3

-----------------------------------------------------------------------------
TokenInv == RequestForm /\ HistoryForm /\ Noted /\ Orphaned /\ Walk

LEMMA InitTokenInv == TokenInit => TokenInv
BY InitForm, InitNoted, InitOrphaned, InitWalk DEF TokenInv

LEMMA NextTokenInv == TokenInv /\ [TokenNext]_tokenVars => TokenInv'
<1> SUFFICES ASSUME TokenInv, [TokenNext]_tokenVars PROVE TokenInv'
  OBVIOUS
<1>1. ASSUME NEW p \in Procs, StepOf(p) PROVE TokenInv'
  <2>1. RequestForm'
    BY <1>1, StepForm DEF TokenInv, StepOf
  <2>2. PICK S \in SUBSET Ids, R \in SUBSET Ids : Note(p, S, R)
    BY <1>1, StepFacts DEF TokenInv
  <2>3. Noted'
    BY <2>2, NoteNotes
  <2>. QED
    BY <1>1, <2>1, <2>3, NextHistoryForm, NextOrphaned, NextWalk DEF TokenInv
<1>2. ASSUME UNCHANGED <<resources, pc, req, progress, raced, strays, exchange>>,
             now' \in 0..MaxTime,
             status' = status \/ status' = [p \in Procs |-> "none"]
      PROVE  TokenInv'
  <2>1. RequestForm'
    BY <1>2 DEF TokenInv, RequestForm, progress
  <2>2. HistoryForm'
    BY <1>2 DEF TokenInv, HistoryForm, exchange
  <2>3. Noted' /\ Orphaned' /\ Walk'
    BY <1>2 DEF TokenInv, Noted, Orphaned, Walk, Exchanging, progress, exchange
  <2>. QED
    BY <2>1, <2>2, <2>3 DEF TokenInv
<1>3. CASE Tick
  <2>1. now' \in 0..MaxTime
    <3>1. MaxTime \in Nat
      BY TokensAssumption
    <3>2. now \in 0..MaxTime /\ now < MaxTime /\ now' = now + 1
      BY <1>3 DEF Tick, TokenInv, RequestForm
    <3>. QED
      BY <3>1, <3>2
  <2>. QED
    BY <1>2, <1>3, <2>1 DEF Tick, Silent
<1>4. CASE UNCHANGED tokenVars
  BY <1>2, <1>4 DEF tokenVars, TokenInv, RequestForm
<1>. QED
  BY <1>1, <1>3, <1>4 DEF TokenNext, StepOf

LEMMA TokenInvHolds == Spec => []TokenInv
<1>1. [Next]_vars => [TokenNext]_tokenVars
  BY DEF Next, vars
<1>. QED
  BY <1>1, InitTokenInv, NextTokenInv, PTL DEF Spec, Init

(* The state of either service stays within its types. *)
THEOREM TypeCorrect == Spec => []TypeOK
<1>1. TokenInv /\ DevOpsInv => TypeOK
  BY FormIsTyped DEF TokenInv, DevOpsInv, TypeOK
<1>. QED
  BY <1>1, TokenInvHolds, DevOpsInvHolds, PTL

-----------------------------------------------------------------------------
(* Only a walk that found its credential gives a token to an exchange, and *)
(* only one that found none refuses it with invalid_grant.                 *)
LEMMA AnsweredExchanges ==
  ASSUME RequestForm, NEW p \in Procs, StepOf(p), NEW q \in Procs
  PROVE  /\ req[q].op = "exchange" /\ status'[q] = "200" => q = p /\ TryIdentity(p)
         /\ status'[q] = "invalid_grant" => q = p /\ NoMatch(p)
<1>1. ASSUME NEW code, NEW token, Finish(p, code, token)
      PROVE  status'[q] # "none" => q = p /\ status'[q] = code
  BY <1>1 DEF Finish
<1>2. CASE PutIdentity(p) \/ StoreCredential(p) \/ PatchIdentity(p)
  <2>1. Finish(p, "stored", NoToken) \/ Finish(p, "500", NoToken)
    BY <1>2 DEF PutIdentity, StoreCredential, PatchIdentity, PutAnswered, Answer
  <2>. QED
    BY <1>1, <2>1
<1>3. CASE DeleteResource(p) \/ MintAppToken(p) \/ MintIdentityToken(p)
  <2>1. req[p].op # "exchange"
    BY <1>3 DEF DeleteResource, MintAppToken, MintIdentityToken, RequestForm, NoRequest
  <2>2. \E token, code : Finish(p, code, token) /\ code # "invalid_grant"
    BY <1>3 DEF DeleteResource, MintAppToken, MintIdentityToken, Answer
  <2>. QED
    BY <1>1, <2>1, <2>2
<1>4. CASE Refuse(p) \/ RefuseExchange(p)
  BY <1>1, <1>4 DEF Refuse, RefuseExchange, Answer
<1>5. CASE ReceivePut(p) \/ ReceivePatch(p) \/ ReceiveExchange(p) \/ ListIdentities(p)
  BY <1>5 DEF ReceivePut, ReceivePatch, ReceiveExchange, ListIdentities, Take, Goto, Silent
<1>6. CASE CheckIdentity(p) \/ ReadIdentity(p)
  BY <1>1, <1>6 DEF CheckIdentity, ReadIdentity, Goto, Silent, Answer
<1>7. CASE TryIdentity(p)
  BY <1>1, <1>7 DEF TryIdentity, Goto, Silent
<1>8. CASE NoMatch(p)
  BY <1>1, <1>8 DEF NoMatch, Answer
<1>. QED
  BY <1>2, <1>3, <1>4, <1>5, <1>6, <1>7, <1>8 DEF StepOf

LEMMA StepGrants ==
  ASSUME TokenInv, NEW q \in Procs, TryIdentity(q), status'[q] = "200"
  PROVE  \/ issued'[q].mirid \in granted[q]
         \/ \E c \in strays : Parent(c) = issued'[q].mirid
         \/ moved[q]
<1>1. PICK i \in candidates[q] :
        /\ \E c \in ListBelow(resources, i.id) : CredentialMatches(resources[c], req[q].claims)
        /\ Finish(q, "200", [mirid |-> i.id, oid |-> i.oid])
  BY DEF TryIdentity, Goto, Silent
<1>2. PICK c \in ListBelow(resources, i.id) : CredentialMatches(resources[c], req[q].claims)
  BY <1>1
<1>3. issued'[q].mirid = i.id
  BY <1>1 DEF Finish
<1>4. i.id \in Identities /\ Exchanging(q)
  BY DEF TokenInv, RequestForm, TryIdentity, Exchanging
<1>5. c \in Credentials /\ Parent(c) = i.id /\ Has(resources, c)
  BY <1>4, TokensAssumption DEF ListBelow, Covered
<1>6. CASE ~Has(resources, i.id)
  BY <1>3, <1>5, <1>6 DEF TokenInv, Orphaned
<1>7. CASE Has(resources, i.id) /\ resources[i.id].clientId # req[q].client
  BY <1>4, <1>7 DEF TokenInv, Noted
<1>8. CASE Has(resources, i.id) /\ resources[i.id].clientId = req[q].client
  <2>1. i.id \in Grantable(resources, req[q])
    BY <1>2, <1>4, <1>5, <1>8
       DEF Grantable, Bearers, Stored, Trusting, CredentialMatches
  <2>. QED
    BY <1>3, <1>4, <2>1 DEF TokenInv, Noted
<1>. QED
  BY <1>6, <1>7, <1>8

(* However requests, writes and the clock interleave: a token that names   *)
(* an identity is one that a credential of it granted, but for the strays  *)
(* and the moved client ids that TokensWereGranted names.                  *)
THEOREM TokensWereGrantedHolds == Spec => TokensWereGranted
<1>1. TokenInv /\ [TokenNext]_tokenVars =>
        [\A p \in Procs :
           req[p].op = "exchange" /\ status'[p] = "200" =>
             \/ issued'[p].mirid \in granted[p]
             \/ \E c \in strays : Parent(c) = issued'[p].mirid
             \/ moved[p]]_tokenVars
  <2>1. ASSUME TokenInv, [TokenNext]_tokenVars, NEW q \in Procs,
               req[q].op = "exchange", status'[q] = "200", ~(UNCHANGED tokenVars)
        PROVE  \/ issued'[q].mirid \in granted[q]
               \/ \E c \in strays : Parent(c) = issued'[q].mirid
               \/ moved[q]
    <3>1. TokenNext
      BY <2>1
    <3>2. PICK p \in Procs : StepOf(p)
      BY <2>1, <3>1 DEF TokenNext, StepOf, Tick, Silent
    <3>3. q = p /\ TryIdentity(p)
      BY <2>1, <3>2, AnsweredExchanges DEF TokenInv
    <3>. QED
      BY <2>1, <3>3, StepGrants
  <2>. QED
    BY <2>1
<1>2. [Next]_vars => [TokenNext]_tokenVars
  BY DEF Next, vars
<1>. QED
  BY <1>1, <1>2, TokenInvHolds, PTL DEF Spec, TokensWereGranted

LEMMA StepRefuses ==
  ASSUME TokenInv, TokenNext, NEW q \in Procs, status'[q] = "invalid_grant"
  PROVE  denied[q] \/ shared[q]
<1>1. PICK p \in Procs : StepOf(p)
  BY DEF TokenNext, StepOf, Tick, Silent
<1>2. NoMatch(q)
  BY <1>1, AnsweredExchanges DEF TokenInv
<1>. QED
  BY <1>2 DEF NoMatch, TokenInv, Walk

(* An exchange is refused only if somebody would have refused it at some   *)
(* moment of it, or two identities shared the client id.                   *)
THEOREM RefusalsWereRightHolds == Spec => RefusalsWereRight
<1>1. TokenInv /\ [TokenNext]_tokenVars =>
        [\A p \in Procs :
           status'[p] = "invalid_grant" => denied[p] \/ shared[p]]_tokenVars
  BY StepRefuses
<1>2. [Next]_vars => [TokenNext]_tokenVars
  BY DEF Next, vars
<1>. QED
  BY <1>1, <1>2, TokenInvHolds, PTL DEF Spec, RefusalsWereRight
=============================================================================
