--------------------------- MODULE FederatedTokens ---------------------------
(***************************************************************************)
(* Tokens for workload identities: user-assigned identities and their      *)
(* federated credentials (internal/arm/identity.go,                        *)
(* federated_identity_credential.go), the tokens that pipelines are given  *)
(* (internal/ado/oidc.go), and their exchange for an access token          *)
(* (internal/auth/token.go, imds.go, cmd/azemu/ficresolver.go).            *)
(*                                                                         *)
(* An exchange lists the identities, then the credentials of each that has *)
(* the client id it was sent, with no lock over the Lists.  Signatures are *)
(* left out: assertions are not verified, and access tokens are only told  *)
(* apart by whom they name.  A request that makes one call to the store is *)
(* one step.                                                               *)
(***************************************************************************)
EXTENDS MemoryStore, TLC

CONSTANTS Procs,       \* the requests being served at one time
          Identities,  \* ids of user-assigned identities
          Credentials, \* ids of federated credentials, below identities
          ClientOf,    \* identity -> its client id, a hash of the id
          PrincipalOf, \* identity -> its principal id, a hash of the id
          Trusts,      \* credential -> what is stored: issuer, subject, audiences
          Edits,       \* identity -> the properties that a PATCH of it may carry
          Clients,     \* the client ids that exchanges send, "" if they send none
          Jobs,        \* pipeline jobs: the host they call and their project
          Lifetime,    \* of a pipeline's token, in ticks of the clock
          MaxTime      \* how far the clock goes

Parent(id) == Front(id)

(* putUserAssignedIdentity stores what its id determines, not what it is   *)
(* sent.                                                                   *)
StoredIdentity(i) == [clientId |-> ClientOf[i], principalId |-> PrincipalOf[i]]

IdentityBodies == {b \in Bodies : {"clientId", "principalId"} \subseteq DOMAIN b}

ASSUME TokensAssumption ==
  /\ Ids = Identities \cup Credentials /\ Identities \cap Credentials = {}
  /\ \A c \in Credentials : Len(c) > 1 /\ Parent(c) \in Identities
  /\ \A i \in Identities, id \in Ids :
       IsPrefix(i, id) /\ i # id => id \in Credentials /\ Parent(id) = i
  /\ \A i \in Identities :
       /\ StoredIdentity(i) \in Bodies
       /\ \A e \in Edits[i], b \in IdentityBodies : e @@ b \in IdentityBodies
  /\ \A c \in Credentials : \A t \in Trusts[c] :
       t \in Bodies /\ t.issuer # "" /\ t.subject # "" /\ t.audiences # {}
  /\ Lifetime \in Nat /\ MaxTime \in Nat

VARIABLES
  resources,  \* the store
  now,        \* the wall clock
  pc,         \* the next step of each request
  req,        \* the request being served
  held,       \* a PATCH: the identity it has read
  candidates, \* an exchange: the listed identities it has yet to try
  status,     \* the answer that the last step gave, if it gave one
  issued,     \* the token that the last step issued, if it issued one
  raced,      \* history: a delete at or above req.id landed meanwhile
  strays,     \* history: the credentials that a raced request has stored
  granted,    \* history: whom an exchange could rightly name meanwhile
  denied,     \* history: at some moment meanwhile, nobody
  shared,     \* history: two identities had its client id meanwhile
  moved       \* history: a listed identity got another client id meanwhile

progress == <<held, candidates>>
exchange == <<granted, denied, shared, moved>>
tokenVars == <<resources, now, pc, req, progress, status, issued, raced, strays, exchange>>

NoRequest == [op |-> "none"]
NoToken == [mirid |-> <<>>, oid |-> "none"]

(* The identities that tokens name for which there is no resource. *)
MockApp == [mirid |-> <<>>, oid |-> "app"]
MockIdentity == [mirid |-> <<"mock">>, oid |-> "identity"]

-----------------------------------------------------------------------------
(* The token of a pipeline job, good from this minute on. *)
OidcToken(job, t) ==
  [iss |-> <<job.host, "ado">>, sub |-> <<"sc", job.project>>,
   aud |-> {"exchange"}, nbf |-> t, exp |-> t + Lifetime]

(* An assertion of another issuer, with no time and no audience in it. *)
Bare == [iss |-> <<"other">>, sub |-> <<"other">>, aud |-> {}]

Assertions == {OidcToken(job, t) : job \in Jobs, t \in 0..now} \cup {Bare}

AssertionTemporallyValid(claims) ==
  /\ "exp" \in DOMAIN claims => now <= claims.exp
  /\ "nbf" \in DOMAIN claims => now >= claims.nbf

(* What is asked of an exchange before the store is. *)
Acceptable(client, claims) ==
  client # "" /\ AssertionTemporallyValid(claims) /\ claims.aud # {}

(* Mutant of CredentialMatches: the audiences are not compared. *)
CredentialMatchesAny(trust, claims) ==
  trust.issuer = claims.iss /\ trust.subject = claims.sub

(* Mutant of CredentialMatches: all its audiences are asked for. *)
CredentialMatchesAll(trust, claims) ==
  /\ trust.issuer = claims.iss /\ trust.subject = claims.sub
  /\ trust.audiences \subseteq claims.aud

CredentialMatches(trust, claims) ==
  /\ trust.issuer = claims.iss /\ trust.subject = claims.sub
  /\ trust.audiences \cap claims.aud # {}

Stored(s, S) == {id \in S : Has(s, id)}

Bearers(s, client) == {i \in Stored(s, Identities) : s[i].clientId = client}

(* Whom an exchange may name, by the store as it is at one moment. *)
Trusting(trust, claims) ==
  trust.issuer = claims.iss /\ trust.subject = claims.sub
    /\ trust.audiences \cap claims.aud # {}

Grantable(s, r) ==
  {i \in Bearers(s, r.client) :
     \E c \in Stored(s, Credentials) : Parent(c) = i /\ Trusting(s[c], r.claims)}

-----------------------------------------------------------------------------
TokenInit ==
  /\ resources = NewMemoryStore
  /\ now = 0
  /\ pc = [p \in Procs |-> "idle"]
  /\ req = [p \in Procs |-> NoRequest]
  /\ held = [p \in Procs |-> NoResource]
  /\ candidates = [p \in Procs |-> {}]
  /\ status = [p \in Procs |-> "none"]
  /\ issued = [p \in Procs |-> NoToken]
  /\ raced = [p \in Procs |-> FALSE]
  /\ strays = {}
  /\ granted = [p \in Procs |-> {}]
  /\ denied = [p \in Procs |-> FALSE]
  /\ shared = [p \in Procs |-> FALSE]
  /\ moved = [p \in Procs |-> FALSE]

Silent ==
  /\ status' = [p \in Procs |-> "none"]
  /\ issued' = [p \in Procs |-> NoToken]

Goto(p, step) ==
  /\ pc' = [pc EXCEPT ![p] = step]
  /\ Silent

Finish(p, code, token) ==
  /\ pc' = [pc EXCEPT ![p] = "idle"]
  /\ req' = [req EXCEPT ![p] = NoRequest]
  /\ held' = [held EXCEPT ![p] = NoResource]
  /\ candidates' = [candidates EXCEPT ![p] = {}]
  /\ status' = [q \in Procs |-> IF q = p THEN code ELSE "none"]
  /\ issued' = [q \in Procs |-> IF q = p THEN token ELSE NoToken]

Answer(p, code) == Finish(p, code, NoToken)

Take(p, r, step) ==
  /\ pc[p] = "idle"
  /\ req' = [req EXCEPT ![p] = r]
  /\ Goto(p, step)
  /\ UNCHANGED <<resources, now, progress>>

(* The history of a step that stores and removes these ids. *)
Note(p, stored, removed) ==
  LET exchanging(q) == pc'[q] # "idle" /\ req'[q].op = "exchange"
      grantable == [q \in Procs |->
                        IF exchanging(q) THEN Grantable(resources', req'[q]) ELSE {}]
      renamed(q) == \E i \in candidates'[q] : Has(resources', i.id)
                      /\ resources'[i.id].clientId # req'[q].client
  IN
    /\ raced' = [q \in Procs |-> pc'[q] # "idle" /\ req'[q].op = "put" /\
                   (raced[q] \/ (q # p /\ req[q].id \in removed))]
    /\ strays' = (strays \ (stored \cup removed))
                   \cup IF raced[p] THEN stored ELSE {}
    /\ granted' = [q \in Procs |-> IF exchanging(q)
                     THEN granted[q] \cup grantable[q] ELSE {}]
    /\ denied' = [q \in Procs |-> exchanging(q) /\
                    (denied[q] \/ grantable[q] = {})]
    /\ shared' = [q \in Procs |-> exchanging(q) /\
                    (shared[q] \/ \E i, j \in Bearers(resources', req'[q].client) : i # j)]
    /\ moved' = [q \in Procs |-> exchanging(q) /\ (moved[q] \/ renamed(q))]

NoteNothing(p) == Note(p, {}, {})

-----------------------------------------------------------------------------
(* Identities and credentials. *)

ReceivePut(p) ==
  /\ \E c \in Credentials : \E t \in Trusts[c] :
       Take(p, [op |-> "put", id |-> c, trust |-> t], "parent")
  /\ NoteNothing(p)

ReceivePatch(p) ==
  /\ \E i \in Identities : \E e \in Edits[i] :
       Take(p, [op |-> "patch", id |-> i, edit |-> e], "read")
  /\ NoteNothing(p)

(* Mutant of CheckIdentity: the credential is taken without its identity. *)
CheckIdentityNot(p) ==
  /\ pc[p] = "parent"
  /\ Goto(p, "store") /\ UNCHANGED <<req, progress>>
  /\ UNCHANGED <<resources, now>>
  /\ NoteNothing(p)

CheckIdentity(p) ==
  /\ pc[p] = "parent"
  /\ IF Has(resources, Parent(req[p].id))
     THEN Goto(p, "store") /\ UNCHANGED <<req, progress>>
     ELSE Answer(p, "404")
  /\ UNCHANGED <<resources, now>>
  /\ NoteNothing(p)

(* A body that does not decode, or a credential with no issuer, subject or *)
(* audience, or with an empty one.                                         *)
Refuse(p) ==
  /\ pc[p] \in {"store", "merge"}
  /\ Answer(p, "400")
  /\ UNCHANGED <<resources, now>>
  /\ NoteNothing(p)

(* The Put; the Get before it chooses between 200 and 201 alone, and a     *)
(* file store may report an error for a change that stands.                *)
PutAnswered(p, id, body) ==
  /\ resources' = Put(resources, id, body)
  /\ Answer(p, "stored") \/ Answer(p, "500")
  /\ UNCHANGED now
  /\ Note(p, {id}, {})

PutIdentity(p) ==
  /\ pc[p] = "idle"
  /\ \E i \in Identities : PutAnswered(p, i, StoredIdentity(i))

StoreCredential(p) ==
  /\ pc[p] = "store"
  /\ PutAnswered(p, req[p].id, req[p].trust)

ReadIdentity(p) ==
  /\ pc[p] = "read"
  /\ IF Has(resources, req[p].id)
     THEN /\ Goto(p, "merge")
          /\ held' = [held EXCEPT ![p] = resources[req[p].id]]
          /\ UNCHANGED <<req, candidates>>
     ELSE Answer(p, "404")
  /\ UNCHANGED <<resources, now>>
  /\ NoteNothing(p)

(* Mutant of PatchIdentity: what is sent replaces what is stored. *)
PatchIdentitySent(p) ==
  /\ pc[p] = "merge"
  /\ PutAnswered(p, req[p].id, req[p].edit)

(* No finalise hook: the client id and the principal id are merged like    *)
(* any other property.                                                     *)
PatchIdentity(p) ==
  /\ pc[p] = "merge"
  /\ PutAnswered(p, req[p].id, req[p].edit @@ held[p])

DeleteResource(p) ==
  /\ pc[p] = "idle"
  /\ \E id \in Ids :
       /\ resources' = Delete(resources, id)
       /\ Answer(p, IF Deleted(resources, id) THEN "200" ELSE "404")
       /\ UNCHANGED now
       /\ Note(p, {}, Covered(id))

-----------------------------------------------------------------------------
(* Tokens. *)

(* A client secret, or no credential at all: any is accepted. *)
MintAppToken(p) ==
  /\ pc[p] = "idle"
  /\ Finish(p, "200", MockApp)
  /\ UNCHANGED <<resources, now>>
  /\ NoteNothing(p)

(* The metadata service wants a header and an api-version, and no more. *)
MintIdentityToken(p) ==
  /\ pc[p] = "idle"
  /\ Finish(p, "200", MockIdentity) \/ Answer(p, "400")
  /\ UNCHANGED <<resources, now>>
  /\ NoteNothing(p)

ReceiveExchange(p) ==
  /\ \E client \in Clients, claims \in Assertions :
       /\ Acceptable(client, claims)
       /\ Take(p, [op |-> "exchange", client |-> client, claims |-> claims], "identities")
  /\ NoteNothing(p)

RefuseExchange(p) ==
  /\ pc[p] = "idle"
  /\ \E client \in Clients, claims \in Assertions : ~Acceptable(client, claims)
  /\ Answer(p, "400")
  /\ UNCHANGED <<resources, now>>
  /\ NoteNothing(p)

ListIdentities(p) ==
  /\ pc[p] = "identities"
  /\ candidates' = [candidates EXCEPT ![p] =
       {[id |-> i, oid |-> resources[i].principalId] :
          i \in Bearers(resources, req[p].client)}]
  /\ Goto(p, "credentials")
  /\ UNCHANGED <<resources, now, req, held>>
  /\ NoteNothing(p)

(* The candidates come in the order of a Go map. *)
TryIdentity(p) ==
  /\ pc[p] = "credentials"
  /\ \E i \in candidates[p] :
       IF \E c \in ListBelow(resources, i.id) :
            CredentialMatches(resources[c], req[p].claims)
       THEN Finish(p, "200", [mirid |-> i.id, oid |-> i.oid])
       ELSE /\ candidates' = [candidates EXCEPT ![p] = @ \ {i}]
            /\ Goto(p, "credentials")
            /\ UNCHANGED <<req, held>>
  /\ UNCHANGED <<resources, now>>
  /\ NoteNothing(p)

NoMatch(p) ==
  /\ pc[p] = "credentials"
  /\ candidates[p] = {}
  /\ Answer(p, "invalid_grant")
  /\ UNCHANGED <<resources, now>>
  /\ NoteNothing(p)

Tick ==
  /\ now < MaxTime
  /\ now' = now + 1
  /\ Silent
  /\ UNCHANGED <<resources, pc, req, progress, raced, strays, exchange>>

TokenNext ==
  \/ Tick
  \/ \E p \in Procs :
       \/ PutIdentity(p) \/ DeleteResource(p)
       \/ ReceivePut(p) \/ CheckIdentity(p) \/ Refuse(p) \/ StoreCredential(p)
       \/ ReceivePatch(p) \/ ReadIdentity(p) \/ PatchIdentity(p)
       \/ MintAppToken(p) \/ MintIdentityToken(p)
       \/ ReceiveExchange(p) \/ RefuseExchange(p)
       \/ ListIdentities(p) \/ TryIdentity(p) \/ NoMatch(p)

-----------------------------------------------------------------------------
TokenTypeOK ==
  /\ resources \in Stores
  /\ now \in 0..MaxTime
  /\ \A p \in Procs :
       /\ pc[p] \in {"idle", "parent", "store", "read", "merge",
                     "identities", "credentials"}
       /\ held[p] \in Bodies \cup {NoResource}
       /\ candidates[p] \subseteq
            [id : Identities, oid : {b.principalId : b \in IdentityBodies}]
       /\ status[p] \in {"none", "stored", "200", "400", "404", "500", "invalid_grant"}
       /\ granted[p] \subseteq Identities
  /\ strays \subseteq Credentials

(* A token that names an identity was granted by a credential of it: at    *)
(* some moment of the exchange the identity had the client id and such a   *)
(* credential.  There are two ways out of it.  The credential is a stray,  *)
(* stored by a PUT that a DELETE of the identity overtook; or a PATCH      *)
(* changed the client id between the two Lists.                            *)
TokensWereGranted ==
  [][\A p \in Procs :
       req[p].op = "exchange" /\ status'[p] = "200" =>
         \/ issued'[p].mirid \in granted[p]
         \/ \E c \in strays : Parent(c) = issued'[p].mirid
         \/ moved[p]]_tokenVars

(* An exchange is refused only if at some moment of it no identity with    *)
(* the client id had a fitting credential, or if two identities shared the *)
(* client id, which takes a PATCH: then the walk may miss both.            *)
RefusalsWereRight ==
  [][\A p \in Procs :
       status'[p] = "invalid_grant" => denied[p] \/ shared[p]]_tokenVars
=============================================================================
