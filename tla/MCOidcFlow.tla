----------------------------- MODULE MCOidcFlow -----------------------------
(* An instance of OidcFlow for TLC: two identities with a credential each, *)
(* one service connection and one pipeline run.                            *)
EXTENDS OidcFlow

One == <<"one">>
Two == <<"two">>

MCIdentities == {One, Two}
MCCredentials == {<<"one", "fic">>, <<"two", "fic">>}
MCIds == MCIdentities \cup MCCredentials
MCSegments == {"one", "two", "fic"}
MCClientOf == (One :> "c1") @@ (Two :> "c2")
MCPrincipalOf == (One :> "p1") @@ (Two :> "p2")

Job == [host |-> "ado", project |-> "project"]
MCJobs == {Job}
Token == OidcToken(Job, 0)
Trust(audiences) == [issuer |-> Token.iss, subject |-> Token.sub, audiences |-> audiences]
Both == Trust({"exchange", "other"})
Elsewhere == Trust({"other"})
MCTrusts == (<<"one", "fic">> :> {Both}) @@ (<<"two", "fic">> :> {Both, Elsewhere})
MCEdits == (One :> {}) @@ (Two :> {[clientId |-> "c1"]})
MCBodies == {StoredIdentity(One), StoredIdentity(Two), [clientId |-> "c1"] @@ StoredIdentity(Two)}
              \cup {Both, Elsewhere}

NoRuns == runs = <<>>
NoEndpoints == \A c \in Callers : update[c] = NoUpdate
                 /\ \A e \in EndpointIds : endpoints[e] = NoEndpoint

(* The services, and the runs and the endpoints, share no state: each of   *)
(* them alone shows all it can do.                                         *)
OneService ==
  \/ second = 0 /\ NoRuns /\ NoEndpoints
  \/ resources = NewMemoryStore /\ now = 0 /\ (\A p \in Procs : pc[p] = "idle")
       /\ (NoRuns \/ NoEndpoints)

(* Exchanges write nothing: one at a time sees all there is to see.  A     *)
(* request of one step needs a third process that is idle.                 *)
TwoBusy ==
  /\ Cardinality({p \in Procs : pc[p] # "idle"}) <= 2
  /\ Cardinality({p \in Procs : req[p].op = "exchange"}) <= 1

(* The clock matters to the first step of an exchange alone. *)
LateQuiet == now > 0 => \A p \in Procs : pc[p] = "idle"

(* No step depends on the answers of the one before. *)
WithoutAnswers ==
  <<resources, now, pc, req, progress, raced, strays, exchange, devOpsVars>>

Alike == Permutations(Procs)
=============================================================================
