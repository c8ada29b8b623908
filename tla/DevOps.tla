------------------------------- MODULE DevOps -------------------------------
(***************************************************************************)
(* The Azure DevOps emulation: service connections                         *)
(* (internal/ado/serviceconnection.go), whose update checks under one lock *)
(* and stores under another, and pipeline runs (pipeline.go), whose status *)
(* is a function of their age.                                             *)
(***************************************************************************)
EXTENDS Naturals, Sequences

CONSTANTS Callers,    \* the clients, each with one request at a time
          EndpointIds,
          Endpoints,  \* what an endpoint holds, as far as it is told apart
          NoEndpoint,
          Projects,
          MaxRuns,    \* how many runs are queued
          MaxSecond   \* how far the clock goes

ASSUME DevOpsAssumption ==
  /\ NoEndpoint \notin Endpoints /\ "none" \notin EndpointIds
  /\ MaxRuns \in Nat /\ MaxSecond \in Nat

VARIABLES
  endpoints, \* the map of service endpoints
  runs,      \* the pipeline runs, in the order of their ids
  second,    \* the clock
  update,    \* the update that a client's request is in the middle of
  lookup,    \* the build that a client's request has looked up
  overtaken, \* history: the endpoint under update has been deleted
  told       \* history: the latest phase of each run that a client was told

devOpsVars == <<endpoints, runs, second, update, lookup, overtaken, told>>

NoUpdate == [id |-> "none"]
NoLookup == [run |-> 0, age |-> 0, known |-> 0]

(* Mutant of StatusFor: the first two phases are swapped. *)
StatusForSwapped(age) == IF age < 2 THEN 2 ELSE IF age < 5 THEN 1 ELSE 3

(* "notStarted", "inProgress" and "completed", in that order. *)
StatusFor(age) == IF age < 2 THEN 1 ELSE IF age < 5 THEN 2 ELSE 3

Latest(one, other) == IF one > other THEN one ELSE other

DevOpsInit ==
  /\ endpoints = [e \in EndpointIds |-> NoEndpoint]
  /\ runs = <<>>
  /\ second = 0
  /\ update = [c \in Callers |-> NoUpdate]
  /\ lookup = [c \in Callers |-> NoLookup]
  /\ overtaken = [c \in Callers |-> FALSE]
  /\ told = [r \in 1..MaxRuns |-> 0]

Idle(c) == update[c] = NoUpdate /\ lookup[c] = NoLookup

-----------------------------------------------------------------------------
(* Service connections. *)

(* The id is the client's or new; an endpoint that has it is replaced. *)
CreateEndpoint(c) ==
  /\ Idle(c)
  /\ \E e \in EndpointIds, body \in Endpoints :
       endpoints' = [endpoints EXCEPT ![e] = body]
  /\ UNCHANGED <<runs, second, update, lookup, overtaken, told>>

(* Mutant of CheckEndpoint: an update creates what it does not find. *)
CheckEndpointNot(c) ==
  /\ Idle(c)
  /\ \E e \in EndpointIds, body \in Endpoints :
       update' = [update EXCEPT ![c] = [id |-> e, body |-> body]]
  /\ UNCHANGED <<endpoints, runs, second, lookup, overtaken, told>>

(* updateEndpoint, as far as its read lock: others are answered 404. *)
CheckEndpoint(c) ==
  /\ Idle(c)
  /\ \E e \in EndpointIds, body \in Endpoints :
       /\ endpoints[e] # NoEndpoint
       /\ update' = [update EXCEPT ![c] = [id |-> e, body |-> body]]
  /\ UNCHANGED <<endpoints, runs, second, lookup, overtaken, told>>

StopUpdate(c) ==
  /\ update' = [update EXCEPT ![c] = NoUpdate]
  /\ overtaken' = [overtaken EXCEPT ![c] = FALSE]
  /\ UNCHANGED <<runs, second, lookup, told>>

(* A body that does not decode. *)
RefuseUpdate(c) ==
  /\ update[c] # NoUpdate
  /\ StopUpdate(c)
  /\ UNCHANGED endpoints

StoreEndpoint(c) ==
  /\ update[c] # NoUpdate
  /\ endpoints' = [endpoints EXCEPT ![update[c].id] = update[c].body]
  /\ StopUpdate(c)

DeleteEndpoint(c) ==
  /\ Idle(c)
  /\ \E e \in EndpointIds :
       /\ endpoints[e] # NoEndpoint
       /\ endpoints' = [endpoints EXCEPT ![e] = NoEndpoint]
       /\ overtaken' = [d \in Callers |-> overtaken[d] \/ update[d].id = e]
  /\ UNCHANGED <<runs, second, update, lookup, told>>

-----------------------------------------------------------------------------
(* Pipeline runs. *)

QueueRun(c) ==
  /\ Idle(c)
  /\ Len(runs) < MaxRuns
  /\ \E project \in Projects :
       runs' = Append(runs, [project |-> project, created |-> second])
  /\ UNCHANGED <<endpoints, second, update, lookup, overtaken, told>>

(* The run and the clock are read under one lock.  Runs of other projects  *)
(* are answered like runs that do not exist.                               *)
LookupBuild(c) ==
  /\ Idle(c)
  /\ \E id \in 1..Len(runs), project \in Projects :
       /\ runs[id].project = project
       /\ lookup' = [lookup EXCEPT ![c] =
                       [run |-> id, age |-> second - runs[id].created,
                        known |-> told[id]]]
  /\ UNCHANGED <<endpoints, runs, second, update, overtaken, told>>

ReportBuild(c) ==
  /\ lookup[c] # NoLookup
  /\ told' = [told EXCEPT ![lookup[c].run] = Latest(@, StatusFor(lookup[c].age))]
  /\ lookup' = [lookup EXCEPT ![c] = NoLookup]
  /\ UNCHANGED <<endpoints, runs, second, update, overtaken>>

PassSecond ==
  /\ second < MaxSecond
  /\ second' = second + 1
  /\ UNCHANGED <<endpoints, runs, update, lookup, overtaken, told>>

DevOpsNext ==
  \/ PassSecond
  \/ \E c \in Callers :
       \/ CreateEndpoint(c) \/ CheckEndpoint(c) \/ RefuseUpdate(c)
       \/ StoreEndpoint(c) \/ DeleteEndpoint(c)
       \/ QueueRun(c) \/ LookupBuild(c) \/ ReportBuild(c)

-----------------------------------------------------------------------------
DevOpsTypeOK ==
  /\ endpoints \in [EndpointIds -> Endpoints \cup {NoEndpoint}]
  /\ runs \in Seq([project : Projects, created : 0..second])
  /\ Len(runs) <= MaxRuns
  /\ told \in [1..MaxRuns -> 0..3]
  /\ \A c \in Callers :
       /\ update[c] # NoUpdate => update[c].id \in EndpointIds
       /\ lookup[c].run \in 0..Len(runs)
       /\ overtaken[c] => update[c] # NoUpdate

(* An update creates no endpoint, but it brings back one that was deleted  *)
(* between its two locks, and that one alone.                              *)
EndpointsStayDeleted ==
  [][\A e \in EndpointIds :
       (\E c \in Callers : update[c].id = e /\ update'[c] = NoUpdate)
         /\ endpoints[e] = NoEndpoint /\ endpoints'[e] # NoEndpoint =>
       \E c \in Callers : update[c].id = e /\ overtaken[c]]_devOpsVars

(* Whoever asks of a build after somebody was told a phase of it is not     *)
(* told an earlier one.                                                    *)
BuildsProgress ==
  [][\A c \in Callers :
       lookup[c] # NoLookup /\ lookup'[c] = NoLookup =>
         StatusFor(lookup[c].age) >= lookup[c].known]_devOpsVars
=============================================================================
