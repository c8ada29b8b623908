--------------------------- MODULE ContentRouting ---------------------------
(***************************************************************************)
(* CDN and Front Door: the handlers that write the resources (cdn.go,      *)
(* cdn_frontdoor.go) and the data planes that answer content requests from *)
(* them (cdn_dataplane.go, cdn_frontdoor_dataplane.go), with what stands   *)
(* before either: the host mux of serve.go and, on the ARM side, the       *)
(* normalisation of paths and the check of the API version.                *)
(*                                                                         *)
(* A Front Door request is a walk of three Lists, endpoint, routes and     *)
(* origins, and no lock is held over it: writes land between its steps.    *)
(* Ids carry their literal segments in lower case.                         *)
(***************************************************************************)
EXTENDS MemoryStore

CONSTANTS Procs,       \* the requests being served at one time
          Paths,       \* the raw paths of ARM requests, as segments
          Sent,        \* id -> the properties that a PUT of it may carry
          Edits,       \* id -> the properties that a PATCH of it may carry
          HostHeaders, \* the Host headers of content requests
          BlobPaths,   \* the decoded paths of content requests, as segments
          Lower,       \* a segment in lower case
          Rank,        \* the order of the ids as strings
          Loaded,      \* the stores a server may start with
          OriginHosts, \* the hosts that origins may be given
          GroupRefs,   \* the origin groups that routes name, as clients spell them
          MaxChanges   \* how many requests to change resources are received

CDNSuffix == "azureedge.net"
AFDSuffix == "azurefd.net"

Fold(id) == [i \in DOMAIN id |-> Lower[id[i]]]

Kind(id) == CASE Len(id) = 1 -> "profiles"
              [] Len(id) = 3 -> id[2]
              [] Len(id) = 5 -> id[4]

Parent(id) == SubSeq(id, 1, Len(id) - 2)

OfKind(S, kind) == {id \in S : Kind(id) = kind}

(* The shapes of the paths that the router knows. *)
ASSUME PathAssumption ==
  /\ IsFiniteSet(Ids)
  /\ \A id \in Ids :
       \/ Len(id) = 1
       \/ Len(id) = 3 /\ id[2] \in {"endpoints", "afdendpoints", "origingroups"}
       \/ Len(id) = 5 /\ <<id[2], id[4]>> \in {<<"afdendpoints", "routes">>,
                                               <<"origingroups", "origins">>}
  /\ \A id \in Ids : Len(id) > 1 => Parent(id) \in Ids

ASSUME NameAssumption ==
  /\ Lower \in [Segments -> Segments]
  /\ \A s \in Segments : Lower[Lower[s]] = Lower[s]
  /\ Rank \in [Ids -> Nat]
  /\ \A a, b \in Ids : Rank[a] = Rank[b] => a = b
  /\ HostHeaders \subseteq [name : Segments, suffix : STRING]
  /\ MaxChanges \in Nat

VARIABLES
  resources, \* the store
  pc,        \* the next step of each request
  req,       \* the request being served
  held,      \* what the request has read and will use
  status,    \* the answer that the last step gave, if it gave one
  changes,   \* how many requests to change resources were received
  landed,    \* history: writes since a content request came in, up to two
  cut,       \* history: a DELETE took something away meanwhile
  parted,    \* history: a DELETE took a route and part of a group's origins
  right,     \* history: the answers that were right meanwhile
  last       \* history: what a host was answered since the last write

history == <<landed, cut, parted, right, last>>
vars == <<resources, pc, req, held, status, changes, history>>

Hosts == {[h EXCEPT !.name = Lower[h.name]] : h \in HostHeaders}

NoRequest == [op |-> "none"]
NoAccount == "none"
NoHost == [label |-> "none", service |-> "none"]

-----------------------------------------------------------------------------
(* What stands before the handlers. *)

(* canonicalLiteralSegments, of the segments that these paths are made of. *)
(* "Only the camelCase ones belong here": routes and origins are not.      *)
Literals == {"profiles", "endpoints", "afdendpoints", "origingroups"}

Normalize(path) ==
  LET collapsed == SelectSeq(path, LAMBDA s : s # "")
  IN  [i \in DOMAIN collapsed |->
         IF Lower[collapsed[i]] \in Literals THEN Lower[collapsed[i]]
                                             ELSE collapsed[i]]

(* The endpoint that a Host header names below a suffix. *)
NameFromHost(host) == Lower[host.name]

IsCDNContentHost(host) == host.suffix = CDNSuffix
IsAFDContentHost(host) == host.suffix = AFDSuffix

(* Of DNS names, case does not count. *)
SameHost(a, b) == a.suffix = b.suffix /\ Lower[a.name] = Lower[b.name]

-----------------------------------------------------------------------------
(* What a handler stores for what it was sent. *)

(* Properties laid over others. *)
Merged(sent, old) ==
  [k \in DOMAIN sent \cup DOMAIN old |-> IF k \in DOMAIN sent THEN sent[k] ELSE old[k]]

StoredCDNEndpoint(id, props) ==
  Merged([hostName |-> [name |-> id[3], suffix |-> CDNSuffix]], props)

AFDGeneratedHostName(name) == [name |-> Lower[name], suffix |-> AFDSuffix]

StoredAFDEndpoint(id, props) ==
  Merged([hostName |-> AFDGeneratedHostName(id[3])], props)

StoredAFDChild(id, props) == props

Stored(id, props) ==
  CASE Kind(id) = "profiles" -> props
    [] Kind(id) = "endpoints" -> StoredCDNEndpoint(id, props)
    [] Kind(id) = "afdendpoints" -> StoredAFDEndpoint(id, props)
    [] OTHER -> StoredAFDChild(id, props)

(* Mutant of Patched: without the finalise hook of the endpoint, a client  *)
(* repoints its host.                                                      *)
PatchedAsSent(id, old, props) == Merged(props, old)

(* "a client must not be able to repoint it": finalise after the merge. *)
Patched(id, old, props) ==
  IF Kind(id) = "afdendpoints" THEN StoredAFDEndpoint(id, Merged(props, old))
                               ELSE Merged(props, old)

Prop(props, key, default) == IF key \in DOMAIN props THEN props[key] ELSE default

Priority(props) == Prop(props, "priority", 1)
Weight(props) == Prop(props, "weight", 1000)

(* What a body may hold, by the kind of its resource. *)
Carries(id, props) ==
  /\ Kind(id) = "endpoints" =>
       /\ Prop(props, "originHostHeader", NoHost) \in OriginHosts \cup {NoHost}
       /\ Prop(props, "origins", <<>>) \in Seq(OriginHosts \cup {NoHost})
  /\ Kind(id) = "routes" =>
       ("originGroup" \in DOMAIN props => props.originGroup \in GroupRefs)
  /\ Kind(id) = "origins" =>
       /\ Prop(props, "hostName", NoHost) \in OriginHosts \cup {NoHost}
       /\ Priority(props) \in Nat
       /\ Weight(props) \in Nat

(* The host that an endpoint is stored with is the one of its name. *)
HasItsHost(id, body) ==
  /\ Kind(id) = "endpoints" => body.hostName = [name |-> id[3], suffix |-> CDNSuffix]
  /\ Kind(id) = "afdendpoints" => body.hostName = AFDGeneratedHostName(id[3])

(* Clients send what Carries allows; the stores a server starts with were  *)
(* written by it; no account has the name of another answer.               *)
ASSUME BodyAssumption ==
  /\ \A id \in Ids :
       /\ \A props \in Sent[id] : Carries(id, props) /\ Stored(id, props) \in Bodies
       /\ \A props \in Edits[id], body \in Bodies :
            Carries(id, props) /\ Patched(id, body, props) \in Bodies
  /\ Loaded \subseteq Stores
  /\ \A s \in Loaded, id \in Ids :
       Has(s, id) => Carries(id, s[id]) /\ HasItsHost(id, s[id])
  /\ \A h \in OriginHosts :
       h.label \notin {"none", "stored", "202", "400", "405", "500", "unreachable"}

-----------------------------------------------------------------------------
(* Pure steps of the data planes, on what a List returned. *)

BlobAccountFromHost(host) ==
  IF host.service = "blob" THEN host.label ELSE NoAccount

(* An explicit originHostHeader, or the first origin that has a host. *)
CDNOriginHost(props) ==
  LET header == Prop(props, "originHostHeader", NoHost)
      origins == Prop(props, "origins", <<>>)
      given == {i \in DOMAIN origins : origins[i] # NoHost}
  IN  IF header # NoHost THEN header
      ELSE IF given = {} THEN NoHost
      ELSE origins[CHOOSE i \in given : \A j \in given : i <= j]

CDNOriginAccount(props) == BlobAccountFromHost(CDNOriginHost(props))

Stocked(s, kind) == {id \in OfKind(Ids, kind) : Has(s, id)}

(* The endpoints that a scan of the Go map may come across first. *)
FindCDNEndpoint(s, name) ==
  {e \in Stocked(s, "endpoints") : e[3] = name}

FirstOf(S) == {e \in S : \A f \in S : Rank[e] <= Rank[f]}

(* Mutant of FindAFDEndpoint: the first match in map order is taken. *)
FindAnyAFDEndpoint(s, name) ==
  {e \in Stocked(s, "afdendpoints") : Lower[e[3]] = Lower[name]}

FindAFDEndpoint(s, name) ==
  FirstOf({e \in Stocked(s, "afdendpoints") : Lower[e[3]] = Lower[name]})

(* Mutant of RouteOriginGroup: the route's own id is followed. *)
RouteItself(s, endpoint) ==
  {r \in ListBelow(s, endpoint) : Kind(r) = "routes"}

(* The group that the first route with one refers to, the routes sorted by *)
(* name; the routes of one endpoint differ in nothing else.                *)
RouteOriginGroup(s, endpoint) ==
  LET routes == {r \in ListBelow(s, endpoint) :
                   Kind(r) = "routes" /\ "originGroup" \in DOMAIN s[r]}
  IN  {s[r].originGroup : r \in FirstOf(routes)}

(* Mutant of Ahead: a greater weight wins over a better priority. *)
AheadByEither(a, b) ==
  \/ Priority(a) < Priority(b)
  \/ Weight(a) > Weight(b)

Ahead(a, b) ==
  \/ Priority(a) < Priority(b)
  \/ Priority(a) = Priority(b) /\ Weight(a) > Weight(b)

(* The loop of preferredOrigin over the origins in one order. *)
Scanned(s, order) ==
  LET best[i \in 1..Len(order)] ==
        IF i = 1 THEN order[1]
        ELSE IF Ahead(s[order[i]], s[best[i - 1]]) THEN order[i] ELSE best[i - 1]
  IN  best[Len(order)]

(* The prefix test compares in lower case, so that two groups whose names  *)
(* differ in case alone are one; List returns the origins in any order.    *)
PreferredOrigin(s, group) ==
  LET origins == {o \in Stocked(s, "origins") : Fold(Parent(o)) = Fold(group)}
  IN  IF origins = {} THEN {}
      ELSE {Scanned(s, order) : order \in SetToSeqs(origins)}

-----------------------------------------------------------------------------
(* What a host should be answered, stated without the order of any step:   *)
(* the accounts, or "404", or "502" when no Blob account can be found.     *)

Advertising(s, host) ==
  {e \in Stocked(s, "endpoints") \cup Stocked(s, "afdendpoints") :
     SameHost(s[e].hostName, host)}

(* A classic CDN endpoint answers at its host unless its name has a letter *)
(* in upper case: findCDNEndpoint compares with the lowered name exactly.  *)
Answering(s, host) ==
  {e \in Advertising(s, host) : Kind(e) = "endpoints" => Lower[e[3]] = e[3]}

Foremost(s, S) ==
  {o \in S : \A q \in S :
     /\ Priority(s[o]) <= Priority(s[q])
     /\ Priority(s[o]) = Priority(s[q]) => Weight(s[o]) >= Weight(s[q])}

Routed(s, e) ==
  {r \in Stocked(s, "routes") : Parent(r) = e /\ "originGroup" \in DOMAIN s[r]}

Origins(s, e) ==
  Foremost(s, {o \in Stocked(s, "origins") :
                 \E r \in FirstOf(Routed(s, e)) :
                   Fold(Parent(o)) = Fold(s[r].originGroup)})

Code(account) == IF account = NoAccount THEN "502" ELSE account

RightAnswers(s, host) ==
  IF Answering(s, host) = {} THEN {"404"}
  ELSE IF IsCDNContentHost(host)
       THEN {Code(CDNOriginAccount(s[e])) : e \in Answering(s, host)}
       ELSE LET origins == UNION {Origins(s, e) : e \in FirstOf(Answering(s, host))}
            IN  IF origins = {} THEN {"502"}
                ELSE {Code(BlobAccountFromHost(
                        Prop(s[o], "hostName", NoHost))) : o \in origins}

-----------------------------------------------------------------------------
Init ==
  /\ resources \in Loaded
  /\ pc = [p \in Procs |-> "idle"]
  /\ req = [p \in Procs |-> NoRequest]
  /\ held = [p \in Procs |-> NoResource]
  /\ status = [p \in Procs |-> "none"]
  /\ changes = 0
  /\ landed = [p \in Procs |-> 0]
  /\ cut = [p \in Procs |-> FALSE]
  /\ parted = [p \in Procs |-> FALSE]
  /\ right = [p \in Procs |-> {}]
  /\ last = [h \in Hosts |-> "none"]

Goto(p, step) ==
  /\ pc' = [pc EXCEPT ![p] = step]
  /\ status' = [q \in Procs |-> "none"]

Answer(p, code) ==
  /\ pc' = [pc EXCEPT ![p] = "idle"]
  /\ req' = [req EXCEPT ![p] = NoRequest]
  /\ held' = [held EXCEPT ![p] = NoResource]
  /\ status' = [q \in Procs |-> IF q = p THEN code ELSE "none"]

Take(p, r, step) ==
  /\ pc[p] = "idle"
  /\ req' = [req EXCEPT ![p] = r]
  /\ Goto(p, step)

(* The first store call of a PUT: a child looks for its parent. *)
FirstCall(id) ==
  CASE Kind(id) = "profiles" -> "store"
    [] Kind(id) \in {"endpoints", "afdendpoints", "origingroups"} -> "profile"
    [] Kind(id) = "origins" -> "group"
    [] Kind(id) = "routes" -> "endpoint"

Change(p, r, step) ==
  /\ changes < MaxChanges
  /\ changes' = changes + 1
  /\ Take(p, r, step)

ReceiveARM(p) ==
  /\ \E path \in Paths :
       LET id == Normalize(path) IN
         /\ id \in Ids
         /\ \/ \E props \in Sent[id] :
                 Change(p, [op |-> "put", id |-> id, props |-> props], FirstCall(id))
            \/ \E props \in Edits[id] :
                 /\ Kind(id) # "endpoints"
                 /\ Change(p, [op |-> "patch", id |-> id, props |-> props], "read")
            \/ Change(p, [op |-> "delete", id |-> id], "delete")
  /\ UNCHANGED <<resources, held>>

(* A path that is no resource's, and a request without an api-version. *)
Reject(p) ==
  /\ pc[p] = "idle"
  /\ \E code \in {IF Normalize(path) \in Ids THEN "400" ELSE "404" : path \in Paths} :
       Answer(p, code)
  /\ UNCHANGED <<resources, changes>>

(* cdnHostMux: content hosts are served before anything else looks at the  *)
(* request.  Methods other than GET and HEAD are refused.                  *)
ReceiveContent(p) ==
  /\ \E host \in HostHeaders :
       /\ IsCDNContentHost(host) \/ IsAFDContentHost(host)
       /\ Take(p, [op |-> "content", host |-> host], "find")
  /\ UNCHANGED <<resources, held, changes>>

RefuseMethod(p) ==
  /\ pc[p] = "idle"
  /\ Answer(p, "405")
  /\ UNCHANGED <<resources, changes>>

-----------------------------------------------------------------------------
(* The ARM handlers. *)

CheckParent(p) ==
  /\ IF Has(resources, Parent(req[p].id))
     THEN Goto(p, "store") /\ UNCHANGED <<req, held>>
     ELSE Answer(p, "404")
  /\ UNCHANGED <<resources, changes>>

CheckProfile(p) == pc[p] = "profile" /\ CheckParent(p)
CheckOriginGroup(p) == pc[p] = "group" /\ CheckParent(p)
CheckAFDEndpoint(p) == pc[p] = "endpoint" /\ CheckParent(p)

(* A body that does not decode, or has no location where one is required:  *)
(* found after the look at the parent, and by a PATCH after its Get.       *)
Refuse(p) ==
  /\ pc[p] \in {"store", "merge"}
  /\ Answer(p, "400")
  /\ UNCHANGED <<resources, changes>>

(* The Put.  The Get before it serves the choice of 200 or 201 alone, and  *)
(* a file store may report an error for a change that stands.              *)
StoreUpsert(p) ==
  /\ pc[p] = "store"
  /\ resources' = Put(resources, req[p].id, Stored(req[p].id, req[p].props))
  /\ Answer(p, "stored") \/ Answer(p, "500")
  /\ UNCHANGED changes

ReadForPatch(p) ==
  /\ pc[p] = "read"
  /\ IF Has(resources, req[p].id)
     THEN /\ Goto(p, "merge")
          /\ held' = [held EXCEPT ![p] = resources[req[p].id]]
          /\ UNCHANGED req
     ELSE Answer(p, "404")
  /\ UNCHANGED <<resources, changes>>

StorePatch(p) ==
  /\ pc[p] = "merge"
  /\ resources' = Put(resources, req[p].id,
                      Patched(req[p].id, held[p], req[p].props))
  /\ Answer(p, "stored") \/ Answer(p, "500")
  /\ UNCHANGED changes

DeleteResource(p) ==
  /\ pc[p] = "delete"
  /\ resources' = Delete(resources, req[p].id)
  /\ Answer(p, IF Deleted(resources, req[p].id) THEN "202" ELSE "404")
  /\ UNCHANGED changes

-----------------------------------------------------------------------------
(* The data planes. *)

SafeBlobPath(path) == ToSet(path) \cap {".", ".."} = {}

(* proxyBlobObject, for the account that the request was resolved to: the  *)
(* answer names the account whose blob it carries.  The path of the        *)
(* request is looked at here first, and so chosen here.                    *)
Proxy(p, account) ==
  IF account = NoAccount THEN Answer(p, "502")
  ELSE \E path \in BlobPaths :
         IF SafeBlobPath(path) THEN Answer(p, account) \/ Answer(p, "unreachable")
                               ELSE Answer(p, "400")

ServeCDNContent(p) ==
  /\ pc[p] = "find"
  /\ IsCDNContentHost(req[p].host)
  /\ LET found == FindCDNEndpoint(resources, NameFromHost(req[p].host)) IN
       IF found = {} THEN Answer(p, "404")
       ELSE \E e \in found : Proxy(p, CDNOriginAccount(resources[e]))
  /\ UNCHANGED <<resources, changes>>

ServeAFDContent(p) ==
  /\ pc[p] = "find"
  /\ IsAFDContentHost(req[p].host)
  /\ LET found == FindAFDEndpoint(resources, NameFromHost(req[p].host)) IN
       IF found = {} THEN Answer(p, "404")
       ELSE /\ Goto(p, "route")
            /\ \E e \in found : held' = [held EXCEPT ![p] = e]
            /\ UNCHANGED req
  /\ UNCHANGED <<resources, changes>>

FollowRoute(p) ==
  /\ pc[p] = "route"
  /\ LET groups == RouteOriginGroup(resources, held[p]) IN
       IF groups = {} THEN Answer(p, "502")
       ELSE /\ Goto(p, "origin")
            /\ \E g \in groups : held' = [held EXCEPT ![p] = g]
            /\ UNCHANGED req
  /\ UNCHANGED <<resources, changes>>

ServeOrigin(p) ==
  /\ pc[p] = "origin"
  /\ LET origins == PreferredOrigin(resources, held[p]) IN
       IF origins = {} THEN Answer(p, "502")
       ELSE \E o \in origins :
              Proxy(p, BlobAccountFromHost(Prop(resources[o], "hostName", NoHost)))
  /\ UNCHANGED <<resources, changes>>

-----------------------------------------------------------------------------
ContentAnswers == {"404", "502"} \cup {h.label : h \in OriginHosts}

(* p is given a content answer in this step. *)
Served(p) == req[p].op = "content" /\ status'[p] \in ContentAnswers

Walking(p) == pc'[p] # "idle" /\ req'[p].op = "content"

(* A DELETE takes id away in this step. *)
Gone(id) == Has(resources, id) /\ ~Has(resources', id)

(* A DELETE takes a route away, and part of the origins of one group: the  *)
(* rest is in a profile whose name differs in case alone.                  *)
Parting ==
  \E r \in OfKind(Ids, "routes"), a, b \in OfKind(Ids, "origins") :
    /\ Gone(r) /\ Gone(a) /\ Has(resources', b)
    /\ Fold(Parent(a)) = Fold(Parent(b))

(* The history of every step, from what the step does to the store. *)
Note ==
  LET wrote == resources' # resources IN
    /\ landed' = [p \in Procs |->
                    IF ~Walking(p) THEN 0
                    ELSE IF wrote /\ landed[p] < 2 THEN landed[p] + 1 ELSE landed[p]]
    /\ cut' = [p \in Procs |-> Walking(p) /\ (cut[p] \/ \E id \in Ids : Gone(id))]
    /\ parted' = [p \in Procs |-> Walking(p) /\ (parted[p] \/ Parting)]
    /\ right' = [p \in Procs |->
                   IF ~Walking(p) THEN {}
                   ELSE IF pc[p] = "idle" \/ wrote
                   THEN right[p] \cup RightAnswers(resources', req'[p].host)
                   ELSE right[p]]
    /\ last' = [h \in Hosts |->
                  IF wrote THEN "none"
                  ELSE IF \E p \in Procs : Served(p) /\ landed[p] = 0
                                            /\ SameHost(req[p].host, h)
                  THEN status'[CHOOSE p \in Procs : Served(p)]
                  ELSE last[h]]

Next ==
  /\ \E p \in Procs :
       \/ ReceiveARM(p) \/ Reject(p) \/ ReceiveContent(p) \/ RefuseMethod(p)
       \/ CheckProfile(p) \/ CheckOriginGroup(p) \/ CheckAFDEndpoint(p)
       \/ Refuse(p) \/ StoreUpsert(p) \/ ReadForPatch(p) \/ StorePatch(p)
       \/ DeleteResource(p)
       \/ ServeCDNContent(p) \/ ServeAFDContent(p) \/ FollowRoute(p) \/ ServeOrigin(p)
  /\ Note

Spec == Init /\ [][Next]_vars

-----------------------------------------------------------------------------
Statuses == {"none", "stored", "202", "400", "405", "500", "unreachable"}
              \cup ContentAnswers

Steps == {"idle", "profile", "group", "endpoint", "store", "read", "merge",
          "delete", "find", "route", "origin"}

(* What a request asks for. *)
RequestOK(r) ==
  \/ r = NoRequest
  \/ \E host \in HostHeaders : r = [op |-> "content", host |-> host]
  \/ \E id \in Ids :
       \/ \E props \in Sent[id] : r = [op |-> "put", id |-> id, props |-> props]
       \/ \E props \in Edits[id] : r = [op |-> "patch", id |-> id, props |-> props]
       \/ r = [op |-> "delete", id |-> id]

(* What a request holds, by the step it is at. *)
HeldOK(p) ==
  /\ pc[p] = "merge" => held[p] \in Bodies
  /\ pc[p] = "route" => held[p] \in OfKind(Ids, "afdendpoints")
  /\ pc[p] = "origin" => held[p] \in GroupRefs
  /\ pc[p] \notin {"merge", "route", "origin"} => held[p] = NoResource

TypeOK ==
  /\ resources \in Stores
  /\ pc \in [Procs -> Steps]
  /\ DOMAIN req = Procs /\ DOMAIN held = Procs
  /\ \A p \in Procs : RequestOK(req[p]) /\ HeldOK(p)
  /\ status \in [Procs -> Statuses]
  /\ landed \in [Procs -> 0..2]
  /\ cut \in [Procs -> BOOLEAN]
  /\ parted \in [Procs -> BOOLEAN]
  /\ right \in [Procs -> SUBSET ContentAnswers]
  /\ changes \in 0..MaxChanges
  /\ last \in [Hosts -> {"none"} \cup ContentAnswers]

(* A content request is answered what was right at some moment while it    *)
(* was served, unless two writes landed between its Lists: one write alone *)
(* cannot make it mix two configurations and serve an account that neither *)
(* has.  A DELETE of what it walks over may show as an origin that does    *)
(* not resolve, even if another endpoint answers at the host afterwards;   *)
(* and a DELETE of its profile may leave it the origins of a profile whose *)
(* name differs in case alone (preferredOrigin compares in lower case).    *)
AnswersWereRight ==
  [][\A p \in Procs : Served(p) =>
       \/ status'[p] \in right[p]
       \/ status'[p] = "502" /\ cut[p]
       \/ parted[p]
       \/ landed[p] = 2]_vars

(* The scan of a Go map decides between endpoints of one name in two       *)
(* profiles, for classic CDN, and between origins of equal priority and    *)
(* weight.                                                                 *)
Several(S) == \E a, b \in S : a # b

Tied(s, host) ==
  IF IsCDNContentHost(host) THEN Several(Answering(s, host))
  ELSE \E e \in Answering(s, host) : Several(Origins(s, e))

(* A host answers the same until the next write, unless there is a tie. *)
OnlyTiesVary ==
  [][\A h \in Hosts :
       last[h] # "none" /\ last'[h] \notin {"none", last[h]} =>
         Tied(resources, h)]_vars
=============================================================================
