-------------------------- MODULE MCContentRouting --------------------------
(* An instance of ContentRouting for TLC: Front Door endpoints of one name *)
(* but for its case in two profiles, with two routes and two origins, and  *)
(* classic CDN endpoints of one name and of one in upper case.             *)
EXTENDS ContentRouting

AFD(p, e) == <<p, "afdendpoints", e>>
Route(p, e, r) == AFD(p, e) \o <<"routes", r>>
Group(p, g) == <<p, "origingroups", g>>
Origin(p, g, o) == Group(p, g) \o <<"origins", o>>
CDN(p, e) == <<p, "endpoints", e>>

Site == AFD("p", "Site")
Other == AFD("q", "site")
R1 == Route("p", "Site", "r1")
R2 == Route("p", "Site", "r2")
RQ == Route("q", "site", "r1")
G == Group("p", "g")
H == Group("q", "g")
O1 == Origin("p", "g", "o1")
O2 == Origin("p", "g", "o2")
OQ == Origin("q", "g", "o1")
T == Group("P", "g")
OT == Origin("P", "g", "o1")
Shop == CDN("p", "Shop")
Img == CDN("p", "img")
ImgQ == CDN("q", "img")

MCIds == {<<"p">>, <<"q">>, <<"P">>, Site, Other, R1, R2, RQ, G, H, T,
          O1, O2, OQ, OT, Shop, Img, ImgQ}
Order == <<<<"P">>, T, OT, <<"p">>, Site, R1, R2, Shop, Img, G, O1, O2, <<"q">>, Other, RQ, ImgQ, H, OQ>>
MCRank == [id \in MCIds |-> CHOOSE i \in DOMAIN Order : Order[i] = id]

Lowered == ("Site" :> "site") @@ ("SITE" :> "site") @@ ("Shop" :> "shop") @@ ("G" :> "g") @@ ("P" :> "p")
             @@ ("AfdEndpoints" :> "afdendpoints") @@ ("OriginGroups" :> "origingroups")
             @@ ("Origingroups" :> "origingroups") @@ ("Origins" :> "origins")
MCSegments == UNION {ToSet(id) : id \in MCIds} \cup DOMAIN Lowered \cup {"shop", "else", ""}
MCLower == [s \in MCSegments |-> IF s \in DOMAIN Lowered THEN Lowered[s] ELSE s]

A == [label |-> "a", service |-> "blob"]
B == [label |-> "b", service |-> "blob"]
C == [label |-> "c", service |-> "blob"]
D == [label |-> "d", service |-> "blob"]
Web == [label |-> "web", service |-> "app"]
MCOriginHosts == {A, B, C, D, Web}

MCGroupRefs == {<<"p", "OriginGroups", "G">>, G, H}

MCHostHeaders == {[name |-> "SITE", suffix |-> AFDSuffix],
                  [name |-> "shop", suffix |-> CDNSuffix],
                  [name |-> "img", suffix |-> CDNSuffix]}
MCBlobPaths == {<<"container", "blob">>, <<"..", "b", "blob">>}

(* Raw paths: literals in any case, a doubled slash, and a literal that is *)
(* normalised in no case but its own.  What has no path here is loaded.    *)
MCPaths == {<<"p">>, <<"p", "AfdEndpoints", "Site">>, <<"p", "", "OriginGroups", "g">>,
            R1, O1, O2, Shop, Img, ImgQ,
            <<"p", "Origingroups", "g", "Origins", "o1">>}

Elsewhere == [hostName |-> [name |-> "else", suffix |-> AFDSuffix]]
MCSent == [id \in MCIds |->
  CASE id \in {<<"p">>, <<"q">>, <<"P">>} -> {[sku |-> "standard"]}
    [] id \in {Site, Other} -> {Elsewhere}
    [] id \in {G, H, T} -> {[probe |-> "none"]}
    [] id = R1 -> {[originGroup |-> <<"p", "OriginGroups", "G">>], [enabled |-> "no"]}
    [] id = R2 -> {[originGroup |-> H]}
    [] id = RQ -> {[originGroup |-> H]}
    [] id = O1 -> {[hostName |-> A], [hostName |-> Web, priority |-> 2]}
    [] id = O2 -> {[hostName |-> B], [hostName |-> B, weight |-> 500]}
    [] id = OQ -> {[hostName |-> C]}
    [] id = OT -> {[hostName |-> D, weight |-> 500]}
    [] id = Shop -> {[originHostHeader |-> A, origins |-> <<B>>]}
    [] id = Img -> {[origins |-> <<NoHost, A>>], [origins |-> <<>>]}
    [] id = ImgQ -> {[origins |-> <<B>>]}]
MCEdits == [id \in MCIds |->
  CASE id = Site -> {Elsewhere}
    [] id = R1 -> {[originGroup |-> H]}
    [] id = O1 -> {[priority |-> 2], [weight |-> 2000]}
    [] OTHER -> {}]

Puts == UNION {{Stored(id, props) : props \in MCSent[id]} : id \in MCIds}

(* What the edits can make of these, in any number and order. *)
Changed(S, props) == S \cup {props @@ b : b \in S}
Renamed == Puts \cup {Patched(Site, b, Elsewhere) : b \in Puts}
MCBodies == Changed(Changed(Changed(Renamed, [originGroup |-> H]),
                            [priority |-> 2]), [weight |-> 2000])

(* A server starts with an empty store, or with the state of an earlier    *)
(* one: a whole Front Door, or a whole classic CDN.                        *)
First(id) == CHOOSE b \in {Stored(id, props) : props \in MCSent[id]} : TRUE
Holding(S) == [id \in MCIds |-> IF id \in S THEN First(id) ELSE NoResource]
FrontDoor ==
  Put(Put(Put(Holding({<<"p">>, <<"q">>, <<"P">>, Site, Other, R2, RQ, G, H, T, OQ, OT}),
              O1, [hostName |-> A]),
          O2, [hostName |-> B, weight |-> 500]),
      R1, [originGroup |-> <<"p", "OriginGroups", "G">>])
MCLoaded == {Holding({}), Holding({<<"p">>, <<"q">>, Shop, Img}), FrontDoor}

(* Content requests write nothing: one at a time sees all there is to see. *)
OneContentRequest == Cardinality({p \in Procs : req[p].op = "content"}) <= 1

RequestsAreAlike == Permutations(Procs)
=============================================================================
