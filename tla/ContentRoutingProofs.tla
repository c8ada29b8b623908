------------------------ MODULE ContentRoutingProofs ------------------------
(***************************************************************************)
(* Proofs about ContentRouting, for any number of requests and any ids,    *)
(* names, bodies and hosts.                                                *)
(***************************************************************************)
EXTENDS ContentRouting, FiniteSetTheorems, WellFoundedInduction, TLAPS

-----------------------------------------------------------------------------
(* Every set of naturals has a least element.  The induction theorems of   *)
(* the library take a predicate, which the provers cannot instantiate; a   *)
(* least counterexample takes a set.                                       *)
Smaller == {pair \in Nat \X Nat : pair[1] < pair[2]}

LEMMA LeastNatural ==
  ASSUME NEW T \in SUBSET Nat, T # {}
  PROVE  \E m \in T : \A k \in T : m <= k
<1>1. IsWellFoundedOn(Smaller, Nat)
  BY NatLessThanWellFounded DEF Smaller, OpToRel
<1>2. \E m \in T : \A k \in T : <<k, m>> \notin Smaller
  BY <1>1, WFMin
<1>3. ASSUME NEW m \in T, NEW k \in T, <<k, m>> \notin Smaller PROVE m <= k
  BY <1>3 DEF Smaller
<1>. QED
  BY <1>2, <1>3

(* A set of numbers that has every number whose predecessors it has.       *)
LEMMA NatByCases ==
  ASSUME NEW S, 0 \in S, \A n \in Nat : n \in S => n + 1 \in S
  PROVE  Nat \subseteq S
<1> SUFFICES ASSUME Nat \ S # {} PROVE FALSE
  OBVIOUS
<1>1. PICK m \in Nat \ S : \A k \in Nat \ S : m <= k
  BY LeastNatural
<1>2. m - 1 \in Nat /\ m - 1 \in S
  BY <1>1
<1>. QED
  BY <1>1, <1>2

-----------------------------------------------------------------------------
(* What the kind of an id says about its segments. *)
LEMMA KindForms ==
  ASSUME NEW id \in Ids
  PROVE  /\ id \in Seq(Segments)
         /\ Len(id) \in {1, 3, 5}
         /\ Len(id) = 1 => Kind(id) = "profiles"
         /\ Len(id) = 3 => /\ Kind(id) = id[2]
                           /\ Kind(id) \in {"endpoints", "afdendpoints", "origingroups"}
         /\ Len(id) = 5 => /\ Kind(id) = id[4]
                           /\ \/ Kind(id) = "routes" /\ id[2] = "afdendpoints"
                              \/ Kind(id) = "origins" /\ id[2] = "origingroups"
<1>1. id \in Seq(Segments)
  BY StoreAssumption
<1>2. \/ Len(id) = 1
      \/ Len(id) = 3 /\ id[2] \in {"endpoints", "afdendpoints", "origingroups"}
      \/ Len(id) = 5 /\ <<id[2], id[4]>> \in {<<"afdendpoints", "routes">>,
                                              <<"origingroups", "origins">>}
  BY PathAssumption
<1>. QED
  BY <1>1, <1>2 DEF Kind

(* The routes below an endpoint are those whose parent it is. *)
LEMMA RoutesBelow ==
  ASSUME NEW e \in OfKind(Ids, "afdendpoints"), NEW r \in OfKind(Ids, "routes")
  PROVE  r \in Covered(e) \ {e} <=> Parent(r) = e
<1>1. /\ e \in Seq(Segments) /\ Len(e) = 3 /\ e \in Ids
      /\ r \in Seq(Segments) /\ Len(r) = 5 /\ r \in Ids
  BY KindForms DEF OfKind
<1>2. SubSeq(e, 1, 3) = e
  BY <1>1
<1>3. Parent(r) = SubSeq(r, 1, 3)
  BY <1>1 DEF Parent
<1>4. IsPrefix(e, r) <=> SubSeq(e, 1, 3) = SubSeq(r, 1, 3)
  BY <1>1 DEF IsPrefix
<1>5. r # e
  BY DEF OfKind
<1>. QED
  BY <1>1, <1>2, <1>3, <1>4, <1>5 DEF Covered

(* A DELETE that takes an id takes what lies below it. *)
LEMMA CoveredBelow ==
  ASSUME NEW id \in Ids, NEW r \in OfKind(Ids, "routes"), Parent(r) \in Covered(id)
  PROVE  r \in Covered(id)
<1>1. id \in Seq(Segments) /\ r \in Seq(Segments) /\ Len(r) = 5 /\ r \in Ids
  BY StoreAssumption, KindForms DEF OfKind
<1>2. Parent(r) = SubSeq(r, 1, 3) /\ Len(Parent(r)) = 3
  BY <1>1 DEF Parent
<1>3. Len(id) <= 3 /\ SubSeq(id, 1, Len(id)) = SubSeq(Parent(r), 1, Len(id))
  BY <1>2 DEF Covered, IsPrefix
<1>4. SubSeq(Parent(r), 1, Len(id)) = SubSeq(r, 1, Len(id))
  BY <1>1, <1>2, <1>3
<1>. QED
  BY <1>1, <1>3, <1>4 DEF Covered, IsPrefix

-----------------------------------------------------------------------------
(* FirstOf is what a sort leaves at the front: there is one such id in     *)
(* every set of ids that is not empty.                                     *)
LEMMA FirstExists ==
  ASSUME NEW S \in SUBSET Ids, S # {}
  PROVE  FirstOf(S) # {}
<1>1. {Rank[e] : e \in S} \in SUBSET Nat /\ {Rank[e] : e \in S} # {}
  BY NameAssumption
<1>2. PICK m \in {Rank[e] : e \in S} : \A k \in {Rank[e] : e \in S} : m <= k
  BY <1>1, LeastNatural
<1>. QED
  BY <1>2 DEF FirstOf

LEMMA FirstIsOne ==
  ASSUME NEW S \in SUBSET Ids, NEW e \in FirstOf(S)
  PROVE  FirstOf(S) = {e}
<1>1. \A a, b \in FirstOf(S) : Rank[a] = Rank[b]
  <2>1. \A a \in Ids : Rank[a] \in Nat
    BY NameAssumption
  <2>. QED
    BY <2>1 DEF FirstOf
<1>2. \A a \in FirstOf(S) : a \in Ids
  BY DEF FirstOf
<1>. QED
  BY <1>1, <1>2, NameAssumption

(* What is in front stays in front when others leave. *)
LEMMA FirstStays ==
  ASSUME NEW S \in SUBSET Ids, NEW T \in SUBSET S, NEW e \in FirstOf(S), e \in T
  PROVE  FirstOf(T) = {e}
<1>1. e \in FirstOf(T)
  BY DEF FirstOf
<1>. QED
  BY <1>1, FirstIsOne

-----------------------------------------------------------------------------
(* The loop of preferredOrigin.  Best(s, order, n, f): f holds, for each   *)
(* place up to n, the best of what the loop has seen by then.              *)
Best(s, order, n, f) ==
  f = [i \in 1..n |-> IF i = 1 THEN order[1]
                     ELSE IF Ahead(s[order[i]], s[f[i - 1]]) THEN order[i] ELSE f[i - 1]]

LEMMA BestNext ==
  ASSUME NEW s, NEW order, NEW n \in Nat, NEW f, Best(s, order, n, f)
  PROVE  \E g : Best(s, order, n + 1, g)
<1> DEFINE next == IF n = 0 THEN order[1]
                   ELSE IF Ahead(s[order[n + 1]], s[f[n]]) THEN order[n + 1] ELSE f[n]
           g == [i \in 1..n + 1 |-> IF i = n + 1 THEN next ELSE f[i]]
<1>1. \A i \in 1..n : f[i] = IF i = 1 THEN order[1]
                             ELSE IF Ahead(s[order[i]], s[f[i - 1]]) THEN order[i] ELSE f[i - 1]
  BY DEF Best
<1>2. ASSUME NEW i \in 1..n + 1
      PROVE  g[i] = IF i = 1 THEN order[1]
                    ELSE IF Ahead(s[order[i]], s[g[i - 1]]) THEN order[i] ELSE g[i - 1]
  <2>1. CASE i = n + 1 /\ n = 0
    BY <2>1
  <2>2. CASE i = n + 1 /\ n # 0
    <3>1. i - 1 = n /\ n \in 1..n + 1 /\ n # n + 1
      BY <2>2
    <3>. QED
      BY <2>2, <3>1
  <2>3. CASE i \in 1..n
    <3>1. i # n + 1 /\ (i # 1 => i - 1 \in 1..n + 1 /\ i - 1 # n + 1)
      BY <2>3
    <3>. QED
      BY <1>1, <2>3, <3>1
  <2>. QED
    BY <2>1, <2>2, <2>3
<1>3. Best(s, order, n + 1, g)
  BY <1>2 DEF Best
<1>. QED
  BY <1>3

LEMMA BestExists ==
  ASSUME NEW s, NEW order, NEW n \in Nat
  PROVE  \E f : Best(s, order, n, f)
<1> DEFINE S == {m \in Nat : \E f : Best(s, order, m, f)}
<1>1. 0 \in S
  <2>1. Best(s, order, 0, [i \in 1..0 |-> order[1]])
    BY DEF Best
  <2>. QED
    BY <2>1
<1>2. \A m \in Nat : m \in S => m + 1 \in S
  BY BestNext
<1>3. Nat \subseteq S
  <2>. HIDE DEF S
  <2>. QED
    BY <1>1, <1>2, NatByCases
<1>. QED
  BY <1>3

(* What the loop ends with is at one of the places it has seen, and nothing *)
(* at these is ahead of it.                                                *)
LEMMA BestIsBest ==
  ASSUME NEW s, NEW S, NEW n \in Nat, NEW order \in [1..n -> S],
         \A o \in S : Priority(s[o]) \in Nat /\ Weight(s[o]) \in Nat,
         NEW f, Best(s, order, n, f), NEW i \in 1..n
  PROVE  f[i] \in S /\ \A j \in 1..i : ~Ahead(s[order[j]], s[f[i]])
<1> DEFINE Good(m) == f[m] \in S /\ \A j \in 1..m : ~Ahead(s[order[j]], s[f[m]])
           T == {m \in Nat : m \in 1..n => Good(m)}
<1>1. \A m \in 1..n : f[m] = IF m = 1 THEN order[1]
                             ELSE IF Ahead(s[order[m]], s[f[m - 1]]) THEN order[m] ELSE f[m - 1]
  BY DEF Best
<1>2. 0 \in T
  OBVIOUS
<1>3. ASSUME NEW m \in Nat, m \in T PROVE m + 1 \in T
  <2> SUFFICES ASSUME m + 1 \in 1..n PROVE Good(m + 1)
    OBVIOUS
  <2>0. order[m + 1] \in S /\ \A j \in 1..m + 1 : order[j] \in S
    OBVIOUS
  <2>1. CASE m = 0
    <3>1. f[1] = order[1] /\ \A j \in 1..1 : j = 1
      BY <1>1, <2>1
    <3>. QED
      BY <2>0, <2>1, <3>1 DEF Ahead
  <2>2. CASE m # 0
    <3>1. m \in 1..n /\ m + 1 # 1 /\ (m + 1) - 1 = m
      BY <2>2
    <3>2. f[m] \in S /\ \A j \in 1..m : ~Ahead(s[order[j]], s[f[m]])
      BY <1>3, <3>1
    <3>3. f[m + 1] = IF Ahead(s[order[m + 1]], s[f[m]]) THEN order[m + 1] ELSE f[m]
      BY <1>1, <3>1
    <3>4. f[m + 1] \in S
      BY <2>0, <3>2, <3>3
    <3>5. ASSUME NEW j \in 1..m + 1 PROVE ~Ahead(s[order[j]], s[f[m + 1]])
      <4>1. CASE j = m + 1
        BY <2>0, <3>2, <3>3, <4>1 DEF Ahead
      <4>2. CASE j \in 1..m
        <5>1. /\ order[j] \in S /\ order[m + 1] \in S /\ f[m] \in S
              /\ ~Ahead(s[order[j]], s[f[m]])
          BY <2>0, <3>2, <4>2
        <5>2. CASE Ahead(s[order[m + 1]], s[f[m]])
          <6>1. f[m + 1] = order[m + 1]
            BY <3>3, <5>2
          <6>. QED
            BY <5>1, <5>2, <6>1 DEF Ahead
        <5>3. CASE ~Ahead(s[order[m + 1]], s[f[m]])
          BY <3>3, <5>1, <5>3
        <5>. QED
          BY <5>2, <5>3
      <4>. QED
        BY <4>1, <4>2
    <3>. QED
      BY <3>4, <3>5
  <2>. QED
    BY <2>1, <2>2
<1>4. Nat \subseteq T
  <2>. HIDE DEF T
  <2>. QED
    BY <1>2, <1>3, NatByCases
<1>. QED
  BY <1>4

(* In whatever order List gives the origins, the loop ends with one of the *)
(* foremost: lowest priority first, then highest weight.                   *)
THEOREM ScanIsForemost ==
  ASSUME NEW s, NEW S, IsFiniteSet(S), S # {},
         \A o \in S : Priority(s[o]) \in Nat /\ Weight(s[o]) \in Nat,
         NEW order \in SetToSeqs(S)
  PROVE  Scanned(s, order) \in Foremost(s, S)
<1> DEFINE n == Cardinality(S)
<1>1. n \in Nat /\ n # 0
  BY FS_CardinalityType, FS_EmptySet
<1>2. order \in [1..n -> S] /\ \A i, j \in 1..n : i # j => order[i] # order[j]
  BY DEF SetToSeqs
<1>. HIDE DEF n
<1>3. Len(order) = n
  BY <1>1, <1>2
<1>4. \A o \in S : \E j \in 1..n : order[j] = o
  <2>1. order \in Injection(1..n, S)
    BY <1>2 DEF Injection, IsInjective
  <2>2. IsFiniteSet(1..n) /\ Cardinality(1..n) = n
    <3>1. 1 \in Int /\ n \in Int /\ ~(1 > n) /\ n - 1 + 1 = n
      BY <1>1
    <3>. QED
      BY <3>1, FS_Interval
  <2>3. order \in Surjection(1..n, S)
    BY <2>1, <2>2, FS_Injection DEF n
  <2>. QED
    BY <1>2, <2>3 DEF Surjection
<1>5. PICK f : Best(s, order, n, f)
  BY <1>1, BestExists
<1> DEFINE g == CHOOSE h : Best(s, order, n, h)
<1>6. Best(s, order, n, g)
  BY <1>5
<1>7. Scanned(s, order) = g[n]
  BY <1>3 DEF Scanned, Best
<1>. HIDE DEF g
<1>8. g[n] \in S /\ \A j \in 1..n : ~Ahead(s[order[j]], s[g[n]])
  <2>1. n \in 1..n /\ order \in [1..n -> S]
    BY <1>1, <1>2
  <2>2. \A i \in 1..n : g[i] \in S /\ \A j \in 1..i : ~Ahead(s[order[j]], s[g[i]])
    BY <1>1, <1>6, <2>1, BestIsBest
  <2>. QED
    BY <2>1, <2>2
<1>9. \A o \in S : ~Ahead(s[o], s[g[n]])
  BY <1>4, <1>8
<1>. QED
  BY <1>7, <1>8, <1>9 DEF Foremost, Ahead

-----------------------------------------------------------------------------
(* What the stored resources hold. *)
Fit(s) == \A id \in Ids : Has(s, id) => Carries(id, s[id]) /\ HasItsHost(id, s[id])

LEMMA Overlaid ==
  ASSUME NEW f, NEW g, NEW key, NEW default
  PROVE  Prop(Merged(f, g), key, default) =
           IF key \in DOMAIN f THEN f[key] ELSE Prop(g, key, default)
BY DEF Prop, Merged

LEMMA Headed ==
  ASSUME NEW host, NEW props, NEW key, NEW default
  PROVE  /\ Merged([hostName |-> host], props).hostName = host
         /\ key # "hostName" => Prop(Merged([hostName |-> host], props), key, default)
                                = Prop(props, key, default)
BY DEF Prop, Merged

LEMMA StoredFits ==
  ASSUME NEW id \in Ids, NEW props, Carries(id, props)
  PROVE  Carries(id, Stored(id, props)) /\ HasItsHost(id, Stored(id, props))
<1>1. CASE Kind(id) = "endpoints"
  BY <1>1, Headed DEF Carries, HasItsHost, Stored, StoredCDNEndpoint
<1>2. CASE Kind(id) = "afdendpoints"
  BY <1>2, Headed DEF Carries, HasItsHost, Stored, StoredAFDEndpoint
<1>3. CASE Kind(id) \in {"profiles", "origingroups", "routes", "origins"}
  <2>1. Stored(id, props) = props
    BY <1>3 DEF Stored, StoredAFDChild
  <2>. QED
    BY <1>3, <2>1 DEF HasItsHost
<1>. QED
  BY <1>1, <1>2, <1>3, KindForms

LEMMA PatchedFits ==
  ASSUME NEW id \in Ids, Kind(id) # "endpoints",
         NEW old, Carries(id, old), NEW props, Carries(id, props)
  PROVE  Carries(id, Patched(id, old, props)) /\ HasItsHost(id, Patched(id, old, props))
<1>1. CASE Kind(id) = "afdendpoints"
  BY <1>1, Headed DEF Carries, HasItsHost, Patched, StoredAFDEndpoint
<1>2. CASE Kind(id) # "afdendpoints"
  <2>1. Patched(id, old, props) = Merged(props, old)
    BY <1>2 DEF Patched
  <2>2. Kind(id) = "routes" /\ "originGroup" \in DOMAIN Merged(props, old) =>
          Merged(props, old).originGroup \in GroupRefs
    BY DEF Carries, Merged
  <2>3. Kind(id) = "origins" =>
          /\ Prop(Merged(props, old), "hostName", NoHost) \in OriginHosts \cup {NoHost}
          /\ Prop(Merged(props, old), "priority", 1) \in Nat
          /\ Prop(Merged(props, old), "weight", 1000) \in Nat
    <3>1. ASSUME NEW key, NEW default, NEW V, Prop(props, key, default) \in V,
                 Prop(old, key, default) \in V
          PROVE  Prop(Merged(props, old), key, default) \in V
      BY <3>1, Overlaid DEF Prop
    <3>2. ASSUME Kind(id) = "origins"
          PROVE  Prop(Merged(props, old), "hostName", NoHost) \in OriginHosts \cup {NoHost}
      BY <3>1, <3>2 DEF Carries
    <3>3. ASSUME Kind(id) = "origins"
          PROVE  /\ Prop(Merged(props, old), "priority", 1) \in Nat
                 /\ Prop(Merged(props, old), "weight", 1000) \in Nat
      <4>1. /\ Prop(props, "priority", 1) \in Nat /\ Prop(old, "priority", 1) \in Nat
            /\ Prop(props, "weight", 1000) \in Nat /\ Prop(old, "weight", 1000) \in Nat
        BY <3>3 DEF Carries, Priority, Weight
      <4>2. Prop(Merged(props, old), "priority", 1) \in Nat
        <5>1. Prop(Merged(props, old), "priority", 1) =
                IF "priority" \in DOMAIN props THEN props["priority"] ELSE Prop(old, "priority", 1)
          BY Overlaid
        <5>. QED
          BY <4>1, <5>1 DEF Prop
      <4>3. Prop(Merged(props, old), "weight", 1000) \in Nat
        <5>1. Prop(Merged(props, old), "weight", 1000) =
                IF "weight" \in DOMAIN props THEN props["weight"] ELSE Prop(old, "weight", 1000)
          BY Overlaid
        <5>. QED
          BY <4>1, <5>1 DEF Prop
      <4>. QED
        BY <4>2, <4>3
    <3>. QED
      BY <3>2, <3>3
  <2>. QED
    BY <1>2, <2>1, <2>2, <2>3 DEF Carries, HasItsHost, Priority, Weight
<1>. QED
  BY <1>1, <1>2

(* A content answer is made of whatever host a body holds. *)
LEMMA CodeOfHost ==
  ASSUME NEW host \in OriginHosts \cup {NoHost}
  PROVE  Code(BlobAccountFromHost(host)) \in ContentAnswers
BY DEF Code, BlobAccountFromHost, NoAccount, NoHost, ContentAnswers

LEMMA CDNHostIsKnown ==
  ASSUME NEW id \in Ids, Kind(id) = "endpoints", NEW props, Carries(id, props)
  PROVE  CDNOriginHost(props) \in OriginHosts \cup {NoHost}
<1> DEFINE origins == Prop(props, "origins", <<>>)
           given == {i \in DOMAIN origins : origins[i] # NoHost}
<1>1. origins \in Seq(OriginHosts \cup {NoHost})
  BY DEF Carries
<1>2. \A i \in DOMAIN origins : origins[i] \in OriginHosts \cup {NoHost}
  BY <1>1
<1>3. CASE given # {}
  <2>1. given \in SUBSET Nat
    BY <1>1
  <2>2. \E i \in given : \A j \in given : i <= j
    BY <1>3, <2>1, LeastNatural
  <2>3. (CHOOSE i \in given : \A j \in given : i <= j) \in given
    BY <2>2
  <2>4. origins[CHOOSE i \in given : \A j \in given : i <= j] \in OriginHosts \cup {NoHost}
    BY <1>2, <2>3
  <2>. QED
    BY <1>3, <2>4 DEF CDNOriginHost, Carries
<1>4. CASE given = {}
  BY <1>4 DEF CDNOriginHost, Carries
<1>. QED
  BY <1>3, <1>4

-----------------------------------------------------------------------------
(* Who answers at a host: the advertised hosts are those of the names, so  *)
(* that the look-ups of the data planes, which compare names, find what    *)
(* advertises the host.                                                    *)
LEMMA NamesOfEndpoints ==
  ASSUME NEW e \in Ids, Kind(e) \in {"endpoints", "afdendpoints"}
  PROVE  e[3] \in Segments
<1>1. e \in Seq(Segments) /\ Len(e) \in {3, 5}
  BY KindForms
<1>. QED
  BY <1>1

LEMMA AnsweringCDN ==
  ASSUME NEW s, Fit(s), NEW host, host.name \in Segments, host.suffix = CDNSuffix
  PROVE  Answering(s, host) = FindCDNEndpoint(s, NameFromHost(host))
<1>1. ASSUME NEW e \in Answering(s, host)
      PROVE  e \in FindCDNEndpoint(s, NameFromHost(host))
  <2>1. /\ e \in Ids /\ Has(s, e) /\ Kind(e) \in {"endpoints", "afdendpoints"}
        /\ SameHost(s[e].hostName, host)
        /\ Kind(e) = "endpoints" => Lower[e[3]] = e[3]
    BY <1>1 DEF Answering, Advertising, Stocked, OfKind
  <2>2. HasItsHost(e, s[e])
    BY <2>1 DEF Fit
  <2>3. Kind(e) = "endpoints"
    BY <2>1, <2>2 DEF HasItsHost, SameHost, AFDGeneratedHostName, CDNSuffix, AFDSuffix
  <2>. QED
    BY <2>1, <2>2, <2>3
    DEF HasItsHost, SameHost, FindCDNEndpoint, NameFromHost, Stocked, OfKind
<1>2. ASSUME NEW e \in FindCDNEndpoint(s, NameFromHost(host))
      PROVE  e \in Answering(s, host)
  <2>1. e \in Ids /\ Has(s, e) /\ Kind(e) = "endpoints" /\ e[3] = Lower[host.name]
    BY <1>2 DEF FindCDNEndpoint, NameFromHost, Stocked, OfKind
  <2>2. HasItsHost(e, s[e])
    BY <2>1 DEF Fit
  <2>3. Lower[e[3]] = e[3]
    BY <2>1, NameAssumption
  <2>. QED
    BY <2>1, <2>2, <2>3
    DEF HasItsHost, SameHost, Answering, Advertising, Stocked, OfKind
<1>. QED
  BY <1>1, <1>2

(* Case does not count in the names of Front Door endpoints. *)
NamedAFD(s, name) == {e \in Stocked(s, "afdendpoints") : Lower[e[3]] = Lower[name]}

LEMMA AnsweringAFD ==
  ASSUME NEW s, Fit(s), NEW host, host.name \in Segments, host.suffix = AFDSuffix
  PROVE  Answering(s, host) = NamedAFD(s, NameFromHost(host))
<1>0. Lower[NameFromHost(host)] = Lower[host.name]
  BY NameAssumption DEF NameFromHost
<1>1. ASSUME NEW e \in Answering(s, host)
      PROVE  e \in NamedAFD(s, NameFromHost(host))
  <2>1. /\ e \in Ids /\ Has(s, e) /\ Kind(e) \in {"endpoints", "afdendpoints"}
        /\ SameHost(s[e].hostName, host)
    BY <1>1 DEF Answering, Advertising, Stocked, OfKind
  <2>2. HasItsHost(e, s[e]) /\ e[3] \in Segments
    BY <2>1, NamesOfEndpoints DEF Fit
  <2>3. Kind(e) = "afdendpoints"
    BY <2>1, <2>2 DEF HasItsHost, SameHost, CDNSuffix, AFDSuffix
  <2>4. Lower[Lower[e[3]]] = Lower[host.name]
    BY <2>1, <2>2, <2>3 DEF HasItsHost, SameHost, AFDGeneratedHostName
  <2>5. Lower[e[3]] = Lower[host.name]
    BY <2>2, <2>4, NameAssumption
  <2>. QED
    BY <1>0, <2>1, <2>3, <2>5 DEF NamedAFD, Stocked, OfKind
<1>2. ASSUME NEW e \in NamedAFD(s, NameFromHost(host))
      PROVE  e \in Answering(s, host)
  <2>1. e \in Ids /\ Has(s, e) /\ Kind(e) = "afdendpoints" /\ Lower[e[3]] = Lower[host.name]
    BY <1>0, <1>2 DEF NamedAFD, Stocked, OfKind
  <2>2. HasItsHost(e, s[e]) /\ e[3] \in Segments
    BY <2>1, NamesOfEndpoints DEF Fit
  <2>3. Lower[Lower[e[3]]] = Lower[host.name]
    BY <2>1, <2>2, NameAssumption
  <2>4. SameHost(s[e].hostName, host)
    BY <2>1, <2>2, <2>3 DEF HasItsHost, SameHost, AFDGeneratedHostName
  <2>. QED
    BY <2>1, <2>4 DEF Answering, Advertising, Stocked, OfKind
<1>. QED
  BY <1>1, <1>2

(* Hosts that differ in case alone are answered alike. *)
LEMMA SameHostSameAnswers ==
  ASSUME NEW s, NEW g, NEW h, SameHost(g, h)
  PROVE  Answering(s, g) = Answering(s, h) /\ RightAnswers(s, g) = RightAnswers(s, h)
<1>1. \A x : SameHost(x, g) <=> SameHost(x, h)
  BY DEF SameHost
<1>2. Answering(s, g) = Answering(s, h)
  BY <1>1 DEF Answering, Advertising
<1>3. IsCDNContentHost(g) <=> IsCDNContentHost(h)
  BY DEF SameHost, IsCDNContentHost
<1>. QED
  BY <1>2, <1>3 DEF RightAnswers

-----------------------------------------------------------------------------
(* The rest of the walk, from an endpoint and from a group, in one store.  *)
Matching(s, g) == {o \in Stocked(s, "origins") : Fold(Parent(o)) = Fold(g)}

AnswersOf(s, origins) ==
  IF origins = {} THEN {"502"}
  ELSE {Code(BlobAccountFromHost(Prop(s[o], "hostName", NoHost))) : o \in origins}

ViaGroup(s, g) == AnswersOf(s, Foremost(s, Matching(s, g)))

ViaEndpoint(s, e) ==
  IF Routed(s, e) = {} THEN {"502"}
  ELSE UNION {ViaGroup(s, s[r].originGroup) : r \in FirstOf(Routed(s, e))}

LEMMA SortedRoutes ==
  ASSUME NEW s, NEW e \in OfKind(Ids, "afdendpoints")
  PROVE  /\ RouteOriginGroup(s, e) = {s[r].originGroup : r \in FirstOf(Routed(s, e))}
         /\ Routed(s, e) \in SUBSET Ids
<1>1. {r \in ListBelow(s, e) : Kind(r) = "routes" /\ "originGroup" \in DOMAIN s[r]}
        = Routed(s, e)
  BY RoutesBelow DEF Routed, ListBelow, Stocked, OfKind, Covered
<1>2. Routed(s, e) \in SUBSET Ids
  BY DEF Routed, Stocked, OfKind
<1>. QED
  BY <1>1, <1>2 DEF RouteOriginGroup

LEMMA MatchingIsFinite ==
  ASSUME NEW s, NEW g
  PROVE  Matching(s, g) \in SUBSET Ids /\ IsFiniteSet(Matching(s, g))
<1>1. Matching(s, g) \in SUBSET Ids
  BY DEF Matching, Stocked, OfKind
<1>. QED
  BY <1>1, PathAssumption, FS_Subset

(* The scan takes a foremost origin, and takes one if there is any. *)
LEMMA PreferredIsForemost ==
  ASSUME NEW s, Fit(s), NEW g
  PROVE  /\ PreferredOrigin(s, g) \subseteq Foremost(s, Matching(s, g))
         /\ PreferredOrigin(s, g) = {} => Matching(s, g) = {}
<1> DEFINE S == Matching(s, g)
<1>1. CASE S = {}
  BY <1>1 DEF PreferredOrigin, Matching
<1>2. CASE S # {}
  <2>1. PreferredOrigin(s, g) = {Scanned(s, order) : order \in SetToSeqs(S)}
    BY <1>2 DEF PreferredOrigin, Matching
  <2>2. \A o \in S : Priority(s[o]) \in Nat /\ Weight(s[o]) \in Nat
    BY DEF Matching, Stocked, OfKind, Fit, Carries
  <2>3. IsFiniteSet(S)
    BY MatchingIsFinite
  <2>. HIDE DEF S
  <2>4. SetToSeqs(S) # {}
    <3>1. PICK f : f \in Bijection(1..Cardinality(S), S)
      BY <2>3, FS_CardinalityType DEF ExistsBijection
    <3>2. f \in SetToSeqs(S)
      BY <3>1 DEF Bijection, Injection, IsInjective, SetToSeqs
    <3>. QED
      BY <3>2
  <2>5. \A order \in SetToSeqs(S) : Scanned(s, order) \in Foremost(s, S)
    BY <1>2, <2>2, <2>3, ScanIsForemost
  <2>. QED
    BY <2>1, <2>4, <2>5 DEF S
<1>. QED
  BY <1>1, <1>2

(* What a Front Door request that sees one store is answered is right. *)
LEMMA RightViaEndpoint ==
  ASSUME NEW s, NEW host, host.suffix = AFDSuffix, NEW e \in FirstOf(Answering(s, host))
  PROVE  RightAnswers(s, host) = ViaEndpoint(s, e)
<1> DEFINE origins == UNION {Origins(s, d) : d \in FirstOf(Answering(s, host))}
<1>1. Answering(s, host) \in SUBSET Ids /\ Answering(s, host) # {}
  BY DEF Answering, Advertising, Stocked, OfKind, FirstOf
<1>2. FirstOf(Answering(s, host)) = {e}
  BY <1>1, FirstIsOne
<1>3. origins = Origins(s, e)
  BY <1>2
<1>4. ~IsCDNContentHost(host)
  BY DEF IsCDNContentHost, CDNSuffix, AFDSuffix
<1>5. RightAnswers(s, host) = AnswersOf(s, Origins(s, e))
  BY <1>1, <1>3, <1>4 DEF RightAnswers, AnswersOf
<1>6. CASE Routed(s, e) = {}
  <2>1. FirstOf(Routed(s, e)) = {}
    BY <1>6 DEF FirstOf
  <2>2. Origins(s, e) = {}
    BY <2>1 DEF Origins, Foremost
  <2>. QED
    BY <1>5, <1>6, <2>2 DEF AnswersOf, ViaEndpoint
<1>7. CASE Routed(s, e) # {}
  <2>1. Routed(s, e) \in SUBSET Ids
    BY DEF Routed, Stocked, OfKind
  <2>2. PICK r \in FirstOf(Routed(s, e)) : FirstOf(Routed(s, e)) = {r}
    BY <1>7, <2>1, FirstExists, FirstIsOne
  <2>3. Origins(s, e) = Foremost(s, Matching(s, s[r].originGroup))
    BY <2>2 DEF Origins, Matching
  <2>4. ViaEndpoint(s, e) = ViaGroup(s, s[r].originGroup)
    BY <1>7, <2>2 DEF ViaEndpoint
  <2>. QED
    BY <1>5, <2>3, <2>4 DEF ViaGroup
<1>. QED
  BY <1>6, <1>7

-----------------------------------------------------------------------------
(* What one write can do to a walk that is under way. *)
Written(s, t) ==
  \E id \in Ids : t = Delete(s, id) \/ \E body \in Bodies : t = Put(s, id, body)

Took(s, t) == \E id \in Ids : Has(s, id) /\ ~Has(t, id)

Parts(s, t) ==
  \E r \in OfKind(Ids, "routes"), a, b \in OfKind(Ids, "origins") :
    /\ Has(s, r) /\ ~Has(t, r)
    /\ Has(s, a) /\ ~Has(t, a) /\ Has(t, b)
    /\ Fold(Parent(a)) = Fold(Parent(b))

Unresolved(s, t) == IF Took(s, t) THEN {"502"} ELSE {}

LEMMA SameOriginsSameGroup ==
  ASSUME NEW s, NEW t, NEW g, \A o \in OfKind(Ids, "origins") : s[o] = t[o]
  PROVE  ViaGroup(s, g) = ViaGroup(t, g)
<1>1. Matching(s, g) = Matching(t, g)
  BY DEF Matching, Stocked, Has
<1>2. \A o \in Matching(t, g) : s[o] = t[o]
  BY DEF Matching, Stocked
<1>3. Foremost(s, Matching(t, g)) = Foremost(t, Matching(t, g))
  BY <1>2 DEF Foremost
<1>4. \A o \in Foremost(t, Matching(t, g)) : s[o] = t[o]
  BY <1>2 DEF Foremost
<1>5. AnswersOf(s, Foremost(t, Matching(t, g))) = AnswersOf(t, Foremost(t, Matching(t, g)))
  BY <1>4 DEF AnswersOf
<1>. QED
  BY <1>1, <1>3, <1>5 DEF ViaGroup

LEMMA SameBelowSameEndpoint ==
  ASSUME NEW s, NEW t, NEW e,
         \A k \in OfKind(Ids, "origins") \cup OfKind(Ids, "routes") : s[k] = t[k]
  PROVE  ViaEndpoint(s, e) = ViaEndpoint(t, e)
<1>1. Routed(s, e) = Routed(t, e)
  BY DEF Routed, Stocked, Has
<1>2. \A r \in FirstOf(Routed(t, e)) : s[r] = t[r]
  BY DEF Routed, Stocked, FirstOf
<1>3. \A g : ViaGroup(s, g) = ViaGroup(t, g)
  BY SameOriginsSameGroup
<1>4. {ViaGroup(s, s[r].originGroup) : r \in FirstOf(Routed(t, e))}
        = {ViaGroup(t, t[r].originGroup) : r \in FirstOf(Routed(t, e))}
  BY <1>2, <1>3
<1>. QED
  BY <1>1, <1>4 DEF ViaEndpoint

LEMMA PutChangesOne ==
  ASSUME NEW s \in Stores, NEW id \in Ids, NEW body, NEW k \in Ids, k # id
  PROVE  Put(s, id, body)[k] = s[k]
BY DEF Put, Stores

LEMMA DeleteClears ==
  ASSUME NEW s, NEW id, NEW k \in Ids
  PROVE  /\ k \in Covered(id) => ~Has(Delete(s, id), k)
         /\ k \notin Covered(id) => Delete(s, id)[k] = s[k]
         /\ Has(Delete(s, id), k) => Has(s, k) /\ k \notin Covered(id)
BY DEF Delete, Has

(* An endpoint that was the first to answer still is, if it is there.      *)
LEMMA DeleteKeepsFirst ==
  ASSUME NEW s, Fit(s), NEW id \in Ids, Fit(Delete(s, id)),
         NEW host, host.name \in Segments, host.suffix = AFDSuffix,
         NEW e \in FirstOf(Answering(s, host)), Has(Delete(s, id), e)
  PROVE  e \in FirstOf(Answering(Delete(s, id), host))
<1> DEFINE t == Delete(s, id)
           name == NameFromHost(host)
<1>1. Answering(s, host) = NamedAFD(s, name) /\ Answering(t, host) = NamedAFD(t, name)
  BY AnsweringAFD
<1>2. NamedAFD(t, name) \in SUBSET NamedAFD(s, name) /\ NamedAFD(s, name) \in SUBSET Ids
  BY DeleteClears DEF NamedAFD, Stocked, OfKind
<1>3. e \in NamedAFD(t, name)
  BY <1>1 DEF FirstOf, NamedAFD, Stocked, OfKind
<1>. QED
  BY <1>1, <1>2, <1>3, FirstStays

LEMMA PutElsewhereKeepsFirst ==
  ASSUME NEW s \in Stores, Fit(s), NEW id \in Ids, Kind(id) # "afdendpoints",
         NEW body, Fit(Put(s, id, body)),
         NEW host, host.name \in Segments, host.suffix = AFDSuffix
  PROVE  Answering(Put(s, id, body), host) = Answering(s, host)
<1> DEFINE t == Put(s, id, body)
           name == NameFromHost(host)
<1>1. Answering(s, host) = NamedAFD(s, name) /\ Answering(t, host) = NamedAFD(t, name)
  BY AnsweringAFD
<1>2. \A k \in OfKind(Ids, "afdendpoints") : t[k] = s[k]
  BY PutChangesOne DEF OfKind
<1>. QED
  BY <1>1, <1>2 DEF NamedAFD, Stocked, Has

(* A request that holds an endpoint which was right. *)
LEMMA OneWriteAtRoute ==
  ASSUME NEW s \in Stores, Fit(s), NEW t, Fit(t), Written(s, t),
         NEW host, host.name \in Segments, host.suffix = AFDSuffix,
         NEW e \in FirstOf(Answering(s, host))
  PROVE  ViaEndpoint(t, e) \subseteq
           RightAnswers(s, host) \cup RightAnswers(t, host) \cup Unresolved(s, t)
<1>0. /\ e \in OfKind(Ids, "afdendpoints") /\ e \in Ids /\ Has(s, e)
  BY AnsweringAFD DEF FirstOf, NamedAFD, Stocked, OfKind
<1>1. RightAnswers(s, host) = ViaEndpoint(s, e)
  BY RightViaEndpoint
<1>2. ASSUME e \in FirstOf(Answering(t, host))
      PROVE  RightAnswers(t, host) = ViaEndpoint(t, e)
  BY <1>2, RightViaEndpoint
<1>3. ASSUME NEW id \in Ids, NEW body \in Bodies, t = Put(s, id, body)
      PROVE  ViaEndpoint(t, e) \subseteq RightAnswers(s, host) \cup RightAnswers(t, host)
  <2>1. CASE Kind(id) = "afdendpoints"
    <3>1. \A k \in OfKind(Ids, "origins") \cup OfKind(Ids, "routes") : s[k] = t[k]
      BY <1>3, <2>1, PutChangesOne DEF OfKind
    <3>. QED
      BY <1>1, <3>1, SameBelowSameEndpoint
  <2>2. CASE Kind(id) # "afdendpoints"
    BY <1>2, <1>3, <2>2, PutElsewhereKeepsFirst
  <2>. QED
    BY <2>1, <2>2
<1>4. ASSUME NEW id \in Ids, t = Delete(s, id)
      PROVE  ViaEndpoint(t, e) \subseteq RightAnswers(t, host) \cup Unresolved(s, t)
  <2>1. CASE Has(t, e)
    BY <1>2, <1>4, <2>1, DeleteKeepsFirst
  <2>2. CASE ~Has(t, e)
    <3>1. e \in Covered(id)
      BY <1>0, <1>4, <2>2, DeleteClears DEF Has
    <3>2. \A r \in OfKind(Ids, "routes") : Parent(r) = e => ~Has(t, r)
      BY <1>4, <3>1, CoveredBelow, DeleteClears DEF OfKind
    <3>3. Routed(t, e) = {}
      BY <3>2 DEF Routed, Stocked
    <3>4. Took(s, t)
      BY <1>0, <2>2 DEF Took
    <3>. QED
      BY <3>3, <3>4 DEF ViaEndpoint, Unresolved
  <2>. QED
    BY <2>1, <2>2
<1>. QED
  BY <1>3, <1>4 DEF Written

(* A request that holds an origin group which was right. *)
LEMMA OneWriteAtOrigin ==
  ASSUME NEW s \in Stores, Fit(s), NEW t, Fit(t), Written(s, t), ~Parts(s, t),
         NEW host, host.name \in Segments, host.suffix = AFDSuffix,
         NEW e \in FirstOf(Answering(s, host)), NEW r \in FirstOf(Routed(s, e))
  PROVE  ViaGroup(t, s[r].originGroup) \subseteq
           RightAnswers(s, host) \cup RightAnswers(t, host) \cup Unresolved(s, t)
<1> DEFINE g == s[r].originGroup
<1>0. /\ e \in Ids /\ Has(s, e) /\ r \in OfKind(Ids, "routes") /\ r \in Ids
      /\ Has(s, r) /\ Parent(r) = e /\ "originGroup" \in DOMAIN s[r]
      /\ Routed(s, e) \in SUBSET Ids
  BY AnsweringAFD DEF FirstOf, NamedAFD, Routed, Stocked, OfKind
<1>1. ViaGroup(s, g) \subseteq RightAnswers(s, host)
  <2>1. RightAnswers(s, host) = ViaEndpoint(s, e)
    BY RightViaEndpoint
  <2>2. Routed(s, e) # {}
    BY DEF FirstOf
  <2>. QED
    BY <2>1, <2>2 DEF ViaEndpoint
<1>2. ASSUME e \in FirstOf(Answering(t, host)), r \in FirstOf(Routed(t, e)), t[r] = s[r]
      PROVE  ViaGroup(t, g) \subseteq RightAnswers(t, host)
  <2>1. RightAnswers(t, host) = ViaEndpoint(t, e)
    BY <1>2, RightViaEndpoint
  <2>2. Routed(t, e) # {}
    BY <1>2 DEF FirstOf
  <2>. QED
    BY <1>2, <2>1, <2>2 DEF ViaEndpoint
<1>3. ASSUME \A o \in OfKind(Ids, "origins") : s[o] = t[o]
      PROVE  ViaGroup(t, g) \subseteq RightAnswers(s, host)
  BY <1>1, <1>3, SameOriginsSameGroup
<1>4. ASSUME NEW id \in Ids, NEW body \in Bodies, t = Put(s, id, body)
      PROVE  ViaGroup(t, g) \subseteq RightAnswers(s, host) \cup RightAnswers(t, host)
  <2>1. CASE Kind(id) # "origins"
    <3>1. \A o \in OfKind(Ids, "origins") : s[o] = t[o]
      BY <1>4, <2>1, PutChangesOne DEF OfKind
    <3>. QED
      BY <1>3, <3>1
  <2>2. CASE Kind(id) = "origins"
    <3>1. e \in FirstOf(Answering(t, host))
      BY <1>4, <2>2, PutElsewhereKeepsFirst
    <3>2. \A k \in OfKind(Ids, "routes") : t[k] = s[k]
      BY <1>4, <2>2, PutChangesOne DEF OfKind
    <3>3. Routed(t, e) = Routed(s, e)
      BY <3>2 DEF Routed, Stocked, Has
    <3>. QED
      BY <1>0, <1>2, <3>1, <3>2, <3>3
  <2>. QED
    BY <2>1, <2>2
<1>5. ASSUME NEW id \in Ids, t = Delete(s, id)
      PROVE  ViaGroup(t, g) \subseteq
               RightAnswers(s, host) \cup RightAnswers(t, host) \cup Unresolved(s, t)
  <2>1. CASE Has(t, r)
    <3>1. t[r] = s[r] /\ r \notin Covered(id)
      BY <1>0, <1>5, <2>1, DeleteClears
    <3>2. e \notin Covered(id)
      BY <1>0, <3>1, CoveredBelow
    <3>3. Has(t, e)
      BY <1>0, <1>5, <3>2, DeleteClears DEF Has
    <3>4. e \in FirstOf(Answering(t, host))
      BY <1>5, <3>3, DeleteKeepsFirst
    <3>5. Routed(t, e) \in SUBSET Routed(s, e)
      BY <1>5, DeleteClears DEF Routed, Stocked, OfKind
    <3>6. r \in Routed(t, e)
      BY <1>0, <2>1, <3>1 DEF Routed, Stocked
    <3>7. r \in FirstOf(Routed(t, e))
      BY <1>0, <3>5, <3>6, FirstStays
    <3>. QED
      BY <1>2, <3>1, <3>4, <3>7
  <2>2. CASE ~Has(t, r)
    <3>1. Took(s, t)
      BY <1>0, <2>2 DEF Took
    <3>2. CASE Matching(t, g) = {}
      <4>1. Foremost(t, Matching(t, g)) = {}
        BY <3>2 DEF Foremost
      <4>. QED
        BY <3>1, <4>1 DEF ViaGroup, AnswersOf, Unresolved
    <3>3. CASE Matching(t, g) # {}
      <4>1. PICK b \in Matching(t, g) : TRUE
        BY <3>3
      <4>2. \A a \in Matching(s, g) : Has(t, a)
        BY <1>0, <2>2, <4>1 DEF Parts, Matching, Stocked, OfKind
      <4>3. Matching(t, g) = Matching(s, g)
        BY <1>5, <4>2, DeleteClears DEF Matching, Stocked, OfKind
      <4>4. \A o \in Matching(s, g) : t[o] = s[o]
        BY <1>5, <4>2, DeleteClears DEF Matching, Stocked, OfKind
      <4>5. Foremost(t, Matching(s, g)) = Foremost(s, Matching(s, g))
        BY <4>4 DEF Foremost
      <4>6. \A o \in Foremost(s, Matching(s, g)) : t[o] = s[o]
        BY <4>4 DEF Foremost
      <4>7. ViaGroup(t, g) = ViaGroup(s, g)
        BY <4>3, <4>5, <4>6 DEF ViaGroup, AnswersOf
      <4>. QED
        BY <1>1, <4>7
    <3>. QED
      BY <3>2, <3>3
  <2>. QED
    BY <2>1, <2>2
<1>. QED
  BY <1>4, <1>5 DEF Written

-----------------------------------------------------------------------------
(* Type correctness.  A request is at a step of its own operation, what a  *)
(* PATCH read fits the id, and so does what is stored.                     *)
InStep(p) ==
  /\ pc[p] = "idle" => req[p] = NoRequest
  /\ pc[p] \in {"profile", "group", "endpoint", "store"} => req[p].op = "put"
  /\ pc[p] \in {"read", "merge"} =>
       req[p].op = "patch" /\ Kind(req[p].id) # "endpoints"
  /\ pc[p] = "merge" => Carries(req[p].id, held[p])
  /\ pc[p] = "delete" => req[p].op = "delete"
  /\ pc[p] \in {"find", "route", "origin"} =>
       /\ req[p].op = "content"
       /\ req[p].host.suffix \in {CDNSuffix, AFDSuffix}
  /\ pc[p] \in {"route", "origin"} => req[p].host.suffix = AFDSuffix

Form ==
  /\ resources \in Stores
  /\ Fit(resources)
  /\ pc \in [Procs -> Steps]
  /\ DOMAIN req = Procs /\ DOMAIN held = Procs
  /\ status \in [Procs -> Statuses]
  /\ changes \in 0..MaxChanges
  /\ \A p \in Procs : RequestOK(req[p]) /\ HeldOK(p) /\ InStep(p)

HistoryForm ==
  /\ landed \in [Procs -> 0..2]
  /\ cut \in [Procs -> BOOLEAN]
  /\ parted \in [Procs -> BOOLEAN]
  /\ right \in [Procs -> SUBSET ContentAnswers]
  /\ last \in [Hosts -> {"none"} \cup ContentAnswers]

LEMMA RequestForms ==
  ASSUME NEW r, RequestOK(r)
  PROVE  /\ r.op = "content" => r.host \in HostHeaders
         /\ r.op = "put" => r.id \in Ids /\ r.props \in Sent[r.id]
         /\ r.op = "patch" => r.id \in Ids /\ r.props \in Edits[r.id]
         /\ r.op = "delete" => r.id \in Ids
BY DEF RequestOK, NoRequest

LEMMA PutIsStore ==
  ASSUME NEW s \in Stores, NEW id \in Ids, NEW body \in Bodies
  PROVE  Put(s, id, body) \in Stores
BY DEF Put, Stores

LEMMA DeleteIsStore ==
  ASSUME NEW s \in Stores, NEW id
  PROVE  Delete(s, id) \in Stores
BY DEF Delete, Stores

LEMMA PutFits ==
  ASSUME NEW s \in Stores, Fit(s), NEW id \in Ids, NEW body,
         Carries(id, body), HasItsHost(id, body)
  PROVE  Fit(Put(s, id, body))
BY DEF Fit, Put, Stores, Has

LEMMA DeleteFits ==
  ASSUME NEW s, Fit(s), NEW id
  PROVE  Fit(Delete(s, id))
BY DEF Fit, Delete, Has

LEMMA StoredIsThere ==
  ASSUME NEW s \in Stores, NEW id \in Ids, Has(s, id)
  PROVE  s[id] \in Bodies
BY DEF Stores, Has

LEMMA FirstCalls ==
  ASSUME NEW id \in Ids
  PROVE  FirstCall(id) \in {"store", "profile", "group", "endpoint"}
<1>1. Kind(id) \in {"profiles", "endpoints", "afdendpoints", "origingroups", "routes", "origins"}
  BY KindForms
<1>. QED
  BY <1>1 DEF FirstCall

LEMMA AnswerForm ==
  ASSUME Form, NEW p \in Procs, NEW code \in Statuses, Answer(p, code),
         resources' \in Stores, Fit(resources'), changes' \in 0..MaxChanges
  PROVE  Form'
<1>1. /\ pc' = [pc EXCEPT ![p] = "idle"]
      /\ req' = [req EXCEPT ![p] = NoRequest]
      /\ held' = [held EXCEPT ![p] = NoResource]
      /\ status' = [q \in Procs |-> IF q = p THEN code ELSE "none"]
  BY DEF Answer
<1>2. pc' \in [Procs -> Steps] /\ DOMAIN req' = Procs /\ DOMAIN held' = Procs
  BY <1>1 DEF Form, Steps
<1>3. status' \in [Procs -> Statuses]
  BY <1>1 DEF Statuses
<1>4. ASSUME NEW q \in Procs PROVE (RequestOK(req[q]) /\ HeldOK(q) /\ InStep(q))'
  BY <1>1, <1>4 DEF Form, RequestOK, HeldOK, InStep
<1>. QED
  BY <1>2, <1>3, <1>4 DEF Form

LEMMA GotoForm ==
  ASSUME Form, NEW p \in Procs, NEW step \in Steps, Goto(p, step),
         DOMAIN req' = Procs, DOMAIN held' = Procs,
         \A q \in Procs \ {p} : req'[q] = req[q] /\ held'[q] = held[q],
         RequestOK(req[p])', HeldOK(p)', InStep(p)',
         resources' = resources, changes' \in 0..MaxChanges
  PROVE  Form'
<1>1. /\ pc' = [pc EXCEPT ![p] = step]
      /\ status' = [q \in Procs |-> "none"]
  BY DEF Goto
<1>2. pc' \in [Procs -> Steps] /\ status' \in [Procs -> Statuses]
  BY <1>1 DEF Form, Statuses
<1>3. ASSUME NEW q \in Procs, q # p
      PROVE  (RequestOK(req[q]) /\ HeldOK(q) /\ InStep(q))'
  <2>1. pc'[q] = pc[q]
    BY <1>1, <1>3 DEF Form
  <2>. QED
    BY <1>3, <2>1 DEF Form, RequestOK, HeldOK, InStep
<1>. QED
  BY <1>2, <1>3 DEF Form

LEMMA InitForm == Init => Form
<1> SUFFICES ASSUME Init PROVE Form
  OBVIOUS
<1>1. resources \in Stores /\ Fit(resources)
  BY BodyAssumption DEF Init, Fit
<1>2. pc \in [Procs -> Steps] /\ DOMAIN req = Procs /\ DOMAIN held = Procs
  BY DEF Init, Steps
<1>3. status \in [Procs -> Statuses] /\ changes \in 0..MaxChanges
  BY NameAssumption DEF Init, Statuses
<1>4. \A p \in Procs : RequestOK(req[p]) /\ HeldOK(p) /\ InStep(p)
  BY DEF Init, RequestOK, HeldOK, InStep
<1>. QED
  BY <1>1, <1>2, <1>3, <1>4 DEF Form

LEMMA ChangeForm ==
  ASSUME Form, NEW p \in Procs, NEW r, RequestOK(r), NEW step \in Steps,
         Change(p, r, step), UNCHANGED <<resources, held>>,
         step \notin {"idle", "merge", "find", "route", "origin"},
         step \in {"profile", "group", "endpoint", "store"} => r.op = "put",
         step = "read" => r.op = "patch" /\ Kind(r.id) # "endpoints",
         step = "delete" => r.op = "delete"
  PROVE  Form'
<1>1. /\ pc[p] = "idle" /\ changes < MaxChanges /\ changes' = changes + 1
      /\ req' = [req EXCEPT ![p] = r] /\ Goto(p, step)
  BY DEF Change, Take
<1>2. pc'[p] = step /\ req'[p] = r /\ held'[p] = NoResource
  BY <1>1 DEF Form, Goto, HeldOK
<1>3. DOMAIN req' = Procs /\ changes' \in 0..MaxChanges
  BY <1>1, NameAssumption DEF Form
<1>4. RequestOK(req[p])' /\ HeldOK(p)' /\ InStep(p)'
  BY <1>2 DEF RequestOK, HeldOK, InStep
<1>5. \A q \in Procs \ {p} : req'[q] = req[q] /\ held'[q] = held[q]
  BY <1>1 DEF Form
<1>. QED
  BY <1>1, <1>3, <1>4, <1>5, GotoForm DEF Form

LEMMA ReceiveARMForm ==
  ASSUME Form, NEW p \in Procs, ReceiveARM(p)
  PROVE  Form'
<1>1. PICK path \in Paths : LET id == Normalize(path) IN
         /\ id \in Ids
         /\ \/ \E props \in Sent[id] :
                 Change(p, [op |-> "put", id |-> id, props |-> props], FirstCall(id))
            \/ \E props \in Edits[id] :
                 /\ Kind(id) # "endpoints"
                 /\ Change(p, [op |-> "patch", id |-> id, props |-> props], "read")
            \/ Change(p, [op |-> "delete", id |-> id], "delete")
  BY DEF ReceiveARM
<1> DEFINE id == Normalize(path)
<1>2. id \in Ids /\ UNCHANGED <<resources, held>>
  BY <1>1 DEF ReceiveARM
<1>3. ASSUME NEW props \in Sent[id],
             Change(p, [op |-> "put", id |-> id, props |-> props], FirstCall(id))
      PROVE  Form'
  <2>1. RequestOK([op |-> "put", id |-> id, props |-> props])
    BY <1>2, <1>3 DEF RequestOK
  <2>2. FirstCall(id) \in {"store", "profile", "group", "endpoint"}
    BY <1>2, FirstCalls
  <2>. QED
    BY <1>2, <1>3, <2>1, <2>2, ChangeForm DEF Steps
<1>4. ASSUME NEW props \in Edits[id], Kind(id) # "endpoints",
             Change(p, [op |-> "patch", id |-> id, props |-> props], "read")
      PROVE  Form'
  <2>1. RequestOK([op |-> "patch", id |-> id, props |-> props])
    BY <1>2, <1>4 DEF RequestOK
  <2>. QED
    BY <1>2, <1>4, <2>1, ChangeForm DEF Steps
<1>5. ASSUME Change(p, [op |-> "delete", id |-> id], "delete")
      PROVE  Form'
  <2>1. RequestOK([op |-> "delete", id |-> id])
    BY <1>2 DEF RequestOK
  <2>. QED
    BY <1>2, <1>5, <2>1, ChangeForm DEF Steps
<1>. QED
  BY <1>1, <1>3, <1>4, <1>5

LEMMA ReceiveContentForm ==
  ASSUME Form, NEW p \in Procs, ReceiveContent(p)
  PROVE  Form'
<1>1. PICK host \in HostHeaders :
        /\ IsCDNContentHost(host) \/ IsAFDContentHost(host)
        /\ Take(p, [op |-> "content", host |-> host], "find")
  BY DEF ReceiveContent
<1>2. /\ pc[p] = "idle" /\ UNCHANGED <<resources, held, changes>>
      /\ req' = [req EXCEPT ![p] = [op |-> "content", host |-> host]]
      /\ Goto(p, "find")
  BY <1>1 DEF ReceiveContent, Take
<1>3. pc'[p] = "find" /\ req'[p] = [op |-> "content", host |-> host] /\ held'[p] = NoResource
  BY <1>2 DEF Form, Goto, HeldOK
<1>4. DOMAIN req' = Procs
  BY <1>2 DEF Form
<1>5. RequestOK(req[p])' /\ HeldOK(p)' /\ InStep(p)'
  BY <1>1, <1>3 DEF RequestOK, HeldOK, InStep, IsCDNContentHost, IsAFDContentHost
<1>6. \A q \in Procs \ {p} : req'[q] = req[q] /\ held'[q] = held[q]
  BY <1>2 DEF Form
<1>. QED
  BY <1>2, <1>4, <1>5, <1>6, GotoForm DEF Form, Steps

(* Steps that only answer. *)
LEMMA RejectForm ==
  ASSUME Form, NEW p \in Procs, Reject(p) \/ RefuseMethod(p) \/ Refuse(p)
  PROVE  Form'
<1>1. /\ \E code \in {"400", "404", "405"} : Answer(p, code)
      /\ UNCHANGED <<resources, changes>>
  BY DEF Reject, RefuseMethod, Refuse
<1>2. {"400", "404", "405"} \subseteq Statuses
  BY DEF Statuses, ContentAnswers
<1>. QED
  BY <1>1, <1>2, AnswerForm DEF Form

LEMMA CheckParentForm ==
  ASSUME Form, NEW p \in Procs,
         CheckProfile(p) \/ CheckOriginGroup(p) \/ CheckAFDEndpoint(p)
  PROVE  Form'
<1>1. /\ pc[p] \in {"profile", "group", "endpoint"} /\ UNCHANGED <<resources, changes>>
      /\ \/ Goto(p, "store") /\ UNCHANGED <<req, held>>
         \/ Answer(p, "404")
  BY DEF CheckProfile, CheckOriginGroup, CheckAFDEndpoint, CheckParent
<1>2. CASE Answer(p, "404")
  BY <1>1, <1>2, AnswerForm DEF Form, Statuses, ContentAnswers
<1>3. CASE Goto(p, "store") /\ UNCHANGED <<req, held>>
  <2>1. pc'[p] = "store"
    BY <1>3 DEF Form, Goto
  <2>2. RequestOK(req[p])' /\ HeldOK(p)' /\ InStep(p)'
    BY <1>1, <1>3, <2>1 DEF Form, RequestOK, HeldOK, InStep
  <2>. QED
    BY <1>1, <1>3, <2>2, GotoForm DEF Form, Steps
<1>. QED
  BY <1>1, <1>2, <1>3

LEMMA StoreUpsertForm ==
  ASSUME Form, NEW p \in Procs, StoreUpsert(p)
  PROVE  Form' /\ Written(resources, resources')
<1> DEFINE id == req[p].id
           body == Stored(id, req[p].props)
<1>1. id \in Ids /\ req[p].props \in Sent[id]
  BY RequestForms DEF Form, InStep, StoreUpsert
<1>2. /\ resources' = Put(resources, id, body) /\ changes' = changes
      /\ \E code \in {"stored", "500"} : Answer(p, code)
  BY DEF StoreUpsert
<1>3. body \in Bodies /\ Carries(id, body) /\ HasItsHost(id, body)
  BY <1>1, StoredFits, BodyAssumption
<1>. HIDE DEF body
<1>4. resources' \in Stores /\ Fit(resources')
  BY <1>1, <1>2, <1>3, PutIsStore, PutFits DEF Form
<1>5. Form'
  BY <1>2, <1>4, AnswerForm DEF Form, Statuses
<1>6. Written(resources, resources')
  BY <1>1, <1>2, <1>3 DEF Written
<1>. QED
  BY <1>5, <1>6

LEMMA ReadForPatchForm ==
  ASSUME Form, NEW p \in Procs, ReadForPatch(p)
  PROVE  Form'
<1> DEFINE id == req[p].id
<1>1. pc[p] = "read" /\ req[p].op = "patch" /\ id \in Ids /\ Kind(id) # "endpoints"
  BY RequestForms DEF Form, InStep, ReadForPatch
<1>2. UNCHANGED <<resources, changes>>
  BY DEF ReadForPatch
<1>3. CASE Answer(p, "404")
  BY <1>2, <1>3, AnswerForm DEF Form, Statuses, ContentAnswers
<1>4. CASE /\ Has(resources, id) /\ Goto(p, "merge") /\ UNCHANGED req
           /\ held' = [held EXCEPT ![p] = resources[id]]
  <2>1. pc'[p] = "merge" /\ req'[p] = req[p] /\ held'[p] = resources[id]
    BY <1>4 DEF Form, Goto
  <2>2. resources[id] \in Bodies /\ Carries(id, resources[id])
    BY <1>1, <1>4, StoredIsThere DEF Form, Fit
  <2>3. RequestOK(req[p])' /\ HeldOK(p)' /\ InStep(p)'
    BY <1>1, <2>1, <2>2 DEF Form, RequestOK, HeldOK, InStep
  <2>4. DOMAIN held' = Procs /\ \A q \in Procs \ {p} : held'[q] = held[q]
    BY <1>4 DEF Form
  <2>. QED
    BY <1>2, <1>4, <2>3, <2>4, GotoForm DEF Form, Steps
<1>. QED
  BY <1>3, <1>4 DEF ReadForPatch

LEMMA StorePatchForm ==
  ASSUME Form, NEW p \in Procs, StorePatch(p)
  PROVE  Form' /\ Written(resources, resources')
<1> DEFINE id == req[p].id
           body == Patched(id, held[p], req[p].props)
<1>1. id \in Ids /\ Kind(id) # "endpoints" /\ req[p].props \in Edits[id]
  BY RequestForms DEF Form, InStep, StorePatch
<1>2. held[p] \in Bodies /\ Carries(id, held[p])
  BY DEF Form, InStep, HeldOK, StorePatch
<1>3. /\ resources' = Put(resources, id, body) /\ changes' = changes
      /\ \E code \in {"stored", "500"} : Answer(p, code)
  BY DEF StorePatch
<1>4. body \in Bodies /\ Carries(id, body) /\ HasItsHost(id, body)
  BY <1>1, <1>2, PatchedFits, BodyAssumption
<1>. HIDE DEF body
<1>5. resources' \in Stores /\ Fit(resources')
  BY <1>1, <1>3, <1>4, PutIsStore, PutFits DEF Form
<1>6. Form'
  BY <1>3, <1>5, AnswerForm DEF Form, Statuses
<1>7. Written(resources, resources')
  BY <1>1, <1>3, <1>4 DEF Written
<1>. QED
  BY <1>6, <1>7

LEMMA DeleteResourceForm ==
  ASSUME Form, NEW p \in Procs, DeleteResource(p)
  PROVE  Form' /\ Written(resources, resources')
<1>1. req[p].id \in Ids
  BY RequestForms DEF Form, InStep, DeleteResource
<1>2. /\ resources' = Delete(resources, req[p].id) /\ changes' = changes
      /\ \E code \in {"202", "404"} : Answer(p, code)
  BY DEF DeleteResource
<1>3. resources' \in Stores /\ Fit(resources')
  BY <1>2, DeleteIsStore, DeleteFits DEF Form
<1>4. Form'
  BY <1>2, <1>3, AnswerForm DEF Form, Statuses, ContentAnswers
<1>. QED
  BY <1>1, <1>2, <1>4 DEF Written

-----------------------------------------------------------------------------
(* The steps of one process: those of the handlers and those of the data   *)
(* planes.                                                                 *)
HandlerStep(p) ==
  \/ ReceiveARM(p) \/ Reject(p) \/ RefuseMethod(p)
  \/ CheckProfile(p) \/ CheckOriginGroup(p) \/ CheckAFDEndpoint(p)
  \/ Refuse(p) \/ StoreUpsert(p) \/ ReadForPatch(p) \/ StorePatch(p)
  \/ DeleteResource(p)

ContentStep(p) ==
  \/ ReceiveContent(p) \/ ServeCDNContent(p) \/ ServeAFDContent(p)
  \/ FollowRoute(p) \/ ServeOrigin(p)

WalkSteps == {"find", "route", "origin"}

(* The other processes stay where they are and are given no answer. *)
Alone(p) ==
  \A q \in Procs \ {p} :
    /\ pc'[q] = pc[q] /\ req'[q] = req[q] /\ held'[q] = held[q]
    /\ status'[q] = "none"

LEMMA AnswerAlone ==
  ASSUME Form, NEW p \in Procs, NEW code, Answer(p, code)
  PROVE  Alone(p) /\ pc'[p] = "idle" /\ status'[p] = code
BY DEF Form, Answer, Alone

LEMMA GotoAlone ==
  ASSUME Form, NEW p \in Procs, NEW step, Goto(p, step),
         \A q \in Procs \ {p} : req'[q] = req[q] /\ held'[q] = held[q]
  PROVE  Alone(p) /\ pc'[p] = step /\ status'[p] = "none"
BY DEF Form, Goto, Alone

LEMMA TakeAlone ==
  ASSUME Form, NEW p \in Procs, NEW r, NEW step, Take(p, r, step), UNCHANGED held
  PROVE  /\ Alone(p) /\ pc[p] = "idle"
         /\ pc'[p] = step /\ req'[p] = r /\ held'[p] = held[p] /\ status'[p] = "none"
<1>1. /\ \A q \in Procs \ {p} : req'[q] = req[q] /\ held'[q] = held[q]
      /\ Goto(p, step) /\ req'[p] = r /\ pc[p] = "idle"
  BY DEF Form, Take
<1>. QED
  BY <1>1, GotoAlone

LEMMA HandlersStepAlone ==
  ASSUME Form, NEW p \in Procs, HandlerStep(p)
  PROVE  Alone(p) /\ pc'[p] \notin WalkSteps /\ req[p].op # "content"
<1>1. CASE ReceiveARM(p)
  <2>1. PICK id \in Ids : \E r, step :
          Take(p, r, step) /\ step \in {FirstCall(id), "read", "delete"}
    BY <1>1 DEF ReceiveARM, Change
  <2>2. FirstCall(id) \in {"store", "profile", "group", "endpoint"}
    BY FirstCalls
  <2>3. UNCHANGED held
    BY <1>1 DEF ReceiveARM
  <2>4. Alone(p) /\ pc'[p] \notin WalkSteps /\ pc[p] = "idle"
    BY <2>1, <2>2, <2>3, TakeAlone DEF WalkSteps
  <2>. QED
    BY <2>4 DEF Form, InStep, NoRequest
<1>2. CASE Reject(p) \/ RefuseMethod(p) \/ Refuse(p)
  <2>1. \E code : Answer(p, code)
    BY <1>2 DEF Reject, RefuseMethod, Refuse
  <2>2. pc[p] \in {"idle", "store", "merge"}
    BY <1>2 DEF Reject, RefuseMethod, Refuse
  <2>. QED
    BY <2>1, <2>2, AnswerAlone DEF Form, InStep, NoRequest, WalkSteps
<1>3. CASE CheckProfile(p) \/ CheckOriginGroup(p) \/ CheckAFDEndpoint(p)
  <2>1. /\ pc[p] \in {"profile", "group", "endpoint"}
        /\ \/ Goto(p, "store") /\ UNCHANGED <<req, held>>
           \/ Answer(p, "404")
    BY <1>3 DEF CheckProfile, CheckOriginGroup, CheckAFDEndpoint, CheckParent
  <2>. QED
    BY <2>1, AnswerAlone, GotoAlone DEF Form, InStep, WalkSteps
<1>4. CASE StoreUpsert(p) \/ StorePatch(p) \/ DeleteResource(p)
  <2>1. \E code : Answer(p, code)
    BY <1>4 DEF StoreUpsert, StorePatch, DeleteResource
  <2>2. pc[p] \in {"store", "merge", "delete"}
    BY <1>4 DEF StoreUpsert, StorePatch, DeleteResource
  <2>. QED
    BY <2>1, <2>2, AnswerAlone DEF Form, InStep, WalkSteps
<1>5. CASE ReadForPatch(p)
  <2>1. pc[p] = "read"
    BY <1>5 DEF ReadForPatch
  <2>2. CASE Answer(p, "404")
    BY <2>1, <2>2, AnswerAlone DEF Form, InStep, WalkSteps
  <2>3. CASE /\ Goto(p, "merge") /\ UNCHANGED req
             /\ held' = [held EXCEPT ![p] = resources[req[p].id]]
    <3>1. \A q \in Procs \ {p} : req'[q] = req[q] /\ held'[q] = held[q]
      BY <2>3 DEF Form
    <3>. QED
      BY <2>1, <2>3, <3>1, GotoAlone DEF Form, InStep, WalkSteps
  <2>. QED
    BY <1>5, <2>2, <2>3 DEF ReadForPatch
<1>. QED
  BY <1>1, <1>2, <1>3, <1>4, <1>5 DEF HandlerStep

LEMMA HandlersWrite ==
  ASSUME Form, NEW p \in Procs, HandlerStep(p)
  PROVE  Form' /\ (resources' = resources \/ Written(resources, resources'))
<1>1. CASE StoreUpsert(p) \/ StorePatch(p) \/ DeleteResource(p)
  BY <1>1, StoreUpsertForm, StorePatchForm, DeleteResourceForm
<1>2. CASE ReceiveARM(p)
  BY <1>2, ReceiveARMForm DEF ReceiveARM
<1>3. CASE Reject(p) \/ RefuseMethod(p) \/ Refuse(p)
  BY <1>3, RejectForm DEF Reject, RefuseMethod, Refuse
<1>4. CASE CheckProfile(p) \/ CheckOriginGroup(p) \/ CheckAFDEndpoint(p)
  BY <1>4, CheckParentForm DEF CheckProfile, CheckOriginGroup, CheckAFDEndpoint, CheckParent
<1>5. CASE ReadForPatch(p)
  BY <1>5, ReadForPatchForm DEF ReadForPatch
<1>. QED
  BY <1>1, <1>2, <1>3, <1>4, <1>5 DEF HandlerStep

-----------------------------------------------------------------------------
(* The data planes.  An answer that carries content, or says that there is *)
(* none, is the one of the account that the walk has come to.              *)
LEMMA ContentCodes ==
  /\ {"404", "502"} \subseteq ContentAnswers
  /\ {"none", "stored", "202", "400", "405", "500", "unreachable"} \cap ContentAnswers = {}
  /\ ContentAnswers \subseteq Statuses
BY BodyAssumption DEF ContentAnswers, Statuses

LEMMA ProxyAnswers ==
  ASSUME NEW p \in Procs, NEW account, Proxy(p, account)
  PROVE  \E code \in {Code(account), "400", "unreachable"} : Answer(p, code)
BY DEF Proxy, Code

(* The codes of one answer: one that is content, or that no content came. *)
Outcomes(codes) == codes \cup {"400", "unreachable"}

LEMMA ServeCDNAnswers ==
  ASSUME Form, NEW p \in Procs, ServeCDNContent(p)
  PROVE  \E code \in Outcomes(RightAnswers(resources, req[p].host)) : Answer(p, code)
<1> DEFINE host == req[p].host
           found == FindCDNEndpoint(resources, NameFromHost(host))
<1>1. host \in HostHeaders /\ IsCDNContentHost(host)
  BY RequestForms DEF Form, InStep, ServeCDNContent
<1>2. host.name \in Segments /\ host.suffix = CDNSuffix
  BY <1>1, NameAssumption DEF IsCDNContentHost
<1>3. found = Answering(resources, host)
  BY <1>2, AnsweringCDN DEF Form
<1>4. CASE found = {}
  <2>1. RightAnswers(resources, host) = {"404"}
    BY <1>3, <1>4 DEF RightAnswers
  <2>2. Answer(p, "404")
    BY <1>4 DEF ServeCDNContent
  <2>. QED
    BY <2>1, <2>2 DEF Outcomes
<1>5. CASE found # {}
  <2>1. PICK e \in found : Proxy(p, CDNOriginAccount(resources[e]))
    BY <1>5 DEF ServeCDNContent
  <2>2. Code(CDNOriginAccount(resources[e])) \in RightAnswers(resources, host)
    BY <1>1, <1>3, <2>1 DEF RightAnswers
  <2>. QED
    BY <2>1, <2>2, ProxyAnswers DEF Outcomes
<1>. QED
  BY <1>4, <1>5

LEMMA ServeAFDAnswers ==
  ASSUME Form, NEW p \in Procs, ServeAFDContent(p)
  PROVE  \/ Answer(p, "404") /\ "404" \in RightAnswers(resources, req[p].host)
         \/ /\ Goto(p, "route") /\ UNCHANGED req
            /\ \E e \in FirstOf(Answering(resources, req[p].host)) :
                 held' = [held EXCEPT ![p] = e]
<1> DEFINE host == req[p].host
           found == FindAFDEndpoint(resources, NameFromHost(host))
<1>1. host \in HostHeaders /\ IsAFDContentHost(host)
  BY RequestForms DEF Form, InStep, ServeAFDContent
<1>2. host.name \in Segments /\ host.suffix = AFDSuffix
  BY <1>1, NameAssumption DEF IsAFDContentHost
<1>3. Answering(resources, host) = NamedAFD(resources, NameFromHost(host))
  BY <1>2, AnsweringAFD DEF Form
<1>4. found = FirstOf(Answering(resources, host))
  BY <1>3 DEF FindAFDEndpoint, NamedAFD
<1>5. CASE found = {}
  <2>1. Answering(resources, host) \in SUBSET Ids
    BY DEF Answering, Advertising, Stocked, OfKind
  <2>2. Answering(resources, host) = {}
    BY <1>4, <1>5, <2>1, FirstExists
  <2>3. "404" \in RightAnswers(resources, host)
    BY <2>2 DEF RightAnswers
  <2>. QED
    BY <1>5, <2>3 DEF ServeAFDContent
<1>6. CASE found # {}
  <2>1. /\ Goto(p, "route") /\ UNCHANGED req
        /\ \E e \in found : held' = [held EXCEPT ![p] = e]
    BY <1>6 DEF ServeAFDContent
  <2>. QED
    BY <1>4, <2>1
<1>. QED
  BY <1>5, <1>6

LEMMA FollowRouteAnswers ==
  ASSUME Form, NEW p \in Procs, FollowRoute(p)
  PROVE  \/ Answer(p, "502") /\ ViaEndpoint(resources, held[p]) = {"502"}
         \/ /\ Goto(p, "origin") /\ UNCHANGED req
            /\ \E r \in FirstOf(Routed(resources, held[p])) :
                 held' = [held EXCEPT ![p] = resources[r].originGroup]
<1> DEFINE routes == FirstOf(Routed(resources, held[p]))
           groups == RouteOriginGroup(resources, held[p])
<1>1. held[p] \in OfKind(Ids, "afdendpoints")
  BY DEF Form, HeldOK, FollowRoute
<1>2. /\ groups = {resources[r].originGroup : r \in routes}
      /\ Routed(resources, held[p]) \in SUBSET Ids
  BY <1>1, SortedRoutes
<1>3. CASE groups = {}
  <2>1. Routed(resources, held[p]) = {}
    BY <1>2, <1>3, FirstExists
  <2>2. Answer(p, "502")
    BY <1>3 DEF FollowRoute
  <2>. QED
    BY <2>1, <2>2 DEF ViaEndpoint
<1>4. CASE groups # {}
  <2>1. /\ Goto(p, "origin") /\ UNCHANGED req
        /\ \E g \in groups : held' = [held EXCEPT ![p] = g]
    BY <1>4 DEF FollowRoute
  <2>. QED
    BY <1>2, <2>1
<1>. QED
  BY <1>3, <1>4

LEMMA ServeOriginAnswers ==
  ASSUME Form, NEW p \in Procs, ServeOrigin(p)
  PROVE  \E code \in Outcomes(ViaGroup(resources, held[p])) : Answer(p, code)
<1> DEFINE origins == PreferredOrigin(resources, held[p])
           S == Foremost(resources, Matching(resources, held[p]))
<1>1. origins \subseteq S /\ (origins = {} => Matching(resources, held[p]) = {})
  BY PreferredIsForemost DEF Form
<1>2. CASE origins = {}
  <2>1. S = {}
    BY <1>1, <1>2 DEF Foremost
  <2>2. Answer(p, "502")
    BY <1>2 DEF ServeOrigin
  <2>. QED
    BY <2>1, <2>2 DEF ViaGroup, AnswersOf, Outcomes
<1>3. CASE origins # {}
  <2>1. PICK o \in origins :
          Proxy(p, BlobAccountFromHost(Prop(resources[o], "hostName", NoHost)))
    BY <1>3 DEF ServeOrigin
  <2>2. Code(BlobAccountFromHost(Prop(resources[o], "hostName", NoHost)))
          \in ViaGroup(resources, held[p])
    BY <1>1, <2>1 DEF ViaGroup, AnswersOf
  <2>. QED
    BY <2>1, <2>2, ProxyAnswers DEF Outcomes
<1>. QED
  BY <1>2, <1>3

(* What is right is a content answer. *)
LEMMA ViaGroupIsContent ==
  ASSUME NEW s, Fit(s), NEW g
  PROVE  ViaGroup(s, g) \subseteq ContentAnswers
<1> DEFINE S == Foremost(s, Matching(s, g))
<1>1. CASE S = {}
  BY <1>1, ContentCodes DEF ViaGroup, AnswersOf
<1>2. CASE S # {}
  <2>1. \A o \in S : Prop(s[o], "hostName", NoHost) \in OriginHosts \cup {NoHost}
    BY DEF Foremost, Matching, Stocked, OfKind, Fit, Carries
  <2>2. \A o \in S :
          Code(BlobAccountFromHost(Prop(s[o], "hostName", NoHost))) \in ContentAnswers
    BY <2>1, CodeOfHost
  <2>. QED
    BY <1>2, <2>2 DEF ViaGroup, AnswersOf
<1>. QED
  BY <1>1, <1>2

LEMMA RightIsContent ==
  ASSUME NEW s, Fit(s), NEW host, host.name \in Segments,
         host.suffix \in {CDNSuffix, AFDSuffix}
  PROVE  RightAnswers(s, host) \subseteq ContentAnswers
<1>1. CASE Answering(s, host) = {}
  BY <1>1, ContentCodes DEF RightAnswers
<1>2. CASE Answering(s, host) # {} /\ host.suffix = CDNSuffix
  <2>1. RightAnswers(s, host) = {Code(CDNOriginAccount(s[e])) : e \in Answering(s, host)}
    BY <1>2 DEF RightAnswers, IsCDNContentHost
  <2>2. ASSUME NEW e \in Answering(s, host)
        PROVE  Code(CDNOriginAccount(s[e])) \in ContentAnswers
    <3>1. e \in FindCDNEndpoint(s, NameFromHost(host))
      BY <1>2, AnsweringCDN
    <3>2. e \in Ids /\ Kind(e) = "endpoints" /\ Carries(e, s[e])
      BY <3>1 DEF FindCDNEndpoint, Stocked, OfKind, Fit
    <3>. QED
      BY <3>2, CDNHostIsKnown, CodeOfHost DEF CDNOriginAccount
  <2>. QED
    BY <2>1, <2>2
<1>3. CASE Answering(s, host) # {} /\ host.suffix = AFDSuffix
  <2>1. Answering(s, host) \in SUBSET Ids
    BY DEF Answering, Advertising, Stocked, OfKind
  <2>2. PICK e \in FirstOf(Answering(s, host)) : TRUE
    BY <1>3, <2>1, FirstExists
  <2>3. RightAnswers(s, host) = ViaEndpoint(s, e)
    BY <1>3, <2>2, RightViaEndpoint
  <2>4. \A g : ViaGroup(s, g) \subseteq ContentAnswers
    BY ViaGroupIsContent
  <2>. QED
    BY <2>3, <2>4, ContentCodes DEF ViaEndpoint
<1>. QED
  BY <1>1, <1>2, <1>3

LEMMA ContentForm ==
  ASSUME Form, NEW p \in Procs, ContentStep(p)
  PROVE  Form' /\ resources' = resources /\ Alone(p)
<1>1. CASE ReceiveContent(p)
  <2>1. \E r : Take(p, r, "find") /\ UNCHANGED held
    BY <1>1 DEF ReceiveContent
  <2>. QED
    BY <1>1, <2>1, ReceiveContentForm, TakeAlone DEF ReceiveContent
<1>2. CASE ServeCDNContent(p)
  <2>1. PICK code \in Outcomes(RightAnswers(resources, req[p].host)) : Answer(p, code)
    BY <1>2, ServeCDNAnswers
  <2>2. req[p].host \in HostHeaders /\ IsCDNContentHost(req[p].host)
    BY <1>2, RequestForms DEF Form, InStep, ServeCDNContent
  <2>3. RightAnswers(resources, req[p].host) \subseteq ContentAnswers
    BY <2>2, NameAssumption, RightIsContent DEF Form, IsCDNContentHost
  <2>4. code \in Statuses
    BY <2>3, ContentCodes DEF Outcomes, Statuses
  <2>. QED
    BY <1>2, <2>1, <2>4, AnswerForm, AnswerAlone DEF ServeCDNContent, Form
<1>3. CASE ServeAFDContent(p)
  <2>0. UNCHANGED <<resources, changes>>
    BY <1>3 DEF ServeAFDContent
  <2>1. CASE Answer(p, "404")
    BY <2>0, <2>1, ContentCodes, AnswerForm, AnswerAlone DEF Form
  <2>2. ASSUME Goto(p, "route"), UNCHANGED req,
               NEW e \in FirstOf(Answering(resources, req[p].host)),
               held' = [held EXCEPT ![p] = e]
        PROVE  Form' /\ Alone(p)
    <3>1. req[p].host \in HostHeaders /\ IsAFDContentHost(req[p].host) /\ pc[p] = "find"
      BY <1>3, RequestForms DEF Form, InStep, ServeAFDContent
    <3>2. e \in OfKind(Ids, "afdendpoints")
      BY <2>2, <3>1, NameAssumption, AnsweringAFD
      DEF Form, IsAFDContentHost, FirstOf, NamedAFD, Stocked
    <3>3. pc'[p] = "route" /\ req'[p] = req[p] /\ held'[p] = e
      BY <2>2 DEF Form, Goto
    <3>4. RequestOK(req[p])' /\ HeldOK(p)' /\ InStep(p)'
      BY <3>1, <3>2, <3>3 DEF Form, RequestOK, HeldOK, InStep, IsAFDContentHost
    <3>5. DOMAIN held' = Procs /\ \A q \in Procs \ {p} : held'[q] = held[q]
      BY <2>2 DEF Form
    <3>. QED
      BY <2>0, <2>2, <3>4, <3>5, GotoForm, GotoAlone DEF Form, Steps
  <2>. QED
    BY <1>3, <2>0, <2>1, <2>2, ServeAFDAnswers
<1>4. CASE FollowRoute(p)
  <2>0. UNCHANGED <<resources, changes>> /\ pc[p] = "route"
    BY <1>4 DEF FollowRoute
  <2>1. CASE Answer(p, "502")
    BY <2>0, <2>1, ContentCodes, AnswerForm, AnswerAlone DEF Form
  <2>2. ASSUME Goto(p, "origin"), UNCHANGED req,
               NEW r \in FirstOf(Routed(resources, held[p])),
               held' = [held EXCEPT ![p] = resources[r].originGroup]
        PROVE  Form' /\ Alone(p)
    <3>1. resources[r].originGroup \in GroupRefs
      BY <2>2 DEF Form, Fit, Carries, FirstOf, Routed, Stocked, OfKind
    <3>2. pc'[p] = "origin" /\ req'[p] = req[p] /\ held'[p] = resources[r].originGroup
      BY <2>2 DEF Form, Goto
    <3>3. RequestOK(req[p])' /\ HeldOK(p)' /\ InStep(p)'
      BY <2>0, <3>1, <3>2 DEF Form, RequestOK, HeldOK, InStep
    <3>4. DOMAIN held' = Procs /\ \A q \in Procs \ {p} : held'[q] = held[q]
      BY <2>2 DEF Form
    <3>. QED
      BY <2>0, <2>2, <3>3, <3>4, GotoForm, GotoAlone DEF Form, Steps
  <2>. QED
    BY <1>4, <2>0, <2>1, <2>2, FollowRouteAnswers
<1>5. CASE ServeOrigin(p)
  <2>1. PICK code \in Outcomes(ViaGroup(resources, held[p])) : Answer(p, code)
    BY <1>5, ServeOriginAnswers
  <2>2. ViaGroup(resources, held[p]) \subseteq ContentAnswers
    BY ViaGroupIsContent DEF Form
  <2>3. code \in Statuses
    BY <2>2, ContentCodes DEF Outcomes, Statuses
  <2>. QED
    BY <1>5, <2>1, <2>3, AnswerForm, AnswerAlone DEF ServeOrigin, Form
<1>. QED
  BY <1>1, <1>2, <1>3, <1>4, <1>5 DEF ContentStep

(* Every step, and what it does to the store. *)
LEMMA NextForm ==
  ASSUME Form, Next
  PROVE  /\ Form' /\ Note
         /\ resources' = resources \/ Written(resources, resources')
         /\ \E p \in Procs : (HandlerStep(p) \/ ContentStep(p)) /\ Alone(p)
<1>1. PICK p \in Procs : HandlerStep(p) \/ ContentStep(p)
  BY DEF Next, HandlerStep, ContentStep
<1>2. Note
  BY DEF Next
<1>3. CASE HandlerStep(p)
  BY <1>2, <1>3, HandlersWrite, HandlersStepAlone
<1>4. CASE ContentStep(p)
  BY <1>2, <1>4, ContentForm
<1>. QED
  BY <1>1, <1>3, <1>4

LEMMA Requester ==
  ASSUME Form, NEW p \in Procs, pc[p] \in WalkSteps
  PROVE  /\ req[p].op = "content" /\ req[p].host \in HostHeaders
         /\ req[p].host.name \in Segments
         /\ req[p].host.suffix \in {CDNSuffix, AFDSuffix}
         /\ pc[p] # "find" => req[p].host.suffix = AFDSuffix
<1>1. req[p].op = "content" /\ req[p].host.suffix \in {CDNSuffix, AFDSuffix}
  BY DEF Form, InStep, WalkSteps
<1>2. req[p].host \in HostHeaders
  BY <1>1, RequestForms DEF Form
<1>. QED
  BY <1>1, <1>2, NameAssumption DEF Form, InStep, WalkSteps

(* Only the process that makes the step is served, and only in a walk. *)
LEMMA ServedAlone ==
  ASSUME Form, NEW p \in Procs, Alone(p), HandlerStep(p) \/ ContentStep(p),
         NEW q \in Procs, Served(q)
  PROVE  q = p /\ ContentStep(p) /\ pc[p] \in WalkSteps
<1>1. q = p
  BY ContentCodes DEF Alone, Served
<1>2. ContentStep(p)
  BY <1>1, HandlersStepAlone DEF Served
<1>3. ~ReceiveContent(p)
  BY <1>1 DEF ReceiveContent, Take, Form, InStep, Served, NoRequest
<1>. QED
  BY <1>1, <1>2, <1>3
  DEF ContentStep, ServeCDNContent, ServeAFDContent, FollowRoute, ServeOrigin, WalkSteps

LEMMA NextHistoryForm ==
  ASSUME Form, HistoryForm, Next
  PROVE  HistoryForm'
<1>1. /\ Form' /\ Note
      /\ \E p \in Procs : (HandlerStep(p) \/ ContentStep(p)) /\ Alone(p)
  BY NextForm
<1>2. landed' \in [Procs -> 0..2]
  BY <1>1 DEF Note, HistoryForm
<1>3. cut' \in [Procs -> BOOLEAN] /\ parted' \in [Procs -> BOOLEAN]
  <2>1. \A p \in Procs : /\ (Walking(p) /\ (cut[p] \/ \E id \in Ids : Gone(id))) \in BOOLEAN
                        /\ (Walking(p) /\ (parted[p] \/ Parting)) \in BOOLEAN
    OBVIOUS
  <2>. QED
    BY <1>1, <2>1 DEF Note
<1>4. right' \in [Procs -> SUBSET ContentAnswers]
  <2>1. ASSUME NEW p \in Procs, Walking(p)
        PROVE  RightAnswers(resources', req'[p].host) \subseteq ContentAnswers
    <3>1. pc'[p] \in WalkSteps
      BY <1>1, <2>1 DEF Form, InStep, Walking, WalkSteps, Steps
    <3>2. /\ req'[p].host \in HostHeaders
          /\ req'[p].host.suffix \in {CDNSuffix, AFDSuffix} /\ Fit(resources')
      BY <1>1, <2>1, <3>1, RequestForms DEF Form, InStep, Walking, WalkSteps
    <3>. QED
      BY <3>2, RightIsContent, NameAssumption
  <2>2. \A p \in Procs : right[p] \in SUBSET ContentAnswers
    BY DEF HistoryForm
  <2>. QED
    BY <1>1, <2>1, <2>2 DEF Note
<1>5. last' \in [Hosts -> {"none"} \cup ContentAnswers]
  <2>1. \A p, q \in Procs : Served(p) /\ Served(q) => p = q
    BY <1>1, ServedAlone
  <2>2. ASSUME NEW p \in Procs, Served(p)
        PROVE  status'[CHOOSE q \in Procs : Served(q)] \in ContentAnswers
    <3>1. Served(CHOOSE q \in Procs : Served(q))
      BY <2>2
    <3>. QED
      BY <3>1 DEF Served
  <2>3. \A h \in Hosts : last[h] \in {"none"} \cup ContentAnswers
    BY DEF HistoryForm
  <2>. QED
    BY <1>1, <2>2, <2>3 DEF Note
<1>. QED
  BY <1>2, <1>3, <1>4, <1>5 DEF HistoryForm

LEMMA InitHistoryForm == Init => HistoryForm
BY DEF Init, HistoryForm

(* The variables have their types: a request holds what its step calls     *)
(* for, and every stored body is one that the handlers build.              *)
THEOREM TypeCorrect == Spec => []TypeOK
<1>1. Init => Form /\ HistoryForm
  BY InitForm, InitHistoryForm
<1>2. Form /\ HistoryForm /\ [Next]_vars => Form' /\ HistoryForm'
  <2>1. ASSUME Form, HistoryForm, Next PROVE Form' /\ HistoryForm'
    BY <2>1, NextForm, NextHistoryForm
  <2>2. ASSUME Form, HistoryForm, UNCHANGED vars PROVE Form' /\ HistoryForm'
    <3>1. UNCHANGED <<resources, pc, req, held, status, changes, landed, cut,
                      parted, right, last>>
      BY <2>2 DEF vars, history
    <3>. QED
      BY <2>2, <3>1 DEF Form, HistoryForm, HeldOK, InStep, RequestOK, Fit, Has
  <2>. QED
    BY <2>1, <2>2
<1>3. Form /\ HistoryForm => TypeOK
  BY DEF Form, HistoryForm, TypeOK
<1>. QED
  BY <1>1, <1>2, <1>3, PTL DEF Spec

-----------------------------------------------------------------------------
(* The inductive invariant.  What is right now was right during the walk;  *)
(* what the walk holds leads to an answer that was right, as long as no    *)
(* second write landed; and until the first, to the one that is right now. *)
Seen(p) == right[p] \cup (IF cut[p] THEN {"502"} ELSE {})

WalkOK(p) ==
  /\ pc[p] \in WalkSteps => RightAnswers(resources, req[p].host) \subseteq right[p]
  /\ pc[p] = "route" =>
       /\ landed[p] = 0 => held[p] \in FirstOf(Answering(resources, req[p].host))
       /\ landed[p] <= 1 => ViaEndpoint(resources, held[p]) \subseteq Seen(p)
  /\ pc[p] = "origin" =>
       /\ landed[p] = 0 =>
            \E e \in FirstOf(Answering(resources, req[p].host)) :
              \E r \in FirstOf(Routed(resources, e)) : held[p] = resources[r].originGroup
       /\ landed[p] <= 1 =>
            parted[p] \/ ViaGroup(resources, held[p]) \subseteq Seen(p)

(* What a host was last answered is right until the next write. *)
Lasting == \A h \in Hosts : last[h] # "none" => last[h] \in RightAnswers(resources, h)

RoutingInv ==
  Form /\ HistoryForm /\ (\A p \in Procs : WalkOK(p)) /\ Lasting

(* What the history notes of a walk that goes on. *)
LEMMA NotedWalk ==
  ASSUME Form, HistoryForm, Note, NEW p \in Procs, Walking(p)
  PROVE  /\ right[p] \subseteq right'[p] /\ Seen(p) \subseteq Seen(p)'
         /\ parted[p] => parted'[p]
         /\ resources' = resources => landed'[p] = landed[p]
         /\ resources' # resources =>
              /\ RightAnswers(resources', req'[p].host) \subseteq right'[p]
              /\ landed'[p] # 0 /\ (landed'[p] <= 1 => landed[p] = 0)
              /\ Took(resources, resources') => cut'[p]
              /\ Parts(resources, resources') => parted'[p]
<1>1. /\ right'[p] = IF pc[p] = "idle" \/ resources' # resources
                     THEN right[p] \cup RightAnswers(resources', req'[p].host)
                     ELSE right[p]
      /\ landed'[p] = IF resources' # resources /\ landed[p] < 2
                      THEN landed[p] + 1 ELSE landed[p]
      /\ cut'[p] = (cut[p] \/ \E id \in Ids : Gone(id))
      /\ parted'[p] = (parted[p] \/ Parting)
  BY DEF Note
<1>2. (Took(resources, resources') <=> \E id \in Ids : Gone(id))
      /\ (Parts(resources, resources') <=> Parting)
  BY DEF Took, Parts, Gone, Parting
<1>3. landed[p] \in 0..2
  BY DEF HistoryForm
<1>4. /\ resources' = resources => landed'[p] = landed[p]
      /\ resources' # resources =>
           landed'[p] # 0 /\ (landed'[p] <= 1 => landed[p] = 0)
  BY <1>1, <1>3
<1>5. (cut[p] => cut'[p]) /\ (parted[p] => parted'[p])
  BY <1>1, Zenon
<1>6. /\ Took(resources, resources') => cut'[p]
      /\ Parts(resources, resources') => parted'[p]
  BY <1>1, <1>2, Zenon
<1>7. /\ right[p] \subseteq right'[p]
      /\ resources' # resources => RightAnswers(resources', req'[p].host) \subseteq right'[p]
  BY <1>1
<1>. QED
  BY <1>4, <1>5, <1>6, <1>7 DEF Seen

LEMMA WalkingIs ==
  ASSUME Form, Form', NEW p \in Procs
  PROVE  Walking(p) <=> pc'[p] \in WalkSteps
BY DEF Form, InStep, Walking, WalkSteps, Steps, NoRequest

(* A write of another request. *)
LEMMA WrittenKeepsWalk ==
  ASSUME Form, HistoryForm, Form', Note, NEW p \in Procs, WalkOK(p),
         Written(resources, resources'), resources' # resources,
         pc'[p] = pc[p], req'[p] = req[p], held'[p] = held[p]
  PROVE  WalkOK(p)'
<1> SUFFICES ASSUME pc[p] \in WalkSteps PROVE WalkOK(p)'
  BY DEF WalkOK, WalkSteps
<1> DEFINE host == req[p].host
<1>0. /\ resources \in Stores /\ Fit(resources) /\ Fit(resources')
      /\ host.name \in Segments
      /\ pc[p] # "find" => host.suffix = AFDSuffix
  BY Requester DEF Form
<1>1. Walking(p)
  BY WalkingIs
<1>2. /\ RightAnswers(resources', host) \subseteq right'[p]
      /\ right[p] \subseteq right'[p]
      /\ landed'[p] # 0 /\ (landed'[p] <= 1 => landed[p] = 0)
      /\ Took(resources, resources') => cut'[p]
      /\ Parts(resources, resources') => parted'[p]
  BY <1>1, NotedWalk
<1>3. /\ RightAnswers(resources, host) \subseteq right'[p]
      /\ RightAnswers(resources, host) \cup RightAnswers(resources', host)
           \cup Unresolved(resources, resources') \subseteq Seen(p)'
  BY <1>2 DEF WalkOK, Seen, Unresolved
<1>4. ASSUME pc[p] = "route", landed'[p] <= 1
      PROVE  ViaEndpoint(resources', held[p]) \subseteq Seen(p)'
  <2>1. held[p] \in FirstOf(Answering(resources, host))
    BY <1>2, <1>4 DEF WalkOK
  <2>2. ViaEndpoint(resources', held[p]) \subseteq
          RightAnswers(resources, host) \cup RightAnswers(resources', host)
            \cup Unresolved(resources, resources')
    BY <1>0, <1>4, <2>1, OneWriteAtRoute
  <2>. QED
    BY <1>3, <2>2
<1>5. ASSUME pc[p] = "origin", landed'[p] <= 1, ~parted'[p]
      PROVE  ViaGroup(resources', held[p]) \subseteq Seen(p)'
  <2>1. PICK e \in FirstOf(Answering(resources, host)) :
          \E r \in FirstOf(Routed(resources, e)) : held[p] = resources[r].originGroup
    BY <1>2, <1>5 DEF WalkOK
  <2>2. PICK r \in FirstOf(Routed(resources, e)) : held[p] = resources[r].originGroup
    BY <2>1
  <2>3. ~Parts(resources, resources')
    BY <1>2, <1>5
  <2>4. ViaGroup(resources', held[p]) \subseteq
          RightAnswers(resources, host) \cup RightAnswers(resources', host)
            \cup Unresolved(resources, resources')
    BY <1>0, <1>5, <2>2, <2>3, OneWriteAtOrigin
  <2>. QED
    BY <1>3, <2>4
<1>. QED
  BY <1>2, <1>4, <1>5 DEF WalkOK

(* A step that leaves the store alone, of another request. *)
LEMMA ReadKeepsWalk ==
  ASSUME Form, HistoryForm, Form', Note, NEW p \in Procs, WalkOK(p),
         resources' = resources,
         pc'[p] = pc[p], req'[p] = req[p], held'[p] = held[p]
  PROVE  WalkOK(p)'
<1> SUFFICES ASSUME pc[p] \in WalkSteps PROVE WalkOK(p)'
  BY DEF WalkOK, WalkSteps
<1>1. Walking(p)
  BY WalkingIs
<1>2. /\ right[p] \subseteq right'[p] /\ Seen(p) \subseteq Seen(p)'
      /\ parted[p] => parted'[p]
      /\ landed'[p] = landed[p]
  BY <1>1, NotedWalk
<1>. QED
  BY <1>2 DEF WalkOK

(* The steps of a walk itself. *)
LEMMA ContentKeepsWalk ==
  ASSUME Form, HistoryForm, Form', Note, NEW p \in Procs, WalkOK(p), ContentStep(p)
  PROVE  WalkOK(p)'
<1> SUFFICES ASSUME pc'[p] \in WalkSteps PROVE WalkOK(p)'
  BY DEF WalkOK, WalkSteps
<1>0. /\ Walking(p) /\ resources' = resources
      /\ \A code : Answer(p, code) => pc'[p] = "idle"
  BY WalkingIs, ContentForm DEF Answer, Form
<1>00. /\ right[p] \subseteq right'[p] /\ Seen(p) \subseteq Seen(p)'
       /\ parted[p] => parted'[p]
       /\ landed'[p] = landed[p]
  BY <1>0, NotedWalk
<1>1. CASE ReceiveContent(p)
  <2>1. PICK host \in HostHeaders : Take(p, [op |-> "content", host |-> host], "find")
    BY <1>1 DEF ReceiveContent
  <2>2. pc[p] = "idle" /\ pc'[p] = "find" /\ req'[p].host = host
    BY <2>1 DEF Take, Goto, Form
  <2>3. right'[p] = right[p] \cup RightAnswers(resources', req'[p].host)
    BY <1>0, <2>2 DEF Note
  <2>. QED
    BY <2>2, <2>3 DEF WalkOK
<1>2. CASE ServeCDNContent(p) \/ ServeOrigin(p)
  <2>1. \E code : Answer(p, code)
    BY <1>2, ServeCDNAnswers, ServeOriginAnswers
  <2>. QED
    BY <1>0, <2>1 DEF WalkSteps
<1>3. CASE ServeAFDContent(p)
  <2>1. PICK e \in FirstOf(Answering(resources, req[p].host)) :
          Goto(p, "route") /\ UNCHANGED req /\ held' = [held EXCEPT ![p] = e]
    BY <1>0, <1>3, ServeAFDAnswers DEF WalkSteps
  <2>2. pc[p] = "find" /\ pc'[p] = "route" /\ req'[p] = req[p] /\ held'[p] = e
    BY <1>3, <2>1 DEF ServeAFDContent, Goto, Form
  <2>3. req[p].host.suffix = AFDSuffix
    BY <1>3 DEF ServeAFDContent, IsAFDContentHost
  <2>4. ViaEndpoint(resources, e) = RightAnswers(resources, req[p].host)
    BY <2>3, RightViaEndpoint
  <2>5. RightAnswers(resources, req[p].host) \subseteq right[p]
    BY <2>2 DEF WalkOK, WalkSteps
  <2>. QED
    BY <1>0, <1>00, <2>1, <2>2, <2>4, <2>5 DEF WalkOK, Seen
<1>4. CASE FollowRoute(p)
  <2>1. PICK r \in FirstOf(Routed(resources, held[p])) :
          /\ Goto(p, "origin") /\ UNCHANGED req
          /\ held' = [held EXCEPT ![p] = resources[r].originGroup]
    BY <1>0, <1>4, FollowRouteAnswers DEF WalkSteps
  <2>2. /\ pc[p] = "route" /\ pc'[p] = "origin" /\ req'[p] = req[p]
        /\ held'[p] = resources[r].originGroup
    BY <1>4, <2>1 DEF FollowRoute, Goto, Form
  <2>3. ViaGroup(resources, held'[p]) \subseteq ViaEndpoint(resources, held[p])
    <3>1. Routed(resources, held[p]) # {}
      BY <2>1 DEF FirstOf
    <3>. QED
      BY <2>1, <2>2, <3>1 DEF ViaEndpoint
  <2>4. RightAnswers(resources, req[p].host) \subseteq right[p]
    BY <2>2 DEF WalkOK, WalkSteps
  <2>. QED
    BY <1>0, <1>00, <2>1, <2>2, <2>3, <2>4 DEF WalkOK
<1>. QED
  BY <1>1, <1>2, <1>3, <1>4 DEF ContentStep

LEMMA NextWalk ==
  ASSUME RoutingInv, Next, NEW q \in Procs
  PROVE  WalkOK(q)'
<1>1. /\ Form' /\ Note
      /\ resources' = resources \/ Written(resources, resources')
      /\ \E p \in Procs : (HandlerStep(p) \/ ContentStep(p)) /\ Alone(p)
  BY NextForm DEF RoutingInv
<1>2. PICK p \in Procs : (HandlerStep(p) \/ ContentStep(p)) /\ Alone(p)
  BY <1>1
<1>3. CASE q # p
  <2>1. pc'[q] = pc[q] /\ req'[q] = req[q] /\ held'[q] = held[q]
    BY <1>2, <1>3 DEF Alone
  <2>. QED
    BY <1>1, <2>1, ReadKeepsWalk, WrittenKeepsWalk DEF RoutingInv
<1>4. CASE q = p /\ HandlerStep(p)
  <2>1. pc'[q] \notin WalkSteps
    BY <1>4, HandlersStepAlone DEF RoutingInv
  <2>. QED
    BY <2>1 DEF WalkOK, WalkSteps
<1>5. CASE q = p /\ ContentStep(p)
  BY <1>1, <1>5, ContentKeepsWalk DEF RoutingInv
<1>. QED
  BY <1>2, <1>3, <1>4, <1>5

-----------------------------------------------------------------------------
(* What a content request is answered. *)
LEMMA OneAnswer ==
  ASSUME Form, NEW p \in Procs, Served(p), NEW codes,
         \E code \in Outcomes(codes) : Answer(p, code)
  PROVE  status'[p] \in codes
<1>1. PICK code \in Outcomes(codes) : Answer(p, code)
  OBVIOUS
<1>2. status'[p] = code
  BY <1>1, AnswerAlone
<1>. QED
  BY <1>2, ContentCodes DEF Served, Outcomes

LEMMA ServedIsRight ==
  ASSUME Form, HistoryForm, NEW p \in Procs, WalkOK(p), ContentStep(p), Served(p)
  PROVE  /\ \/ status'[p] \in right[p]
            \/ status'[p] = "502" /\ cut[p]
            \/ parted[p]
            \/ landed[p] = 2
         /\ landed[p] = 0 => status'[p] \in RightAnswers(resources, req[p].host)
<1> DEFINE host == req[p].host
<1>0. landed[p] \in 0..2
  BY DEF HistoryForm
<1>1. CASE ReceiveContent(p)
  <2>1. \E r : Take(p, r, "find") /\ UNCHANGED held
    BY <1>1 DEF ReceiveContent
  <2>2. status'[p] = "none"
    BY <2>1, TakeAlone
  <2>. QED
    BY <2>2, ContentCodes DEF Served
<1>2. CASE ServeCDNContent(p)
  <2>1. status'[p] \in RightAnswers(resources, host)
    BY <1>2, ServeCDNAnswers, OneAnswer
  <2>2. pc[p] = "find"
    BY <1>2 DEF ServeCDNContent
  <2>. QED
    BY <2>1, <2>2 DEF WalkOK, WalkSteps
<1>3. CASE ServeAFDContent(p)
  <2>1. status'[p] = "404" /\ "404" \in RightAnswers(resources, host)
    <3>1. CASE Answer(p, "404") /\ "404" \in RightAnswers(resources, host)
      BY <3>1, AnswerAlone
    <3>2. CASE Goto(p, "route")
      BY <3>2, ContentCodes DEF Goto, Served
    <3>. QED
      BY <1>3, <3>1, <3>2, ServeAFDAnswers
  <2>2. pc[p] = "find"
    BY <1>3 DEF ServeAFDContent
  <2>. QED
    BY <2>1, <2>2 DEF WalkOK, WalkSteps
<1>4. CASE FollowRoute(p)
  <2>1. status'[p] \in ViaEndpoint(resources, held[p])
    <3>1. CASE Answer(p, "502") /\ ViaEndpoint(resources, held[p]) = {"502"}
      BY <3>1, AnswerAlone
    <3>2. CASE Goto(p, "origin")
      BY <3>2, ContentCodes DEF Goto, Served
    <3>. QED
      BY <1>4, <3>1, <3>2, FollowRouteAnswers
  <2>2. pc[p] = "route"
    BY <1>4 DEF FollowRoute
  <2>3. ASSUME landed[p] = 0 PROVE status'[p] \in RightAnswers(resources, host)
    <3>1. held[p] \in FirstOf(Answering(resources, host)) /\ host.suffix = AFDSuffix
      BY <2>2, <2>3, Requester DEF WalkOK, WalkSteps
    <3>. QED
      BY <2>1, <3>1, RightViaEndpoint
  <2>4. landed[p] <= 1 => status'[p] \in Seen(p)
    BY <2>1, <2>2 DEF WalkOK
  <2>. QED
    BY <1>0, <2>3, <2>4 DEF Seen
<1>5. CASE ServeOrigin(p)
  <2>1. status'[p] \in ViaGroup(resources, held[p])
    BY <1>5, ServeOriginAnswers, OneAnswer
  <2>2. pc[p] = "origin"
    BY <1>5 DEF ServeOrigin
  <2>3. ASSUME landed[p] = 0 PROVE status'[p] \in RightAnswers(resources, host)
    <3>1. PICK e \in FirstOf(Answering(resources, host)) :
            \E r \in FirstOf(Routed(resources, e)) : held[p] = resources[r].originGroup
      BY <2>2, <2>3 DEF WalkOK
    <3>2. host.suffix = AFDSuffix
      BY <2>2, Requester DEF WalkSteps
    <3>3. RightAnswers(resources, host) = ViaEndpoint(resources, e)
      BY <3>2, RightViaEndpoint
    <3>4. Routed(resources, e) # {}
      BY <3>1 DEF FirstOf
    <3>5. ViaGroup(resources, held[p]) \subseteq ViaEndpoint(resources, e)
      BY <3>1, <3>4 DEF ViaEndpoint
    <3>. QED
      BY <2>1, <3>3, <3>5
  <2>4. landed[p] <= 1 => parted[p] \/ status'[p] \in Seen(p)
    BY <2>1, <2>2 DEF WalkOK
  <2>. QED
    BY <1>0, <2>3, <2>4 DEF Seen
<1>. QED
  BY <1>1, <1>2, <1>3, <1>4, <1>5 DEF ContentStep

LEMMA NextAnswers ==
  ASSUME RoutingInv, Next, NEW p \in Procs, Served(p)
  PROVE  /\ \/ status'[p] \in right[p]
            \/ status'[p] = "502" /\ cut[p]
            \/ parted[p]
            \/ landed[p] = 2
         /\ landed[p] = 0 => status'[p] \in RightAnswers(resources, req[p].host)
         /\ \A q \in Procs : Served(q) => q = p
<1>1. PICK o \in Procs : (HandlerStep(o) \/ ContentStep(o)) /\ Alone(o)
  BY NextForm DEF RoutingInv
<1>2. \A q \in Procs : Served(q) => q = o /\ ContentStep(o)
  BY <1>1, ServedAlone DEF RoutingInv
<1>. QED
  BY <1>2, ServedIsRight DEF RoutingInv

LEMMA NextLasting ==
  ASSUME RoutingInv, Next
  PROVE  Lasting'
<1> SUFFICES ASSUME NEW h \in Hosts, last'[h] # "none"
             PROVE  last'[h] \in RightAnswers(resources', h)
  BY DEF Lasting
<1>1. /\ resources' = resources
      /\ last'[h] = IF \E p \in Procs : Served(p) /\ landed[p] = 0
                                        /\ SameHost(req[p].host, h)
                    THEN status'[CHOOSE p \in Procs : Served(p)]
                    ELSE last[h]
  BY DEF Next, Note
<1>2. ASSUME NEW p \in Procs, Served(p), landed[p] = 0, SameHost(req[p].host, h)
      PROVE  last'[h] \in RightAnswers(resources', h)
  <2>1. (CHOOSE q \in Procs : Served(q)) = p
    BY <1>2, NextAnswers
  <2>2. last'[h] = status'[p]
    BY <1>1, <1>2, <2>1
  <2>3. status'[p] \in RightAnswers(resources, req[p].host)
    BY <1>2, NextAnswers
  <2>. QED
    BY <1>1, <1>2, <2>2, <2>3, SameHostSameAnswers
<1>3. CASE last'[h] = last[h]
  BY <1>1, <1>3 DEF RoutingInv, Lasting
<1>. QED
  BY <1>1, <1>2, <1>3

LEMMA RoutingInvHolds == Spec => []RoutingInv
<1>1. Init => RoutingInv
  <2> SUFFICES ASSUME Init PROVE RoutingInv
    OBVIOUS
  <2>1. \A p \in Procs : WalkOK(p)
    BY DEF Init, WalkOK, WalkSteps
  <2>2. Lasting
    BY DEF Init, Lasting
  <2>. QED
    BY <2>1, <2>2, InitForm, InitHistoryForm DEF RoutingInv
<1>2. RoutingInv /\ [Next]_vars => RoutingInv'
  <2>1. ASSUME RoutingInv, Next PROVE RoutingInv'
    BY <2>1, NextForm, NextHistoryForm, NextWalk, NextLasting DEF RoutingInv
  <2>2. ASSUME RoutingInv, UNCHANGED vars PROVE RoutingInv'
    <3>1. UNCHANGED <<resources, pc, req, held, status, changes, landed, cut,
                      parted, right, last>>
      BY <2>2 DEF vars, history
    <3>2. Form' /\ HistoryForm'
      BY <2>2, <3>1
      DEF RoutingInv, Form, HistoryForm, HeldOK, InStep, RequestOK, Fit, Has
    <3>3. \A p \in Procs : RightAnswers(resources, req[p].host)'
                            = RightAnswers(resources, req[p].host)
      BY <3>1
    <3>4. \A p \in Procs : WalkOK(p)'
      BY <2>2, <3>1 DEF RoutingInv, WalkOK, Seen
    <3>5. Lasting'
      BY <2>2, <3>1 DEF RoutingInv, Lasting
    <3>. QED
      BY <3>2, <3>4, <3>5 DEF RoutingInv
  <2>. QED
    BY <2>1, <2>2
<1>. QED
  BY <1>1, <1>2, PTL DEF Spec

(* A content request is answered what was right at some moment while it    *)
(* was served, unless two writes landed between its Lists; a DELETE may    *)
(* leave it an origin that does not resolve, or part it from its route     *)
(* while the twin of its group lives.                                      *)
THEOREM AnswersWereRightHolds == Spec => AnswersWereRight
<1>1. RoutingInv /\ [Next]_vars =>
        [\A p \in Procs : Served(p) =>
           \/ status'[p] \in right[p]
           \/ status'[p] = "502" /\ cut[p]
           \/ parted[p]
           \/ landed[p] = 2]_vars
  BY NextAnswers
<1>. QED
  BY <1>1, RoutingInvHolds, PTL DEF Spec, AnswersWereRight

(* Of a host without a tie there is one right answer. *)
LEMMA NoTieOneAnswer ==
  ASSUME NEW s, NEW host, ~Tied(s, host),
         NEW a \in RightAnswers(s, host), NEW b \in RightAnswers(s, host)
  PROVE  a = b
<1>1. CASE Answering(s, host) = {}
  BY <1>1 DEF RightAnswers
<1>2. CASE Answering(s, host) # {} /\ IsCDNContentHost(host)
  <2>1. PICK e \in Answering(s, host) : Answering(s, host) = {e}
    BY <1>2 DEF Tied, Several
  <2>2. RightAnswers(s, host) = {Code(CDNOriginAccount(s[e]))}
    BY <1>2, <2>1 DEF RightAnswers
  <2>. QED
    BY <2>2
<1>3. CASE Answering(s, host) # {} /\ ~IsCDNContentHost(host)
  <2> DEFINE origins == UNION {Origins(s, e) : e \in FirstOf(Answering(s, host))}
  <2>1. Answering(s, host) \in SUBSET Ids
    BY DEF Answering, Advertising, Stocked, OfKind
  <2>2. PICK e \in FirstOf(Answering(s, host)) : FirstOf(Answering(s, host)) = {e}
    BY <1>3, <2>1, FirstExists, FirstIsOne
  <2>3. origins = Origins(s, e)
    BY <2>2
  <2>4. \A o, q \in Origins(s, e) : o = q
    BY <1>3, <2>2 DEF Tied, Several, FirstOf
  <2>5. RightAnswers(s, host) = IF origins = {} THEN {"502"}
          ELSE {Code(BlobAccountFromHost(Prop(s[o], "hostName", NoHost))) : o \in origins}
    BY <1>3 DEF RightAnswers
  <2>. HIDE DEF origins
  <2>. QED
    BY <2>3, <2>4, <2>5
<1>. QED
  BY <1>1, <1>2, <1>3

(* Between two writes a host answers the same, whatever order the scans of *)
(* the Go map take, unless endpoints or origins are tied.                  *)
THEOREM OnlyTiesVaryHolds == Spec => OnlyTiesVary
<1>1. ASSUME RoutingInv, RoutingInv', Next, NEW h \in Hosts,
             last[h] # "none", last'[h] \notin {"none", last[h]}
      PROVE  Tied(resources, h)
  <2>1. last[h] \in RightAnswers(resources, h)
    BY <1>1 DEF RoutingInv, Lasting
  <2>2. last'[h] \in RightAnswers(resources', h)
    BY <1>1 DEF RoutingInv, Lasting
  <2>3. resources' = resources
    BY <1>1 DEF Next, Note
  <2>. QED
    BY <1>1, <2>1, <2>2, <2>3, NoTieOneAnswer
<1>2. RoutingInv /\ RoutingInv' /\ [Next]_vars =>
        [\A h \in Hosts :
           last[h] # "none" /\ last'[h] \notin {"none", last[h]} =>
             Tied(resources, h)]_vars
  BY <1>1
<1>. QED
  BY <1>2, RoutingInvHolds, PTL DEF Spec, OnlyTiesVary
=============================================================================
