---------------------------- MODULE ServerProofs ----------------------------
(***************************************************************************)
(* Proofs about what runs beside the handlers: ServerProcess, for any      *)
(* number of servers, launchers and ports, and RequestRecorder, for any    *)
(* number of writers and clients and any capacity of the ring and of the   *)
(* channels.  The two share no variable.                                   *)
(***************************************************************************)
EXTENDS ServerProcess, RequestRecorder, SequenceTheorems, TLAPS

-----------------------------------------------------------------------------
(* The process and its files. *)

Phases == {"off", "starting", "generating", "saving", "serving", "stopping", "gone"}

LEMMA PortsAreNumbered ==
  /\ Len(Ports) \in Nat
  /\ \A i \in 1..Len(Ports) : Ports[i] \in AllPorts
  /\ \A p \in AllPorts : \E i \in 1..Len(Ports) : p = Ports[i]
  /\ \A i, j \in 1..Len(Ports) : Ports[i] = Ports[j] => i = j
BY ServerAssumption DEF AllPorts, ToSet, IsInjective

(* What TypeOK leaves out: the domains of the functions, what is served    *)
(* and that a port told to shut down is not bound later.                   *)
Shape ==
  /\ phase \in [Servers -> Phases]
  /\ cert \in [Servers -> Generated \cup {"none"}]
  /\ unbound \in [Servers -> SUBSET AllPorts]
  /\ open \in [Servers -> SUBSET AllPorts]
  /\ closing \in [Servers -> 0..Len(Ports)]
  /\ launch \in [Launchers -> {"idle", "start", "waiting", "ready", "failed"}]
  /\ \A s \in Servers : \A i \in 1..closing[s] : Ports[i] \notin unbound[s]

LEMMA InitTypeOK == Init => TypeOK /\ Shape
<1> SUFFICES ASSUME Init PROVE TypeOK /\ Shape
  OBVIOUS
<1> USE ServerAssumption, PortsAreNumbered
<1>1. TypeOK
  BY DEF Init, TypeOK, Generated
<1>2. Shape
  BY DEF Init, Shape, Phases
<1>. QED
  BY <1>1, <1>2

(* A process that ends leaves nothing bound. *)
LEMMA EndTypeOK ==
  ASSUME TypeOK, Shape, NEW s \in Servers, End(s)
  PROVE  TypeOK' /\ Shape'
<1> USE ServerAssumption, PortsAreNumbered
<1>1. Shape'
  BY DEF End, Become, Shape, Phases, disk
<1>2. \A p \in AllPorts : bound'[p] \in Servers => bound[p] # s /\ bound'[p] = bound[p]
  BY DEF End
<1>3. bound' \in [AllPorts -> Servers \cup {Nobody, Foreign}]
  BY DEF End, TypeOK
<1>4. \A t \in Servers : \A i \in 1..closing'[t] : bound'[Ports[i]] # t
  BY DEF End, TypeOK, Shape
<1>5. \A p \in AllPorts : bound'[p] \in Servers =>
        phase'[bound'[p]] \in {"serving", "stopping"} /\ p \notin unbound'[bound'[p]]
  BY <1>2, <1>3 DEF End, Become, TypeOK, Shape
<1>. QED
  BY <1>1, <1>3, <1>4, <1>5 DEF End, Become, disk, TypeOK, Shape, Phases

LEMMA NextTypeOK == TypeOK /\ Shape /\ [Next]_vars => TypeOK' /\ Shape'
<1> SUFFICES ASSUME TypeOK, Shape, [Next]_vars PROVE TypeOK' /\ Shape'
  OBVIOUS
<1> USE ServerAssumption, PortsAreNumbered
<1> USE DEF disk, sockets, history, Shape, Phases, TypeOK
<1>1. ASSUME NEW s \in Servers, Start(s),
             launch' \in [Launchers -> {"idle", "start", "waiting", "ready", "failed"}]
      PROVE  TypeOK' /\ Shape'
  <2>0. UNCHANGED <<disk, cert, sockets, closing, unread>> /\ phase' \in [Servers -> Phases]
    BY <1>1 DEF Start, Become
  <2>1. Shape'
    BY <1>1, <2>0
  <2>2. astray' \subseteq Servers
    BY <1>1 DEF Start, NoteNeighbours
  <2>3. ASSUME NEW p \in AllPorts, bound[p] \in Servers
        PROVE  phase'[bound[p]] = phase[bound[p]]
    <3>0. phase[bound[p]] \in {"serving", "stopping"}
      BY <2>3
    <3>1. bound[p] \in Servers
      BY <2>3
    <3>2. \A t \in Servers \ {s} : phase'[t] = phase[t]
      BY <1>1 DEF Start, Become
    <3>3. phase[s] = "off"
      BY <1>1 DEF Start
    <3>. QED
      BY <3>0, <3>1, <3>2, <3>3
  <2>. QED
    BY <2>0, <2>1, <2>2, <2>3
<1>2. ASSUME NEW s \in Servers, ServerStep(s) PROVE TypeOK' /\ Shape'
  <2>1. CASE LoadOrGenerate(s)
    <3>1. PICK c \in Generated, step \in {"serving", "generating"} :
            Become(s, step) /\ cert' = [cert EXCEPT ![s] = c]
      <4>1. CASE certPath # "none" /\ Loadable(files[certPath])
        BY <2>1, <4>1 DEF LoadOrGenerate, Loadable
      <4>2. CASE ~(certPath # "none" /\ Loadable(files[certPath]))
        BY <2>1, <4>2 DEF LoadOrGenerate, Generated
      <4>. QED
        BY <4>1, <4>2
    <3>2. phase[s] = "starting" /\ UNCHANGED <<disk, sockets, closing, launch, unread>>
      BY <2>1 DEF LoadOrGenerate
    <3>3. astray' \subseteq Servers
      BY <2>1 DEF LoadOrGenerate, NoteNeighbours
    <3>. QED
      BY <3>1, <3>2, <3>3 DEF Become
  <2>2. CASE Truncate(s)
    BY <2>2 DEF Truncate, Become, Bundle, Paths
  <2>3. CASE Save(s)
    BY <2>3 DEF Save, Become, Bundle, Paths, Generated
  <2>4. ASSUME NEW p \in AllPorts, Listen(s, p) PROVE TypeOK' /\ Shape'
    <3>1. Shape'
      BY <2>4 DEF Listen
    <3>2. CASE bound[p] = Nobody
      <4>1. bound' = [bound EXCEPT ![p] = s] /\ p \notin unbound'[s] /\ phase' = phase
        BY <2>4, <3>2 DEF Listen
      <4>2. \A q \in AllPorts \ {p} : bound'[q] = bound[q]
        BY <4>1
      <4>3. \A t \in Servers : unbound'[t] \subseteq unbound[t]
        BY <2>4 DEF Listen
      <4>4. \A i \in 1..closing[s] : Ports[i] # p
        BY <2>4 DEF Listen
      <4>. QED
        BY <2>4, <3>1, <4>1, <4>2, <4>3, <4>4 DEF Listen
    <3>3. CASE bound[p] # Nobody
      BY <2>4, <3>1, <3>3 DEF Listen
    <3>. QED
      BY <3>2, <3>3
  <2>5. CASE Shutdown(s)
    <3>1. closing[s] + 1 \in 1..Len(Ports) /\ Ports[closing[s] + 1] \in AllPorts
      BY <2>5 DEF Shutdown
    <3>2. Shape'
      BY <2>5, <3>1 DEF Shutdown
    <3>. QED
      BY <2>5, <3>1, <3>2 DEF Shutdown
  <2>6. CASE Deadline(s)
    BY <2>6 DEF Deadline
  <2>7. CASE Fatal(s) \/ Return(s)
    BY <2>7, EndTypeOK DEF Fatal, Return
  <2>. QED
    BY <1>2, <2>1, <2>2, <2>3, <2>4, <2>5, <2>6, <2>7 DEF ServerStep
<1>3. ASSUME NEW s \in Servers,
             \/ StartByHand(s) \/ RefuseToStart(s) \/ FailToLoad(s) \/ FailToSave(s)
             \/ Signal(s) \/ Crash(s)
      PROVE  TypeOK' /\ Shape'
  <2>1. CASE StartByHand(s)
    BY <1>1, <2>1 DEF StartByHand
  <2>2. CASE RefuseToStart(s) \/ Crash(s)
    BY <2>2, EndTypeOK DEF RefuseToStart, Crash
  <2>3. CASE FailToSave(s)
    BY <2>3 DEF FailToSave, Generating, Become
  <2>4. CASE Signal(s)
    BY <2>4 DEF Signal, Become
  <2>5. CASE FailToLoad(s)
    <3>1. astray' \subseteq Servers /\ unread' \subseteq Servers
      BY <2>5 DEF FailToLoad, NoteNeighbours
    <3>2. phase[s] = "starting" /\ UNCHANGED <<disk, sockets, closing, launch>>
      BY <2>5 DEF FailToLoad
    <3>3. Become(s, "generating") /\ cert' = [cert EXCEPT ![s] = s] /\ s \in Generated
      BY <2>5 DEF FailToLoad, Generated
    <3>. QED
      BY <3>1, <3>2, <3>3 DEF Become
  <2>. QED
    BY <1>3, <2>1, <2>2, <2>3, <2>4, <2>5
<1>4. ASSUME NEW s \in Servers, NEW p \in AllPorts, OpenRequest(s, p) \/ EndRequest(s, p)
      PROVE  TypeOK' /\ Shape'
  <2>0. open[s] \cup {p} \in SUBSET AllPorts /\ open[s] \ {p} \in SUBSET AllPorts
    OBVIOUS
  <2>1. PICK P \in SUBSET AllPorts : open' = [open EXCEPT ![s] = P]
    BY <1>4, <2>0 DEF OpenRequest, EndRequest
  <2>2. UNCHANGED <<disk, phase, cert, unbound, bound, closing, launch, astray, unread>>
    BY <1>4 DEF OpenRequest, EndRequest
  <2>. QED
    BY <2>1, <2>2
<1>5. ASSUME NEW l \in Launchers, LauncherStep(l) PROVE TypeOK' /\ Shape'
  <2>1. CASE StartInBackground(l)
    BY <1>1, <2>1 DEF StartInBackground
  <2>2. ASSUME NEW step \in {"ready", "start", "failed"}, Launch(l, step)
        PROVE  TypeOK' /\ Shape'
    <3>1. launch' \in [Launchers -> {"idle", "start", "waiting", "ready", "failed"}]
      BY <2>2 DEF Launch
    <3>2. UNCHANGED <<disk, phase, cert, sockets, closing, astray, unread>>
      BY <2>2 DEF Launch
    <3>. QED
      BY <3>1, <3>2
  <2>3. CASE HearHealthy(l)
    BY <2>3 DEF HearHealthy
  <2>. QED
    BY <1>5, <2>1, <2>2, <2>3 DEF LauncherStep, Probe, FailToStart, Poll, GiveUp
<1>6. ASSUME NEW c \in Generated, Expire(c) PROVE TypeOK' /\ Shape'
  BY <1>6 DEF Expire
<1>7. CASE UNCHANGED vars
  BY <1>7 DEF vars
<1>8. ASSUME NEW p \in AllPorts, Occupy(p) \/ Vacate(p) PROVE TypeOK' /\ Shape'
  <2>1. PICK owner \in {Nobody, Foreign} : bound' = [bound EXCEPT ![p] = owner]
    BY <1>8 DEF Occupy, Vacate
  <2>2. UNCHANGED <<disk, phase, cert, unbound, open, closing, launch, history>>
    BY <1>8 DEF Occupy, Vacate
  <2>. QED
    BY <2>1, <2>2
<1>9. ASSUME NEW s \in Servers, NEW p \in AllPorts, ListenerFails(s, p)
      PROVE  TypeOK' /\ Shape'
  <2>1. /\ unbound' = [unbound EXCEPT ![s] = @ \ {p}]
        /\ bound' = [bound EXCEPT ![p] = IF @ = s THEN Nobody ELSE @]
        /\ UNCHANGED <<disk, phase, cert, open, closing, launch, astray, unread>>
    BY <1>9 DEF ListenerFails
  <2>2. Shape'
    BY <2>1
  <2>3. \A q \in AllPorts : bound'[q] = bound[q] \/ bound'[q] = Nobody
    BY <2>1
  <2>4. bound' \in [AllPorts -> Servers \cup {Nobody, Foreign}]
    BY <2>1
  <2>5. \A t \in Servers : unbound'[t] \subseteq unbound[t]
    BY <2>1
  <2>. QED
    BY <2>1, <2>2, <2>3, <2>4, <2>5
<1>. QED
  BY <1>2, <1>3, <1>4, <1>5, <1>6, <1>7, <1>8, <1>9 DEF Next

LEMMA ShapeHolds == Spec => [](TypeOK /\ Shape)
BY InitTypeOK, NextTypeOK, PTL DEF Spec

(* Every variable keeps its type, and a port is bound by a server that     *)
(* serves or is shutting down and has not closed this port.                *)
THEOREM TypeCorrect == Spec => []TypeOK
BY ShapeHolds, PTL

-----------------------------------------------------------------------------
(* Who has had a neighbour that generated a certificate is astray.         *)
Neighbours ==
  \A s, t \in Servers : s # t /\ Alive(s) /\ Generating(t) => s \in astray

(* A server that nobody disturbed serves what its bundle holds. *)
ServedIsKept ==
  \A s \in Servers \ astray : phase[s] \in {"serving", "stopping"} =>
    files[Bundle] = cert[s] /\ cert[s] # "none"

(* It generates only when the bundle is not good, unless it could not read *)
(* it, and that lasts until it saves its own.                              *)
NoneIsLost ==
  \A s \in Servers \ (astray \cup unread) : certPath # "none" =>
    /\ phase[s] = "generating" => ~Loadable(files[certPath])
    /\ phase[s] = "saving" => files[certPath] = "torn"

GeneratorHasCert ==
  \A s \in Servers : Generating(s) => cert[s] = s

TrustInv == Neighbours /\ ServedIsKept /\ NoneIsLost /\ GeneratorHasCert

LEMMA InitTrustInv == Init => TrustInv
BY DEF Init, TrustInv, Neighbours, ServedIsKept, NoneIsLost, GeneratorHasCert,
       Alive, Generating

(* An end changes no file, and of nobody else anything. *)
LEMMA EndTrustInv ==
  ASSUME TypeOK, Shape, TrustInv, NEW s \in Servers, End(s)
  PROVE  TrustInv'
<1> USE DEF TypeOK, Shape, Phases
<1>1. /\ phase'[s] = "gone" /\ UNCHANGED disk
      /\ \A t \in Servers \ {s} : phase'[t] = phase[t] /\ cert'[t] = cert[t]
      /\ \A t \in Servers \ {s} : t \in astray' <=> t \in astray
      /\ \A t \in Servers \ {s} : t \in unread' <=> t \in unread
  BY DEF End, Become
<1>2. Neighbours'
  BY <1>1 DEF TrustInv, Neighbours, Alive, Generating
<1>3. ServedIsKept'
  BY SMTT(30), <1>1 DEF TrustInv, ServedIsKept, Bundle, disk
<1>4. NoneIsLost'
  BY <1>1 DEF TrustInv, NoneIsLost, Loadable, disk
<1>5. GeneratorHasCert'
  BY <1>1 DEF TrustInv, GeneratorHasCert, Generating
<1>. QED
  BY <1>2, <1>3, <1>4, <1>5 DEF TrustInv

(* A step that changes no file, no phase and no certificate. *)
LEMMA QuietTrustInv ==
  ASSUME TrustInv, UNCHANGED <<disk, phase, cert, astray, unread>>
  PROVE  TrustInv'
BY DEF TrustInv, Neighbours, ServedIsKept, NoneIsLost, GeneratorHasCert,
       Alive, Generating, Bundle, Loadable, disk

LEMMA StartTrustInv ==
  ASSUME TypeOK, Shape, TrustInv, NEW s \in Servers, Start(s)
  PROVE  TrustInv'
<1> USE DEF TypeOK, Shape, Phases
<1>1. /\ phase'[s] = "starting" /\ UNCHANGED <<disk, cert, unread>>
      /\ \A t \in Servers \ {s} : phase'[t] = phase[t]
      /\ astray \subseteq astray'
  BY DEF Start, Become, NoteNeighbours
<1>2. Neighbours'
  BY <1>1 DEF Start, NoteNeighbours, Neighbours, Alive, Generating
<1>. QED
  BY <1>1, <1>2 DEF TrustInv, ServedIsKept, NoneIsLost, GeneratorHasCert,
              Generating, Bundle, Loadable, disk

LEMMA NextTrustInv == TypeOK /\ Shape /\ TrustInv /\ [Next]_vars => TrustInv'
<1> SUFFICES ASSUME TypeOK, Shape, TrustInv, [Next]_vars PROVE TrustInv'
  OBVIOUS
<1> USE DEF TypeOK, Shape, Phases
<1>1. ASSUME NEW s \in Servers, LoadOrGenerate(s) PROVE TrustInv'
  <2>1. /\ phase[s] = "starting" /\ UNCHANGED <<disk, unread>>
        /\ \A t \in Servers \ {s} : phase'[t] = phase[t] /\ cert'[t] = cert[t]
        /\ astray \subseteq astray'
    BY <1>1 DEF LoadOrGenerate, Become, NoteNeighbours
  <2>2. Neighbours'
    BY <1>1, <2>1 DEF LoadOrGenerate, NoteNeighbours, TrustInv, Neighbours, Alive, Generating
  <2>3. CASE certPath # "none" /\ Loadable(files[certPath])
    <3>1. phase'[s] = "serving" /\ cert'[s] = files[certPath] /\ cert'[s] # "none"
      <4>1. files[certPath] # "none"
        BY <2>3, ServerAssumption DEF Loadable, Generated
      <4>. QED
        BY <1>1, <2>3, <4>1 DEF LoadOrGenerate, Become
    <3>2. ServedIsKept'
      BY <2>1, <2>3, <3>1 DEF TrustInv, ServedIsKept, Bundle, disk
    <3>3. NoneIsLost'
      BY <2>1, <3>1 DEF TrustInv, NoneIsLost, Loadable, disk
    <3>4. GeneratorHasCert'
      BY SMTT(30), <2>1, <3>1 DEF TrustInv, GeneratorHasCert, Generating
    <3>. QED
      BY <2>2, <3>2, <3>3, <3>4 DEF TrustInv
  <2>4. CASE ~(certPath # "none" /\ Loadable(files[certPath]))
    <3>1. phase'[s] = "generating" /\ cert'[s] = s
      BY <1>1, <2>4 DEF LoadOrGenerate, Become
    <3>. QED
      <4>1. ServedIsKept'
        BY <2>1, <3>1 DEF TrustInv, ServedIsKept, Bundle, disk
      <4>2. NoneIsLost'
        BY <2>1, <2>4, <3>1 DEF TrustInv, NoneIsLost, Loadable, disk
      <4>3. GeneratorHasCert'
        BY <2>1, <3>1 DEF TrustInv, GeneratorHasCert, Generating
      <4>. QED
        BY <2>2, <4>1, <4>2, <4>3 DEF TrustInv
  <2>. QED
    BY <2>3, <2>4
<1>2. ASSUME NEW s \in Servers, Truncate(s) PROVE TrustInv'
  <2>1. /\ phase[s] = "generating" /\ phase'[s] = "saving"
        /\ \A t \in Servers \ {s} : phase'[t] = phase[t]
        /\ files' = [files EXCEPT ![Bundle] = "torn"]
        /\ UNCHANGED <<certPath, tempDir, expired, cert, astray, unread>>
    BY <1>2 DEF Truncate, Become, history
  <2>2. \A t \in Servers \ {s} : Alive(t) => t \in astray
    BY <2>1 DEF TrustInv, Neighbours, Generating
  <2>3. certPath # "none" => files'[certPath] = "torn"
    BY <2>1 DEF Bundle
  <2>. QED
    <3>0. \A t \in Servers : (Alive(t)' => Alive(t)) /\ (Generating(t)' => Generating(t))
      BY <2>1 DEF Alive, Generating
    <3>1. Neighbours'
      BY <2>1, <3>0 DEF TrustInv, Neighbours
    <3>2. ServedIsKept'
      BY <2>1, <2>2 DEF ServedIsKept, Alive
    <3>3. NoneIsLost'
      BY SMTT(30), <2>1, <2>2, <2>3 DEF NoneIsLost, Alive
    <3>4. GeneratorHasCert'
      BY <2>1 DEF TrustInv, GeneratorHasCert, Generating
    <3>. QED
      BY <3>1, <3>2, <3>3, <3>4 DEF TrustInv
<1>3. ASSUME NEW s \in Servers, Save(s) PROVE TrustInv'
  <2>1. /\ phase[s] = "saving" /\ phase'[s] = "serving"
        /\ \A t \in Servers \ {s} : phase'[t] = phase[t]
        /\ files' = [files EXCEPT ![Bundle] = cert[s]]
        /\ UNCHANGED <<certPath, tempDir, expired, cert, astray, unread>>
    BY <1>3 DEF Save, Become, history
  <2>2. \A t \in Servers \ {s} : Alive(t) => t \in astray
    BY <2>1 DEF TrustInv, Neighbours, Generating
  <2>3. files'[Bundle] = cert[s] /\ Bundle' = Bundle
    BY <2>1 DEF Bundle, Paths
  <2>4. cert[s] # "none"
    BY <2>1, ServerAssumption DEF TrustInv, GeneratorHasCert, Generating
  <2>. QED
    <3>0. \A t \in Servers : (Alive(t)' => Alive(t)) /\ (Generating(t)' => Generating(t))
      BY <2>1 DEF Alive, Generating
    <3>1. Neighbours'
      BY <2>1, <3>0 DEF TrustInv, Neighbours
    <3>2. ServedIsKept'
      BY <2>1, <2>2, <2>3, <2>4 DEF ServedIsKept, Alive
    <3>3. NoneIsLost'
      BY <2>1, <2>2 DEF NoneIsLost, Alive
    <3>4. GeneratorHasCert'
      BY <2>1 DEF TrustInv, GeneratorHasCert, Generating
    <3>. QED
      BY <3>1, <3>2, <3>3, <3>4 DEF TrustInv
<1>4. ASSUME NEW s \in Servers, FailToSave(s) PROVE TrustInv'
  BY <1>4 DEF FailToSave, Become, TrustInv, Neighbours, ServedIsKept, NoneIsLost,
              GeneratorHasCert, Alive, Generating, Bundle, Loadable, disk
<1>5. ASSUME NEW s \in Servers, Signal(s) PROVE TrustInv'
  BY <1>5 DEF Signal, Become, TrustInv, Neighbours, ServedIsKept, NoneIsLost,
              GeneratorHasCert, Alive, Generating, Bundle, Loadable, disk
<1>6. ASSUME NEW c \in Generated, Expire(c) PROVE TrustInv'
  BY <1>6 DEF Expire, TrustInv, Neighbours, ServedIsKept, NoneIsLost,
              GeneratorHasCert, Alive, Generating, Bundle, Loadable, history
<1>7. ASSUME NEW s \in Servers,
             \/ Shutdown(s) \/ Deadline(s)
             \/ \E p \in AllPorts : Listen(s, p) \/ ListenerFails(s, p)
             \/ \E p \in AllPorts : OpenRequest(s, p) \/ EndRequest(s, p)
      PROVE  TrustInv'
  BY <1>7, QuietTrustInv
     DEF Shutdown, Deadline, Listen, ListenerFails, OpenRequest, EndRequest, history
<1>8. ASSUME NEW l \in Launchers, LauncherStep(l) PROVE TrustInv'
  <2>1. ASSUME NEW step, Launch(l, step) PROVE TrustInv'
    BY <2>1, QuietTrustInv DEF Launch, history
  <2>2. CASE HearHealthy(l)
    BY <2>2, QuietTrustInv DEF HearHealthy
  <2>. QED
    BY <1>8, <2>1, <2>2, StartTrustInv
       DEF LauncherStep, Probe, StartInBackground, FailToStart, Poll, GiveUp
<1>9. CASE UNCHANGED vars
  BY <1>9, QuietTrustInv DEF vars, history
<1>10. ASSUME NEW s \in Servers,
              StartByHand(s) \/ RefuseToStart(s) \/ Fatal(s) \/ Return(s) \/ Crash(s)
       PROVE  TrustInv'
  BY <1>10, StartTrustInv, EndTrustInv
     DEF StartByHand, RefuseToStart, Fatal, Return, Crash
<1>11. ASSUME NEW p \in AllPorts, Occupy(p) \/ Vacate(p) PROVE TrustInv'
  BY <1>11, QuietTrustInv DEF Occupy, Vacate, history
<1>12. ASSUME NEW s \in Servers, FailToLoad(s) PROVE TrustInv'
  <2>1. /\ phase[s] = "starting" /\ UNCHANGED disk
        /\ \A t \in Servers \ {s} : phase'[t] = phase[t] /\ cert'[t] = cert[t]
        /\ astray \subseteq astray' /\ unread' = unread \cup {s}
        /\ phase'[s] = "generating" /\ cert'[s] = s
    BY <1>12 DEF FailToLoad, Become, NoteNeighbours
  <2>2. Neighbours'
    BY <1>12, <2>1 DEF FailToLoad, NoteNeighbours, TrustInv, Neighbours, Alive, Generating
  <2>3. ServedIsKept'
    BY <2>1 DEF TrustInv, ServedIsKept, Bundle, disk
  <2>4. NoneIsLost'
    BY <2>1 DEF TrustInv, NoneIsLost, Loadable, disk
  <2>5. GeneratorHasCert'
    BY <2>1 DEF TrustInv, GeneratorHasCert, Generating
  <2>. QED
    BY <2>2, <2>3, <2>4, <2>5 DEF TrustInv
<1>. QED
  BY <1>1, <1>2, <1>3, <1>4, <1>5, <1>6, <1>7, <1>8, <1>9, <1>10, <1>11, <1>12
     DEF Next, ServerStep

LEMMA TrustInvHolds == Spec => [](TypeOK /\ Shape /\ TrustInv)
BY InitTypeOK, NextTypeOK, InitTrustInv, NextTrustInv, PTL DEF Spec

LEMMA TrustInvSuffices == TypeOK /\ Shape /\ TrustInv => TrustIsServed
<1> SUFFICES ASSUME TypeOK, Shape, TrustInv, NEW s \in Servers,
                    bound[Health] = s, s \notin astray,
                    certPath = "none" => files["cwd"] = "none" /\ tempDir = "tmp"
             PROVE  files[ResolvedCertFile] = cert[s]
  BY DEF TrustIsServed
<1>1. phase[s] \in {"serving", "stopping"}
  BY ServerAssumption DEF TypeOK, AllPorts
<1>2. files[Bundle] = cert[s] /\ cert[s] # "none"
  BY <1>1 DEF TrustInv, ServedIsKept
<1>3. ResolvedCertFile = Bundle
  BY <1>2 DEF ResolvedCertFile, FirstExisting, Bundle, TypeOK
<1>. QED
  BY <1>2, <1>3

(* Whatever starts, fails or dies: the client of a launcher trusts the     *)
(* server that answers, but for the exceptions that TrustIsServed names.   *)
THEOREM TrustIsServedHolds == Spec => []TrustIsServed
BY TrustInvHolds, TrustInvSuffices, PTL

LEMMA StepKeepsBundles ==
  TypeOK /\ Shape /\ TrustInv /\ [Next]_vars =>
    (certPath # "none" /\ Loadable(files[certPath]) /\ files'[certPath] # files[certPath] =>
       \E s \in astray \cup unread : Generating(s))
<1> SUFFICES ASSUME TypeOK, Shape, TrustInv, [Next]_vars, certPath # "none",
                    Loadable(files[certPath]), files'[certPath] # files[certPath]
             PROVE  \E s \in astray \cup unread : Generating(s)
  OBVIOUS
<1>1. PICK s \in Servers : Truncate(s) \/ Save(s)
  BY DEF Next, ServerStep, LauncherStep, vars, disk, LoadOrGenerate, Listen, Fatal,
         Shutdown, Deadline, Return, Probe, StartInBackground, FailToStart, Poll, GiveUp,
         HearHealthy, Launch, Start, StartByHand, RefuseToStart, FailToLoad, FailToSave,
         OpenRequest, EndRequest, ListenerFails, Signal, Crash, Expire, Occupy, Vacate, End
<1>2. Generating(s)
  BY <1>1 DEF Truncate, Save, Generating
<1>3. s \in astray \cup unread
  BY <1>1, ServerAssumption DEF Truncate, Save, TrustInv, NoneIsLost, Loadable, Generated
<1>. QED
  BY <1>2, <1>3

(* A good bundle is replaced only by a server that had a neighbour. *)
THEOREM BundlesStayHolds == Spec => BundlesStay
<1>1. TypeOK /\ Shape /\ TrustInv /\ [Next]_vars =>
        [certPath # "none" /\ Loadable(files[certPath])
           /\ files'[certPath] # files[certPath] => \E s \in astray \cup unread : Generating(s)]_vars
  BY StepKeepsBundles
<1>. QED
  BY <1>1, TrustInvHolds, PTL DEF Spec, BundlesStay

-----------------------------------------------------------------------------
(* While nothing is spoiled, there is one server at most; no listener of   *)
(* it failed, and whoever is ready was answered by it.                     *)
Healthy == bound[Health] \in Servers

LoneInv ==
  /\ DOMAIN error = Servers
  /\ ~spoiled =>
       /\ \A s, t \in Servers : Alive(s) /\ Alive(t) => s = t
       /\ \A s \in Servers : phase[s] # "stopping" /\ ~error[s]
       /\ \A l \in Launchers : launch[l] = "ready" => Healthy
  /\ \A s \in Servers :
       /\ phase[s] \in {"off", "starting", "generating", "saving"} => unbound[s] = AllPorts
       /\ phase[s] = "serving" /\ ~spoiled =>
            \A p \in AllPorts : bound[p] = s \/ p \in unbound[s]

(* What a server has bound is bound by the one server. *)
LEMMA BoundByOne ==
  ASSUME TypeOK, Shape, LoneInv, ~spoiled, NEW p \in AllPorts, bound[p] \in Servers
  PROVE  /\ phase[bound[p]] = "serving" /\ p \notin unbound[bound[p]]
         /\ \A s \in Servers : Alive(s) => s = bound[p]
BY DEF TypeOK, LoneInv, Alive

LEMMA StartLoneInv ==
  ASSUME TypeOK, Shape, LoneInv, NEW s \in Servers, Start(s),
         \A l \in Launchers : launch'[l] = "ready" => launch[l] = "ready"
  PROVE  LoneInv'
<1>1. /\ phase[s] = "off" /\ phase' = [phase EXCEPT ![s] = "starting"]
      /\ UNCHANGED <<unbound, error, bound>>
      /\ spoiled' = (spoiled \/ \E t \in Servers : Alive(t))
  BY DEF Start, Become, sockets
<1>2. /\ phase'[s] = "starting"
      /\ \A t \in Servers \ {s} : phase'[t] = phase[t]
  BY <1>1 DEF Shape
<1>3. CASE spoiled'
  BY <1>1, <1>2, <1>3 DEF LoneInv
<1>4. CASE ~spoiled'
  <2>1. ~spoiled /\ \A t \in Servers : ~Alive(t)
    BY <1>1, <1>4
  <2>2. ~Healthy
    <3> SUFFICES ASSUME bound[Health] \in Servers PROVE FALSE
      BY DEF Healthy
    <3>1. Health \in AllPorts
      BY ServerAssumption DEF AllPorts
    <3>2. phase[bound[Health]] = "serving"
      BY <2>1, <3>1, BoundByOne
    <3>. QED
      BY <2>1, <3>2 DEF Alive
  <2>3. \A t \in Servers \ {s} : ~Alive(t)'
    BY <1>2, <2>1 DEF Alive
  <2>4. \A t, u \in Servers : (Alive(t) /\ Alive(u))' => t = u
    BY <2>3
  <2>5. \A t \in Servers : phase'[t] # "stopping" /\ phase'[t] # "serving"
    BY <1>2, <2>1 DEF Alive
  <2>. QED
    BY <1>1, <1>2, <2>1, <2>2, <2>4, <2>5 DEF LoneInv
<1>. QED
  BY <1>3, <1>4

(* A server that ends while nothing is spoiled has bound nothing. *)
LEMMA EndLoneInv ==
  ASSUME TypeOK, Shape, LoneInv, NEW s \in Servers, End(s),
         spoiled' \/ (spoiled' = spoiled /\ (spoiled \/ phase[s] = "starting"))
  PROVE  LoneInv'
<1>1. /\ phase' = [phase EXCEPT ![s] = "gone"] /\ error' = [error EXCEPT ![s] = FALSE]
      /\ unbound' = [unbound EXCEPT ![s] = {}] /\ launch' = launch
      /\ bound' = [p \in AllPorts |-> IF bound[p] = s THEN Nobody ELSE bound[p]]
  BY DEF End, Become
<1>2. /\ phase'[s] = "gone" /\ ~error'[s] /\ DOMAIN error' = Servers
      /\ \A t \in Servers \ {s} :
           phase'[t] = phase[t] /\ error'[t] = error[t] /\ unbound'[t] = unbound[t]
  BY <1>1 DEF Shape, LoneInv
<1>3. CASE spoiled'
  BY <1>2, <1>3 DEF LoneInv
<1>4. CASE ~spoiled'
  <2>1. ~spoiled /\ phase[s] = "starting"
    BY <1>4
  <2>2. \A p \in AllPorts : bound[p] # s
    BY <2>1, ServerAssumption DEF TypeOK
  <2>3. bound' = bound
    BY <1>1, <2>2 DEF TypeOK
  <2>4. \A t, u \in Servers : (Alive(t) /\ Alive(u))' => t = u
    BY <1>2, <2>1 DEF LoneInv, Alive
  <2>. QED
    BY <1>1, <1>2, <2>1, <2>3, <2>4 DEF LoneInv, Healthy
<1>. QED
  BY <1>3, <1>4

(* A server that gets on, before it listens. *)
LEMMA OnwardLoneInv ==
  ASSUME TypeOK, Shape, LoneInv, NEW s \in Servers,
         phase[s] \in {"starting", "generating", "saving"},
         NEW step \in {"generating", "saving", "serving"}, Become(s, step),
         UNCHANGED <<unbound, error, bound, launch, spoiled>>
  PROVE  LoneInv'
<1>1. /\ phase'[s] = step
      /\ \A t \in Servers \ {s} : phase'[t] = phase[t]
  BY DEF Become, Shape
<1>2. \A t \in Servers : Alive(t)' <=> Alive(t)
  BY <1>1 DEF Alive
<1>3. unbound[s] = AllPorts
  BY DEF LoneInv
<1>. QED
  BY <1>1, <1>2, <1>3 DEF LoneInv, Healthy

LEMMA QuietLoneInv ==
  ASSUME LoneInv, UNCHANGED <<phase, unbound, error, bound, spoiled>>,
         \A l \in Launchers : launch'[l] = "ready" => launch[l] = "ready" \/ Healthy
  PROVE  LoneInv'
BY DEF LoneInv, Healthy, Alive

LEMMA ListenLoneInv ==
  ASSUME TypeOK, Shape, LoneInv, NEW s \in Servers, NEW p \in AllPorts, Listen(s, p)
  PROVE  LoneInv'
<1>1. /\ phase[s] \in {"serving", "stopping"} /\ p \in unbound[s]
      /\ unbound' = [unbound EXCEPT ![s] = @ \ {p}]
      /\ phase' = phase /\ launch' = launch
      /\ spoiled' = (spoiled \/ bound[p] = Foreign)
  BY DEF Listen
<1>2. /\ unbound'[s] = unbound[s] \ {p}
      /\ \A t \in Servers \ {s} : unbound'[t] = unbound[t]
  BY <1>1 DEF Shape
<1>3. DOMAIN error' = Servers
  BY DEF Listen, LoneInv
<1>4. CASE spoiled'
  BY <1>1, <1>2, <1>3, <1>4 DEF LoneInv
<1>5. CASE ~spoiled'
  <2>0. ~spoiled /\ bound[p] # Foreign
    BY <1>1, <1>5
  <2>1. phase[s] = "serving" /\ Alive(s)
    BY <1>1, <2>0 DEF LoneInv, Alive
  <2>2. bound[p] = Nobody
    <3> SUFFICES ASSUME bound[p] \in Servers PROVE FALSE
      BY <2>0 DEF TypeOK
    <3>. QED
      BY <1>1, <2>0, <2>1, BoundByOne
  <2>3. error' = error /\ bound' = [bound EXCEPT ![p] = s]
    BY <2>2 DEF Listen
  <2>4. bound'[p] = s /\ \A q \in AllPorts \ {p} : bound'[q] = bound[q]
    BY <2>3 DEF TypeOK
  <2>5. \A t \in Servers : phase[t] = "serving" => t = s
    BY <2>0, <2>1 DEF LoneInv, Alive
  <2>6. Healthy => Healthy'
    BY <2>4, ServerAssumption DEF Healthy, AllPorts
  <2>7. \A q \in AllPorts : bound'[q] = s \/ q \in unbound'[s]
    BY <1>2, <2>0, <2>1, <2>4 DEF LoneInv
  <2>. QED
    BY <1>1, <1>2, <1>3, <2>0, <2>1, <2>3, <2>5, <2>6, <2>7 DEF LoneInv, Alive
<1>. QED
  BY <1>4, <1>5

LEMMA InitLoneInv == Init => LoneInv
BY DEF Init, LoneInv, Alive

LEMMA NextLoneInv == TypeOK /\ Shape /\ LoneInv /\ [Next]_vars => LoneInv'
<1> SUFFICES ASSUME TypeOK, Shape, LoneInv, [Next]_vars PROVE LoneInv'
  OBVIOUS
<1>1. ASSUME NEW s \in Servers,
             LoadOrGenerate(s) \/ FailToLoad(s) \/ Truncate(s) \/ Save(s) \/ FailToSave(s)
      PROVE  LoneInv'
  <2>1. /\ phase[s] \in {"starting", "generating", "saving"}
        /\ \E step \in {"generating", "saving", "serving"} : Become(s, step)
        /\ UNCHANGED <<unbound, error, bound, launch, spoiled>>
    BY <1>1 DEF LoadOrGenerate, FailToLoad, Truncate, Save, FailToSave, Generating, sockets, history
  <2>. QED
    BY <2>1, OnwardLoneInv
<1>2. ASSUME NEW s \in Servers, Fatal(s) \/ Return(s) \/ RefuseToStart(s) \/ Crash(s)
      PROVE  LoneInv'
  <2>1. End(s)
    BY <1>2 DEF Fatal, Return, RefuseToStart, Crash
  <2>2. CASE Crash(s)
    <3>1. spoiled'
      BY <2>2 DEF Crash
    <3>. QED
      BY <2>1, <3>1, EndLoneInv
  <2>3. CASE Fatal(s) \/ Return(s) \/ RefuseToStart(s)
    <3>1. spoiled' = spoiled
      BY <2>3 DEF Fatal, Return, RefuseToStart
    <3>2. spoiled \/ phase[s] = "starting"
      BY <2>3 DEF Fatal, Return, RefuseToStart, LoneInv
    <3>. QED
      BY <2>1, <3>1, <3>2, EndLoneInv
  <2>. QED
    BY <1>2, <2>2, <2>3
<1>3. ASSUME NEW s \in Servers, Signal(s) PROVE LoneInv'
  BY <1>3 DEF Signal, Become, sockets, LoneInv, Shape
<1>4. ASSUME NEW s \in Servers, Shutdown(s) PROVE LoneInv'
  <2>1. spoiled /\ spoiled' = spoiled /\ phase[s] = "stopping"
    BY <1>4 DEF Shutdown, LoneInv, history
  <2>2. /\ UNCHANGED <<phase, error>>
        /\ \A t \in Servers \ {s} : unbound'[t] = unbound[t]
    BY <1>4 DEF Shutdown, Shape
  <2>. QED
    BY <2>1, <2>2 DEF LoneInv
<1>5. ASSUME NEW s \in Servers,
             \/ Deadline(s)
             \/ \E p \in AllPorts : OpenRequest(s, p) \/ EndRequest(s, p)
      PROVE  LoneInv'
  <2>1. UNCHANGED <<phase, unbound, error, bound, spoiled, launch>>
    BY <1>5 DEF Deadline, OpenRequest, EndRequest, sockets, history
  <2>. QED
    BY <2>1, QuietLoneInv
<1>6. ASSUME NEW s \in Servers, StartByHand(s) PROVE LoneInv'
  BY <1>6, StartLoneInv DEF StartByHand
<1>7. ASSUME NEW l \in Launchers, LauncherStep(l) PROVE LoneInv'
  <2>1. CASE StartInBackground(l)
    BY <2>1, StartLoneInv DEF StartInBackground, Shape
  <2>2. ASSUME NEW step, Launch(l, step), step # "ready" PROVE LoneInv'
    BY <2>2, QuietLoneInv DEF Launch, sockets, history, Shape
  <2>3. CASE HearHealthy(l)
    <3>1. /\ UNCHANGED <<phase, unbound, error, bound>>
          /\ bound[Health] # Nobody /\ spoiled' = (spoiled \/ bound[Health] = Foreign)
      BY <2>3 DEF HearHealthy, sockets
    <3>2. CASE spoiled'
      BY <3>1, <3>2 DEF LoneInv
    <3>3. CASE ~spoiled'
      <4>1. ~spoiled /\ bound[Health] # Foreign
        BY <3>1, <3>3
      <4>2. Healthy
        BY <3>1, <4>1, ServerAssumption DEF Healthy, TypeOK, AllPorts
      <4>. QED
        BY <3>1, <4>1, <4>2 DEF LoneInv, Healthy, Alive
    <3>. QED
      BY <3>2, <3>3
  <2>. QED
    BY <1>7, <2>1, <2>2, <2>3 DEF LauncherStep, Probe, FailToStart, Poll, GiveUp
<1>8. ASSUME NEW c \in Generated, Expire(c) PROVE LoneInv'
  BY <1>8, QuietLoneInv DEF Expire, sockets, history
<1>9. CASE UNCHANGED vars
  BY <1>9, QuietLoneInv DEF vars, sockets, history
<1>10. ASSUME NEW s \in Servers, NEW p \in AllPorts, Listen(s, p) PROVE LoneInv'
  BY <1>10, ListenLoneInv
<1>11. ASSUME NEW s \in Servers, NEW p \in AllPorts, ListenerFails(s, p) PROVE LoneInv'
  <2>1. /\ spoiled' /\ phase' = phase /\ DOMAIN error' = Servers
        /\ phase[s] \in {"serving", "stopping"}
        /\ \A t \in Servers \ {s} : unbound'[t] = unbound[t]
    BY <1>11 DEF ListenerFails, LoneInv, Shape
  <2>. QED
    BY <2>1 DEF LoneInv
<1>12. ASSUME NEW p \in AllPorts, Occupy(p) \/ Vacate(p) PROVE LoneInv'
  <2>1. UNCHANGED <<phase, unbound, error, spoiled, launch>>
    BY <1>12 DEF Occupy, Vacate, history
  <2>2. \A q \in AllPorts : \A s \in Servers : bound'[q] = s <=> bound[q] = s
    BY <1>12, ServerAssumption DEF Occupy, Vacate, TypeOK
  <2>3. Healthy' <=> Healthy
    BY <2>2, ServerAssumption DEF Healthy, AllPorts
  <2>. QED
    BY <2>1, <2>2, <2>3 DEF LoneInv, Alive
<1>. QED
  BY <1>1, <1>2, <1>3, <1>4, <1>5, <1>6, <1>7, <1>8, <1>9, <1>10, <1>11, <1>12
     DEF Next, ServerStep

(* For any number of servers, launchers and ports: a launcher that was     *)
(* told ready was answered by a server that serves, that no port failed    *)
(* and that no other server hinders, but for the causes that spoiled       *)
(* records.                                                                *)
THEOREM ReadyIsServedHolds == Spec => []ReadyIsServed
<1>1. TypeOK /\ Shape /\ LoneInv => ReadyIsServed
  <2> SUFFICES ASSUME TypeOK, Shape, LoneInv, ~spoiled, NEW l \in Launchers,
                      launch[l] = "ready"
               PROVE  \E s \in Servers :
                        /\ phase[s] = "serving" /\ ~error[s] /\ bound[Health] = s
                        /\ \A p \in AllPorts :
                             bound[p] = s \/ (p \in unbound[s] /\ bound[p] \notin Servers)
    BY DEF ReadyIsServed
  <2> DEFINE s == bound[Health]
  <2>1. s \in Servers /\ phase[s] = "serving" /\ Alive(s)
    BY BoundByOne, ServerAssumption DEF LoneInv, Healthy, AllPorts, Alive
  <2>2. \A p \in AllPorts : bound[p] \in Servers => bound[p] = s
    BY <2>1, BoundByOne
  <2>3. ~error[s] /\ \A p \in AllPorts : bound[p] = s \/ p \in unbound[s]
    BY <2>1 DEF LoneInv
  <2>4. \A p \in AllPorts : bound[p] = s \/ (p \in unbound[s] /\ bound[p] \notin Servers)
    BY <2>2, <2>3
  <2>5. bound[Health] = s
    OBVIOUS
  <2> HIDE DEF s
  <2>. QED
    BY <2>1, <2>3, <2>4, <2>5
<1>. QED
  BY <1>1, ShapeHolds, InitLoneInv, NextLoneInv, PTL DEF Spec

-----------------------------------------------------------------------------
(* The request log. *)

LEMMA ModSmall ==
  ASSUME NEW k \in Nat \ {0}, NEW n \in 0..k-1
  PROVE  n % k = n
OBVIOUS

LEMMA ModOnce ==
  ASSUME NEW k \in Nat \ {0}, NEW n \in k..2*k-1
  PROVE  n % k = n - k
OBVIOUS

LEMMA ModWithin ==
  ASSUME NEW k \in Nat \ {0}, NEW a \in Nat, NEW b \in Nat, a + b - 1 \in k..2*k-1
  PROVE  (a + b - 1) % k = a + b - 1 - k
OBVIOUS

LEMMA Stretched ==
  ASSUME NEW S, NEW s \in Seq(S), NEW t \in Seq(S), NEW e \in S
  PROVE  s \o Append(t, e) = Append(s \o t, e)
OBVIOUS

LEMMA Shifted ==
  ASSUME NEW S, NEW s \in Seq(S), NEW t \in Seq(S), t # <<>>
  PROVE  Append(s, Head(t)) \o Tail(t) = s \o t
OBVIOUS

LEMMA Elements ==
  ASSUME NEW S, NEW s \in Seq(S), NEW e \in S
  PROVE  ToSet(Append(s, e)) = ToSet(s) \cup {e}
<1>1. /\ Len(s) \in Nat /\ DOMAIN s = 1..Len(s)
      /\ DOMAIN Append(s, e) = 1..Len(s) + 1
      /\ \A i \in 1..Len(s) : Append(s, e)[i] = s[i]
      /\ Append(s, e)[Len(s) + 1] = e
  OBVIOUS
<1>2. ASSUME NEW x \in ToSet(Append(s, e)) PROVE x \in ToSet(s) \cup {e}
  BY <1>1 DEF ToSet
<1>3. ASSUME NEW x \in ToSet(s) \cup {e} PROVE x \in ToSet(Append(s, e))
  BY <1>1 DEF ToSet
<1>. QED
  BY <1>2, <1>3

-----------------------------------------------------------------------------
LEMMA LogInitTypeOK == LogInit => LogTypeOK
<1> SUFFICES ASSUME LogInit PROVE LogTypeOK
  OBVIOUS
<1>1. Capacity \in Nat \ {0} /\ MaxEntries \in Nat
  BY RecorderAssumption
<1>2. /\ buf \in [0..Capacity-1 -> 0..MaxEntries] /\ head \in 0..Capacity-1
      /\ count \in 0..Capacity /\ recorded \in 0..MaxEntries
  BY <1>1 DEF LogInit
<1>3. /\ entry \in [Writers -> 0..MaxEntries] /\ since \in [Clients -> 0..MaxEntries]
      /\ overlap \in [Entries -> SUBSET Entries] /\ dropped \in [Clients -> SUBSET Entries]
  BY <1>1 DEF LogInit
<1>4. chan \in [Clients -> Seq(Entries)] /\ written \in [Clients -> Seq(Entries)]
  BY EmptySeq DEF LogInit
<1>. QED
  BY <1>2, <1>3, <1>4 DEF LogInit, LogTypeOK

(* The entry n back from the latest, in the ring. *)
Back(n) == IF n < head THEN head - 1 - n ELSE head + Capacity - 1 - n

(* The ring holds the last entries, the latest just behind its head. *)
Recording ==
  /\ count = Least(recorded, Capacity)
  /\ \A n \in 0..count-1 : buf[Back(n)] = recorded - n

LEMMA RecentIs ==
  ASSUME LogTypeOK, Recording, NEW n \in Nat
  PROVE  LET m == Least(n, Least(recorded, Capacity)) IN
           /\ m \in 0..count /\ m <= recorded
           /\ Recent(n) = [i \in 1..m |-> recorded - m + i]
<1> DEFINE m == Least(n, count)
           start == (head + Capacity - m) % Capacity
<1>1. /\ m \in 0..count /\ count \in 0..Capacity /\ head \in 0..Capacity-1
      /\ recorded \in Nat /\ count <= recorded /\ Capacity \in Nat \ {0}
  BY RecorderAssumption DEF LogTypeOK, Least, Recording
<1>2. start = IF m <= head THEN head - m ELSE head + Capacity - m
  <2>1. CASE m <= head
    <3>1. head + Capacity - m \in Capacity..2*Capacity-1
      BY <1>1, <2>1
    <3>. QED
      BY <1>1, <2>1, <3>1, ModOnce
  <2>2. CASE ~(m <= head)
    <3>1. head + Capacity - m \in 0..Capacity-1
      BY <1>1, <2>2
    <3>. QED
      BY <1>1, <2>2, <3>1, ModSmall
  <2>. QED
    BY <2>1, <2>2
<1> HIDE DEF start
<1>3. ASSUME NEW i \in 1..m
      PROVE  buf[(start + i - 1) % Capacity] = recorded - m + i
  <2>1. (start + i - 1) % Capacity = Back(m - i)
    <3>1. CASE start + i - 1 < Capacity
      <4>1. start + i - 1 \in 0..Capacity-1
        BY <1>1, <1>2, <3>1
      <4>2. (start + i - 1) % Capacity = start + i - 1
        BY <1>1, <4>1, ModSmall
      <4>3. start + i - 1 = Back(m - i)
        BY <1>1, <1>2, <3>1 DEF Back
      <4>. QED
        BY <4>2, <4>3
    <3>2. CASE ~(start + i - 1 < Capacity)
      <4>1. start + i - 1 \in Capacity..2*Capacity-1
        BY <1>1, <1>2, <3>2
      <4>2. (start + i - 1) % Capacity = start + i - 1 - Capacity
        <5>1. start \in Nat /\ i \in Nat
          BY <1>1, <1>2
        <5>. QED
          BY <1>1, <4>1, <5>1, ModWithin
      <4>3. start + i - 1 - Capacity = Back(m - i)
        BY <1>1, <1>2, <3>2 DEF Back
      <4>. QED
        BY <4>2, <4>3
    <3>. QED
      BY <3>1, <3>2
  <2>2. m - i \in 0..count-1
    BY <1>1
  <2>3. buf[Back(m - i)] = recorded - (m - i)
    BY <2>2 DEF Recording
  <2>. QED
    BY <1>1, <2>1, <2>3
<1>4. Recent(n) = [i \in 1..m |-> recorded - m + i]
  BY <1>3 DEF Recent, start
<1>5. m = Least(n, Least(recorded, Capacity))
  BY DEF Recording
<1>. QED
  BY <1>1, <1>4, <1>5

LEMMA InitRecording == LogInit => Recording
BY RecorderAssumption DEF LogInit, Recording, Least

LEMMA RecordTyped ==
  ASSUME LogTypeOK, NEW w \in Writers, RecordEntry(w)
  PROVE  LogTypeOK'
<1> USE DEF LogTypeOK
<1>1. /\ recorded' = recorded + 1 /\ recorded' \in Entries
      /\ buf' = [buf EXCEPT ![head] = recorded'] /\ head' = (head + 1) % Capacity
      /\ count' = Least(count + 1, Capacity)
      /\ entry' = [entry EXCEPT ![w] = recorded']
      /\ pending' = [pending EXCEPT ![w] = registered]
      /\ overlap' = [overlap EXCEPT ![recorded'] = {entry[v] : v \in Writers} \ {0}]
      /\ UNCHANGED <<registered, chan, closed, written, clientState, dropped, broken>>
  BY RecorderAssumption DEF RecordEntry, RecordTo, SlotAfter, Entries
<1>2. head' \in 0..Capacity-1 /\ count' \in 0..Capacity
  <2>1. Capacity \in Nat \ {0} /\ head + 1 \in Nat
    BY RecorderAssumption
  <2>2. head' \in 0..Capacity-1
    BY <1>1, <2>1
  <2>3. count' \in 0..Capacity
    BY <1>1, <2>1 DEF Least
  <2>. QED
    BY <2>2, <2>3
<1>3. {entry[v] : v \in Writers} \ {0} \in SUBSET Entries
  BY DEF Entries
<1>4. overlap' \in [Entries -> SUBSET Entries]
  BY <1>1, <1>3
<1>5. /\ buf' \in [0..Capacity-1 -> 0..MaxEntries] /\ recorded' \in 0..MaxEntries
      /\ entry' \in [Writers -> 0..MaxEntries] /\ pending' \in [Writers -> SUBSET Clients]
  BY <1>1 DEF Entries
<1>. QED
  BY <1>1, <1>2, <1>4, <1>5 DEF clientState

LEMMA RecordRecording ==
  ASSUME LogTypeOK, Recording, NEW w \in Writers, RecordEntry(w)
  PROVE  Recording'
<1>1. /\ recorded \in Nat /\ head \in 0..Capacity-1 /\ count \in 0..Capacity
      /\ Capacity \in Nat \ {0} /\ buf \in [0..Capacity-1 -> 0..MaxEntries]
  BY RecorderAssumption DEF LogTypeOK
<1>2. /\ recorded' = recorded + 1 /\ buf' = [buf EXCEPT ![head] = recorded + 1]
      /\ head' = (head + 1) % Capacity /\ count' = Least(count + 1, Capacity)
  BY DEF RecordEntry, RecordTo, SlotAfter
<1>3. head' = IF head = Capacity - 1 THEN 0 ELSE head + 1
  <2>1. CASE head = Capacity - 1
    BY <1>1, <1>2, <2>1, ModOnce
  <2>2. CASE head # Capacity - 1
    <3>1. head + 1 \in 0..Capacity-1
      BY <1>1, <2>2
    <3>. QED
      BY <1>1, <1>2, <2>2, <3>1, ModSmall
  <2>. QED
    BY <2>1, <2>2
<1>4. count' = Least(recorded', Capacity)
  BY <1>1, <1>2 DEF Recording, Least
<1>5. ASSUME NEW n \in Nat, n < count' PROVE buf'[Back(n)'] = recorded' - n
  <2>1. count' <= count + 1 /\ count' <= Capacity /\ count' \in Nat
    BY <1>1, <1>2 DEF Least
  <2>2. CASE n = 0
    <3>1. Back(n)' = head
      BY <1>1, <1>3, <2>2 DEF Back
    <3>. QED
      BY <1>1, <1>2, <2>2, <3>1
  <2>3. CASE n # 0
    <3>1. n - 1 \in 0..count-1 /\ n \in 1..Capacity-1
      BY <1>1, <1>5, <2>1, <2>3
    <3>2. Back(n)' = Back(n - 1) /\ Back(n - 1) # head /\ Back(n - 1) \in 0..Capacity-1
      BY <1>1, <1>3, <3>1 DEF Back
    <3>3. buf[Back(n - 1)] = recorded - (n - 1)
      BY <3>1 DEF Recording
    <3>. QED
      BY <1>1, <1>2, <3>1, <3>2, <3>3
  <2>. QED
    BY <2>2, <2>3
<1>6. \A n \in 0..count'-1 : n \in Nat /\ n < count'
  BY <1>1, <1>2 DEF Least
<1>. QED
  BY <1>4, <1>5, <1>6 DEF Recording

LEMMA StillRecording == Recording /\ UNCHANGED ring => Recording'
BY DEF Recording, Back, ring, Least

-----------------------------------------------------------------------------
(* A writer that still sends has an entry, and a client that has not       *)
(* subscribed yet is unknown to all.                                       *)
Apart ==
  /\ \A w \in Writers :
       /\ entry[w] <= recorded
       /\ pending[w] # {} => entry[w] # 0
       /\ \A v \in Writers \ {w} : entry[v] = entry[w] => entry[w] = 0
       /\ entry[w] # 0 =>
            \A e \in Entries : entry[w] < e /\ e <= recorded => entry[w] \in overlap[e]
  /\ \A c \in Clients : stage[c] = "new" =>
       chan[c] = <<>> /\ c \notin registered /\ \A w \in Writers : c \notin pending[w]

(* No client is given an entry that is still to be sent to it, and none    *)
(* is overtaken by an entry that was recorded after it had returned.       *)
Delivered ==
  \A c \in Clients : \A i \in DOMAIN Given(c) :
    /\ Given(c)[i] <= recorded
    /\ \A w \in Writers : c \in pending[w] => Given(c)[i] # entry[w]

RecorderInv ==
  LogTypeOK /\ Recording /\ Apart /\ Delivered /\ NeverBoth /\ RealTimeOrder /\ MissesAreKnown

LEMMA GivenTyped ==
  ASSUME LogTypeOK, NEW c \in Clients
  PROVE  Given(c) \in Seq(Entries) /\ Len(Given(c)) \in Nat /\ DOMAIN Given(c) = 1..Len(Given(c))
<1>1. chan[c] \in Seq(Entries) /\ written[c] \in Seq(Entries)
  BY DEF LogTypeOK
<1>2. Given(c) \in Seq(Entries)
  BY <1>1, ConcatProperties DEF Given
<1>. QED
  BY <1>2

LEMMA InitRecorderInv == LogInit => RecorderInv
<1> SUFFICES ASSUME LogInit PROVE RecorderInv
  OBVIOUS
<1>1. LogTypeOK /\ Recording
  BY LogInitTypeOK, InitRecording
<1>2. Apart
  BY DEF LogInit, Apart
<1>3. \A c \in Clients : Given(c) = <<>>
  BY DEF LogInit, Given
<1>4. Delivered /\ NeverBoth /\ RealTimeOrder
  BY <1>3 DEF Delivered, NeverBoth, RealTimeOrder, IsInjective
<1>5. MissesAreKnown
  BY DEF LogInit, MissesAreKnown
<1>. QED
  BY <1>1, <1>2, <1>4, <1>5 DEF RecorderInv

-----------------------------------------------------------------------------
(* A new entry is sent to those who are registered, and overlaps with all  *)
(* that are being sent.                                                    *)
LEMMA RecordKeeps ==
  ASSUME RecorderInv, NEW w \in Writers, RecordEntry(w)
  PROVE  RecorderInv'
<1>1. LogTypeOK' /\ Recording'
  BY RecordTyped, RecordRecording DEF RecorderInv
<1>2. /\ entry[w] = 0 /\ recorded \in Nat /\ recorded' = recorded + 1 /\ recorded' \in Entries
      /\ entry' = [entry EXCEPT ![w] = recorded'] /\ entry \in [Writers -> 0..MaxEntries]
      /\ pending' = [pending EXCEPT ![w] = registered] /\ pending \in [Writers -> SUBSET Clients]
      /\ overlap' = [overlap EXCEPT ![recorded'] = {entry[v] : v \in Writers} \ {0}]
      /\ overlap \in [Entries -> SUBSET Entries]
      /\ UNCHANGED <<registered, chan, closed, written, stage, since, dropped, broken>>
  BY RecorderAssumption DEF RecorderInv, LogTypeOK, RecordEntry, RecordTo, clientState, Entries
<1>3. \A c \in Clients : Given(c)' = Given(c)
  BY <1>2 DEF Given
<1>4. Apart'
  <2>1. ASSUME NEW v \in Writers
        PROVE  /\ entry'[v] <= recorded'
               /\ pending'[v] # {} => entry'[v] # 0
               /\ \A u \in Writers \ {v} : entry'[u] = entry'[v] => entry'[v] = 0
    BY <1>2 DEF RecorderInv, Apart
  <2>2. ASSUME NEW v \in Writers, entry'[v] # 0,
               NEW e \in Entries, entry'[v] < e, e <= recorded'
        PROVE  entry'[v] \in overlap'[e]
    <3>1. v # w /\ entry'[v] = entry[v]
      BY <1>2, <2>2 DEF Entries
    <3>2. CASE e = recorded'
      BY <1>2, <2>2, <3>1, <3>2
    <3>3. CASE e # recorded'
      <4>1. e <= recorded /\ overlap'[e] = overlap[e]
        BY <1>2, <2>2, <3>3 DEF Entries
      <4>. QED
        BY <2>2, <3>1, <4>1 DEF RecorderInv, Apart
    <3>. QED
      BY <3>2, <3>3
  <2>3. ASSUME NEW c \in Clients, stage'[c] = "new"
        PROVE  chan'[c] = <<>> /\ c \notin registered' /\ \A v \in Writers : c \notin pending'[v]
    BY <1>2, <2>3 DEF RecorderInv, Apart
  <2>. QED
    BY <2>1, <2>2, <2>3 DEF Apart
<1>5. Delivered'
  <2>1. ASSUME NEW c \in Clients, NEW i \in DOMAIN Given(c)
        PROVE  /\ Given(c)[i] <= recorded'
               /\ \A v \in Writers : c \in pending'[v] => Given(c)[i] # entry'[v]
    <3>1. Given(c)[i] <= recorded /\ Given(c)[i] \in Nat
      <4>1. Given(c) \in Seq(Entries) /\ i \in 1..Len(Given(c))
        BY GivenTyped DEF RecorderInv
      <4>2. Given(c)[i] \in Entries
        BY <4>1, ElementOfSeq
      <4>. QED
        BY <4>2 DEF RecorderInv, Delivered, Entries
    <3>. QED
      BY <1>2, <3>1 DEF RecorderInv, Delivered
  <2>. QED
    BY <1>3, <2>1 DEF Delivered
<1>6. NeverBoth'
  BY <1>3 DEF RecorderInv, NeverBoth
<1>7. RealTimeOrder'
  <2>1. ASSUME NEW c \in Clients, NEW i \in DOMAIN Given(c)
        PROVE  overlap'[Given(c)[i]] = overlap[Given(c)[i]]
    <3>1. Given(c)[i] <= recorded /\ Given(c)[i] \in Entries
      BY GivenTyped, ElementOfSeq DEF RecorderInv, Delivered
    <3>. QED
      BY <1>2, <3>1 DEF Entries
  <2>. QED
    BY <1>3, <2>1 DEF RecorderInv, RealTimeOrder
<1>8. MissesAreKnown'
  <2>1. ASSUME NEW c \in registered, NEW e \in Missing(c)'
        PROVE  e \in dropped[c] \cup broken
    <3>0. c \in Clients /\ since[c] \in Nat
      BY DEF RecorderInv, LogTypeOK
    <3>1. e # recorded'
      BY <1>2, <2>1 DEF Missing
    <3>2. e \in Owed(c)
      BY <1>2, <2>1, <3>0, <3>1, RecorderAssumption DEF Missing, Owed, Least
    <3>3. e \notin ToSet(Given(c))
      BY <1>3, <2>1, <3>0 DEF Missing
    <3>4. \A v \in Writers : c \in pending[v] => entry[v] # e
      BY <1>2, <2>1 DEF Missing, RecorderInv, Apart
    <3>. QED
      BY <3>2, <3>3, <3>4 DEF RecorderInv, MissesAreKnown, Missing
  <2>. QED
    BY <1>2, <2>1 DEF MissesAreKnown
<1>. QED
  BY <1>1, <1>4, <1>5, <1>6, <1>7, <1>8 DEF RecorderInv

(* A send puts the entry behind what the client was given, or drops it.    *)
LEMMA SendKeeps ==
  ASSUME RecorderInv, NEW w \in Writers, NEW c \in Clients, SendTo(w, c)
  PROVE  RecorderInv'
<1>1. /\ c \in pending[w] /\ pending' = [pending EXCEPT ![w] = pending[w] \ {c}]
      /\ \/ dropped' = [dropped EXCEPT ![c] = dropped[c] \cup {entry[w]}] /\ chan' = chan
         \/ chan' = [chan EXCEPT ![c] = Append(chan[c], entry[w])] /\ dropped' = dropped
      /\ UNCHANGED <<ring, registered, closed, entry, written, clientState, broken, overlap>>
  BY DEF SendTo, TrySend
<1>2. entry[w] \in Entries /\ entry[w] <= recorded
  BY <1>1 DEF RecorderInv, LogTypeOK, Apart, Entries
<1>3. LogTypeOK'
  <2>1. pending' \in [Writers -> SUBSET Clients]
    BY <1>1 DEF RecorderInv, LogTypeOK
  <2>2. dropped' \in [Clients -> SUBSET Entries]
    <3>1. dropped[c] \cup {entry[w]} \in SUBSET Entries
      BY <1>2 DEF RecorderInv, LogTypeOK
    <3>. QED
      BY <1>1, <3>1 DEF RecorderInv, LogTypeOK
  <2>3. chan' \in [Clients -> Seq(Entries)]
    <3>1. Append(chan[c], entry[w]) \in Seq(Entries)
      BY <1>2 DEF RecorderInv, LogTypeOK
    <3>. QED
      BY <1>1, <3>1 DEF RecorderInv, LogTypeOK
  <2>. QED
    BY <1>1, <2>1, <2>2, <2>3 DEF RecorderInv, LogTypeOK, ring, clientState
<1>4. Recording'
  BY <1>1, StillRecording DEF RecorderInv
<1>5. Apart'
  BY SMTT(30), <1>1 DEF RecorderInv, Apart, LogTypeOK, ring, clientState
<1>6. \A d \in Clients \ {c} : Given(d)' = Given(d)
  BY <1>1 DEF Given, RecorderInv, LogTypeOK
<1>7. \/ /\ dropped' = [dropped EXCEPT ![c] = dropped[c] \cup {entry[w]}]
         /\ Given(c)' = Given(c)
      \/ dropped' = dropped /\ Given(c)' = Append(Given(c), entry[w])
  <2>1. CASE chan' = chan /\ dropped' = [dropped EXCEPT ![c] = dropped[c] \cup {entry[w]}]
    BY <1>1, <2>1 DEF Given
  <2>2. CASE chan' = [chan EXCEPT ![c] = Append(chan[c], entry[w])] /\ dropped' = dropped
    <3>1. chan[c] \in Seq(Entries) /\ written[c] \in Seq(Entries)
      BY DEF RecorderInv, LogTypeOK
    <3>2. Given(c)' = written[c] \o Append(chan[c], entry[w])
      BY <1>1, <2>2 DEF Given, RecorderInv, LogTypeOK
    <3>3. written[c] \o Append(chan[c], entry[w]) = Append(written[c] \o chan[c], entry[w])
      <4> DEFINE t == chan[c]
                 u == written[c]
                 e == entry[w]
      <4>1. t \in Seq(Entries) /\ u \in Seq(Entries) /\ e \in Entries
        BY <1>2, <3>1
      <4> HIDE DEF t, u, e
      <4>2. u \o Append(t, e) = Append(u \o t, e)
        BY <4>1, Stretched
      <4>. QED
        BY <4>2 DEF t, u, e
    <3>. QED
      BY <2>2, <3>2, <3>3 DEF Given
  <2>. QED
    BY <1>1, <2>1, <2>2
<1> DEFINE g == Given(c)
           n == Len(g)
<1>8. /\ g \in Seq(Entries) /\ n \in Nat /\ DOMAIN g = 1..n
      /\ \A i \in 1..n : g[i] \in Entries /\ g[i] <= recorded /\ g[i] # entry[w]
  <2>1. g \in Seq(Entries) /\ n \in Nat /\ DOMAIN g = 1..n
    BY GivenTyped DEF RecorderInv
  <2>2. \A i \in 1..n : g[i] \in Entries
    BY <2>1, ElementOfSeq
  <2>. QED
    BY <1>1, <2>1, <2>2 DEF RecorderInv, Delivered
<1>9. ASSUME Given(c)' = Append(g, entry[w])
      PROVE  Delivered' /\ NeverBoth' /\ RealTimeOrder'
  <2>1. /\ DOMAIN Given(c)' = 1..n+1 /\ Given(c)'[n+1] = entry[w]
        /\ \A i \in 1..n : Given(c)'[i] = g[i]
    BY <1>2, <1>8, <1>9
  <2> HIDE DEF g, n
  <2>2. Delivered'
    <3>1. ASSUME NEW d \in Clients, NEW i \in DOMAIN Given(d)'
          PROVE  /\ Given(d)'[i] <= recorded'
                 /\ \A v \in Writers : d \in pending'[v] => Given(d)'[i] # entry'[v]
      <4>1. CASE d # c
        BY <1>1, <1>6, <3>1, <4>1 DEF RecorderInv, Delivered, ring, LogTypeOK
      <4>2. CASE d = c /\ i \in 1..n
        <5>1. Given(d)'[i] = g[i] /\ g[i] <= recorded /\ recorded' = recorded
          BY <1>1, <1>8, <2>1, <4>2 DEF ring
        <5>2. ASSUME NEW v \in Writers, c \in pending'[v] PROVE g[i] # entry[v]
          <6>1. c \in pending[v]
            BY <1>1, <5>2 DEF RecorderInv, LogTypeOK
          <6>. QED
            BY <1>8, <4>2, <6>1 DEF RecorderInv, Delivered, g, n
        <5>. QED
          BY <1>1, <4>2, <5>1, <5>2
      <4>3. CASE d = c /\ i = n + 1
        BY <1>1, <1>2, <2>1, <3>1, <4>3 DEF RecorderInv, Apart, ring, LogTypeOK, Entries
      <4>. QED
        BY <1>8, <2>1, <3>1, <4>1, <4>2, <4>3
    <3>. QED
      BY <3>1 DEF Delivered
  <2>3. NeverBoth'
    <3>1. IsInjective(g)
      BY DEF RecorderInv, NeverBoth, g
    <3>2. ASSUME NEW i \in 1..n+1, NEW j \in 1..n+1, Given(c)'[i] = Given(c)'[j]
          PROVE  i = j
      BY <1>8, <2>1, <3>1, <3>2 DEF IsInjective
    <3>3. IsInjective(Given(c)')
      BY <2>1, <3>2 DEF IsInjective
    <3>. QED
      BY <1>6, <3>3 DEF RecorderInv, NeverBoth
  <2>4. RealTimeOrder'
    <3>1. ASSUME NEW d \in Clients, NEW i \in DOMAIN Given(d)', NEW j \in DOMAIN Given(d)',
                 i < j, Given(d)'[i] > Given(d)'[j]
          PROVE  Given(d)'[j] \in overlap'[Given(d)'[i]]
      <4>1. CASE d # c
        BY <1>1, <1>6, <3>1, <4>1 DEF RecorderInv, RealTimeOrder
      <4>2. CASE d = c /\ j \in 1..n
        BY <1>1, <1>8, <2>1, <3>1, <4>2 DEF RecorderInv, RealTimeOrder, g, n
      <4>3. CASE d = c /\ j = n + 1
        <5>1. /\ g[i] \in Entries /\ g[i] <= recorded /\ entry[w] < g[i]
              /\ Given(d)'[i] = g[i] /\ Given(d)'[j] = entry[w]
          BY <1>2, <1>8, <2>1, <3>1, <4>3 DEF Entries
        <5>2. entry[w] # 0
          BY <1>2 DEF Entries
        <5>. QED
          BY <1>1, <5>1, <5>2 DEF RecorderInv, Apart
      <4>. QED
        BY <1>8, <2>1, <3>1, <4>1, <4>2, <4>3
    <3>. QED
      BY <3>1 DEF RealTimeOrder
  <2>. QED
    BY <2>2, <2>3, <2>4
<1>10. ASSUME Given(c)' = g PROVE Delivered' /\ NeverBoth' /\ RealTimeOrder'
  <2>1. \A d \in Clients : Given(d)' = Given(d)
    BY <1>6, <1>10
  <2>2. Delivered'
    BY <1>1, <2>1 DEF RecorderInv, Delivered, LogTypeOK, ring
  <2>. QED
    BY <1>1, <2>1, <2>2 DEF RecorderInv, NeverBoth, RealTimeOrder
<1>11. MissesAreKnown'
  <2>1. ASSUME NEW d \in registered, NEW e \in Missing(d)'
        PROVE  e \in dropped'[d] \cup broken'
    <3>0. d \in Clients
      BY DEF RecorderInv, LogTypeOK
    <3>1. e \in Owed(d)
      BY <1>1, <2>1 DEF Missing, Owed, ring, clientState
    <3>2. e \notin ToSet(Given(d)')
      BY <2>1 DEF Missing
    <3>3. \A v \in Writers : d \in pending'[v] => entry[v] # e
      BY <1>1, <2>1 DEF Missing
    <3>4. dropped[d] \subseteq dropped'[d] /\ broken' = broken
      BY <1>1, <3>0 DEF RecorderInv, LogTypeOK
    <3>5. ToSet(Given(d)) \subseteq ToSet(Given(d)')
      <4>1. ToSet(Append(g, entry[w])) = ToSet(g) \cup {entry[w]}
        BY <1>2, <1>8, Elements
      <4>. QED
        BY <1>6, <1>7, <3>0, <4>1
    <3>6. CASE d = c /\ e = entry[w]
      <4>1. entry[w] \in ToSet(Append(g, entry[w]))
        BY <1>2, <1>8, Elements
      <4>2. dropped' = [dropped EXCEPT ![c] = dropped[c] \cup {entry[w]}]
        BY <1>7, <3>2, <3>6, <4>1
      <4>. QED
        BY <3>0, <3>6, <4>2 DEF RecorderInv, LogTypeOK
    <3>7. CASE ~(d = c /\ e = entry[w])
      <4>1. \A v \in Writers : d \in pending[v] => entry[v] # e
        BY <1>1, <3>3, <3>7 DEF RecorderInv, LogTypeOK
      <4>. QED
        BY <3>1, <3>2, <3>4, <3>5, <4>1 DEF RecorderInv, MissesAreKnown, Missing
    <3>. QED
      BY <3>6, <3>7
  <2>. QED
    BY <1>1, <2>1 DEF MissesAreKnown
<1>. QED
  BY <1>3, <1>4, <1>5, <1>7, <1>9, <1>10, <1>11 DEF RecorderInv

(* A writer that has tried all channels, or has panicked, is done. *)
LEMMA EndKeeps ==
  ASSUME RecorderInv, NEW w \in Writers,
         RecordReturns(w) \/ \E c \in Clients : SendPanics(w, c)
  PROVE  RecorderInv'
<1>1. /\ entry' = [entry EXCEPT ![w] = 0] /\ pending' = [pending EXCEPT ![w] = {}]
      /\ UNCHANGED <<ring, registered, chan, closed, written, clientState, dropped, overlap>>
      /\ \/ pending[w] = {} /\ broken' = broken
         \/ broken' = broken \cup {entry[w]} /\ entry[w] # 0
  BY DEF RecorderInv, LogTypeOK, Apart, RecordReturns, SendPanics
<1>2. LogTypeOK'
  <2>1. entry' \in [Writers -> 0..MaxEntries]
    BY <1>1, RecorderAssumption DEF RecorderInv, LogTypeOK
  <2>2. broken' \subseteq Entries
    <3>1. entry[w] # 0 => entry[w] \in Entries
      BY RecorderAssumption DEF RecorderInv, LogTypeOK, Entries
    <3>. QED
      BY <1>1, <3>1 DEF RecorderInv, LogTypeOK
  <2>. QED
    BY <1>1, <2>1, <2>2 DEF RecorderInv, LogTypeOK, ring, clientState
<1>3. Recording'
  BY <1>1, StillRecording DEF RecorderInv
<1>4. Apart'
  BY <1>1, RecorderAssumption DEF RecorderInv, LogTypeOK, Apart, ring, clientState
<1>5. \A c \in Clients : Given(c)' = Given(c)
  BY <1>1 DEF Given
<1>6. Delivered' /\ NeverBoth' /\ RealTimeOrder'
  BY <1>1, <1>5
     DEF RecorderInv, LogTypeOK, Delivered, NeverBoth, RealTimeOrder, ring
<1>7. MissesAreKnown'
  <2>1. ASSUME NEW c \in registered, NEW e \in Missing(c)' PROVE e \in dropped[c] \cup broken'
    <3>1. c \in Clients
      BY DEF RecorderInv, LogTypeOK
    <3>2. e \in Owed(c) /\ e \notin ToSet(Given(c))
      BY <1>1, <1>5, <3>1 DEF Missing, Owed, ring, clientState
    <3>3. ASSUME NEW v \in Writers, c \in pending[v], entry[v] = e, e \notin broken'
          PROVE  FALSE
      <4>1. v # w
        BY <1>1, <3>3
      <4>. QED
        BY <1>1, <2>1, <3>3, <4>1 DEF Missing, RecorderInv, LogTypeOK
    <3>. QED
      BY <1>1, <3>2, <3>3 DEF Missing, RecorderInv, MissesAreKnown
  <2>. QED
    BY <1>1, <2>1 DEF MissesAreKnown
<1>. QED
  BY <1>2, <1>3, <1>4, <1>6, <1>7 DEF RecorderInv

(* A new client is given the last entries, and nobody has one for it yet.  *)
LEMMA SubscribeKeeps ==
  ASSUME RecorderInv, NEW c \in Clients, Subscribe(c)
  PROVE  RecorderInv'
<1> DEFINE m == Least(Backfill, Least(recorded, Capacity))
           r == [i \in 1..m |-> recorded - m + i]
<1>1. /\ stage[c] = "new" /\ stage' = [stage EXCEPT ![c] = "streaming"]
      /\ registered' = registered \cup {c} /\ since' = [since EXCEPT ![c] = recorded]
      /\ UNCHANGED <<ring, chan, closed, entry, pending, dropped, broken, overlap>>
  BY DEF Subscribe
<1>2. /\ m \in Nat /\ m <= recorded /\ Recent(Backfill) = r
      /\ recorded \in 0..MaxEntries /\ MaxEntries \in Nat
  <2>1. LogTypeOK /\ Recording /\ Backfill \in Nat /\ MaxEntries \in Nat
    BY RecorderAssumption DEF RecorderInv
  <2>2. m \in 0..count /\ m <= recorded /\ Recent(Backfill) = r
    BY <2>1, RecentIs
  <2>3. count \in Nat /\ recorded \in 0..MaxEntries
    BY <2>1 DEF LogTypeOK
  <2>. QED
    BY <2>1, <2>2, <2>3
<1>3. r \in Seq(Entries) /\ Len(r) = m /\ DOMAIN r = 1..m
  <2>1. r \in [1..m -> Entries]
    BY <1>2 DEF Entries
  <2>. QED
    BY <1>2, <2>1
<1>4. written' = [written EXCEPT ![c] = r]
  BY <1>2 DEF Subscribe
<1>5. \A i \in 1..m : r[i] = recorded - m + i
  OBVIOUS
<1>6. LogTypeOK'
  BY <1>1, <1>3, <1>4 DEF RecorderInv, LogTypeOK, ring
<1>7. Recording'
  BY <1>1, StillRecording DEF RecorderInv
<1>8. Apart'
  BY <1>1 DEF RecorderInv, LogTypeOK, Apart, ring
<1>9. \A d \in Clients \ {c} : Given(d)' = Given(d)
  BY <1>1, <1>4 DEF Given, RecorderInv, LogTypeOK
<1>10. chan[c] = <<>> /\ \A w \in Writers : c \notin pending[w]
  BY <1>1 DEF RecorderInv, Apart
<1>11. Given(c)' = r
  <2>1. Given(c)' = r \o <<>>
    BY <1>1, <1>4, <1>10 DEF Given, RecorderInv, LogTypeOK
  <2>. QED
    BY <1>3, <2>1, ConcatEmptySeq
<1> HIDE DEF r
<1>12. Delivered'
  <2>1. ASSUME NEW d \in Clients, NEW i \in DOMAIN Given(d)'
        PROVE  /\ Given(d)'[i] <= recorded'
               /\ \A v \in Writers : d \in pending'[v] => Given(d)'[i] # entry'[v]
    <3>1. CASE d = c
      BY <1>1, <1>2, <1>3, <1>5, <1>10, <1>11, <2>1, <3>1 DEF ring
    <3>2. CASE d # c
      BY <1>1, <1>9, <2>1, <3>2 DEF RecorderInv, Delivered, ring
    <3>. QED
      BY <3>1, <3>2
  <2>. QED
    BY <2>1 DEF Delivered
<1>13. NeverBoth'
  <2>1. IsInjective(r)
    BY <1>2, <1>3, <1>5 DEF IsInjective
  <2>. QED
    BY <1>9, <1>11, <2>1 DEF RecorderInv, NeverBoth
<1>14. RealTimeOrder'
  <2>1. \A i, j \in DOMAIN r : i < j => r[i] < r[j]
    BY <1>2, <1>3, <1>5
  <2>2. \A i \in DOMAIN r : r[i] \in Nat
    BY <1>2, <1>3, <1>5
  <2>3. ASSUME NEW d \in Clients, NEW i \in DOMAIN Given(d)', NEW j \in DOMAIN Given(d)',
               i < j, Given(d)'[i] > Given(d)'[j]
        PROVE  Given(d)'[j] \in overlap'[Given(d)'[i]]
    <3>1. CASE d = c
      BY <1>11, <2>1, <2>2, <2>3, <3>1
    <3>2. CASE d # c
      BY <1>1, <1>9, <2>3, <3>2 DEF RecorderInv, RealTimeOrder
    <3>. QED
      BY <3>1, <3>2
  <2>. QED
    BY <2>3 DEF RealTimeOrder
<1>15. MissesAreKnown'
  <2>1. ASSUME NEW d \in registered' \ {c}
        PROVE  Missing(d)' \subseteq dropped'[d] \cup broken'
    <3>1. d \in Clients /\ d \in registered
      BY <1>1, <2>1 DEF RecorderInv, LogTypeOK
    <3>2. Missing(d)' = Missing(d)
      BY <1>1, <1>9, <2>1, <3>1 DEF Missing, Owed, ring, RecorderInv, LogTypeOK
    <3>. QED
      BY <1>1, <3>1, <3>2 DEF RecorderInv, MissesAreKnown
  <2>2. ASSUME NEW e \in Missing(c)' PROVE FALSE
    <3>1. since'[c] = recorded /\ recorded' = recorded
      BY <1>1 DEF RecorderInv, LogTypeOK, ring
    <3>2. e \in (recorded + 1 - Least(recorded, Least(Backfill, Capacity)))..recorded
      BY <2>2, <3>1 DEF Missing, Owed
    <3>3. e \in (recorded + 1 - m)..recorded
      BY <1>2, <3>2, RecorderAssumption DEF Least
    <3>4. e = r[e - (recorded - m)] /\ e - (recorded - m) \in 1..m
      BY <1>2, <1>5, <3>3
    <3>5. e \in ToSet(r)
      BY <1>3, <3>4 DEF ToSet
    <3>. QED
      BY <1>11, <2>2, <3>5 DEF Missing
  <2>. QED
    BY <2>1, <2>2 DEF MissesAreKnown
<1>. QED
  BY <1>6, <1>7, <1>8, <1>12, <1>13, <1>14, <1>15 DEF RecorderInv

(* Reading, leaving and closing change nothing that a client was given.    *)
LEMMA ClientKeeps ==
  ASSUME RecorderInv, NEW c \in Clients, Stream(c) \/ Unsubscribe(c) \/ Close(c)
  PROVE  RecorderInv'
<1>1. /\ stage[c] # "new"
      /\ stage' = stage \/ stage' = [stage EXCEPT ![c] = "leaving"]
           \/ stage' = [stage EXCEPT ![c] = "gone"]
      /\ registered' \subseteq registered /\ closed' \subseteq Clients
      /\ UNCHANGED <<ring, entry, pending, since, dropped, broken, overlap>>
  BY DEF RecorderInv, LogTypeOK, Stream, Unsubscribe, Close, clientState
<1>2. /\ written' \in [Clients -> Seq(Entries)] /\ chan' \in [Clients -> Seq(Entries)]
      /\ \A d \in Clients : Given(d)' = Given(d)
      /\ \A d \in Clients \ {c} : chan'[d] = chan[d]
  <2>1. CASE Stream(c)
    <3>1. /\ chan[c] # <<>> /\ chan[c] \in Seq(Entries) /\ written[c] \in Seq(Entries)
          /\ written' = [written EXCEPT ![c] = Append(written[c], Head(chan[c]))]
          /\ chan' = [chan EXCEPT ![c] = Tail(chan[c])]
      BY <2>1 DEF Stream, RecorderInv, LogTypeOK
    <3>2. Head(chan[c]) \in Entries /\ Tail(chan[c]) \in Seq(Entries)
      BY <3>1
    <3>3. Append(written[c], Head(chan[c])) \in Seq(Entries)
      BY <3>1, <3>2
    <3>4. Given(c)' = Given(c)
      <4>1. Given(c)' = Append(written[c], Head(chan[c])) \o Tail(chan[c])
        BY <3>1 DEF Given, RecorderInv, LogTypeOK
      <4> DEFINE t == chan[c]
                 u == written[c]
      <4>2. t \in Seq(Entries) /\ u \in Seq(Entries) /\ t # <<>>
        BY <3>1
      <4> HIDE DEF t, u
      <4>3. Append(u, Head(t)) \o Tail(t) = u \o t
        BY <4>2, Shifted
      <4>. QED
        BY <4>1, <4>3 DEF Given, t, u
    <3>. QED
      BY <3>1, <3>2, <3>3, <3>4 DEF Given, RecorderInv, LogTypeOK
  <2>2. CASE Unsubscribe(c) \/ Close(c)
    BY <2>2 DEF Unsubscribe, Close, Given, RecorderInv, LogTypeOK
  <2>. QED
    BY <2>1, <2>2
<1>3. LogTypeOK'
  BY <1>1, <1>2 DEF RecorderInv, LogTypeOK, ring
<1>4. Recording'
  BY <1>1, StillRecording DEF RecorderInv
<1>5. Apart'
  BY ZenonT(40), <1>1, <1>2 DEF RecorderInv, LogTypeOK, Apart, ring
<1>6. Delivered' /\ NeverBoth' /\ RealTimeOrder'
  BY <1>1, <1>2 DEF RecorderInv, Delivered, NeverBoth, RealTimeOrder, ring
<1>7. MissesAreKnown'
  <2>1. \A d \in Clients : Missing(d)' = Missing(d)
    BY <1>1, <1>2 DEF Missing, Owed, ring
  <2>. QED
    BY <1>1, <2>1 DEF RecorderInv, LogTypeOK, MissesAreKnown
<1>. QED
  BY <1>3, <1>4, <1>5, <1>6, <1>7 DEF RecorderInv

LEMMA NextRecorderInv == RecorderInv /\ [LogNext]_logVars => RecorderInv'
<1> SUFFICES ASSUME RecorderInv, [LogNext]_logVars PROVE RecorderInv'
  OBVIOUS
<1>1. CASE UNCHANGED logVars
  <2>1. LogTypeOK' /\ Recording' /\ Apart'
    BY <1>1, StillRecording DEF logVars, RecorderInv, LogTypeOK, Apart, ring, clientState
  <2>2. \A c \in Clients : Given(c)' = Given(c) /\ Missing(c)' = Missing(c)
    BY <1>1 DEF logVars, Given, Missing, Owed, ring, clientState
  <2>3. Delivered' /\ NeverBoth' /\ RealTimeOrder' /\ MissesAreKnown'
    BY <1>1, <2>2
       DEF logVars, ring, RecorderInv, LogTypeOK, Delivered, NeverBoth, RealTimeOrder, MissesAreKnown
  <2>. QED
    BY <2>1, <2>3 DEF RecorderInv
<1>2. CASE LogNext
  BY <1>2, RecordKeeps, SendKeeps, EndKeeps, SubscribeKeeps, ClientKeeps DEF LogNext, Sending
<1>. QED
  BY <1>1, <1>2

LEMMA RecorderInvHolds == LogSpec => []RecorderInv
BY InitRecorderInv, NextRecorderInv, PTL DEF LogSpec

(* Every variable keeps the type that the model gives it. *)
THEOREM LogTypeCorrect == LogSpec => []LogTypeOK
BY RecorderInvHolds, PTL DEF RecorderInv

(* Recent gives the last entries in order, wherever the ring has wrapped.  *)
THEOREM RecentIsTheLastHolds == LogSpec => []RecentIsTheLast
<1>1. RecorderInv => RecentIsTheLast
  BY RecentIs, RecorderAssumption DEF RecorderInv, RecentIsTheLast
<1>. QED
  BY <1>1, RecorderInvHolds, PTL

(* No client is given an entry twice, by the backfill or by its channel.   *)
THEOREM NeverBothHolds == LogSpec => []NeverBoth
BY RecorderInvHolds, PTL DEF RecorderInv

(* A connected client has, or will have, all it is owed, but for what its  *)
(* full channel turned away and what a panicking writer did not send.      *)
THEOREM MissesAreKnownHolds == LogSpec => []MissesAreKnown
BY RecorderInvHolds, PTL DEF RecorderInv

(* Only entries of requests that end together are given out of order.      *)
THEOREM RealTimeOrderHolds == LogSpec => []RealTimeOrder
BY RecorderInvHolds, PTL DEF RecorderInv
=============================================================================
