---------------------------- MODULE ServerProcess ----------------------------
(***************************************************************************)
(* The life of server processes (cmd/azemu/serve.go), the launchers that   *)
(* start them when they find none (adapter.go, tf.go and its like), and    *)
(* the certificate files by which clients trust them (internal/auth/       *)
(* tls.go).                                                                *)
(*                                                                         *)
(* A launcher believes what answers on the health port, whoever started    *)
(* it and whatever it is.  Nothing keeps two servers from starting at one  *)
(* time, nor another program from a port: each server binds the ports it   *)
(* gets, and ends when it does not get one.  A certificate is named by the *)
(* server that generated it.                                               *)
(***************************************************************************)
EXTENDS Naturals, Sequences, SequencesExt

CONSTANTS Servers,   \* server processes, each started once
          Launchers, \* processes that want a server
          Ports,     \* the listeners, in the order in which they are shut down
          Health,    \* the port that launchers probe
          Earlier,   \* certificates from before
          Lacking,   \* those of them that lack a host that a server asks for,
                     \* or their key
          Nobody,    \* the owner of a free port
          Foreign    \* another program, as the owner of a port

ASSUME ServerAssumption ==
  /\ Ports \in Seq(ToSet(Ports)) /\ IsInjective(Ports)
  /\ Health \in ToSet(Ports)
  /\ {Nobody, Foreign} \cap Servers = {} /\ Nobody # Foreign
  /\ Earlier \cap Servers = {} /\ Lacking \subseteq Earlier
  /\ {"none", "torn"} \cap (Servers \cup Earlier) = {}

VARIABLES
  certPath,  \* where AZEMU_CERT_PATH points, the same for all
  tempDir,   \* the file azemu-cert.pem in os.TempDir(), the same for all
  files,     \* the certificate in each file
  expired,   \* the certificates that are no longer valid
  phase,     \* how far each server is
  cert,      \* the certificate it serves
  unbound,   \* the ports its goroutines have yet to bind
  error,     \* a listener failed: the error waits to be received
  bound,     \* the owner of each port
  open,      \* the ports on which it has a request in progress
  closing,   \* how many of its ports it has told to shut down
  late,      \* whether the deadline of its shutdown has passed
  launch,    \* how far each launcher is
  astray,    \* history: servers that could not save their certificate, or
             \* beside which another generated one
  unread,    \* history: servers that could not read a good bundle
  spoiled    \* history: a server was stopped, a listener of it failed, two
             \* were alive at one time, or another program was in the way

disk == <<certPath, tempDir, files, expired>>
sockets == <<unbound, error, bound, open>>
history == <<astray, unread, spoiled>>
vars == <<disk, phase, cert, sockets, closing, late, launch, history>>

(* Any place that is configured, .azemu/cert-bundle.pem in the working     *)
(* directory, and azemu-cert.pem in /tmp and where $TMPDIR points.         *)
Paths == {"config", "cwd", "tmp", "tmpdir"}
Generated == Servers \cup Earlier
AllPorts == ToSet(Ports)

Alive(s) == phase[s] \notin {"off", "gone"}
Generating(s) == phase[s] \in {"generating", "saving"}

(* Where a server keeps its certificate. *)
Bundle == IF certPath = "none" THEN tempDir ELSE certPath

FirstExisting(candidates) ==
  LET exists(p) == p # "none" /\ files[p] # "none"
  IN  IF \E i \in 1..3 : exists(candidates[i])
      THEN candidates[CHOOSE i \in 1..3 : exists(candidates[i])
                                 /\ \A j \in 1..(i - 1) : ~exists(candidates[j])]
      ELSE IF certPath = "none" THEN "tmp" ELSE certPath

(* Mutant of ResolvedCertFile: the working directory comes first. *)
ResolvedFromCwd == FirstExisting(<<"cwd", certPath, "tmp">>)

(* The file that a launcher hands to its client: the first that exists.    *)
(* It names /tmp whatever $TMPDIR says.                                    *)
ResolvedCertFile == FirstExisting(<<certPath, "cwd", "tmp">>)

Init ==
  /\ certPath \in {"none"} \cup Paths
  /\ tempDir \in {"tmp", "tmpdir"}
  /\ files \in [Paths -> {"none"} \cup Earlier]
  /\ expired = {}
  /\ phase = [s \in Servers |-> "off"]
  /\ cert = [s \in Servers |-> "none"]
  /\ unbound = [s \in Servers |-> AllPorts]
  /\ error = [s \in Servers |-> FALSE]
  /\ bound = [p \in AllPorts |-> Nobody]
  /\ open = [s \in Servers |-> {}]
  /\ closing = [s \in Servers |-> 0]
  /\ late = [s \in Servers |-> FALSE]
  /\ launch = [l \in Launchers |-> "idle"]
  /\ astray = {} /\ unread = {} /\ spoiled = FALSE

Become(s, p) == phase' = [phase EXCEPT ![s] = p]

NoteNeighbours ==
  astray' = astray \cup
    {s \in Servers : phase'[s] \notin {"off", "gone"} /\
       \E t \in Servers \ {s} : phase'[t] \in {"generating", "saving"}}

-----------------------------------------------------------------------------
(* From the start of a server to its listeners. *)

Start(s) ==
  /\ phase[s] = "off"
  /\ Become(s, "starting")
  /\ NoteNeighbours
  /\ spoiled' = (spoiled \/ \E t \in Servers : Alive(t))
  /\ UNCHANGED <<disk, cert, sockets, closing, late, unread>>

(* `azemu serve`, from a shell. *)
StartByHand(s) == Start(s) /\ UNCHANGED launch

(* The process is gone, and with it its ports and its requests. *)
End(s) ==
  /\ Become(s, "gone")
  /\ bound' = [p \in AllPorts |-> IF bound[p] = s THEN Nobody ELSE bound[p]]
  /\ open' = [open EXCEPT ![s] = {}]
  /\ unbound' = [unbound EXCEPT ![s] = {}]
  /\ error' = [error EXCEPT ![s] = FALSE]
  /\ cert' = [cert EXCEPT ![s] = "none"]
  /\ closing' = [closing EXCEPT ![s] = 0]
  /\ late' = [late EXCEPT ![s] = FALSE]
  /\ astray' = astray \ {s} /\ unread' = unread \ {s}
  /\ UNCHANGED <<disk, launch>>

(* The state files cannot be read. *)
RefuseToStart(s) ==
  /\ phase[s] = "starting"
  /\ End(s) /\ UNCHANGED spoiled

(* tryLoadBundle: whole, with its key, within its validity, for every host. *)
Loadable(c) == c \in Generated \ (expired \cup Lacking)

(* Mutant of LoadOrGenerate: the bundle is not looked at. *)
GenerateAlways(s) ==
  /\ phase[s] = "starting"
  /\ Become(s, "generating") /\ cert' = [cert EXCEPT ![s] = s]
  /\ NoteNeighbours
  /\ UNCHANGED <<disk, sockets, closing, late, launch, unread, spoiled>>

(* Without a path there is no bundle to load: the temporary file is only   *)
(* written.                                                                *)
LoadOrGenerate(s) ==
  /\ phase[s] = "starting"
  /\ IF certPath # "none" /\ Loadable(files[certPath])
     THEN Become(s, "serving") /\ cert' = [cert EXCEPT ![s] = files[certPath]]
     ELSE Become(s, "generating") /\ cert' = [cert EXCEPT ![s] = s]
  /\ NoteNeighbours
  /\ UNCHANGED <<disk, sockets, closing, late, launch, unread, spoiled>>

(* A good bundle cannot be read: it is taken for none. *)
FailToLoad(s) ==
  /\ phase[s] = "starting"
  /\ certPath # "none" /\ Loadable(files[certPath])
  /\ Become(s, "generating") /\ cert' = [cert EXCEPT ![s] = s]
  /\ NoteNeighbours
  /\ unread' = unread \cup {s}
  /\ UNCHANGED <<disk, sockets, closing, late, launch, spoiled>>

(* os.WriteFile truncates the file, and writes it with a second call. *)
Truncate(s) ==
  /\ phase[s] = "generating"
  /\ Become(s, "saving")
  /\ files' = [files EXCEPT ![Bundle] = "torn"]
  /\ UNCHANGED <<certPath, tempDir, expired, cert, sockets, closing, late, launch, history>>

Save(s) ==
  /\ phase[s] = "saving"
  /\ Become(s, "serving")
  /\ files' = [files EXCEPT ![Bundle] = cert[s]]
  /\ UNCHANGED <<certPath, tempDir, expired, cert, sockets, closing, late, launch, history>>

(* Either call fails: the server goes on with what it has in memory. *)
FailToSave(s) ==
  /\ Generating(s)
  /\ Become(s, "serving")
  /\ astray' = astray \cup {s}
  /\ UNCHANGED <<disk, cert, sockets, closing, late, launch, unread, spoiled>>

Expire(c) ==
  /\ c \in Generated \ expired
  /\ \E p \in Paths : files[p] = c
  /\ expired' = expired \cup {c}
  /\ UNCHANGED <<certPath, tempDir, files, phase, cert, sockets, closing, late, launch, history>>

-----------------------------------------------------------------------------
(* Listening, and the end. *)

(* Mutant of Listen: every server is given the address of the first. *)
ListenOnFirst(s, p) ==
  /\ phase[s] \in {"serving", "stopping"} /\ p \in unbound[s]
  /\ unbound' = [unbound EXCEPT ![s] = @ \ {p}]
  /\ IF bound[Ports[1]] = Nobody
     THEN bound' = [bound EXCEPT ![Ports[1]] = s] /\ UNCHANGED error
     ELSE error' = [error EXCEPT ![s] = TRUE] /\ UNCHANGED bound
  /\ spoiled' = (spoiled \/ bound[Ports[1]] = Foreign)
  /\ UNCHANGED <<disk, phase, cert, open, closing, late, launch, astray, unread>>

(* One goroutine for each listener.  The port may be taken. *)
Listen(s, p) ==
  /\ phase[s] \in {"serving", "stopping"} /\ p \in unbound[s]
  /\ unbound' = [unbound EXCEPT ![s] = @ \ {p}]
  /\ IF bound[p] = Nobody
     THEN bound' = [bound EXCEPT ![p] = s] /\ UNCHANGED error
     ELSE error' = [error EXCEPT ![s] = TRUE] /\ UNCHANGED bound
  /\ spoiled' = (spoiled \/ bound[p] = Foreign)
  /\ UNCHANGED <<disk, phase, cert, open, closing, late, launch, astray, unread>>

(* ListenAndServe returns any other error: the port may not be bound, or   *)
(* its listener breaks.                                                    *)
ListenerFails(s, p) ==
  /\ phase[s] \in {"serving", "stopping"} /\ (p \in unbound[s] \/ bound[p] = s)
  /\ unbound' = [unbound EXCEPT ![s] = @ \ {p}]
  /\ bound' = [bound EXCEPT ![p] = IF @ = s THEN Nobody ELSE @]
  /\ error' = [error EXCEPT ![s] = TRUE]
  /\ spoiled' = TRUE
  /\ UNCHANGED <<disk, phase, cert, open, closing, late, launch, astray, unread>>

(* Other programs come and go. *)
Occupy(p) ==
  /\ bound[p] = Nobody /\ bound' = [bound EXCEPT ![p] = Foreign]
  /\ UNCHANGED <<disk, phase, cert, unbound, error, open, closing, late, launch, history>>

Vacate(p) ==
  /\ bound[p] = Foreign /\ bound' = [bound EXCEPT ![p] = Nobody]
  /\ UNCHANGED <<disk, phase, cert, unbound, error, open, closing, late, launch, history>>

OpenRequest(s, p) ==
  /\ bound[p] = s /\ open' = [open EXCEPT ![s] = @ \cup {p}]
  /\ UNCHANGED <<disk, phase, cert, unbound, error, bound, closing, late, launch, history>>

EndRequest(s, p) ==
  /\ p \in open[s] /\ open' = [open EXCEPT ![s] = @ \ {p}]
  /\ UNCHANGED <<disk, phase, cert, unbound, error, bound, closing, late, launch, history>>

(* The select receives an error: log.Fatal. *)
Fatal(s) ==
  /\ phase[s] = "serving" /\ error[s]
  /\ End(s) /\ UNCHANGED spoiled

(* The select receives a signal. *)
Signal(s) ==
  /\ phase[s] = "serving"
  /\ Become(s, "stopping")
  /\ spoiled' = TRUE
  /\ UNCHANGED <<disk, cert, sockets, closing, late, launch, astray, unread>>

(* SIGKILL, or a signal before signal.Notify. *)
Crash(s) ==
  /\ Alive(s)
  /\ End(s) /\ spoiled' = TRUE

(* The requests that the shutdown under way waits for. *)
Draining(s) == {p \in open[s] : closing[s] > 0 /\ p = Ports[closing[s]]}

(* Mutant of Drained: the shutdowns have no deadline. *)
DrainedOnly(s) == Draining(s) = {}

Drained(s) == Draining(s) = {} \/ late[s]

(* Shutdown closes the listener at once; one that is not bound yet never   *)
(* will be.  Then it waits for the requests of this listener.              *)
Shutdown(s) ==
  /\ phase[s] = "stopping" /\ Drained(s) /\ closing[s] < Len(Ports)
  /\ LET p == Ports[closing[s] + 1] IN
       /\ bound' = [bound EXCEPT ![p] = IF @ = s THEN Nobody ELSE @]
       /\ unbound' = [unbound EXCEPT ![s] = @ \ {p}]
  /\ closing' = [closing EXCEPT ![s] = @ + 1]
  /\ UNCHANGED <<disk, phase, cert, error, open, late, launch, history>>

(* One deadline for all the shutdowns. *)
Deadline(s) ==
  /\ phase[s] = "stopping" /\ ~late[s]
  /\ late' = [late EXCEPT ![s] = TRUE]
  /\ UNCHANGED <<disk, phase, cert, sockets, closing, launch, history>>

Return(s) ==
  /\ phase[s] = "stopping" /\ Drained(s) /\ closing[s] = Len(Ports)
  /\ End(s) /\ UNCHANGED spoiled

-----------------------------------------------------------------------------
(* Launchers. *)

Launch(l, step) ==
  /\ launch' = [launch EXCEPT ![l] = step]
  /\ UNCHANGED <<disk, phase, cert, sockets, closing, late, history>>

(* Something answers 200 on the health port. *)
HearHealthy(l) ==
  /\ bound[Health] # Nobody
  /\ launch' = [launch EXCEPT ![l] = "ready"]
  /\ spoiled' = (spoiled \/ bound[Health] = Foreign)
  /\ UNCHANGED <<disk, phase, cert, sockets, closing, late, astray, unread>>

(* Nothing answers, or not 200, or not in time. *)
Probe(l) ==
  /\ launch[l] = "idle"
  /\ HearHealthy(l) \/ Launch(l, "start")

StartInBackground(l) ==
  /\ launch[l] = "start"
  /\ \E s \in Servers : Start(s)
  /\ launch' = [launch EXCEPT ![l] = "waiting"]

FailToStart(l) == launch[l] = "start" /\ Launch(l, "failed")

Poll(l) == launch[l] = "waiting" /\ HearHealthy(l)

(* The process has been released, so Kill fails and its server stays. *)
GiveUp(l) == launch[l] = "waiting" /\ Launch(l, "failed")

-----------------------------------------------------------------------------
ServerStep(s) ==
  \/ LoadOrGenerate(s) \/ Truncate(s) \/ Save(s)
  \/ \E p \in AllPorts : Listen(s, p)
  \/ Fatal(s) \/ Shutdown(s) \/ Deadline(s) \/ Return(s)

LauncherStep(l) ==
  Probe(l) \/ StartInBackground(l) \/ FailToStart(l) \/ Poll(l) \/ GiveUp(l)

Next ==
  \/ \E s \in Servers :
       \/ ServerStep(s) \/ StartByHand(s) \/ RefuseToStart(s)
       \/ FailToLoad(s) \/ FailToSave(s)
       \/ \E p \in AllPorts : OpenRequest(s, p) \/ EndRequest(s, p) \/ ListenerFails(s, p)
       \/ Signal(s) \/ Crash(s)
  \/ \E l \in Launchers : LauncherStep(l)
  \/ \E c \in Generated : Expire(c)
  \/ \E p \in AllPorts : Occupy(p) \/ Vacate(p)

(* The steps of a live process are taken, timers run out, and a launcher   *)
(* polls or gives up.  Requests need not end, nor signals come, nor other  *)
(* programs leave a port.                                                  *)
Fairness ==
  /\ \A s \in Servers : WF_vars(ServerStep(s))
  /\ \A l \in Launchers : WF_vars(LauncherStep(l))

Spec == Init /\ [][Next]_vars /\ Fairness

-----------------------------------------------------------------------------
TypeOK ==
  /\ certPath \in {"none"} \cup Paths
  /\ tempDir \in {"tmp", "tmpdir"}
  /\ files \in [Paths -> Generated \cup {"none", "torn"}]
  /\ expired \subseteq Generated
  /\ bound \in [AllPorts -> Servers \cup {Nobody, Foreign}]
  /\ \A p \in AllPorts : bound[p] \in Servers =>
       /\ phase[bound[p]] \in {"serving", "stopping"}
       /\ p \notin unbound[bound[p]]
  /\ \A s \in Servers :
       /\ phase[s] \in {"off", "starting", "generating", "saving", "serving",
                        "stopping", "gone"}
       /\ cert[s] \in Generated \cup {"none"}
       /\ unbound[s] \subseteq AllPorts /\ open[s] \subseteq AllPorts
       /\ closing[s] \in 0..Len(Ports)
       /\ \A i \in 1..closing[s] : bound[Ports[i]] # s
  /\ astray \subseteq Servers /\ unread \subseteq Servers
  /\ \A l \in Launchers : launch[l] \in {"idle", "start", "waiting", "ready", "failed"}

(* A client that a launcher starts trusts the server that answered.  The   *)
(* exceptions: another server generated a certificate while this one was   *)
(* alive, and replaced the file; the file could not be written; or, with   *)
(* no path set, the launcher looks elsewhere, at a bundle in the working   *)
(* directory or, where $TMPDIR is set, in /tmp.                            *)
TrustIsServed ==
  \A s \in Servers :
    bound[Health] = s /\ files[ResolvedCertFile] # cert[s] =>
      \/ s \in astray
      \/ certPath = "none" /\ (files["cwd"] # "none" \/ tempDir # "tmp")

(* A launcher that took the health port for a server is right, unless      *)
(* somebody stops a server, a listener of it fails, two of them are alive  *)
(* at one time, or another program answered or held one of its ports when  *)
(* it was bound: it is the port of a server that serves, and that has each *)
(* of its ports or is still to ask for it, with no other server there.     *)
ReadyIsServed ==
  \A l \in Launchers :
    launch[l] = "ready" /\ ~spoiled =>
      \E s \in Servers :
        /\ phase[s] = "serving" /\ ~error[s] /\ bound[Health] = s
        /\ \A p \in AllPorts :
             bound[p] = s \/ (p \in unbound[s] /\ bound[p] \notin Servers)

(* "Trust once, restart freely": a bundle that is whole, valid and for     *)
(* every host (Loadable) is replaced only by a server beside which another *)
(* one was generating, or that could not read it.                          *)
BundlesStay ==
  [][certPath # "none" /\ Loadable(files[certPath]) /\ files'[certPath] # files[certPath] =>
       \E s \in astray \cup unread : Generating(s)]_vars

(* A launch fails, or leads to one server on all ports, but for the same   *)
(* causes.  Then it may be told it is ready by a server that is about to   *)
(* end.                                                                    *)
LaunchIsServed ==
  \A l \in Launchers :
    launch[l] = "start" ~> \/ launch[l] = "failed" \/ spoiled
                           \/ \E s \in Servers : \A p \in AllPorts : bound[p] = s

(* A server that is stopped ends, whatever its requests do, and so does    *)
(* one whose listener failed.                                              *)
ServersEnd ==
  \A s \in Servers : phase[s] = "stopping" \/ (phase[s] = "serving" /\ error[s])
                       ~> phase[s] = "gone"
=============================================================================
