--------------------------- MODULE MCServerProcess ---------------------------
(* An instance of ServerProcess for TLC: two servers, a launcher, and two  *)
(* of the five listeners, the health server and the ARM server.  A second  *)
(* launcher does to the servers what a start by hand does.                 *)
EXTENDS ServerProcess

MCPorts == <<"health", "arm">>

(* The servers are alike but for the order in which they start. *)
InOrder == phase["s2"] # "off" => phase["s1"] # "off"

(* Requests and the deadline matter to a server that is shutting down      *)
(* alone: requests that were open before are as good as opened then.  One  *)
(* request at a time, of one server, is enough to use up the deadline.     *)
LateRequests ==
  /\ open["s1"] # {} => phase["s1"] = "stopping" /\ Cardinality(open["s1"]) = 1
  /\ open["s2"] = {} /\ ~late["s2"]

(* A launcher that has failed leaves its server as one started by hand. *)
NoFailedLauncher == \A l \in Launchers : launch[l] # "failed"

(* Of the files that may be there before, those that matter.  It is their  *)
(* certificate that expires, and when no server uses it; one that lacks a  *)
(* host need not expire as well.                                           *)
Leftovers ==
  /\ certPath \in {"none", "config"} /\ (certPath = "config" => tempDir = "tmp")
  /\ \A p \in Paths : files[p] \in Earlier =>
       /\ p \in {"config", "cwd"} /\ (p = "config" => certPath = "config")
       /\ p = "cwd" => files[p] = "old"
  /\ ~(files["config"] \in Earlier /\ files["cwd"] \in Earlier)
  /\ expired \subseteq {"old"}
  /\ \A s \in Servers : cert[s] \notin expired

(* One other program at a time.  What is on the ports and what is in the   *)
(* files touch each other where a server ends alone, and there a failed    *)
(* listener is as good as a crash: it is explored with one set of files.   *)
Intruders ==
  /\ Cardinality({p \in AllPorts : bound[p] = Foreign}) <= 1
  /\ (\E p \in AllPorts : bound[p] = Foreign) \/ (\E s \in Servers : error[s]) =>
       certPath = "none" /\ tempDir = "tmp" /\ files["cwd"] = "none"
=============================================================================
