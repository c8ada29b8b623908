------------------------------ MODULE OidcFlow ------------------------------
(***************************************************************************)
(* The server as a pipeline sees it: the Azure DevOps emulation, which     *)
(* queues its run and gives it a token, and the token service, which       *)
(* exchanges that token.  The two share no state but the token, which its  *)
(* bearer carries from one to the other (OidcToken).                       *)
(***************************************************************************)
EXTENDS FederatedTokens, DevOps

vars == <<tokenVars, devOpsVars>>

Init == TokenInit /\ DevOpsInit

Next ==
  \/ TokenNext /\ UNCHANGED devOpsVars
  \/ DevOpsNext /\ UNCHANGED tokenVars

Spec == Init /\ [][Next]_vars

(* The state of either service stays within its types. *)
TypeOK == TokenTypeOK /\ DevOpsTypeOK
=============================================================================
