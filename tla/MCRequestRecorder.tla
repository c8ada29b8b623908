-------------------------- MODULE MCRequestRecorder --------------------------
(* Instances of RequestRecorder for TLC. *)
EXTENDS RequestRecorder

Alike == Permutations(Writers) \cup Permutations(Clients)
=============================================================================
