--------------------------- MODULE MCLoadBalancer ---------------------------
(* Instances of LoadBalancer for TLC. *)
EXTENDS LoadBalancer

TwoArrays == <<"probes", "loadBalancingRules">>

MCSegments == {"lb"} \cup Kinds \cup Names
MCIds == {LB} \cup Children

RequestsAreAlike == Permutations(Procs)
=============================================================================
