----------------------------- MODULE MCKeyVault -----------------------------
(* Instances of KeyVault for TLC. *)
EXTENDS KeyVault

RequestsAreAlike == Permutations(Procs)
=============================================================================
