----------------------------- MODULE MCWarmPool -----------------------------
(* Instances of WarmPool for TLC. *)
EXTENDS WarmPool, TLC

Symmetry == Permutations(Instances) \cup Permutations(Leases) \cup Permutations(Callers)
=============================================================================
