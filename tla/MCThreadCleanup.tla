--------------------------- MODULE MCThreadCleanup ---------------------------
(* A small instance of ThreadCleanup for TLC: hosts and jobs are            *)
(* interchangeable.                                                         *)
EXTENDS ThreadCleanup, TLC

Symmetry == Permutations(Hosts) \cup Permutations(Jobs)
=============================================================================
