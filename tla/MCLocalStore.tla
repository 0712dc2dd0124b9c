---------------------------- MODULE MCLocalStore ----------------------------
(* A small instance of LocalStore for TLC. *)
EXTENDS LocalStore, TLC

CONSTANTS k1, k2, k3, k4, e1, e2

Symmetry == Permutations(Keys) \cup Permutations(Codes)

=============================================================================
