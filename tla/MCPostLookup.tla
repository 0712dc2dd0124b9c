---------------------------- MODULE MCPostLookup ----------------------------
(* A small instance of PostLookup for TLC. *)
EXTENDS PostLookup, TLC

CONSTANTS f1, f2

Symmetry == Permutations(Lookups)

=============================================================================
