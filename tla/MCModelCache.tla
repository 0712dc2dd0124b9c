--------------------------- MODULE MCModelCache ---------------------------
(* Small instances of ModelCache for TLC. *)
EXTENDS ModelCache, TLC

CONSTANTS r1, r2, k1, k2

\* The requests take part only through equality and set membership.
Symmetry == Permutations(Requests) \cup Permutations(Keys)

\* Neither an expiry nor a restart is needed for a request to hang.
NoExpiryNoRestart ==
    /\ expired = {}
    /\ \A r \in Requests : pc[r] # "lost" /\ phase[r] # "dead"

=============================================================================
