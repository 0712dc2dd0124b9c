------------------------------ MODULE MCEgress ------------------------------
(* A small instance of Egress: three requests for a gate whose ring wraps,   *)
(* and three on a pool of three sessions.                                    *)
EXTENDS Egress

CONSTANTS r1, r2, r3

=============================================================================
