--------------------------- MODULE MCMetricBuckets ---------------------------
(* A small instance of MetricBuckets for TLC. *)
EXTENDS MetricBuckets, TLC

CONSTANTS blue, green

Symmetry == Permutations(Instances)

=============================================================================
