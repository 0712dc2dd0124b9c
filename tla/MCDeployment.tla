---------------------------- MODULE MCDeployment ----------------------------
(* The deployment alone, for the runs that leave out its disturbances.       *)
EXTENDS Deployment
=============================================================================
