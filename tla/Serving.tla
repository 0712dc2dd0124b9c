------------------------------- MODULE Serving -------------------------------
(***************************************************************************)
(* The parts around the lookups: admission at the gateway, what the edge   *)
(* keeps, the story side door, the deployment and the page's preview.      *)
(*                                                                         *)
(* The parts share no variable, so a behaviour of all of them is an        *)
(* interleaving of a behaviour of each, and what is said of one of them    *)
(* holds of the whole exactly when it holds while that one alone moves.    *)
(* The specification therefore chooses the part that moves: its states are *)
(* the sum of the parts' states and not their product.                     *)
(***************************************************************************)
EXTENDS Gateway, EdgeCopy, StoryDoor, Deployment, PreviewPage

VARIABLE part    \* the part that moves

servingVars == <<part, gatewayVars, edgeVars, doorVars, deploymentVars, pageVars>>

Parts == {"gateway", "edge", "door", "deployment", "page"}

\* The edge's URL is a choice only where the edge moves.
SomeLink == CHOOSE l \in Links : l.route = "card"

ServingInit ==
    /\ part \in Parts
    /\ GatewayInit /\ EdgeInit /\ DoorInit /\ DeploymentInit /\ PageInit
    /\ part # "edge" => link = SomeLink

GatewayMoves ==
    /\ part = "gateway" /\ GatewayNext
    /\ UNCHANGED <<part, edgeVars, doorVars, deploymentVars, pageVars>>

EdgeMoves ==
    /\ part = "edge" /\ EdgeNext
    /\ UNCHANGED <<part, gatewayVars, doorVars, deploymentVars, pageVars>>

DoorMoves ==
    /\ part = "door" /\ DoorNext
    /\ UNCHANGED <<part, gatewayVars, edgeVars, deploymentVars, pageVars>>

DeploymentMoves ==
    /\ part = "deployment" /\ DeploymentNext
    /\ UNCHANGED <<part, gatewayVars, edgeVars, doorVars, pageVars>>

PageMoves ==
    /\ part = "page" /\ PageNext
    /\ UNCHANGED <<part, gatewayVars, edgeVars, doorVars, deploymentVars>>

ServingNext == GatewayMoves \/ EdgeMoves \/ DoorMoves \/ DeploymentMoves \/ PageMoves

\* Every wait of a handler has a timeout (requestTimeout, the siteverify
\* client's ten seconds, the status query's one) and a sync.Mutex hands itself
\* to whoever has waited a millisecond.  The metrics writer owes nothing.
GatewayFairness ==
    \A r \in Clients :
        /\ WF_gatewayVars(part = "gateway" /\ Proceeds(r))
        /\ WF_gatewayVars(part = "gateway" /\ Queries(r))
        /\ SF_gatewayVars(part = "gateway" /\ LockStatus(r))

\* The gateway answers within its write deadline, the script's load has its
\* timeout, and an executed widget calls back: with a token, an error or its
\* own timeout.  That a token it has given expires is not counted on.
PageFairness ==
    /\ WF_pageVars(part = "page" /\ Answers)
    /\ WF_pageVars(part = "page" /\ Rejects)
    /\ WF_pageVars(part = "page" /\ LoadEnds)
    /\ WF_pageVars(part = "page" /\ widget = "executing" /\ (Token \/ WidgetFails))

ServingSpec ==
    /\ ServingInit /\ [][ServingNext]_servingVars
    /\ GatewayFairness /\ PageFairness

ServingTypeOK ==
    /\ part \in Parts
    /\ GatewayTypeOK /\ EdgeTypeOK /\ DoorTypeOK /\ DeploymentTypeOK /\ PageTypeOK
=============================================================================
