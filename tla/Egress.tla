------------------------------- MODULE Egress -------------------------------
(***************************************************************************)
(* The two ways out to Instagram in fetchViaProxy (src/server/fetch.go):   *)
(* the IPv6 egress behind its gate, and the sessions of the DC proxy.      *)
(*                                                                         *)
(* They share no variable: what the gate decides is for the pool a request *)
(* that comes or does not, and an attempt on DC tells the gate nothing.    *)
(* As in Serving the specification chooses the part that moves.            *)
(***************************************************************************)
EXTENDS V6Gate, SessionPool

VARIABLE way    \* the part that moves

egressVars == <<way, vars, poolVars>>

EgressInit == way \in {"v6", "dc"} /\ Init /\ PoolInit

GateMoves == way = "v6" /\ Next /\ UNCHANGED <<way, poolVars>>

PoolMoves == way = "dc" /\ PoolNext /\ UNCHANGED <<way, vars>>

EgressNext == GateMoves \/ PoolMoves

(* Time passes, attempts end (their context does), and requests for the     *)
(* operation keep coming: as each is drawn for IPv6 with the same chance    *)
(* (EgressPercent), one is some day drawn while the gate would admit it.    *)
GateFairness ==
    /\ WF_vars(way = "v6" /\ Tick)
    /\ SF_vars(way = "v6" /\ \E r \in Requests : Attempt(r))
    /\ \A r \in Requests :
          /\ WF_vars(way = "v6" /\ (CallerGone(r) \/ Answered(r) \/ Failed(r) \/ Panicked(r)))
          /\ WF_vars(way = "v6" /\ ReturnDC(r))

EgressSpec == EgressInit /\ [][EgressNext]_egressVars /\ GateFairness

=============================================================================
