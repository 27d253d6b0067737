--------------------------- MODULE MCGatewayRestart ---------------------------
(* Instances of GatewayRestart for TLC. *)
EXTENDS GatewayRestart

(* Every session has a lane of its own, and lanes are interchangeable.      *)
OneLane == CHOOSE l \in Lanes : TRUE
MCGatewayInit == laneOf = [t \in Tasks |-> OneLane] /\ GatewayInit
MCGatewaySpec == MCGatewayInit /\ [][GatewayNext]_gatewayVars /\ GatewayFairness
=============================================================================
