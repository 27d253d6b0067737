---------------------------- MODULE MCSessionLock ----------------------------
(* An instance of SessionLock for TLC. *)
EXTENDS SessionLock, TLC

CONSTANTS p1, p2, c1, c2, c3

(* A reentrant client and one that is not, and a client in another process. *)
TwoProcesses == c1 :> p1 @@ c2 :> p1 @@ c3 :> p2
OneEnds == p1 :> 0 @@ p2 :> 1
=============================================================================
