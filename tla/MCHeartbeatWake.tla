--------------------------- MODULE MCHeartbeatWake ---------------------------
(* Instances of HeartbeatWake for TLC.  All constants are model values, given *)
(* in the .cfg files; OneOf already leaves out the runs that differ only in   *)
(* the names of batches and runners, so no symmetry is declared.              *)
EXTENDS HeartbeatWake, TLC
=============================================================================
