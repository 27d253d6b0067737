--------------------------- MODULE MCCommandQueue ---------------------------
(* Instances of CommandQueue for TLC. *)
EXTENDS CommandQueue

(* A lane resized below 1 is clamped to 1; 2 lets two tasks overlap.        *)
MCLimits == {0, 2}

(* Lanes and tasks are interchangeable, so only the sizes of the groups     *)
(* matter: every task in one lane, or one of them in a lane of its own.     *)
OneLane == CHOOSE l \in Lanes : TRUE
OtherLane == CHOOSE l \in Lanes : l # OneLane
Loner == CHOOSE t \in Tasks : TRUE
Placements ==
    {[t \in Tasks |-> OneLane],
     [t \in Tasks |-> IF t = Loner THEN OtherLane ELSE OneLane]}

MCInit == laneOf \in Placements /\ Init
MCSpec == MCInit /\ [][Next]_vars /\ Fairness
=============================================================================
