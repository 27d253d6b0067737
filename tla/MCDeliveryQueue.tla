--------------------------- MODULE MCDeliveryQueue ---------------------------
(* Instances of DeliveryQueue.  Messages are ordered, scans are alike.       *)
EXTENDS DeliveryQueue, TLC

Symmetry == Permutations(Recoveries)
=============================================================================
