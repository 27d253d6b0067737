--------------------------- MODULE MCFollowupQueue ---------------------------
(* Instances of FollowupQueue for TLC. *)
EXTENDS FollowupQueue, TLC

Symmetry == Permutations(Messages)

Queue(collect, cap, drop) == [collect |-> collect, cap |-> cap, drop |-> drop]

(* Queues that lose nothing on purpose, in both modes. *)
Lossless == {Queue(c, 2, "new") : c \in BOOLEAN}

(* All modes and policies, changing from one message to the next. *)
AllSettings == {Queue(c, 2, d) : c \in BOOLEAN, d \in {"old", "new", "summarize"}}

(* The defaults of every surface, with a smaller cap, and the other mode.    *)
Default == {Queue(TRUE, 2, "summarize")}
OneByOneDefault == {Queue(FALSE, 2, "summarize")}

TwoRoutes == {"none", "a"}
OneRoute == {"a"}
=============================================================================
