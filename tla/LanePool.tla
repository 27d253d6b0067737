------------------------------ MODULE LanePool ------------------------------
(***************************************************************************)
(* What the command queue promises, without call stacks, flags or           *)
(* generations: every lane is a first-come first-served waiting line in     *)
(* front of a number of servers, a free server takes the next task, and a   *)
(* restart abandons the tasks being served but not the line.                *)
(***************************************************************************)
EXTENDS Integers, Sequences, FiniteSets

CONSTANTS Tasks, Lanes

VARIABLES waiting, serving, servers

vars == <<waiting, serving, servers>>

Init ==
    /\ waiting = [l \in Lanes |-> <<>>]
    /\ serving = [l \in Lanes |-> {}]
    /\ servers = [l \in Lanes |-> 1]

Known(t) == \E l \in Lanes : \/ t \in serving[l]
                             \/ \E i \in DOMAIN waiting[l] : waiting[l][i] = t

Arrive(t, l) ==
    /\ ~Known(t)
    /\ waiting' = [waiting EXCEPT ![l] = Append(@, t)]
    /\ UNCHANGED <<serving, servers>>

Serve(l) ==
    /\ waiting[l] # <<>>
    /\ Cardinality(serving[l]) < servers[l]
    /\ serving' = [serving EXCEPT ![l] = @ \cup {Head(waiting[l])}]
    /\ waiting' = [waiting EXCEPT ![l] = Tail(@)]
    /\ UNCHANGED servers

Leave(t, l) ==
    /\ t \in serving[l]
    /\ serving' = [serving EXCEPT ![l] = @ \ {t}]
    /\ UNCHANGED <<waiting, servers>>

TurnAway(l) ==
    /\ waiting' = [waiting EXCEPT ![l] = <<>>]
    /\ UNCHANGED <<serving, servers>>

Resize(l) ==
    /\ servers'[l] \in Nat \ {0}
    /\ servers' = [servers EXCEPT ![l] = servers'[l]]
    /\ UNCHANGED <<waiting, serving>>

Restart ==
    /\ serving' = [l \in Lanes |-> {}]
    /\ UNCHANGED <<waiting, servers>>

Next ==
    \/ \E t \in Tasks, l \in Lanes : Arrive(t, l) \/ Leave(t, l)
    \/ \E l \in Lanes : Serve(l) \/ TurnAway(l) \/ Resize(l)
    \/ Restart

Spec == Init /\ [][Next]_vars
=============================================================================
