------------------------------- MODULE Outbox -------------------------------
(***************************************************************************)
(* What the delivery queue promises, without workers, scans, files or       *)
(* crashes: a message is taken in once, its retries are counted one by one,  *)
(* and it leaves once, acknowledged or given up, and never comes back.       *)
(***************************************************************************)
EXTENDS Naturals

CONSTANTS
    Messages,
    BestEffort   \* messages that may be acknowledged without being done

VARIABLES
    place,   \* where each message is
    tries,   \* its retries, while it is queued
    done     \* messages that were received or cancelled

vars == <<place, tries, done>>

Init ==
    /\ place = [m \in Messages |-> "new"]
    /\ tries = [m \in Messages |-> 0]
    /\ done = {}

Move(m, from, to) == place[m] = from /\ place' = [place EXCEPT ![m] = to]
Leave(m, to) == Move(m, "queued", to) /\ tries' = [tries EXCEPT ![m] = 0]

Accept(m) == Move(m, "new", "queued") /\ UNCHANGED <<tries, done>>

(* It could not be stored, and is sent without the queue. *)
PassBy(m) == Move(m, "new", "direct") /\ UNCHANGED <<tries, done>>

(* Nothing is done about a message that left the queue. *)
Reach(m) ==
    /\ place[m] \in {"queued", "direct"}
    /\ done' = done \cup {m}
    /\ UNCHANGED <<place, tries>>

Retry(m) ==
    /\ place[m] = "queued"
    /\ tries' = [tries EXCEPT ![m] = @ + 1]
    /\ UNCHANGED <<place, done>>

Acknowledge(m) ==
    /\ m \in done \cup BestEffort
    /\ Leave(m, "gone")
    /\ UNCHANGED done

GiveUp(m) == Leave(m, "failed") /\ UNCHANGED done

Next == \E m \in Messages : \/ Accept(m) \/ PassBy(m) \/ Reach(m)
                            \/ Retry(m) \/ Acknowledge(m) \/ GiveUp(m)

Spec == Init /\ [][Next]_vars
=============================================================================
