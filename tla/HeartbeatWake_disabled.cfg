\* Heartbeats are switched off and on again.
SPECIFICATION Spec
CONSTANTS
    Targets = {all}
    Everyone = all
    Reasons = {3}
    Runners = {r1}
    NoRunner = none
    Batches = {b1}
    MaxRequests = 1
    MaxSetbacks = 1
    MayDisable = TRUE
INVARIANT HeartbeatGoesOn
CHECK_DEADLOCK FALSE
