\* A hook wakes somebody, a run is put off, the gateway restarts once.
SPECIFICATION FairSpec
CONSTANTS
    Targets = {all, t}
    Everyone = all
    Reasons = {3}
    Runners = {r1, r2}
    NoRunner = none
    Batches = {b1, b2}
    MaxRequests = 1
    MaxSetbacks = 1
    MayDisable = TRUE
INVARIANTS TypeOK WakeHeard BatchesBounded
PROPERTIES WakeKept StopsOnlyWhenOff EveryWakeAnswered
CHECK_DEADLOCK FALSE
