SPECIFICATION FairSpec
CONSTANTS
    Messages = {m1, m2, m3, m4}
    Routes <- OneRoute
    Settings <- Lossless
    Queues = {q1, q2}
    NoQueue = NoQueue
    MayClear = FALSE
    Forgettable = {m1}
INVARIANTS NotStranded Accounted
PROPERTIES EveryMessageRuns
CHECK_DEADLOCK FALSE
