SPECIFICATION Spec
CONSTANTS
    Messages = {m1, m2, m3}
    Routes <- OneRoute
    Settings <- Default
    Queues = {q1, q2}
    NoQueue = NoQueue
    MayClear = FALSE
    Forgettable = {}
INVARIANTS Accounted
CHECK_DEADLOCK FALSE
