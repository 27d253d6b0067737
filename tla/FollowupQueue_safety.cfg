SPECIFICATION Spec
CONSTANTS
    Messages = {m1, m2, m3}
    Routes <- TwoRoutes
    Settings <- AllSettings
    Queues = {q1, q2}
    NoQueue = NoQueue
    MayClear = TRUE
    Forgettable = {}
SYMMETRY Symmetry
INVARIANTS TypeOK NoRerun BatchHasOneRoute
PROPERTIES RunsInOrder
CHECK_DEADLOCK FALSE
