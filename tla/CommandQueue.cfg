SPECIFICATION MCSpec
CONSTANTS
    Tasks = {t1, t2, t3}
    Lanes = {main, session}
    Limits <- MCLimits
    MaxGeneration = 1
    MayWait = TRUE
INVARIANTS TypeOK QueuedOnce SlotsExact NoStall DrainedMeansEnded
PROPERTIES NothingWaitsForever ImplementsPool
CHECK_DEADLOCK FALSE
