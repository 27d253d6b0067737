SPECIFICATION MCCronSpec
CONSTANTS
    a = a
    b = b
    m1 = m1
    Jobs = {a, b}
    Manuals = {m1}
    Kinds <- OneShotAndRecurring
    Kept = {a}
    Period = 1
    Backoff <- Backoffs
    MaxAttempts = 1
    MaxErrors = 2
    StuckAfter = 0
    Concurrency = 1
    MaxImmediate = 1
    Stagger = 1
    MaxTime = 2
    MaxEdits = 2
    MaxCrashes = 1
    MaxEvents = 2
INVARIANTS TypeOK OneExecution TimerKept
PROPERTIES OneShotOnce NoSlotSkipped
CHECK_DEADLOCK FALSE
