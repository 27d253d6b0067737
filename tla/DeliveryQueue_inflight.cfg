SPECIFICATION Spec
CONSTANTS
    Messages = {1}
    Recoveries = {r1}
    Live = live
    BestEffort = {}
    Reporting = {}
    Mirrored = {}
    MaxRetries = 2
    MaxCrashes = 1
    Overlap = TRUE
    DiskMayFail = FALSE
    r1 = r1
INVARIANTS NeverTwice
