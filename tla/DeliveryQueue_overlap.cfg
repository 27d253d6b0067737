SPECIFICATION Spec
CONSTANTS
    Messages = {1}
    Recoveries = {r1, r2}
    Live = live
    BestEffort = {}
    Reporting = {}
    Mirrored = {1}
    MaxRetries = 2
    MaxCrashes = 1
    Overlap = TRUE
    DiskMayFail = TRUE
    r1 = r1
    r2 = r2
INVARIANTS TypeOK NeverLost
SYMMETRY Symmetry
