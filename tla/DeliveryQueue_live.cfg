SPECIFICATION FairSpec
CONSTANTS
    Messages = {1, 2}
    Recoveries = {r1}
    Live = live
    BestEffort = {2}
    Reporting = {}
    Mirrored = {1}
    MaxRetries = 3
    MaxCrashes = 2
    Overlap = FALSE
    DiskMayFail = FALSE
    r1 = r1
INVARIANTS NeverTwice AttemptsBounded
PROPERTIES EveryEntryResolves ImplementsOutbox
