SPECIFICATION FairSpec
CONSTANTS
    p1 = p1
    p2 = p2
    c1 = c1
    c2 = c2
    c3 = c3
    Processes = {p1, p2}
    Clients = {c1, c2, c3}
    ProcessOf <- TwoProcesses
    Reentrant = {c1, c3}
    MaxTries = 3
    MaxEnds <- OneEnds
    MaxSweeps = 1
INVARIANTS TypeOK LockKept
PROPERTIES EveryTryEnds
CHECK_DEADLOCK FALSE
