SPECIFICATION FairSpec
CONSTANTS
    p1 = p1
    p2 = p2
    shared_tmp = shared_tmp
    Nobody = Nobody
    Processes <- MCProcesses
    LockFiles = {shared_tmp}
    LockFile <- MCOneLock
    MaxRuns = 2
    MaxOutages = 2
INVARIANTS
    AckedIsStored
    FailureChangesNothing
    WholeDocument
PROPERTIES
    EveryCommandEnds
    ImplementsVersionedDocument
CHECK_DEADLOCK FALSE
