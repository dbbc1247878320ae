SPECIFICATION Spec
CONSTANTS
    MaxModules = 3
    Expected <- TwoTopics
    Criteria = {c}
    Batches <- MCBatches
    CriterionBatches <- Grounds
    NewStatuses = {"in_progress", "complete"}
    Legacy = 1
    Seeds <- PhaseSeeds
    LeftSeeds <- OldSeeds
    MaxEntries <- Entries
    MaxSupport = 2
    MaxRevision = 5
INVARIANT LeftTopicsComplete FreshSinceReopen CheckDefended
PROPERTY EvidenceKept PassedModuleFrozen InOrder
CHECK_DEADLOCK FALSE
