SPECIFICATION Spec
CONSTANTS
    MaxModules = 1
    Expected <- OneTopic
    Criteria = {c}
    Batches <- TourBatches
    CriterionBatches <- Grounds
    NewStatuses = {"in_progress", "complete"}
    Legacy = 0
    Seeds <- PhaseSeeds
    LeftSeeds <- OldSeeds
    MaxEntries <- Entries
    MaxSupport = 0
    MaxRevision = 5
INVARIANT TourReviewed
CHECK_DEADLOCK FALSE
