SPECIFICATION FairSpec
CONSTANTS
    Deadline = 4
    MaxAttempts = 3
    FallbackDelay = 1
    RetryHints <- MCRetryHints
    NoHint <- MCNoHint
    Closable = TRUE
    MaxEvents = 2
    MaxStops = 2
    Horizon = 5
INVARIANTS
    ChildrenSettled
    SourceReleased
    CancellationHeard
PROPERTIES
    DeadlineWinsTie
    AttemptJustified
    ImplementsOperation
    Termination
CHECK_DEADLOCK FALSE
