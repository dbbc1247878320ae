SPECIFICATION FairSpec
CONSTANTS
    Deadline = 2
    MaxAttempts = 2
    FallbackDelay = 1
    RetryHints <- MCRetryHints
    NoHint <- MCNoHint
    Closable = TRUE
    MaxEvents = 2
    MaxStops = 1
    Horizon = 3
PROPERTIES
    NoAttemptAfterCancel
CHECK_DEADLOCK FALSE
