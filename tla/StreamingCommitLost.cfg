SPECIFICATION Spec
CONSTANTS
    Deadline = 2
    MaxAttempts = 2
    FallbackDelay = 1
    RetryHints <- MCRetryHints
    NoHint <- MCNoHint
    Closable = TRUE
    MaxEvents = 2
    MaxStops = 2
    Horizon = 3
INVARIANTS
    CommittedResponseReturned
CHECK_DEADLOCK FALSE
