SPECIFICATION FairSpec
CONSTANTS
    MaxSteps = 3
    CallIds = {"c1", "c2", "c3"}
    MaxStops = 2
INVARIANTS
    ToolsRunOnceAndAreSeen
    CancellationsToldApart
PROPERTIES
    ImplementsOneAttempt
    Termination
CHECK_DEADLOCK FALSE
