SPECIFICATION FairSpec
CONSTANTS
    op1 = op1
    op2 = op2
    Operations <- MCOperations
    MaxFaults = 4
INVARIANTS
    AcceptedOnce
PROPERTIES
    ImplementsMailOnce
    EventuallySent
CHECK_DEADLOCK FALSE
