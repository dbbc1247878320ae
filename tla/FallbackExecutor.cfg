SPECIFICATION FairSpec
CONSTANTS
    Unlimited = Unlimited
    Routes <- MCRoutes
    Priority <- MCPriority
    Profile <- MCProfile
    Requests <- MCRequests
    NoRoute = 0
    MaxStops = 2
INVARIANTS
    OnlySuitableRoutes
    SchemasUnderstood
    BestUntriedFirst
    ChildrenSettled
    CancellationHeard
PROPERTIES
    DeadlineWinsTie
    Termination
    ImplementsSingleGeneration
CHECK_DEADLOCK FALSE
