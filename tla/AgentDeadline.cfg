SPECIFICATION Spec
CONSTANTS
    MaxSteps = 3
    CallIds = {"c1", "c2", "c3"}
    MaxStops = 2
INVARIANTS
    DeadlineIsAmbiguous
CHECK_DEADLOCK FALSE
