\* A server that has exited stays where it is: no deadlock check.
SPECIFICATION MCSpec
CONSTANTS
    Handlers <- MCHandlers
    MaxRecords = 1
INVARIANTS
    DrainedStopLosesNothing
PROPERTIES
    StopEnds
CHECK_DEADLOCK FALSE
