CONSTANTS
    Cap = 2
    MaxReceived = 6
    MaxFailures = 2
SPECIFICATION FairSpec
INVARIANTS
    HandedOver
PROPERTIES
    StopEnds
    ReceivedIsApplied
    BreakIsReported
CHECK_DEADLOCK FALSE
