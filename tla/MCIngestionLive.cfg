\* The worker as it is built, whose runtime answers in the turn it is asked.
SPECIFICATION FairSpec
CONSTANTS
    MaxId = 4
    MaxGenerations = 2
    Faults = {"load", "read", "release", "teardown", "crash"}
    RuntimeSuspends = FALSE
    MaxActiveQueries = 2
    MaxSteps = 1
    MaxQueue = 2
CHECK_DEADLOCK FALSE
PROPERTIES
    CancelledNeverPublishes
    EveryPromiseSettles
