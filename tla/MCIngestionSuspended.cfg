\* The worker against a runtime whose calls may last for turns.
SPECIFICATION Spec
CONSTANTS
    MaxId = 5
    MaxGenerations = 2
    Faults = {"load", "reclaim", "teardown"}
    RuntimeSuspends = TRUE
    MaxActiveQueries = 1
    MaxSteps = 1
    MaxQueue = 2
CHECK_DEADLOCK FALSE
INVARIANTS
    TypeOK
    NothingIsLost
    AnswersAreFromAskedDataset
    NoSpuriousAbort
