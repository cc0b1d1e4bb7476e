CONSTANTS
    MaxId = 3
    MaxGenerations = 1
    Faults = {}
    RuntimeSuspends = FALSE
    MaxActiveQueries = 1
    MaxSteps = 1
    MaxQueue = 2
SPECIFICATION Spec
PROPERTY
    CancelTakesEffectAtNextBoundary
CHECK_DEADLOCK FALSE
