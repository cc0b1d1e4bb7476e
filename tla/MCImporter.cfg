\* The importer is consumed when it is finished or cancelled: nothing follows.
CHECK_DEADLOCK FALSE
CONSTANTS
    None = None
    MAX_TICK_EXPONENT = 2
    MAX_SECONDS = 100
    Captures <- CleanCaptures
    Budgets <- StepBudgets
SPECIFICATION Spec
INVARIANTS
    TypeOK
    FinishSucceeds
    StepsLeaveNoTrace
    NothingIsSkippedSilently
    FieldTreesAreWalkedWhole
    PrimaryIsMostSpecific
PROPERTIES
    StepsAdvance
