\* The importer is consumed when it is finished or cancelled: nothing follows.
CHECK_DEADLOCK FALSE
CONSTANTS
    None = None
    MAX_TICK_EXPONENT = 2
    MAX_SECONDS = 100
    Captures <- CrampedCaptures
    Budgets <- StepBudgets
SPECIFICATION Spec
INVARIANT
    UnrepresentableTimesAreDiagnosed
