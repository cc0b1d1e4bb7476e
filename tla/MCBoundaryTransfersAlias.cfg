\* A handle used after the shutdown of the runtime that issued it.
SPECIFICATION Spec
CONSTANTS
    PacketCount = 1
    MaxRequestId = 3
    MaxCalls = 2
    Uses = {"begin_import", "shutdown"}
    Faults = {}
INVARIANTS
    HandlesNameOneResource
CHECK_DEADLOCK FALSE
