CONSTANTS
    MaxGeneration = 3
    Empty = Empty
    Kinds = {"Dataset", "PacketCursor", "Import"}
    Kind = "PacketCursor"
    MaxSlots = 4
    Value = {v1, v2}
SPECIFICATION Spec
INVARIANTS
    TypeOK
    BookkeepingExact
    DeadHandleAnswers
    CapacityIsNotLost
PROPERTY
    HandlesNameOneResource
