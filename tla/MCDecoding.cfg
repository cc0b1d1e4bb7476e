CONSTANTS
    None = None
    MAX_TICK_EXPONENT = 2
    MAX_SECONDS = 100
    MAX_IPV6_EXTENSION_HEADERS = 8
    MAX_IPV6_EXTENSION_BYTES = 512
    MAX_QUESTIONS = 16
    MAX_RECORDS = 16
    MAX_NAMES = 64
    MAX_POINTER_HOPS = 16
    MAX_TXT_STRINGS = 16
    MAX_NAME_WIRE_BYTES = 255
    MAX_NAME_RENDERED_BYTES = 1004
    MAX_NAME_COMPONENTS = 128
    Packets <- MCPackets
    Limits <- MCLimits
SPECIFICATION Spec
CHECK_DEADLOCK FALSE
INVARIANTS
    SinkNeverRefuses
    ExactlyTheCutIsReported
    PaddingIsNeverDecoded
    ConclusionsNeedTheWhole
    NamesExpandAsEncoded
