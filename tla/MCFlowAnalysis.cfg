CONSTANTS
    None = None
    TicksPerSecond = 2
    TransactionIds = {1, 2}
    HandshakeBound = 5
    SequenceBound = 5
    AckBound = 4
    TimingBound = 4
    DnsBound = 4
    KeyBound = 3
    TruncationBound = 4
    Captures <- MCCaptures

SPECIFICATION Spec

INVARIANTS
    TypeOK
    ConversationsAreWhole
    EstablishmentExact
    SequenceFindingsExact
    DnsTransactionsExact
    CatalogAgrees

PROPERTY ConclusionsStand

\* A capture ends.
CHECK_DEADLOCK FALSE
