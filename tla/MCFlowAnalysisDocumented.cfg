CONSTANTS
    None = None
    TicksPerSecond = 2
    TransactionIds = {1, 2}
    HandshakeBound = 5
    SequenceBound = 5
    AckBound = 4
    TimingBound = 4
    DnsBound = 4
    KeyBound = 3
    TruncationBound = 4
    Captures <- MCCaptures

SPECIFICATION Spec

\* TLC stops at the first conjunct that does not hold.  Each of them is violated
\* by itself when it is named here instead: TcpIdsAreAligned,
\* SecondFinIsFromOtherSide, RepeatedSynHadNoResponse, AttemptsMadeNoProgress,
\* LatencyIsOfEarliest, TimedMessagesHaveOffsets.
INVARIANT ResultsAreAsDocumented

\* A capture ends.
CHECK_DEADLOCK FALSE
