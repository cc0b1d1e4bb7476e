\* Two batches read from one cursor, with every fault, and any other call in between.
SPECIFICATION FairSpec
CONSTANTS
    PacketCount = 2
    MaxRequestId = 9
    MaxCalls = 1
    Uses = {"begin_import", "step_import", "cancel_import", "open_packet_cursor",
            "dispose", "read_packet_batch", "read_evidence", "shutdown"}
    Faults = {"corrupt", "transfer", "refuse"}
CHECK_DEADLOCK FALSE
INVARIANTS
    StagedBatchesAreResolvable
    RowsAreDeliveredOnce
    TransfersAreAcknowledged
PROPERTIES
    ReadsSettle
