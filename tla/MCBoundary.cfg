\* Two imports compete for two dataset slots and for the bytes of two captures with
\* their indexes, while a cursor pages through either dataset; slots are reused once.
SPECIFICATION Spec
CONSTANTS
    MaxGeneration = 2
    Empty = Empty
    NoBatch = NoBatch
    MaxImports = 2
    MaxDatasets = 2
    MaxCursors = 1
    CaptureSizes = {1}
    Reserves = {1}
    IndexSizes = {0, 1}
    MaxPackets = 1
    MaxBatchRows = 1
    MaxCaptureBytes = 1
    MaxTotalCaptureBytes = 3
    MaxTotalLogicalBytes = 4
CHECK_DEADLOCK FALSE
INVARIANTS
    TypeOK
    CancelledMemoryExact
    WithinBudgets
    ReadyImportPublishes
    CursorsAreUsable
PROPERTIES
    ImplementsCaptureStore
