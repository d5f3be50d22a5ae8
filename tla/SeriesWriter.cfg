\* Batches into pages over three sessions; and an index of two entries a node
\* and three levels, which is full with eight pages.
SPECIFICATION MCSpec

CONSTANTS
    Names <- MCNames
    NameLength <- MCNameLength
    Batches <- MCBatches
    RecordsMax = 2
    PageWriteBatchMax = 2
    HeaderSize = 1
    SeriesFixedSize = 1
    ManifestSizeMax = 6
    MaxBatches = 4
    MaxSessions = 3
    Capacity = 2
    HeightMax = 3
    MaxPages = 8
    MaxBatch = 5
    MaxFailures = 1

INVARIANTS
    AcceptedBatchesAreKept
    PublishedIsWholeBatches
    IdsIdentifySeries
    ManifestIsNeverRefused
    TreesHoldTheirPages
    RefusedExactlyWhenFull

\* The bound on sessions ends a writer; a full tree refuses every checkpoint,
\* also after a reopen.
CHECK_DEADLOCK FALSE
