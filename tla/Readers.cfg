\* One lock-free reader against a writer that wraps the slots, fails once
\* or dies, and reopens.
SPECIFICATION SeededSnapshotsSpec

CONSTANTS
    SlotCount = 4
    Durabilities = {"memory"}
    MemoryBudget = 9
    MaxGeneration = 7
    MaxSize = 14
    MaxFailures = 1
    MaxPowerLosses = 0
    ReadFaults = FALSE
    SeededGenerations = 4
    Readers = {r1}

INVARIANTS
    SnapshotIsPublished
    SnapshotIsReadable

PROPERTIES
    ReadersNeverGoBack
    PublishedIsVisibleToQuickScans

\* The writer may stop for good: a torn control region or an image
\* without a valid root cannot be opened again.
CHECK_DEADLOCK FALSE
