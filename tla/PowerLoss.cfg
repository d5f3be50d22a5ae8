\* Power loss with every slot in use and at most two unsynced root
\* publications at a time.
SPECIFICATION SeededSpec

CONSTANTS
    SlotCount = 4
    Durabilities = {"memory", "disk"}
    MemoryBudget = 2
    MaxGeneration = 6
    MaxSize = 14
    MaxFailures = 0
    MaxPowerLosses = 1
    ReadFaults = FALSE
    SeededGenerations = 4

INVARIANTS
    ElectionIsHead
    AcknowledgedSurvives

PROPERTIES
    SyncedSurvives

\* The writer may stop for good: a torn control region or an image
\* without a valid root cannot be opened again.
CHECK_DEADLOCK FALSE
