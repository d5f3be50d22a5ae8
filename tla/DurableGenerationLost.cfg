\* Power loss with three unsynced root publications after a durable one.
SPECIFICATION SeededSpec

CONSTANTS
    SlotCount = 4
    Durabilities = {"memory", "disk"}
    MemoryBudget = 3
    MaxGeneration = 7
    MaxSize = 14
    MaxFailures = 0
    MaxPowerLosses = 1
    ReadFaults = FALSE
    SeededGenerations = 4

INVARIANTS
    AcknowledgedSurvives

\* The writer may stop for good: a torn control region or an image
\* without a valid root cannot be opened again.
CHECK_DEADLOCK FALSE
