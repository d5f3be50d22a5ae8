\* Failed calls and process crashes from an empty file, no power loss.
\* Four generations wrap three slots; MemoryBudget does not bind.
SPECIFICATION Spec

CONSTANTS
    SlotCount = 3
    Durabilities = {"memory", "disk"}
    MemoryBudget = 9
    MaxGeneration = 4
    MaxSize = 10
    MaxFailures = 2
    MaxPowerLosses = 0
    ReadFaults = FALSE
    SeededGenerations = 4

INVARIANTS
    ElectionIsHead
    WriterOwnsTail
    WriterAgreesWithFile
    PublishedStaysReadable

\* The writer may stop for good: a torn control region or an image
\* without a valid root cannot be opened again.
CHECK_DEADLOCK FALSE
