\* The file, its writer and a reader implement SnapshotStore: a file created
\* from nothing, three generations that wrap the two slots, disk checkpoints
\* and a power loss at any step.  No call fails and no writer dies here:
\* theorem FileImplementsStore has them in any number.  The seed is not used.
SPECIFICATION SnapshotsSpec

CONSTANTS
    SlotCount = 2
    Durabilities = {"disk"}
    MemoryBudget = 9
    MaxGeneration = 3
    MaxSize = 7
    MaxFailures = 0
    MaxPowerLosses = 1
    ReadFaults = FALSE
    SeededGenerations = 4
    Readers = {r1}

PROPERTIES
    ImplementsSnapshotStore

\* The writer may stop for good: a torn control region or an image
\* without a valid root cannot be opened again.
CHECK_DEADLOCK FALSE
