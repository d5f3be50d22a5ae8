\* A reader that keeps refreshing catches up, over three generations that
\* wrap the two slots, with memory checkpoints and a writer that fails a call
\* or dies, and may return; the power does not fail.  The seed is not used.
SPECIFICATION PollingSpec

CONSTANTS
    SlotCount = 2
    Durabilities = {"memory"}
    MemoryBudget = 9
    MaxGeneration = 3
    MaxSize = 7
    MaxFailures = 1
    MaxPowerLosses = 0
    ReadFaults = FALSE
    SeededGenerations = 4
    Readers = {r1}

PROPERTIES
    RefreshCatchesUp

\* The writer may stop for good: a torn control region or an image
\* without a valid root cannot be opened again.
CHECK_DEADLOCK FALSE
