\* Every query on every series of up to five pages of one to three points, in
\* a tree of up to three levels, after any queries; one cursor over every
\* range, its calls interleaved with queries, refreshes and reopened readers.
\* Every chart of up to three buckets of every series of up to three pages.
SPECIFICATION MCSpec

CONSTANTS
    Capacity = 2
    HeightMax = 3
    TimestampMin <- MCTimestampMin
    TimestampMax = 3
    NaN = 9
    Values <- MCValues
    RecordsMax = 3
    Capacities = {2}
    MaxPages = 5
    MaxCursors = 1
    Requests <- MCRequests
    Gaps <- MCGaps

INVARIANTS
    LookupsAreExact
    RangesCrossPages
    AggregatesAreExact
    CursorDeliversItsRange
    EnvelopesAreExact

\* The bounds on pages and cursors may leave an old cursor and nothing to do.
CHECK_DEADLOCK FALSE
