SPECIFICATION Spec

CONSTANTS
    Series = {s1, s2}
    BatchSize = 2
    Singles = {1, 5}
    Lists <- MCLists
    MaxCalls = 5
    MaxFault = 2
    Files = {f1, f2}
    FirstHistory <- MCFirstHistory
    PublishedFile = f1
    Addresses = {x, y}
    Cursors = {c1, c2}
    Ranges <- MCRanges
    BufferSizes = {1, 3}
    MaxGenerations = 3
    MaxOpens = 2
    ReaderObjects = {r1, r2}
    Iterators = {c1}
    PreparedObjects = {p}
    Libraries <- MCLibraries
    FirstCapacity = 2

SYMMETRY Symmetry

INVARIANTS
    AcknowledgedIsPublished
    CursorStaysWithItsReader
    IteratorsYieldTheirSnapshot
    CursorsAreReleased
    PreparedLookupsAreCurrent

PROPERTIES
    NoPointAfterChange

CHECK_DEADLOCK FALSE
