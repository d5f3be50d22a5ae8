\* Timestamps of five bits at both ends of their range and around zero, and
\* any values at regular times, of five bits in varints of up to three bytes.
SPECIFICATION PagesSpec

CONSTANTS
    Width = 5
    DigitBits = 2
    IntSize = 3
    DirectoryWord = 1
    RestartInterval = 3
    RecordsMax = 7
    Timestamps <- EdgeTimestamps
    Values = {0, 8, 31}
    NaN = 31

INVARIANTS
    PagesRoundTrip
    RangesAreExact

\* A full page takes no more points.
CHECK_DEADLOCK FALSE
