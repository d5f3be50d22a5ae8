\* Timestamps of five bits at both ends of their range and around zero,
\* restarts after three, pages of up to seven points.
SPECIFICATION Spec

CONSTANTS
    Width = 5
    DigitBits = 2
    IntSize = 3
    DirectoryWord = 1
    RestartInterval = 3
    RecordsMax = 7
    Timestamps <- EdgeTimestamps
    Values = {0}
    NaN = 31

INVARIANT EveryPageDecodes

\* A full page takes no more points.
CHECK_DEADLOCK FALSE
