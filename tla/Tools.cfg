SPECIFICATION Spec

CONSTANTS
    Calls <- MCCalls
    Timed = {"w", "r"}
    Directories = {"d1", "d2"}
    MaxSource = 2
    MaxStarts = 3
    MaxDeaths = 2
    OtherChecks = {"docs"}
    Statuses = {"pending", "success", "failure"}
    MaxHead = 2
    MaxBase = 2
    Installers = {"p1", "p2"}
    Locks <- MCLocks
    Archives = {"a", "b", "c", "x"}
    VersionOf <- MCVersionOf
    MaxRuns = 3
    PairRepetitions = {2, 3}
    Contracts = {"c1", "c2"}
    Gates = {"g1", "g2"}
    Bundles <- MCBundles
    OldNatives = {"n0"}
    Provenance <- MCProvenance
    MaxReplacements = 1

INVARIANTS
    CompleteMatrixIsReportable
    ReleaseIsOfItsRows
    RowsMatchFingerprint
    RefusalsAreExplained
    MergedIsReviewedAndGreen
    LinkedToolIsVerified
    ComparisonIsFair
    PassedReceiptIsTrue

CHECK_DEADLOCK FALSE
