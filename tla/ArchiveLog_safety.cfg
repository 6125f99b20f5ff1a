SPECIFICATION FairSpec
CONSTANTS
    SegMax = 2
    MaxBatch = 5
    Retain = 1
    TornWrites = FALSE
    WriteErrors = FALSE
    MaxOffset = 6
    MaxCrashes = 2
    MaxFaults = 1
INVARIANTS AckedDurable AckedServed SegmentsTile RestartIsTransparent UntilAside
PROPERTIES CoverageKept ImplementsAckedLog Returns
CHECK_DEADLOCK FALSE
