SPECIFICATION Spec
CONSTANTS
    SegMax = 3
    MaxBatch = 2
    Retain = 1
    TornWrites = TRUE
    WriteErrors = FALSE
    MaxOffset = 5
    MaxCrashes = 3
    MaxFaults = 0
INVARIANTS AckedServed
CHECK_DEADLOCK FALSE
