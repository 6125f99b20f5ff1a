SPECIFICATION Faults
CONSTANTS
    SegMax = 2
    MaxBatch = 2
    Retain = 1
    TornWrites = TRUE
    WriteErrors = TRUE
    MaxOffset = 5
    MaxCrashes = 3
    MaxFaults = 1
    h1 = h1
    Nobody = Nobody
INVARIANTS TypeOK LossIsExplained UntilAside GateCoversDisk
CHECK_DEADLOCK FALSE
