SPECIFICATION Either
CONSTANTS
    a = a
    b = b
    x = x
    y = y
    z = z
    Events <- Sent
    MaxBatch = 1
    SegMax = 2
    Limits = {2}
    MaxLog = 3
    MaxFaults = 1
    MaxCrashes = 1
    BatchMax = 2
    BatchLog = 3
INVARIANT ReplayCovers
CHECK_DEADLOCK FALSE
