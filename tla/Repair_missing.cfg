SPECIFICATION Spec
CONSTANTS
    Readers = {r1, r2}
    MaxAttempts = 2
    MaxJobs = 1
    MaxRots = 1
    MaxTears = 0
    MaxFails = 0
    MaxCrashes = 1
INVARIANTS NeverMissing
CHECK_DEADLOCK FALSE
