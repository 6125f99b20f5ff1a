SPECIFICATION FairSpec
CONSTANTS
    Readers = {r1, r2}
    MaxAttempts = 2
    MaxJobs = 2
    MaxRots = 2
    MaxTears = 1
    MaxFails = 1
    MaxCrashes = 2
INVARIANTS IndInv SealedIsIntact
PROPERTIES SuccessIsDurable LossNeedsDamage RepairsEnd
CHECK_DEADLOCK FALSE
