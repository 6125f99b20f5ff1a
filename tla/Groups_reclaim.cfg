SPECIFICATION Spec
CONSTANTS
    Holders = {h1}
    Nobody = Nobody
    Starts = {0, 1}
    Ends = {3}
    Limits = {2}
    WriteErrors = FALSE
    SlowApply = FALSE
    MaxOffset = 2
    MaxUnits = 2
    MaxKeys = 2
    MaxCrashes = 1
    MaxFaults = 1
INVARIANTS IndInv
PROPERTIES ActiveGroupsKeepTheirLog ImplementsSubscription
CHECK_DEADLOCK FALSE
