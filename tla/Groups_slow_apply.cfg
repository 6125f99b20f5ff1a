SPECIFICATION Spec
CONSTANTS
    Holders = {h1}
    Nobody = Nobody
    Starts = {0}
    Ends = {3}
    Limits = {1}
    WriteErrors = FALSE
    SlowApply = TRUE
    MaxOffset = 2
    MaxUnits = 1
    MaxKeys = 2
    MaxCrashes = 0
    MaxFaults = 0
PROPERTIES ActiveGroupsKeepTheirLog
CHECK_DEADLOCK FALSE
