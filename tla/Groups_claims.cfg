SPECIFICATION Spec
CONSTANTS
    Holders = {h1, h2}
    Nobody = Nobody
    Starts = {0}
    Ends = {2}
    Limits = {1, 2}
    WriteErrors = FALSE
    SlowApply = FALSE
    MaxOffset = 2
    MaxUnits = 0
    MaxKeys = 3
    MaxCrashes = 1
    MaxFaults = 0
INVARIANTS TypeOK OneBatchPerOffset SettlesAreFenced SettledStays GatesAligned
PROPERTIES ImplementsSubscription
SYMMETRY Symmetry
CHECK_DEADLOCK FALSE
