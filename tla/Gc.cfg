SPECIFICATION FairSpec
CONSTANTS
    N = 2
    P = 2
    Callers = {c1, c2}
    Torn = TRUE
    MaxChanges = 1
    MaxCrashes = 2
INVARIANTS IndInv NoHalfEviction FrozenStay SuccessIsAudited AuditedOnce OneJobPerPlan
PROPERTIES JobsEnd
CHECK_DEADLOCK FALSE
