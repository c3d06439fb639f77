SPECIFICATION Spec
CONSTANTS
    Chains = {c1, c2}
    Gone = Gone
    Last = 2
    ConfirmWait = 1
    Heartbeat = 1
    StallAfter = 2
    Timely = TRUE
    ShortRuns = FALSE
    MayFail = FALSE
    MaxCrashes = 0
INVARIANTS AppliedOnce
