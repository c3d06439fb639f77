SPECIFICATION FairSpec
CONSTANTS
    Chains = {c1, c2}
    Gone = Gone
    Last = 3
    ConfirmWait = 1
    Heartbeat = 2
    StallAfter = 3
    Timely = TRUE
    ShortRuns = TRUE
    MayFail = FALSE
    MaxCrashes = 1
PROPERTY Settles
