SPECIFICATION Spec
CONSTANTS
    Chains = {c1, c2, c3}
    Gone = Gone
    Last = 2
    ConfirmWait = 1
    Heartbeat = 1
    StallAfter = 2
    Timely = TRUE
    ShortRuns = FALSE
    MayFail = TRUE
    MaxCrashes = 1
SYMMETRY ChainSymmetry
INVARIANTS TypeOK Exclusive InOrder
PROPERTY ImplementsSerial
