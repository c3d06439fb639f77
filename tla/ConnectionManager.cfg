SPECIFICATION Spec
CONSTANTS
    Servers = {s1, s2}
    Gets = {g1, g2}
    Edits = {e1, e2}
    MaxRunning = 2
    MaxBumps = 2
    MaxLosses = 2
    None = None
SYMMETRY CallSymmetry
INVARIANT StaleIsNoticed
PROPERTY FreshUnlessBlind
CHECK_DEADLOCK FALSE
