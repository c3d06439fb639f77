SPECIFICATION Spec
CONSTANTS
    Servers = {s1, s2}
    Gets = {g1, g2}
    Edits = {e1, e2}
    MaxRunning = 1
    MaxBumps = 2
    MaxLosses = 0
    None = None
SYMMETRY CallSymmetry
PROPERTY NextGetIsFresh
CHECK_DEADLOCK FALSE
