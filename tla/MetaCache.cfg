SPECIFICATION Spec
CONSTANTS
    Items = {i1, i2}
    Lists = {l1}
    Calls = {c1, c2}
    NONE = NONE
    None = None
    MaxVersion = 2
    MaxLosses = 1
SYMMETRY CacheSymmetry
INVARIANTS
    TypeOK
    CellsFollowRows
    ListsKeepRows
PROPERTY ServedRight
CONSTRAINT SomeNotRaced
CHECK_DEADLOCK FALSE
