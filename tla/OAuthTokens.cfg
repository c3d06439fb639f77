SPECIFICATION Spec
CONSTANTS
    Requests = {q1, q2, q3}
    Code = Code
    Nobody = Nobody
    MaxEvents = 2
SYMMETRY RequestSymmetry
INVARIANTS
    TypeOK
    SingleSuccessor
    CacheFollowsRow
PROPERTY ImplementsChain
CHECK_DEADLOCK FALSE
