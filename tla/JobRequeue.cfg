SPECIFICATION FairSpec
CONSTANTS
    Jobs = {j1, j2}
    Workers = {w1, w2}
    Nobody = Nobody
    Limit = 1
    LocalLimit = 1
    MaxCrashes = 1
CHECK_DEADLOCK FALSE
INVARIANTS TypeOK LocalLimitKept FullBudget RowTellsEnd
PROPERTIES RowEnds
