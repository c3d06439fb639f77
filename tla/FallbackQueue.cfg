SPECIFICATION FairSpec
CONSTANTS
    Ids = {"a", "r", "u"}
    Repeated = {"r"}
    Unknown = {"u"}
    Concurrency = 1
    MaxObjects = 4
    MaxTimers = 2
    MaxRequests = 2
CHECK_DEADLOCK FALSE
INVARIANTS TypeOK UniqueIds NoZombie RowTellsRun SingleSchedule
PROPERTIES RowEnds
