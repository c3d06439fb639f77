SPECIFICATION FairSpec
CONSTANTS
    Workers = {w1, w2}
    Clients = {c1}
    Cap = 2
    Prompt = TRUE
    MaxEvents = 1
CHECK_DEADLOCK FALSE
INVARIANTS TypeOK Ordinal NoneSkipped
PROPERTIES  MessagesFreed
