SPECIFICATION FairSpec
CONSTANTS
    Subs = {r1, r2, r3}
    NoSet = NoSet
INVARIANTS
    TypeOK
    WaitingListed
    WaitingHeard
    OnlyMissedStay
    HandlersReleased
PROPERTY EveryPollEnds
CHECK_DEADLOCK FALSE
