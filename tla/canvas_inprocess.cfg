SPECIFICATION FairSpec
CONSTANTS
    a1 = a1
    Round = {r1, r2}
    None = None
    LockTTL = 3
    MarkerTTL = 1
    StaleAge = 6
    TaskLimit = 2
    JobLimit = 2
    Api = {a1}
    Worker = w
    Home <- OneHome
    QueueEnabled = FALSE
CHECK_DEADLOCK FALSE
INVARIANT
    OneAgentPerProcess
PROPERTIES
    ReleasesOwnLock
    SessionHeals
