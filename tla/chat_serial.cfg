SPECIFICATION FairSpec
CONSTANTS
    a1 = a1
    a2 = a2
    r1 = r1
    Round = {r1, r2}
    None = None
    LockTTL = 3
    MarkerTTL = 2
    StaleAge = 4
    Api = {a1}
    Worker = w
    Home <- OneHome
    QueueEnabled = FALSE
CHECK_DEADLOCK FALSE
PROPERTIES
    ImplementsService
    OwnKeysOnly
    SessionHeals
