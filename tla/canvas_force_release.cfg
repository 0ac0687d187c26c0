SPECIFICATION Spec
CONSTANTS
    a1 = a1
    Round = {r1, r2}
    None = None
    LockTTL = 4
    MarkerTTL = 2
    StaleAge = 6
    TaskLimit = 3
    JobLimit = 3
    Api = {a1}
    Worker = w
    Home <- OneHome
    QueueEnabled = FALSE
CHECK_DEADLOCK FALSE
PROPERTIES
    ForceReleaseSparesLive
