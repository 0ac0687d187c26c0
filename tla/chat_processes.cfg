SPECIFICATION Spec
CONSTANTS
    a1 = a1
    a2 = a2
    r1 = r1
    Round = {r1, r2, r3}
    None = None
    LockTTL = 1
    MarkerTTL = 1
    StaleAge = 4
    Api = {a1, a2}
    Worker = w
    Home <- TwoHomes
    QueueEnabled = TRUE
CHECK_DEADLOCK FALSE
SYMMETRY HomeSymmetry
INVARIANTS
    TypeOK
    OneTaskPerProcess
    RegistryIsLive
    NothingStuck
