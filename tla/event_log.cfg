SPECIFICATION FairSpec
CONSTANTS
    Reader = {c1}
    Rounds = 2
    Length = 2
    ReplayBatch = 2
    TailBatch = 1
    IdleCap = 2
    IdleLimit = 3
    GraceCap = 1
CHECK_DEADLOCK FALSE
INVARIANTS
    TypeOK
    Faithful
    
PROPERTIES
    ConnectionsEnd
