SPECIFICATION Spec
CONSTANTS
    Reader = {c1}
    Rounds = 2
    Length = 1
    ReplayBatch = 2
    TailBatch = 1
    IdleCap = 2
    IdleLimit = 3
    GraceCap = 1
CHECK_DEADLOCK FALSE
INVARIANT
    NoEarlierRound
