SPECIFICATION Spec
CONSTANTS
    MaxIterations = 3
    MaxFailures = 3
    MaxParallel = 2
    MaxQueries = 2
    MaxCalls = 3
    MaxSteps = 2
    MaxToolCalls = 2
    MaxErrors = 2
    MaxRepeats = 2
    NoReport = NoReport
    Process = {p1, p2}
    Windows = 1
    ReaderTTL = 1
    WaitLimit = 2
    IntentTTL = 3
CHECK_DEADLOCK FALSE
INVARIANTS
    TypeOK
    LoopSound
    
    ReadersRegister
PROPERTIES
    EveryLoopEnds
    FileHeals
