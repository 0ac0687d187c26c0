SPECIFICATION Spec
CONSTANTS
    Goals = {clear, report}
    ClearGoal = clear
    NoGoal = NoGoal
    MaxSteps = 2
    MaxRounds = 2
    Quota <- SmallQuota
    MaxCalls = 2
    MaxRequests = 3
    MaxRound = 5
    MergeRounds = 2
    Window = 2
    MaxMessages = 6
    MaxFailures = 1
    FallbackLines = 2
    MaxTalk = 3
    Lengths = {30, 2500}
    Results <- SmallResults
    Charts <- SmallCharts
    Summaries = {0, 300, 5000}
    LoopSteps = 2
    WindowRounds = 1
    TurnsInContext = 30
    DecisionLimit = 2400
    LiveReserve = 800
    AnswerLimit = 2000
    ResultLimit = 2000
    MetaLimit = 8000
    RowLimit = 20
    RowLength = 130
    NoteLimit = 1200
    KeepMessages = 40
CHECK_DEADLOCK FALSE
INVARIANTS
    TypeOK
    RoundAccounted
    MemorySound
    ContextSound
PROPERTIES
    
    EveryRequestEnds
