SPECIFICATION PageSpec
CONSTANTS
    a1 = a1
    Round = {r1, r2}
    None = None
    LockTTL = 3
    MarkerTTL = 1
    StaleAge = 6
    TaskLimit = 2
    JobLimit = 3
    Api = {a1}
    Worker = w
    Home <- OneHome
    QueueEnabled = TRUE
    Pieces <- SomePieces
    MaxPieces = 4
    Drawings = {g1, g2}
    MaxCharts = 3
    Chats = {c1, c2}
    NoChat = NoChat
    Slots = {r1, r2}
    MaxLoads = 2
    MaxActs = 2
    Rules = {c1, c2}
    Suggestions = {s1}
    NoRule = NoChat
    Times = {g1, g2}
    Runners = {r1, r2}
    MaxRecords = 2
    Values <- SomeValues
    MaxPoints = 11
    Week = 7
    Year = 9
    MinHistory = 7
    Window = 7
    ZTenths = 25
    WowPercent = 20
    YoyPercent = 30
    MaPercent = 15
    Items = {s1}
    Titles = {g1, g2}
    Askers = {r1, r2}
    MaxTokens = 1
    Papers = {s1}
    Names = {g1, g2}
    Calls = {r1, r2}
    MaxListings = 2
    Charts = {s1}
    Fields = {g1, g2}
    Cuts <- SomeCuts
    Jobs = {r1, r2}
    MaxBegun = 4
    Headings <- SomeHeadings
    Labels = {"x", "y"}
    Amounts <- SomeAmounts
    Missing = 99
    MaxRows = 2
    Checked = 1
    MaxNumbers = 7
    Tabs = {r1, r2}
    Sheets = {c1, c2}
    NoSheet = NoChat
    MaxChanges = 1
    MaxErrands = 2
    Likings = {s1}
    Memos = {g1, g2}
    NoMemo = NoChat
    Setters = {r1, r2}
    InitialStrength = 50
    StrengthStep = 30
    Full = 100
    Faint = 20
    DecayDays = 1
    Keeps <- SomeKeeps
    TopLimit = 1
    MaxToday = 3
    MaxTold = 3
    Formulas = {c1, c2, s1}
    MaxSymbols = 4
    MaxCatalog = 2
    MetricNames = {1, 2}
    SchemaNames = {1}
    MonthDays <- SomeMonths
    WeekDays = 4
    MaxMonths = 15
    Amount = {0, 1, 3, 4}
    NumberColumns = {"a"}
    TextColumns = {"w"}
    DayColumns = {"day", "at"}
    Preferred = "day"
    TimeWords = {"month"}
    Foreign = {"x"}
    MaxParts = 3
    DefaultLimit = 2
    TopLimitOfTool = 3
    Limits <- SomeLimits
    Views = {"v"}
    MaxDepth = 1
    RowsTold = 1
    RowsFound = {1, 2}
    MaxTraits = 3
CHECK_DEADLOCK FALSE
SYMMETRY PageSymmetry
INVARIANTS
    TypeOK
    RegistryIsLive
    PageTypeOK
    
    ComputedTrue
