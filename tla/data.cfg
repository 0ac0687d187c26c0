SPECIFICATION Spec
CONSTANTS
    Procs = {p1, p2}
    Readers = {r1, r2}
    MaxData = 3
    Ids = {m1, m2}
    Keys = {k1, k2}
    NoMetric = NoMetric
    NoDeps = NoDeps
    MaxVersion = 3
    MaxTxns = 4
    Txns = {t1, t2}
    UsedMetrics = {k1}
    Canvases = {c1, c2}
    Boards = {d1}
    Requests = {s1, s2}
    MaxRequests = 3
    Capacity = 2
    MaxEdits = 2
    MaxEvents = 3
    MaxBlocks = 3
    MaxTouches = 1
    Narratives = {"text"}
    PageWidths = {0, 700, 1440}
    Texts = {90}
    Spots <- SomeSpots
    Sizes = {400}
CHECK_DEADLOCK FALSE
INVARIANTS
    TypeOK
    LayoutHolds
PROPERTIES
    RowsKept
    PagesFollow
