SPECIFICATION DuckSpec
CONSTANTS
    Process = {p1, p2}
    Windows = 1
    ReaderTTL = 2
    WaitLimit = 3
    IntentTTL = 4
CHECK_DEADLOCK FALSE
PROPERTY
    BeatOutlivesNobody
