SPECIFICATION Spec
CONSTANTS
    Texts = {"t"}
    Slots = {1}
    MaxId = 2
    MaxTurns = 2
    MaxCalls = 2
    NoBlocks = NoBlocks
    UserCanvases = {c1, c2}
    MaxEdits = 3
    MaxPuts = 3
    MaxOpens = 1
    Nothing = Nothing
    Canvases = {"c1", "c2"}
    Turns = 2
    Visits = 2
    MaxSlips = 0
    None = None
CHECK_DEADLOCK FALSE
INVARIANTS
    TypeOK
    
    
    AssistantSound

    
