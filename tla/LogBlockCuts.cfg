CONSTANTS
    None = None
    Junk = Junk
    Any = Any
    PAGES = 4
    BANKS = 1
    BLOCKS = 4
    Loads <- CutLoads
    Torn = {"write", "erase"}
    Resume = FALSE
    MaxPowerCuts = 2
    MaxEraseFails = 0
    MaxEvictions = 1
SPECIFICATION Spec
INVARIANTS SurvivesPowerCut FreeBlocksUsable
CHECK_DEADLOCK FALSE
