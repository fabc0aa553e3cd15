CONSTANTS
    None = None
    Junk = Junk
    Any = Any
    PAGES = 4
    BANKS = 1
    BLOCKS = 3
    Loads <- WornLoads
    Torn = {"write", "copy", "erase"}
    Resume = TRUE
    MaxPowerCuts = 1
    MaxEraseFails = 1
    MaxEvictions = 1
SPECIFICATION Spec
INVARIANTS TypeOK
PROPERTIES Returns
CHECK_DEADLOCK FALSE
