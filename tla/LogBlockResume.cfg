CONSTANTS
    None = None
    Junk = Junk
    Any = Any
    PAGES = 4
    BANKS = 1
    BLOCKS = 4
    Loads <- ResumeLoads
    Torn = {"write", "erase"}
    Resume = TRUE
    MaxPowerCuts = 1
    MaxEraseFails = 0
    MaxEvictions = 1
SPECIFICATION Spec
INVARIANTS ReadsBack BlocksAccounted
CHECK_DEADLOCK FALSE
