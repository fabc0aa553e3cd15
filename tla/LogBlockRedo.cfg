CONSTANTS
    None = None
    Junk = Junk
    Any = Any
    PAGES = 6
    BANKS = 1
    BLOCKS = 5
    Loads <- RedoLoads
    Torn = {}
    Resume = FALSE
    MaxPowerCuts = 0
    MaxEraseFails = 0
    MaxEvictions = 0
SPECIFICATION Spec
INVARIANTS ReadsBack
CHECK_DEADLOCK FALSE
