CONSTANTS
    None = None
    Junk = Junk
    Any = Any
    PAGES = 6
    BANKS = 2
    BLOCKS = 5
    Loads <- BankLoads
    Torn = {}
    Resume = FALSE
    MaxPowerCuts = 0
    MaxEraseFails = 0
    MaxEvictions = 1
SPECIFICATION Spec
INVARIANTS ReadsBack BlocksAccounted RoomAfterMerge SoundSurvives
PROPERTIES ProgramRules
CHECK_DEADLOCK FALSE
