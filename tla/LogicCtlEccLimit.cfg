SPECIFICATION MCSpec
CONSTANTS
    SPP = 2
    NPAGES = 3
    WORD = 16
    Val <- MCVal
    Junk = Junk
    None = None
    EccLimit = TRUE
    Calls <- AllRanges
    UserData <- MCUserData
    InitialFlash <- MCInitialFlash
    MaxCalls = 3
PROPERTIES
    ReadsLatest

CHECK_DEADLOCK FALSE
