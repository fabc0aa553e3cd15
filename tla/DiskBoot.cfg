CONSTANTS
    PKT = 2
    FIFO = 2
    Programs <- ToolRuns
    Interrupts = {}
    MaxRuns = 2
    MaxMisc = 1
    MaxStorage = 1
    SECT = 2
    BULK = 2
    DISK = 3
    BUF = 4
    Commands <- MCCommands
    Mounts <- MCMounts
    MaxCommands = 3
    MaxMounts = 2
SPECIFICATION Spec
INVARIANTS TypeOK AnswersOwnCommand WritesStored LeavesCleanly InStep ResidueTruthful SenseExplains
PROPERTIES VolumeKept Ends
CHECK_DEADLOCK FALSE
