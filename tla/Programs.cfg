CONSTANTS
    TIMERS = {1, 2}
    MASKS = 2
    ROUNDS = 1
    MAX_EVENTS = 3
    BOOT_INIS <- BootInis
    OS_INIS <- OsInis
    NAMES = {"linux", "debian"}
    MAX_IMAGES = 2
    FILE_SIZES = {2, 4}
    DRAM_TOP = 20
    MAX_KEYS = 4
    REMOTES = {1, 2}
    MAX_PACKETS = 4
    MAX_OUTPUT = 2
    MAX_LINK_ERRORS = 1
    AREA_BYTES = 91
    SIZES = {5, 13}
    FILL = {2, 5}
    REQUESTS <- Requests
    MAX_REQUESTS = 6
    MAX_RESETS = 2
    MAX_LATE = 1
SPECIFICATION Spec
INVARIANTS DetectionSafe BootsWhatIsChosen LinksSound AreaSound
PROPERTIES Ends
CHECK_DEADLOCK FALSE
