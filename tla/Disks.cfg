CONSTANTS
    ZONES = 2
    BLOCKS = 6
    AREA = 2
    DATA = 1
    SLOTS = 4
    WORD = 32
    GETS = 2
    TRIES = 2
    LAYOUTS <- Layouts
    MAX_FAILS = 2
    MAX_CUTS = 1
    COMMANDS <- ScsiCommands
    POLLS = 2
    DEBOUNCE = 1
    MAX_COMMANDS = 2
    MAX_EVENTS = 1
    PAGE_SECTORS = 2
    BLOCK_PAGES = 2
    LEAD_BLOCKS = 1
    AREA_BLOCKS = 4
    MAX_BOOT_CALLS = 1
    STORAGES <- Storages
    TABLES <- Tables
    WIRINGS <- Wirings
    UNREAD = {0, 86}
    MAX_SCAN_FAULTS = 1
    BANKS = 2
    SUPERS = 2
    PAGES = 3
    SECTS = 2
    MAX_PHY_OPS = 2
    MAX_FAULTS = 1
    MODES <- Controllers
    ACCESS <- Accesses
    MAX_NFC_OPS = 3
    MAX_TIMEOUTS = 1
SPECIFICATION Spec
INVARIANTS DataKept TablesSound StatusTrue FlashSound
PROPERTIES Ends
CHECK_DEADLOCK FALSE
