CONSTANTS
    PAGE_SECTORS = 2
    BLOCK_PAGES = 2
    LEAD_BLOCKS = 1
    AREA_BLOCKS = 3
    MAX_BOOT_CALLS = 1
SPECIFICATION BootSpec
INVARIANTS WriteExact
CHECK_DEADLOCK FALSE
