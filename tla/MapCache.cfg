CONSTANTS
    z1 = z1
    z2 = z2
    z3 = z3
    b1 = b1
    b2 = b2
    b3 = b3
    Zones <- MCZones
    Blocks <- MCBlocks
    BLK_SLOTS = 2
    PAGE_SLOTS = 2
    LOGS = 2
    PAGES = 2
    GROUPS = 2
    SPARES = 1
    MaxAccesses = 4
    MaxCuts = 1
    MaxFails = 1
SPECIFICATION Spec
SYMMETRY Symmetry
INVARIANTS Coherent AcceptedTrue ExitSaves
