----------------------------- MODULE ZoneTables -----------------------------
(***************************************************************************)
(* The start of the NAND driver (nand_format.c): FMT_FormatNand looks for  *)
(* the block tables of the zones in the first blocks of a die.  The tables *)
(* that are missing or out of date are built again from what the blocks    *)
(* say about themselves, and the free blocks are shared out.  Any flash    *)
(* operation may fail, and the power may fail at any time.                 *)
(*                                                                         *)
(* One die.  A block says of itself that it is free, bad, holds the data   *)
(* of a logical block ("part": a copy of it that is not complete), holds   *)
(* tables ("stale": the last ones are dirty or incomplete), or something   *)
(* else ("junk").  Log blocks and ages are in LogBlock; the groups of      *)
(* tables in a block are in MapCache.                                      *)
(***************************************************************************)
EXTENDS Integers, FiniteSets, FiniteSetsExt

CONSTANTS ZONES,      \* ZONE_CNT_OF_DIE
          BLOCKS,     \* SuperBlkCntOfDie
          AREA,       \* TBL_AREA_BLK_NUM: blocks for tables
          DATA,       \* DATA_BLK_CNT_OF_ZONE
          SLOTS,      \* BLOCK_CNT_OF_ZONE: the last one is for the checksum
          WORD,       \* 2^16: nFreeCnt wraps around
          GETS,       \* tries of _GetMapTblBlock (5)
          TRIES,      \* tries of FMT_FormatNand (5)
          LAYOUTS,    \* what is on the flash at the start
          MAX_FAILS,  \* bound: flash operations that fail
          MAX_CUTS    \* bound: power cuts

VARIABLES flash,    \* contents of the blocks
          die,      \* struct __ScanDieInfo_t, and the tries
          pst,      \* ZoneTblPstInfo: block of each zone's tables
          step,     \* place in the program: [at, i, from, to]
          odd,      \* the unusual that happened
          written,  \* logical blocks with data
          budget    \* failures and power cuts still to come

zoneVars == <<flash, die, pst, step, odd, written, budget>>

Zones == 0 .. ZONES - 1
Blocks == 0 .. BLOCKS - 1
Area == 0 .. AREA - 1
None == -1

Info(k, z, n) == [kind |-> k, zone |-> z, n |-> n]
FREE_BLOCK_INFO == Info("free", None, None)
BAD_BLOCK_INFO == Info("bad", None, None)
NULL_BLOCK_INFO == Info("null", None, None)
ALLOC_BLK_MARK(z) == Info("alloc", z, None)
TABLE_BLK_MARK(z) == Info("table", z, None)

EmptyTbl == [j \in 0 .. SLOTS - 1 |-> None]
On(info, tbl) == [info |-> info, tbl |-> tbl]
Blank == On(FREE_BLOCK_INFO, EmptyTbl)
Bad == On(BAD_BLOCK_INFO, EmptyTbl)
DataOf(z, n) == On(Info("data", z, n), EmptyTbl)
Part(z, n) == On(Info("part", z, n), EmptyTbl)
Table(z, tbl) == On(TABLE_BLK_MARK(z), tbl)
Stale(z) == On(Info("stale", z, None), EmptyTbl)
Junk == On(Info("junk", None, None), EmptyTbl)

IsTable(b) == flash[b].info.kind \in {"table", "stale"}
Holds(b, z, n) == flash[b].info = Info("data", z, n)

\* The lowest number in a set, or None.
First(S) == IF S = {} THEN None ELSE Min(S)

-----------------------------------------------------------------------------
NoDie == [bitmap |-> {}, phy |-> [b \in Blocks |-> FREE_BLOCK_INFO],
          tbl |-> [z \in Zones |-> EmptyTbl], nData |-> [z \in Zones |-> 0],
          nFree |-> [z \in Zones |-> 0], index |-> [z \in Zones |-> 0],
          freeCnt |-> 0, freeIndex |-> 0, tries |-> TRIES, gets |-> GETS]

At(a, i) == [at |-> a, i |-> i, from |-> None, to |-> None]

ZoneInit ==
    /\ flash \in LAYOUTS
    /\ die = NoDie /\ pst = [z \in Zones |-> None]
    /\ step = At("search", 0) /\ odd = {}
    /\ written = {<<z, n>> \in Zones \X (0 .. DATA - 1) : \E b \in Blocks : Holds(b, z, n)}
    /\ budget = [fails |-> MAX_FAILS, cuts |-> MAX_CUTS]

Here(a) == step.at = a
Works == UNCHANGED budget
Fails == budget.fails > 0 /\ budget' = [budget EXCEPT !.fails = @ - 1]

-----------------------------------------------------------------------------
(* _SearchZoneTbls, a block at a time.                                     *)

SearchBlk ==
    /\ Here("search") /\ step.i < AREA /\ step' = At("search", step.i + 1)
    /\ LET b == step.i
           z == flash[b].info.zone
       IN \/ ~IsTable(b) /\ Works /\ UNCHANGED <<flash, die, pst>>
          \/ /\ IsTable(b) /\ pst[z] = None /\ Works
             /\ pst' = [pst EXCEPT ![z] = b]
             /\ die' = IF flash[b].info.kind = "table" THEN [die EXCEPT !.bitmap = @ \cup {z}] ELSE die
             /\ UNCHANGED flash
          \/ /\ IsTable(b) /\ pst[z] # None
             /\ \/ Works /\ flash' = [flash EXCEPT ![b] = Blank]
                \/ Fails /\ flash' = [flash EXCEPT ![b] = Bad]
             /\ UNCHANGED <<die, pst>>
    /\ UNCHANGED <<odd, written>>

\* The start of _RebuildZoneTbls, _GetBlkLogicInfo included.  The count of free
\* blocks is not set: it is what the last try left.
Rebuild(d) ==
    [NoDie EXCEPT !.bitmap = d.bitmap, !.freeCnt = d.freeCnt, !.tries = d.tries,
                  !.phy = [b \in Blocks |-> flash[b].info]]

SearchEnds ==
    /\ Here("search") /\ step.i = AREA
    /\ IF die.bitmap = Zones THEN step' = At("ready", 0) /\ UNCHANGED die
       ELSE step' = At("fill", 0) /\ die' = Rebuild(die)
    /\ UNCHANGED <<flash, pst, odd, written, budget>>

-----------------------------------------------------------------------------
(* _FillZoneTblInfo, a block at a time.                                    *)

\* A block is erased for other use, or turns out to be bad.
EraseForUse(d, b) ==
    \/ /\ Works /\ flash' = [flash EXCEPT ![b] = Blank]
       /\ die' = [d EXCEPT !.phy[b] = FREE_BLOCK_INFO, !.freeCnt = (@ + 1) % WORD]
    \/ /\ Fails /\ flash' = [flash EXCEPT ![b] = Bad]
       /\ die' = [d EXCEPT !.phy[b] = BAD_BLOCK_INFO]

\* As Loser, by the order of the scan.
LaterLoses(old, new) == new

\* _FillBlkToZoneTbl for two blocks of the same age: the one with more pages
\* stays.
Loser(old, new) ==
    IF die.phy[old].kind = "part" /\ die.phy[new].kind = "data" THEN old ELSE new

FillData(b) ==
    LET z == die.phy[b].zone
        n == die.phy[b].n
        old == die.tbl[z][n]
        lost == Loser(old, b)
    IN IF z \in die.bitmap THEN Works /\ UNCHANGED <<flash, die>>
       ELSE IF old = None
       THEN Works /\ die' = [die EXCEPT !.tbl[z][n] = b, !.nData[z] = @ + 1] /\ UNCHANGED flash
       ELSE EraseForUse(IF lost = old THEN [die EXCEPT !.tbl[z][n] = b] ELSE die, lost)

\* The last block is never used as a free one.
FillBlk ==
    /\ Here("fill") /\ step.i < BLOCKS /\ step' = At("fill", step.i + 1)
    /\ LET b == step.i
           kind == die.phy[b].kind
       IN CASE kind = "free" /\ b = BLOCKS - 1 ->
                 /\ Works /\ flash' = [flash EXCEPT ![b] = Bad]
                 /\ die' = [die EXCEPT !.phy[b] = BAD_BLOCK_INFO]
            [] kind = "free" /\ b # BLOCKS - 1 ->
                 Works /\ die' = [die EXCEPT !.freeCnt = (@ + 1) % WORD] /\ UNCHANGED flash
            [] kind \in {"data", "part"} -> FillData(b)
            [] kind = "junk" \/ (kind \in {"table", "stale"} /\ b >= AREA) -> EraseForUse(die, b)
            [] OTHER -> Works /\ UNCHANGED <<flash, die>>
    /\ UNCHANGED <<pst, odd, written>>

\* As Kicked, for the free blocks of a zone only.
KickFreeOnly(z) == {flash[pst[z]].tbl[j] : j \in DATA .. SLOTS - 2} \ {None}

\* Blocks that a valid table lists: free blocks, and data blocks that have not
\* been written.
Kicked(z) == {flash[pst[z]].tbl[j] : j \in 0 .. SLOTS - 2} \ {None}

\* _KickValidTblBlk: the valid tables are loaded, their blocks are not free.
KickValidTblBlk ==
    /\ Here("fill") /\ step.i = BLOCKS /\ step' = At("get", 0)
    /\ LET owners(b) == {z \in die.bitmap : b \in Kicked(z)}
           kicked == {b \in Blocks : die.phy[b].kind = "free" /\ owners(b) # {}}
       IN die' = [die EXCEPT
                    !.tbl = [z \in Zones |-> IF z \in die.bitmap THEN flash[pst[z]].tbl ELSE @[z]],
                    !.phy = [b \in Blocks |-> IF b \in kicked THEN ALLOC_BLK_MARK(Min(owners(b))) ELSE @[b]],
                    !.freeCnt = (@ - Cardinality(kicked)) % WORD]
    /\ UNCHANGED <<flash, pst, odd, written, budget>>

-----------------------------------------------------------------------------
(* _GetMapTblBlock and _GetNewTableBlk: a block for the tables of a zone.  *)

NextFree(d) == First({b \in Blocks : b >= d.freeIndex /\ d.phy[b] = FREE_BLOCK_INFO})

\* _GetFreeBlkFromDieInfo.
TakeFree(d) ==
    LET b == NextFree(d)
    IN [d EXCEPT !.phy[b] = NULL_BLOCK_INFO, !.freeIndex = b, !.freeCnt = (@ - 1) % WORD]

InTable(d, b) == d.phy[b].kind \in {"data", "part"} /\ d.tbl[d.phy[b].zone][d.phy[b].n] = b

\* The candidates, in the order of preference.
AreaFree == First({b \in Area : die.phy[b] = FREE_BLOCK_INFO})
InvalidTblBlk == First({b \in Area : InTable(die, b) /\ die.phy[b].zone \notin die.bitmap})
ValidTblFreeBlk == First({b \in Area : die.phy[b].kind = "alloc"})
ValidTblBlk == First({b \in Area : InTable(die, b)})

\* The tables of zone z will be in block b.
Assign(d, z, b) ==
    /\ pst' = [pst EXCEPT ![z] = b]
    /\ die' = [d EXCEPT !.phy[b] = TABLE_BLK_MARK(z), !.gets = GETS]
    /\ step' = At("get", z + 1)

FreeSlots == DATA .. SLOTS - 2

\* The free blocks in the table of a zone are given back.
GiveBack(d, z) ==
    LET back == {d.tbl[z][j] : j \in FreeSlots} \ {None}
    IN [d EXCEPT !.phy = [b \in Blocks |-> IF b \in back THEN FREE_BLOCK_INFO ELSE @[b]],
                 !.freeCnt = (@ + Cardinality(back)) % WORD,
                 !.tbl[z] = [j \in DOMAIN @ |-> IF j \in FreeSlots THEN None ELSE @[j]]]

\* A block that zone o has not written yet becomes the table block; f takes its
\* place, unless it is the last one of the data blocks.
ReplaceAlloc(d, a, f) ==
    LET o == d.phy[a].zone
        at == {j \in (0 .. DATA - 2) \cup FreeSlots : d.tbl[o][j] = a}
        r == [d EXCEPT !.bitmap = @ \ {o},
                       !.phy[f] = IF at = {} THEN @ ELSE d.phy[a],
                       !.tbl[o] = [j \in DOMAIN @ |-> IF j \in at THEN f ELSE @[j]]]
    IN [GiveBack(r, o) EXCEPT !.nData[o] = DATA, !.nFree[o] = 0]

\* A written block of a zone whose table is valid is moved.  The table that is
\* given up is the one of the block behind the area, and the counts are set for
\* whatever zone the word before the array names (tmpBlk and
\* tmpValidTblFreeBlk stand where tmpValidTblBlk is meant).
GiveUpTable(d, v, other) ==
    LET r == [GiveBack(d, d.phy[v].zone) EXCEPT
                !.bitmap = @ \ {d.phy[AREA].zone}, !.freeCnt = (@ - 1) % WORD]
    IN IF other = None THEN r ELSE [r EXCEPT !.nData[other] = DATA, !.nFree[other] = 0]

\* One call of _GetNewTableBlk, up to the copy.  The taken block is counted
\* twice.
NewTableBlk(z) ==
    LET taken == TakeFree(die)
        f == NextFree(die)
        d == [taken EXCEPT !.freeCnt = (@ - 1) % WORD]
        move(b) == step' = [At("copy", z) EXCEPT !.from = b, !.to = f]
    IN \/ /\ AreaFree # None
          /\ Assign([die EXCEPT !.freeCnt = (@ - 1) % WORD], z, AreaFree)
          /\ UNCHANGED odd
       \/ /\ AreaFree = None /\ f = None
          /\ step' = At("failed", 0)
          /\ UNCHANGED <<die, pst, odd>>
       \/ /\ AreaFree = None /\ f # None /\ InvalidTblBlk # None
          /\ move(InvalidTblBlk) /\ die' = d /\ odd' = odd \cup {"moved"}
          /\ UNCHANGED pst
       \/ /\ AreaFree = None /\ f # None /\ InvalidTblBlk = None /\ ValidTblFreeBlk # None
          /\ Assign(ReplaceAlloc(d, ValidTblFreeBlk, f), z, ValidTblFreeBlk)
          /\ odd' = odd \cup {"moved", "stolen"}
       \/ /\ AreaFree = None /\ f # None /\ InvalidTblBlk = None /\ ValidTblFreeBlk = None
          /\ ValidTblBlk # None
          /\ \E o \in Zones \cup {None} : die' = GiveUpTable(d, ValidTblBlk, o)
          /\ move(ValidTblBlk) /\ odd' = odd \cup {"moved", "stolen"}
          /\ UNCHANGED pst
       \/ /\ AreaFree = None /\ f # None /\ InvalidTblBlk = None /\ ValidTblFreeBlk = None
          /\ ValidTblBlk = None
          /\ Assign(d, z, f)
          /\ odd' = odd \cup {"moved", "outside"}

HasBlk(z) == z \in die.bitmap \/ pst[z] \in Area

GetMapTblBlock ==
    /\ Here("get") /\ step.i < ZONES
    /\ IF HasBlk(step.i) THEN step' = At("get", step.i + 1) /\ UNCHANGED <<die, pst, odd>>
       ELSE NewTableBlk(step.i)
    /\ UNCHANGED <<flash, written, budget>>

\* The next call of _GetNewTableBlk after one that failed.
TryToGet(d) ==
    IF d.gets = 1 THEN step' = At("failed", 0) /\ die' = d
    ELSE step' = At("get", step.i) /\ die' = [d EXCEPT !.gets = @ - 1]

\* _MergeDataBlkToFreeBlk: the copy, and where the data is now.
CopiedInfo(d, from, to) ==
    [d EXCEPT !.phy[to] = d.phy[from], !.tbl[d.phy[from].zone][d.phy[from].n] = to]

CopyBlk ==
    /\ Here("copy")
    /\ \/ /\ Works /\ flash' = [flash EXCEPT ![step.to] = flash[step.from]]
          /\ die' = CopiedInfo(die, step.from, step.to)
          /\ step' = [step EXCEPT !.at = "erase"]
       \/ /\ Fails /\ flash' = [flash EXCEPT ![step.to] = Bad]
          /\ TryToGet(die)
    /\ UNCHANGED <<pst, odd, written>>

EraseBlk ==
    /\ Here("erase")
    /\ \/ /\ Works /\ flash' = [flash EXCEPT ![step.from] = Blank]
          /\ Assign(die, step.i, step.from)
       \/ /\ Fails /\ flash' = [flash EXCEPT ![step.from] = Bad]
          /\ TryToGet(die) /\ UNCHANGED pst
    /\ UNCHANGED <<odd, written>>

-----------------------------------------------------------------------------
(* _DistributeFreeBlk.                                                     *)

StartDistribution ==
    /\ Here("get") /\ step.i = ZONES
    /\ step' = At("data", 0) /\ die' = [die EXCEPT !.freeIndex = 0]
    /\ UNCHANGED <<flash, pst, odd, written, budget>>

EmptyData(z) == {n \in 0 .. DATA - 1 : die.tbl[z][n] = None}

\* An entry of a zone's table gets a free block.
Give(d, z, j) ==
    LET f == NextFree(d)
    IN [TakeFree(d) EXCEPT !.phy[f] = ALLOC_BLK_MARK(z), !.tbl[z][j] = f]

\* The next zone, or the next empty entry for data of this one.
FillDataTbl ==
    /\ Here("data") /\ step.i < ZONES
    /\ LET z == step.i
           next == step' = At("data", z + 1)
           n == First(EmptyData(z))
           short == die.freeCnt < DATA - die.nData[z] \/ (n # None /\ NextFree(die) = None)
       IN \/ z \in die.bitmap /\ next /\ UNCHANGED die
          \/ z \notin die.bitmap /\ short /\ step' = At("failed", 0) /\ UNCHANGED die
          \/ /\ z \notin die.bitmap /\ ~short /\ n = None
             /\ next /\ die' = [die EXCEPT !.index[z] = DATA]
          \/ /\ z \notin die.bitmap /\ ~short /\ n # None
             /\ die' = [Give(die, z, n) EXCEPT !.nData[z] = @ + 1] /\ UNCHANGED step
    /\ UNCHANGED <<flash, pst, odd, written, budget>>

\* _LeastBlkCntZone: zone 0 when there is none to choose from.
LeastBlkCntZone(d) ==
    LET Z == Zones \ d.bitmap
    IN IF Z = {} THEN 0
       ELSE CHOOSE z \in Z : \A o \in Z : d.nFree[z] < d.nFree[o] \/ (d.nFree[z] = d.nFree[o] /\ z <= o)

\* Otherwise the loop goes round and nothing changes.
CanGive == die.index[LeastBlkCntZone(die)] < SLOTS /\ NextFree(die) # None

Spread ==
    /\ Here("data") /\ step.i = ZONES /\ die.freeCnt > 0 /\ CanGive
    /\ LET z == LeastBlkCntZone(die)
       IN die' = [Give(die, z, die.index[z]) EXCEPT !.index[z] = @ + 1, !.nFree[z] = @ + 1]
    /\ UNCHANGED <<flash, pst, step, odd, written, budget>>

SpreadEnds ==
    /\ Here("data") /\ step.i = ZONES /\ die.freeCnt = 0
    /\ step' = At("write", 0)
    /\ UNCHANGED <<flash, die, pst, odd, written, budget>>

-----------------------------------------------------------------------------
(* _WriteBlkMapTbl, and the tries of FMT_FormatNand.                       *)

\* What is saved: the checksum takes the last entry.
SavedTbl(z) == [die.tbl[z] EXCEPT ![SLOTS - 1] = None]

\* A block that carries the bad block flag keeps it.
WriteTbl(z) ==
    /\ Works
    /\ flash' = [flash EXCEPT ![pst[z]] = IF flash[pst[z]] = Bad THEN Bad ELSE Table(z, SavedTbl(z))]
    /\ step' = At("write", z + 1)
    /\ UNCHANGED <<die, odd>>

\* The block is full and is erased before the tables are written.
EraseTbl(z) ==
    /\ Works /\ flash[pst[z]].info.kind \in {"stale", "table"}
    /\ flash' = [flash EXCEPT ![pst[z]] = Blank]
    /\ UNCHANGED <<die, odd, step>>

\* The erase or a program failed: everything is built again, with the same
\* block for the tables.
WriteFails(z) ==
    /\ Fails /\ flash' = [flash EXCEPT ![pst[z]] = Bad]
    /\ odd' = odd \cup {"badTable"}
    /\ IF die.tries = 1 THEN step' = At("failed", 0) /\ UNCHANGED die
       ELSE step' = At("again", 0) /\ die' = [die EXCEPT !.tries = @ - 1]

WriteBlkMapTbl ==
    /\ Here("write") /\ step.i < ZONES
    /\ IF step.i \in die.bitmap
       THEN step' = At("write", step.i + 1) /\ UNCHANGED <<flash, die, odd, budget>>
       ELSE WriteTbl(step.i) \/ EraseTbl(step.i) \/ WriteFails(step.i)
    /\ UNCHANGED <<pst, written>>

TryAgain ==
    /\ Here("again")
    /\ step' = At("fill", 0) /\ die' = Rebuild(die)
    /\ UNCHANGED <<flash, pst, odd, written, budget>>

WriteEnds ==
    /\ Here("write") /\ step.i = ZONES
    /\ step' = At("ready", 0)
    /\ UNCHANGED <<flash, die, pst, odd, written, budget>>

-----------------------------------------------------------------------------
\* What a power cut leaves of the operation that was under way.
Torn ==
    {flash}
    \cup (IF Here("copy") THEN {[flash EXCEPT ![step.to] = Part(flash[step.from].info.zone, flash[step.from].info.n)]} ELSE {})
    \cup (IF Here("write") /\ step.i < ZONES /\ step.i \notin die.bitmap /\ flash[pst[step.i]] # Bad
          THEN {[flash EXCEPT ![pst[step.i]] = Stale(step.i)]} ELSE {})

\* The driver starts again, with its variables cleared (FMT_Init).
PowerCut ==
    /\ step.at \notin {"ready", "failed"} /\ budget.cuts > 0
    /\ budget' = [budget EXCEPT !.cuts = @ - 1]
    /\ flash' \in Torn
    /\ die' = NoDie /\ pst' = [z \in Zones |-> None] /\ step' = At("search", 0)
    /\ odd' = odd \ {"moved", "outside", "badTable"}
    /\ UNCHANGED written

FormatStep ==
    \/ SearchBlk \/ SearchEnds \/ FillBlk \/ KickValidTblBlk \/ GetMapTblBlock
    \/ CopyBlk \/ EraseBlk \/ StartDistribution \/ FillDataTbl \/ Spread \/ SpreadEnds
    \/ WriteBlkMapTbl \/ TryAgain \/ WriteEnds

ZoneNext == FormatStep \/ PowerCut

-----------------------------------------------------------------------------
(* Properties.                                                             *)

Listed(z) == {flash[pst[z]].tbl[j] : j \in 0 .. SLOTS - 2} \ {None}

\* The last block is flagged bad although a valid table lists it, when it became
\* free after the first format (_FillZoneTblInfo).
Usable(b) == flash[b] = Blank \/ b = BLOCKS - 1

Saved(z) == flash[pst[z]].info = TABLE_BLK_MARK(z)

\* Whatever fails and whenever the power fails, a logical block that was written
\* is complete in some block (_MergeDataBlkToFreeBlk, _FillZoneTblInfo).
DataKept == \A w \in written : \E b \in Blocks : Holds(b, w[1], w[2])

\* When FMT_FormatNand has ended well, the saved tables find every logical block
\* that was written, list no block twice and none that holds tables, and the
\* blocks they list besides are free; unless a block was taken from a zone whose
\* table is valid: its saved table stays valid until it is written again, and
\* the wrong one is given up (nand_format.c:1434).  Nor after a second try: the
\* block that the first one chose for a table it did not get to write is free
\* for the second one, and still the block for that table (nand_format.c:1505).
TablesAgree ==
    Here("ready") /\ odd \cap {"stolen", "badTable"} = {} =>
        \A z \in Zones : Saved(z) =>
            /\ \A n \in 0 .. DATA - 1 :
                   LET b == flash[pst[z]].tbl[n]
                   IN b # None /\ (IF <<z, n>> \in written THEN Holds(b, z, n) ELSE Usable(b))
            /\ \A j \in FreeSlots : flash[pst[z]].tbl[j] # None => Usable(flash[pst[z]].tbl[j])
            /\ \A o \in Zones \ {z} : Saved(o) => Listed(z) \cap Listed(o) = {}

\* The next start finds the tables where this one left them, unless they had to
\* go into a block outside the area, or into one that was flagged bad when an
\* earlier try to write them failed.
FoundAgain ==
    Here("ready") /\ odd \cap {"outside", "badTable"} = {} =>
        \A z \in Zones : Saved(z) /\ pst[z] = First({b \in Area : IsTable(b) /\ flash[b].info.zone = z})

\* Every free block is in a table when the tables were built, unless a table
\* block had to be made free for one: the block taken is counted twice.
NoBlockForgotten ==
    Here("ready") /\ die.bitmap # Zones /\ odd = {} =>
        \A b \in Blocks : flash[b] = Blank => \E z \in Zones : b \in Listed(z)

\* The start ends.  The loop that shares out the free blocks runs until their
\* count is 0: it ends unless the count is above the number of free blocks, which
\* happens when it went below zero (nand_format.c:1377, 1435), and as long as
\* the tables have room for all blocks.
Searching == step.at = "search"

Formatted ==
    \/ step.at \in {"ready", "failed"}
    \/ die.freeCnt > Cardinality({b \in Blocks : die.phy[b] = FREE_BLOCK_INFO})

FormatEnds == Searching ~> Formatted

\* The three together: the tables that a start saves, for the driver and for the
\* next start.
TablesSound == TablesAgree /\ FoundAgain /\ NoBlockForgotten
=============================================================================
