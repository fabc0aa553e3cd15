------------------------------ MODULE MapCache ------------------------------
(***************************************************************************)
(* The caches of the mapping tables (nand_sunxi/src/logic/mapping.c) and   *)
(* the search for saved tables at the start (format/nand_format.c).        *)
(*                                                                         *)
(* The disk is divided into zones.  The block table of a zone and the page *)
(* maps of its log blocks are in RAM only while they are used: a few slots *)
(* hold block tables, a few hold page maps.  A slot is written back when   *)
(* another table needs it: the page map to the next page of its log block, *)
(* the block table to the next group of pages of the zone's table block.   *)
(* A page of the group is the dirty flag, programmed before the first      *)
(* change, so that after a power cut the saved tables are not believed.    *)
(*                                                                         *)
(* The content of a table is abstracted to a version: the number of        *)
(* changes made to the mapping of the zone, or of the log block.           *)
(***************************************************************************)
EXTENDS Integers, Sequences, FiniteSets

CONSTANTS
    Zones,          \* zones of the disk
    Blocks,         \* logical blocks of a zone
    BLK_SLOTS,      \* BLOCK_MAP_TBL_CACHE_CNT
    PAGE_SLOTS,     \* PAGE_MAP_TBL_CACHE_CNT
    LOGS,           \* LOG_BLK_CNT_OF_ZONE
    PAGES,          \* pages of a log block
    GROUPS,         \* groups of table pages in a table block
    SPARES,         \* free blocks of a zone that may replace failing ones
    MaxAccesses, MaxCuts, MaxFails      \* bounds

ASSUME CacheAssumption == BLK_SLOTS \in Nat \ {0} /\ PAGE_SLOTS \in Nat \ {0} /\ LOGS \in Nat \ {0}
ASSUME NamesAssumption == -1 \notin Zones /\ -1 \notin Blocks
ASSUME FlashAssumption == PAGES \in Nat \ {0, 1} /\ GROUPS \in Nat \ {0} /\ SPARES \in Nat

VARIABLES
    ver,      \* per zone: the version of the mapping that the flash really holds
    logs,     \* per zone and position: the log block (its pages are on flash)
    tables,   \* per zone: the table block on flash
    spare,    \* per zone: free blocks left
    slots,    \* BlkMapTblCachePool
    pslots,   \* PageMapTblCachePool
    cur,      \* the slot of BLK_MAP_CACHE, 0 before the first switch
    pcur,     \* the slot of PAGE_MAP_CACHE
    pst,      \* ZoneTblPstInfo[].TablePst, as the number of the group
    ctl,      \* LogicalCtl.ZoneNum, None: 0xff
    job,      \* the access under way and where it is
    count,    \* accesses, power cuts and failures so far
    lost      \* zones whose dirty flag was not stored, and whether an access failed

vars == <<ver, logs, tables, spare, slots, pslots, cur, pcur, pst, ctl, job, count, lost>>
flash == <<ver, logs, tables, spare>>

None == -1
Idle == [pc |-> "idle", why |-> "zone", z |-> None, b |-> None, w |-> FALSE, p |-> None,
         merge |-> FALSE, back |-> 0, g |-> 0, sum |-> 0]
EmptySlot == [zone |-> None, ver |-> 0, dirty |-> FALSE, cnt |-> 0]
EmptyPageSlot == [zone |-> None, log |-> None, ver |-> 0, dirty |-> FALSE, cnt |-> 0]
NoLog == [blk |-> None, len |-> 0, last |-> "none", tv |-> 0, ver |-> 0]

\* A group: the two halves of the data and free block table with the checksum in
\* the second, the log block table with its own checksum, and the dirty flag.
Blank == -2
Torn == -3
Mixed == -4     \* a table in RAM with parts of two
NewGroup == [half1 |-> Blank, half2 |-> Blank, sum |-> Blank, log |-> Blank, flag |-> FALSE]
NewTable(area) == [area |-> area, groups |-> [g \in 1 .. GROUPS |-> NewGroup]]

-----------------------------------------------------------------------------
(* The search at the start: nand_format.c.                                  *)

\* _SearchBlkTblPst: bisection for the last group whose first page is used, 1
\* when there is none.
Used(t, g) == t.groups[g].half1 # Blank
SearchBlkTblPst(t) ==
    LET step[r \in (1 .. GROUPS + 1) \X (0 .. GROUPS)] ==
            LET mid == ((r[1] + r[2]) \div 2)
            IN  IF r[1] > r[2] THEN (IF r[2] = 0 THEN 1 ELSE r[2])
                ELSE IF Used(t, mid) THEN step[<<mid + 1, r[2]>>] ELSE step[<<r[1], mid - 1>>]
    IN  step[<<1, GROUPS>>]

\* A page that was not programmed to its end reads as anything: its checksum fails.
SumHolds(g) == g.half1 = g.half2 /\ g.half1 = g.sum /\ g.half1 \notin {Blank, Torn}
LogHolds(g) == g.log \notin {Blank, Torn}

\* _SearchZoneTbls: the block must be in the table area, its last group not dirty
\* and both checksums right.
Valid(g) == ~g.flag /\ SumHolds(g) /\ LogHolds(g)
Accepts(t) == t.area /\ Used(t, 1) /\ Valid(t.groups[SearchBlkTblPst(t)])
Saved(t) == t.groups[SearchBlkTblPst(t)].half1

-----------------------------------------------------------------------------
(* Slots.                                                                   *)

Lowest(S) == CHOOSE i \in S : \A j \in S : i <= j
First(pool) == CHOOSE i \in DOMAIN pool : /\ \A j \in DOMAIN pool : pool[j].cnt <= pool[i].cnt
                                          /\ \A j \in 1 .. i - 1 : pool[j].cnt < pool[i].cnt
Empties(pool) == {i \in DOMAIN pool : pool[i].zone = None}

\* _find_blk_tbl_post_location, _find_page_tbl_post_location: an empty slot, else
\* the one used least recently; then all counts are cleared.
PostLocation(pool) == IF Empties(pool) # {} THEN Lowest(Empties(pool)) ELSE First(pool)
Cleared(pool) == IF Empties(pool) # {} THEN pool ELSE [i \in DOMAIN pool |-> [pool[i] EXCEPT !.cnt = 0]]

\* _CalBlkTblAccessCount, _CalPageTblAccessCount.
Counted(pool, c) == [i \in DOMAIN pool |-> [pool[i] EXCEPT !.cnt = IF i = c THEN 0 ELSE @ + 1]]

Hits(z) == {i \in DOMAIN slots : slots[i].zone = z}

PageHits(z, p) == {i \in DOMAIN pslots : pslots[i].zone = z /\ pslots[i].log = p}
CurZone == slots[cur].zone

LogOf(z, b) == {p \in 1 .. LOGS : logs[z][p].blk = b}

-----------------------------------------------------------------------------
(* Steps.  An access of zone job.z is at job.pc; job.why tells which of the  *)
(* callers saves tables.                                                     *)

Goto(where) == job' = [job EXCEPT !.pc = where]
MayFail == count.fails < MaxFails
Failing == count' = [count EXCEPT !.fails = @ + 1]

\* A change of the mapping of the current zone, in RAM and on flash.
Changed(pool) == [pool EXCEPT ![cur].ver = IF @ = Mixed THEN Mixed ELSE @ + 1]
Changes == ver' = [ver EXCEPT ![CurZone] = @ + 1]

\* A failure is returned through the callers; the switch still counts the access.
Fail(where) ==
    /\ job' = [Idle EXCEPT !.pc = IF where = "close" THEN "leave" ELSE "failed"]
    /\ lost' = [lost EXCEPT !.failed = TRUE]
    /\ pslots' = IF where = "page" THEN Counted(pslots, pcur) ELSE pslots

\* LML_BadBlkManage: a free block of the zone takes the place of the failing one.
TakesSpare == spare[CurZone] > 0 /\ spare' = [spare EXCEPT ![CurZone] = @ - 1]

-----------------------------------------------------------------------------
(* LML_PageRead, LML_PageWrite: an access of a page of a logical block.      *)

Access(z, b, w) ==
    /\ job.pc = "idle" /\ count.accesses < MaxAccesses
    /\ job' = [Idle EXCEPT !.pc = IF ctl = z THEN "flag" ELSE "zone", !.z = z, !.b = b, !.w = w]
    /\ count' = [count EXCEPT !.accesses = @ + 1]
    /\ UNCHANGED <<flash, slots, pslots, cur, pcur, pst, ctl, lost>>

Arrived == /\ ctl' = job.z
           /\ Goto("flag")

\* BMM_SwitchMapTbl, the zone is in the pool: _blk_map_tbl_cache_hit.
ZoneHit ==
    /\ job.pc = "zone" /\ Hits(job.z) # {}
    /\ cur' = Lowest(Hits(job.z))
    /\ slots' = Counted(slots, cur')
    /\ Arrived
    /\ UNCHANGED <<flash, pslots, pcur, pst, count, lost>>

\* _blk_map_tbl_cache_post: the current table is the slot to be filled from here on.
ZonePost ==
    /\ job.pc = "zone" /\ Hits(job.z) = {}
    /\ cur' = PostLocation(slots)
    /\ slots' = Cleared(slots)
    /\ Goto(IF slots[PostLocation(slots)].dirty THEN "save" ELSE "load")
    /\ UNCHANGED <<flash, pslots, pcur, pst, ctl, count, lost>>

\* _read_block_map_tbl, successful.
LoadTable ==
    LET g == tables[job.z].groups[pst[job.z]]
    IN  /\ job.pc = "load" /\ SumHolds(g) /\ LogHolds(g)
        /\ slots' = Counted([slots EXCEPT ![cur] = [@ EXCEPT !.zone = job.z, !.ver = g.half1, !.dirty = FALSE]], cur)
        /\ Arrived
        /\ UNCHANGED <<flash, pslots, cur, pcur, pst, count, lost>>

\* A page cannot be read, or a checksum is wrong: the slot may hold a part of the
\* new table by then, its zone is the old one and it stays dirty when it was.
LoadFails ==
    LET g == tables[job.z].groups[pst[job.z]]
    IN  /\ job.pc = "load"
        /\ \/ ~(SumHolds(g) /\ LogHolds(g)) /\ count' = count
           \/ MayFail /\ Failing
        /\ \E v \in {slots[cur].ver, Mixed} :
               slots' = Counted([slots EXCEPT ![cur].ver = v], cur)
        /\ Fail("zone")
        /\ UNCHANGED <<flash, cur, pcur, pst, ctl>>

\* BMM_SetDirtyFlag, for the current table.  The result of the program is ignored.
FlagSet == [tables EXCEPT ![CurZone].groups[pst[CurZone]].flag = TRUE]
SetDirtyFlag ==
    \/ slots[cur].dirty /\ UNCHANGED <<tables, slots, lost, count>>
    \/ /\ ~slots[cur].dirty
       /\ slots' = [slots EXCEPT ![cur].dirty = TRUE]
       /\ \/ tables' = FlagSet /\ UNCHANGED <<lost, count>>
          \/ MayFail /\ Failing /\ lost' = [lost EXCEPT !.flags = @ \union {CurZone}] /\ UNCHANGED tables

\* Mutant: the flag is left to the first table that is written back.
FlagLater == UNCHANGED <<tables, slots, lost, count>>
FlagBeforeWrite == SetDirtyFlag

Flag ==
    /\ job.pc = "flag"
    /\ IF job.w THEN FlagBeforeWrite ELSE UNCHANGED <<tables, slots, lost, count>>
    /\ Goto("log")
    /\ UNCHANGED <<ver, logs, spare, pslots, cur, pcur, pst, ctl>>

-----------------------------------------------------------------------------
(* Log blocks: mapping_base.c.                                              *)

\* PMM_GetLogPage, _GetLogBlkPst: the block has a log block, or needs none.
FindLog ==
    /\ job.pc = "log"
    /\ \/ /\ LogOf(CurZone, job.b) # {}
          /\ job' = [job EXCEPT !.pc = "page", !.p = Lowest(LogOf(CurZone, job.b)), !.merge = FALSE]
       \/ /\ LogOf(CurZone, job.b) = {} /\ ~job.w
          /\ job' = Idle
    /\ UNCHANGED <<flash, slots, pslots, cur, pcur, pst, ctl, count, lost>>

\* _CreateNewLogBlk with an empty position.
NewLog(g, b) == [g EXCEPT !.blk = b, !.ver = @ + 1]

CreateLog ==
    LET free == LogOf(CurZone, None)
    IN  /\ job.pc = "log" /\ job.w /\ LogOf(CurZone, job.b) = {} /\ free # {}
        /\ logs' = [logs EXCEPT ![CurZone][Lowest(free)] = NewLog(@, job.b)]
        /\ slots' = Changed(slots) /\ Changes
        /\ job' = [job EXCEPT !.pc = "page", !.p = Lowest(free), !.merge = FALSE]
        /\ UNCHANGED <<tables, spare, pslots, cur, pcur, pst, ctl, count, lost>>

\* _CreateNewLogBlk without one: a full log block is merged, else an old one.
PickVictim ==
    LET full == {p \in 1 .. LOGS : logs[CurZone][p].len = PAGES}
    IN  /\ job.pc = "log" /\ job.w /\ LogOf(CurZone, job.b) = {} /\ LogOf(CurZone, None) = {}
        /\ \E p \in IF full # {} THEN {Lowest(full)} ELSE 1 .. LOGS :
               job' = [job EXCEPT !.pc = "page", !.p = p, !.merge = TRUE]
        /\ UNCHANGED <<flash, slots, pslots, cur, pcur, pst, ctl, count, lost>>

AfterPage == job' = IF job.merge THEN [job EXCEPT !.pc = "merge"]
                    ELSE IF job.w THEN [job EXCEPT !.pc = "write"] ELSE Idle

\* PMM_SwitchMapTbl, the page map is in the pool: _page_map_tbl_cache_hit.
PageHit ==
    /\ job.pc = "page" /\ PageHits(CurZone, job.p) # {}
    /\ pcur' = Lowest(PageHits(CurZone, job.p))
    /\ pslots' = Counted(pslots, pcur')
    /\ AfterPage
    /\ UNCHANGED <<flash, slots, cur, pst, ctl, count, lost>>

\* _page_map_tbl_cache_post: the map that was in the slot is written back with
\* the block table of its own zone as the current one.
PagePost ==
    LET v == PostLocation(pslots)
        z == pslots[v].zone
    IN  /\ job.pc = "page" /\ PageHits(CurZone, job.p) = {}
        /\ pcur' = v
        /\ \/ /\ z = None \/ ~pslots[v].dirty
              /\ pslots' = Cleared(pslots) /\ Goto("pload")
              /\ UNCHANGED <<cur, lost>>
           \/ /\ z # None /\ pslots[v].dirty /\ Hits(z) # {}
              /\ cur' = IF z = CurZone THEN cur ELSE Lowest(Hits(z))
              /\ pslots' = Cleared(pslots)
              /\ job' = [job EXCEPT !.pc = "pflag", !.why = "page", !.back = cur]
              /\ UNCHANGED lost
           \/ /\ z # None /\ pslots[v].dirty /\ Hits(z) = {}
              /\ job' = [Idle EXCEPT !.pc = "failed"]
              /\ lost' = [lost EXCEPT !.failed = TRUE, !.noZone = TRUE]
              /\ pslots' = Counted(Cleared(pslots), v)
              /\ UNCHANGED cur
        /\ UNCHANGED <<flash, slots, pst, ctl, count>>

PageFlag ==
    /\ job.pc = "pflag"
    /\ SetDirtyFlag
    /\ Goto("pwrite")
    /\ UNCHANGED <<ver, logs, spare, pslots, cur, pcur, pst, ctl>>

-----------------------------------------------------------------------------
(* _write_back_page_map_tbl: the map of slot i goes to the next page of its  *)
(* log block, with the block table of its zone as the current one.           *)

Gone(i) == [pslots EXCEPT ![i] = [@ EXCEPT !.zone = None, !.log = None, !.dirty = FALSE]]
LogNow(i) == logs[CurZone][pslots[i].log]
PutLog(i, g) == logs' = [logs EXCEPT ![CurZone][pslots[i].log] = g]

\* A full log block is merged first: LML_MergeLogBlk (module LogBlock) either moves
\* its valid pages to a new log block or leaves none and clears the slot.
Merged(g) == [NoLog EXCEPT !.ver = g.ver + 1]

MapToSave(i) == pslots[i].ver
WithMap(g, n, v) == [g EXCEPT !.len = n, !.last = "table", !.tv = v]
Moved(g) == [g EXCEPT !.ver = @ + 1]

StoreMap(i) ==
    LET g == LogNow(i)
    IN  /\ \/ g.len < PAGES /\ PutLog(i, WithMap(g, g.len + 1, MapToSave(i)))
           \/ /\ g.len = PAGES
              /\ \E k \in 1 .. PAGES - 1 : PutLog(i, WithMap(Moved(g), k + 1, MapToSave(i) + 1))
           \/ g.len = PAGES /\ PutLog(i, Merged(g))
        /\ pslots' = Gone(i)
        /\ slots' = Changed(slots) /\ Changes

\* The program fails: the pages before are copied to a free block and the program is
\* repeated there; without a free block the write-back fails.
StoreMapFails(i) ==
    /\ LogNow(i).len < PAGES /\ MayFail /\ Failing
    /\ \/ TakesSpare /\ slots' = Changed(slots) /\ Changes /\ UNCHANGED <<pslots, job, lost>>
       \/ spare[CurZone] = 0 /\ Fail(job.why) /\ UNCHANGED <<ver, spare, slots>>
    /\ UNCHANGED logs

TmpBmt == job.back

PageWriteBack ==
    /\ job.pc = "pwrite"
    /\ StoreMap(pcur)
    /\ cur' = TmpBmt
    /\ Goto("pload")
    /\ UNCHANGED <<tables, spare, pcur, pst, ctl, count, lost>>

PageWriteBackFails ==
    /\ job.pc = "pwrite"
    /\ StoreMapFails(pcur)
    /\ UNCHANGED <<tables, cur, pcur, pst, ctl>>

\* _read_page_map_tbl: the last used page of the log block is its map, unless pages
\* were written since; then, and when it cannot be read, the map is rebuilt from the
\* pages, which makes it and the block table dirty.
Fetched(v, dirty) == [pslots EXCEPT ![pcur] = [@ EXCEPT !.zone = CurZone, !.log = job.p, !.ver = v, !.dirty = dirty]]

LastIsTable(g) == g.last = "table"

PageLoad ==
    LET g == logs[CurZone][job.p]
    IN  /\ job.pc = "pload" /\ (g.len = 0 \/ LastIsTable(g))
        /\ pslots' = Counted(Fetched(IF g.len = 0 THEN g.ver ELSE g.tv, FALSE), pcur)
        /\ AfterPage
        /\ UNCHANGED <<flash, slots, cur, pcur, pst, ctl, count, lost>>

PageRebuild ==
    LET g == logs[CurZone][job.p]
    IN  /\ job.pc = "pload" /\ g.len > 0
        /\ SetDirtyFlag
        /\ pslots' = Counted(Fetched(g.ver, TRUE), pcur)
        /\ AfterPage
        /\ UNCHANGED <<ver, logs, spare, cur, pcur, pst, ctl>>

\* The pages cannot be read either: the slot keeps the name of the map before.
PageLoadFails ==
    /\ job.pc = "pload" /\ logs[CurZone][job.p].len > 0 /\ MayFail /\ Failing
    /\ job' = [Idle EXCEPT !.pc = "failed"]
    /\ lost' = [lost EXCEPT !.failed = TRUE]
    /\ pslots' = Counted([pslots EXCEPT ![pcur].dirty = FALSE, ![pcur].ver = Mixed], pcur)
    /\ UNCHANGED <<flash, slots, cur, pcur, pst, ctl>>

\* LML_MergeLogBlk in normal mode, for a position in the log block table.
\* Mutant: PMM_ClearCurMapTbl is forgotten.
MapStays(i) == pslots
ClearCurMapTbl(i) == Gone(i)

MergeVictim ==
    /\ job.pc = "merge"
    /\ logs' = [logs EXCEPT ![CurZone][job.p] = Merged(@)]
    /\ pslots' = ClearCurMapTbl(pcur)
    /\ slots' = Changed(slots) /\ Changes
    /\ Goto("log")
    /\ UNCHANGED <<tables, spare, cur, pcur, pst, ctl, count, lost>>

\* The page is written and entered in the map; a full log block is merged before.
WithPage(g, n) == [g EXCEPT !.len = n, !.last = "data", !.ver = @ + 1]
Entered(m) == [m EXCEPT !.ver = @ + 1, !.dirty = TRUE]

WritePage ==
    LET g == logs[CurZone][job.p]
        Written(n) == /\ logs' = [logs EXCEPT ![CurZone][job.p] = WithPage(g, n)]
                      /\ pslots' = [pslots EXCEPT ![pcur] = Entered(@)]
                      /\ job' = Idle
    IN  /\ job.pc = "write"
        /\ \/ g.len < PAGES /\ Written(g.len + 1)
           \/ g.len = PAGES /\ \E k \in 1 .. PAGES - 1 : Written(k + 1)
           \/ /\ g.len = PAGES
              /\ logs' = [logs EXCEPT ![CurZone][job.p] = Merged(g)]
              /\ pslots' = ClearCurMapTbl(pcur)
              /\ Goto("log")
        /\ slots' = Changed(slots) /\ Changes
        /\ UNCHANGED <<tables, spare, cur, pcur, pst, ctl, count, lost>>

-----------------------------------------------------------------------------
(* _write_back_block_map_tbl, for the zone of the current slot.              *)

DirtyMaps == {i \in DOMAIN pslots : pslots[i].zone = CurZone /\ pslots[i].dirty}

MapsFirst == DirtyMaps

\* _write_back_all_page_map_tbl.
SavePage ==
    /\ job.pc = "save" /\ MapsFirst # {}
    /\ pcur' = Lowest(MapsFirst)
    /\ StoreMap(pcur')
    /\ UNCHANGED <<tables, spare, cur, pst, ctl, job, count, lost>>

SavePageFails ==
    /\ job.pc = "save" /\ MapsFirst # {}
    /\ pcur' = Lowest(MapsFirst)
    /\ StoreMapFails(pcur')
    /\ UNCHANGED <<tables, cur, pst, ctl>>

\* The checksum of the data and free block table is computed here, once.
StartGroup(g, v) == job' = [job EXCEPT !.pc = "table1", !.g = g, !.sum = v]

TableFull(z) == pst[z] >= GROUPS

NextGroup ==
    /\ job.pc = "save" /\ MapsFirst = {} /\ ~TableFull(CurZone)
    /\ StartGroup(pst[CurZone] + 1, slots[cur].ver)
    /\ UNCHANGED <<flash, slots, pslots, cur, pcur, pst, ctl, count, lost>>

EraseGroups ==
    /\ job.pc = "save" /\ MapsFirst = {} /\ TableFull(CurZone)
    /\ \/ /\ tables' = [tables EXCEPT ![CurZone] = NewTable(@.area)]
          /\ StartGroup(1, slots[cur].ver)
          /\ UNCHANGED <<ver, spare, slots, pslots, count, lost>>
       \/ /\ MayFail /\ Failing /\ TakesSpare
          /\ \E area \in BOOLEAN : tables' = [tables EXCEPT ![CurZone] = NewTable(area)]
          /\ StartGroup(1, slots[cur].ver + 1)
          /\ slots' = Changed(slots) /\ Changes
          /\ UNCHANGED <<pslots, lost>>
       \/ /\ MayFail /\ Failing /\ spare[CurZone] = 0
          /\ Fail(job.why)
          /\ tables' = [tables EXCEPT ![CurZone] = NewTable(@.area)]
          /\ UNCHANGED <<ver, spare, slots>>
    /\ UNCHANGED <<logs, cur, pcur, pst, ctl>>

TablePages == {"table1", "table2", "table3"}
AfterProgram == [table1 |-> "table2", table2 |-> "table3"]

Programmed(v) ==
    LET z == CurZone
        g == tables[z].groups[job.g]
    IN  [tables EXCEPT ![z].groups[job.g] =
            CASE job.pc = "table1" -> [g EXCEPT !.half1 = v]
              [] job.pc = "table2" -> [g EXCEPT !.half2 = v, !.sum = IF v = Torn THEN Torn ELSE job.sum]
              [] job.pc = "table3" -> [g EXCEPT !.log = v]]

ProgramTable ==
    /\ job.pc \in {"table1", "table2"}
    /\ tables' = Programmed(slots[cur].ver)
    /\ Goto(AfterProgram[job.pc])
    /\ UNCHANGED <<ver, logs, spare, slots, pslots, cur, pcur, pst, ctl, count, lost>>

\* The last page, and where the tables are from now on.
FinishTable ==
    /\ job.pc = "table3"
    /\ tables' = Programmed(slots[cur].ver)
    /\ pst' = [pst EXCEPT ![CurZone] = job.g]
    /\ job' = [job EXCEPT !.pc = IF job.why = "close" THEN "close" ELSE "load", !.g = 0]
    /\ slots' = IF job.why = "close" THEN [slots EXCEPT ![cur].dirty = FALSE] ELSE slots
    /\ UNCHANGED <<ver, logs, spare, pslots, cur, pcur, ctl, count, lost>>

\* A page of the group fails: a free block becomes the table block and the group is
\* written again, with the checksum of before.
ProgramFails ==
    /\ job.pc \in TablePages /\ MayFail /\ Failing
    /\ \/ /\ TakesSpare
          /\ \E area \in BOOLEAN : tables' = [tables EXCEPT ![CurZone] = NewTable(area)]
          /\ slots' = Changed(slots) /\ Changes
          /\ job' = [job EXCEPT !.pc = "table1", !.g = 1]
          /\ lost' = [lost EXCEPT !.sums = @ \union {CurZone}]
          /\ UNCHANGED pslots
       \/ /\ spare[CurZone] = 0
          /\ Fail(job.why)
          /\ tables' = Programmed(Torn)
          /\ UNCHANGED <<ver, spare, slots>>
    /\ UNCHANGED <<logs, cur, pcur, pst, ctl>>

-----------------------------------------------------------------------------
(* LML_Exit, power cuts and the start.                                      *)

\* Mutant: only the current table is written back.
OnlyCurrent == {i \in {cur} \ {0} : slots[i].dirty}
DirtySlots == {i \in DOMAIN slots : slots[i].dirty}

Exit ==
    /\ job.pc \in {"idle", "failed"}
    /\ job' = [Idle EXCEPT !.pc = "close", !.why = "close"]
    /\ UNCHANGED <<flash, slots, pslots, cur, pcur, pst, ctl, count, lost>>

\* BMM_WriteBackAllMapTbl.
WriteBackAll ==
    /\ job.pc = "close" /\ DirtySlots # {}
    /\ cur' = Lowest(DirtySlots)
    /\ Goto("save")
    /\ UNCHANGED <<flash, slots, pslots, pcur, pst, ctl, count, lost>>

NoSlots == [i \in 1 .. BLK_SLOTS |-> EmptySlot]
NoPageSlots == [i \in 1 .. PAGE_SLOTS |-> EmptyPageSlot]
NoTables(pc) == /\ slots' = NoSlots /\ pslots' = NoPageSlots
                /\ cur' = 0 /\ pcur' = 0 /\ ctl' = None
                /\ pst' = [z \in Zones |-> 0]
                /\ job' = [Idle EXCEPT !.pc = pc]

ExitDone ==
    /\ job.pc = "leave" \/ (job.pc = "close" /\ DirtySlots = {})
    /\ NoTables("off")
    /\ lost' = [lost EXCEPT !.closed = job.pc = "close"]
    /\ UNCHANGED <<flash, count>>

\* The power fails; the page of the table that is being programmed may be torn.  After
\* a failed program it does not (bound): AcceptedTrue tells what a start would find.
PowerCut ==
    /\ job.pc # "off" /\ count.cuts < MaxCuts /\ count.fails = 0
    /\ count' = [count EXCEPT !.cuts = @ + 1]
    /\ \/ UNCHANGED tables
       \/ job.pc \in TablePages /\ tables' = Programmed(Torn)
    /\ NoTables("off")
    /\ lost' = [lost EXCEPT !.closed = FALSE]
    /\ UNCHANGED <<ver, logs, spare>>

\* FMT_FormatNand: tables that are not accepted are rebuilt from the blocks (module
\* ZoneTables) and written to the next group, in the block found or in a new one of
\* the table area.
Rebuilt(z) ==
    LET t == IF tables[z].area /\ Used(tables[z], 1) THEN tables[z] ELSE NewTable(TRUE)
        n == IF Used(t, 1) THEN SearchBlkTblPst(t) + 1 ELSE 1
        g == [NewGroup EXCEPT !.half1 = ver[z], !.half2 = ver[z], !.sum = ver[z], !.log = ver[z]]
    IN  IF n > GROUPS THEN [NewTable(TRUE) EXCEPT !.groups[1] = g] ELSE [t EXCEPT !.groups[n] = g]

Start ==
    /\ job.pc = "off"
    /\ tables' = [z \in Zones |-> IF Accepts(tables[z]) THEN tables[z] ELSE Rebuilt(z)]
    /\ pst' = [z \in Zones |-> SearchBlkTblPst(tables'[z])]
    /\ job' = Idle
    /\ lost' = [lost EXCEPT !.closed = FALSE, !.sums = {}]
    /\ UNCHANGED <<ver, logs, spare, slots, pslots, cur, pcur, ctl, count>>

Init ==
    /\ ver = [z \in Zones |-> 1]
    /\ logs = [z \in Zones |-> [p \in 1 .. LOGS |-> NoLog]]
    /\ tables = [z \in Zones |-> [NewTable(TRUE) EXCEPT !.groups[1] =
                     [half1 |-> 1, half2 |-> 1, sum |-> 1, log |-> 1, flag |-> FALSE]]]
    /\ spare = [z \in Zones |-> SPARES]
    /\ slots = NoSlots /\ pslots = NoPageSlots /\ cur = 0 /\ pcur = 0 /\ ctl = None
    /\ pst = [z \in Zones |-> 1]
    /\ job = Idle
    /\ count = [accesses |-> 0, cuts |-> 0, fails |-> 0]
    /\ lost = [failed |-> FALSE, noZone |-> FALSE, closed |-> FALSE, flags |-> {}, sums |-> {}]

Steps == ZoneHit \/ ZonePost \/ LoadTable \/ LoadFails \/ Flag
         \/ FindLog \/ CreateLog \/ PickVictim \/ PageHit \/ PagePost \/ PageFlag
         \/ PageWriteBack \/ PageWriteBackFails \/ PageLoad \/ PageRebuild \/ PageLoadFails
         \/ MergeVictim \/ WritePage
         \/ SavePage \/ SavePageFails \/ NextGroup \/ EraseGroups \/ ProgramTable \/ FinishTable \/ ProgramFails
         \/ WriteBackAll \/ ExitDone

Next == \/ \E z \in Zones, b \in Blocks, w \in BOOLEAN : Access(z, b, w)
        \/ Steps \/ Exit \/ PowerCut \/ Start

Spec == Init /\ [][Next]_vars

-----------------------------------------------------------------------------
(* Properties.                                                              *)

\* The values each variable can take.
TypeOK ==
    /\ ver \in [Zones -> Nat] /\ spare \in [Zones -> 0 .. SPARES]
    /\ \A z \in Zones, p \in 1 .. LOGS : logs[z][p].blk \in Blocks \union {None} /\ logs[z][p].len \in 0 .. PAGES
    /\ \A i \in 1 .. BLK_SLOTS : slots[i].zone \in Zones \union {None} /\ slots[i].dirty \in BOOLEAN /\ slots[i].cnt \in Nat
    /\ \A i \in 1 .. PAGE_SLOTS : pslots[i].zone \in Zones \union {None} /\ pslots[i].log \in (1 .. LOGS) \union {None}
    /\ cur \in 0 .. BLK_SLOTS /\ pcur \in 0 .. PAGE_SLOTS /\ ctl \in Zones \union {None}
    /\ pst \in [Zones -> 0 .. GROUPS]

\* No table is in two slots, so that no change can be made to one copy and another
\* copy be written back (_blk_map_tbl_cache_hit, _page_map_tbl_cache_hit).
OneCopy ==
    /\ \A i, j \in DOMAIN slots : i # j /\ slots[i].zone = slots[j].zone => slots[i].zone = None
    /\ \A i, j \in DOMAIN pslots :
           i # j /\ pslots[i].zone = pslots[j].zone /\ pslots[i].log = pslots[j].log => pslots[i].zone = None

\* As long as no access failed, what is in the slots is what the flash holds, however
\* often tables were written back, fetched again or rebuilt, and however often the
\* power failed.  A zone whose dirty flag could not be stored is left out: line 1003
\* of mapping.c goes on without it.
SlotsCurrent ==
    ~lost.failed =>
        /\ \A i \in DOMAIN slots : slots[i].zone \in Zones \ lost.flags => slots[i].ver = ver[slots[i].zone]
        /\ \A i \in DOMAIN pslots : pslots[i].zone \in Zones \ lost.flags =>
               pslots[i].ver = logs[pslots[i].zone][pslots[i].log].ver

\* A page map that must be written back has the dirty block table of its zone in a
\* slot, so that the write-back knows the log block: the error at mapping.c:443 does
\* not happen.
MapsHaveZone ==
    ~lost.failed => \A i \in DOMAIN pslots : pslots[i].zone # None /\ pslots[i].dirty =>
        \E j \in DOMAIN slots : slots[j].zone = pslots[i].zone /\ slots[j].dirty

\* LogicalCtl.ZoneNum and BLK_MAP_CACHE name the same zone when an access begins and
\* when it uses the tables, also after the page map of another zone was written back;
\* the page map that is changed is the one of the log block.
CurrentTables ==
    ~lost.failed =>
        /\ job.pc \in {"idle", "flag", "log", "page", "pload", "merge", "write"} /\ ctl # None => CurZone = ctl
        /\ job.pc \in {"merge", "write"} => pslots[pcur].zone = CurZone /\ pslots[pcur].log = job.p

\* Whenever the power fails, tables that the start would accept are those of the blocks
\* on flash: dirty flag, checksums and the order of the pages see to it.
AcceptedTrue ==
    ~lost.failed => \A z \in Zones \ lost.flags : Accepts(tables[z]) => Saved(tables[z]) = ver[z]

\* After an exit without errors the next start accepts all tables, unless a table block
\* moved out of the table area or was written again with the old checksum
\* (mapping.c:723).
ExitSaves ==
    job.pc = "off" /\ lost.closed /\ ~lost.failed =>
        \A z \in Zones \ lost.sums : tables[z].area => Accepts(tables[z])

\* The slots and what is in them, while the device runs.
Coherent == TypeOK /\ OneCopy /\ SlotsCurrent /\ MapsHaveZone /\ CurrentTables
=============================================================================
