------------------------------ MODULE LogBlock ------------------------------
(***************************************************************************)
(* One logical block of the flash translation layer (nand_sunxi/src:       *)
(* logic/mapping_base.c, logic/merge.c, logic/bad_manage.c, the page map   *)
(* part of logic/mapping.c, and the rebuild of format/nand_format.c).      *)
(*                                                                         *)
(* A logical block is stored in a data block and, once written, in a log   *)
(* block that takes its pages in the order they come.  A full log block is *)
(* merged with the data block in one of three ways.  The tables that name  *)
(* the blocks are in RAM: after a power cut the driver scans the spare     *)
(* area of page 0 of every block and tells data block, log block and       *)
(* left-overs of a merge apart by their age and by how full they are.      *)
(*                                                                         *)
(* Every program and every erase of the flash is a step of its own.  The   *)
(* choice of a free block by erase count is abstracted to any free block.  *)
(***************************************************************************)
EXTENDS Integers, FiniteSets, Sequences

CONSTANTS
    PAGES,       \* PAGE_CNT_OF_SUPER_BLK
    BANKS,       \* INTERLEAVE_BANK_CNT
    BLOCKS,      \* physical blocks the logical block can use
    None,        \* 0xffff
    Junk,        \* data that nobody wrote
    Any,         \* no requirement on the content of a page
    Torn,        \* what a power cut may leave half done: "write", "copy", "erase"
    Resume,      \* whether there are calls after a power cut
    Loads,       \* what may happen to the block: the pages written, bounds on the
                 \* writes and the failed programs, the blocks that are bad from the start
    MaxPowerCuts, MaxEraseFails, MaxEvictions   \* bounds

ASSUME GeometryAssumption == /\ BANKS \in Nat \ {0} /\ PAGES \in Nat \ {0}
                             /\ PAGES % BANKS = 0
ASSUME BlocksAssumption == BLOCKS \in Nat \ {0, 1, 2}
ASSUME NoneAssumption == None \notin Int
ASSUME JunkAssumption == Junk \notin Nat
ASSUME TornAssumption == Torn \subseteq {"write", "copy", "erase"}
ASSUME LoadsAssumption ==
    \A load \in Loads : /\ load.pages \subseteq 0 .. PAGES - 1
                        /\ load.writes \in Nat /\ load.fails \in Nat
                        /\ load.bad \subseteq 1 .. BLOCKS - 1

Pages == 0 .. PAGES - 1
Phys == 0 .. BLOCKS - 1

\* What the driver keeps of a page: the spare area (LogicInfo present or 0xffff,
\* PageStatus, LogicPageNum) and the data.  In page 0 PageStatus is the log age.
FreeMark == 255
DataMark == 85
TableMark == 170
Erased == [info |-> FALSE, status |-> FreeMark, lp |-> None, val |-> Junk]
ErasedBlock == [p \in Pages |-> Erased]

\* _MarkBadBlk: the first and the last page of every bank get a spare area of zeros.
MarkedBad == [p \in Pages |-> IF p < BANKS \/ p >= PAGES - BANKS
                              THEN [info |-> TRUE, status |-> 0, lp |-> 0, val |-> Junk]
                              ELSE Erased]
NoMap == [p \in Pages |-> None]

VARIABLES
    flash,     \* page contents by block and page
    bad,       \* blocks with a bad block flag
    saved,     \* the page map in the newest page map page of each block
    dataBlk,   \* DATA_BLK_TBL
    logBlk,    \* LOG_BLK_TBL: PhyBlk, None without log block
    lastUsed,  \* LOG_BLK_TBL: LastUsedPage
    pmap,      \* PAGE_MAP_TBL
    cached,    \* PAGE_MAP_CACHE holds the page map (ZoneNum # 0xff)
    mapDirty,  \* PAGE_MAP_CACHE->DirtyFlag
    free,      \* FREE_BLK_TBL
    clean,     \* the block mapping table on the flash is up to date
    pc, req, job, bm,   \* control: the write, the merge, the bad block in hand
    flight,    \* programs that may not have ended
    want,      \* the value a logical page must read as, or Any
    count      \* the load; writes, power cuts, failures and evictions so far

tables == <<dataBlk, logBlk, lastUsed, pmap, cached, mapDirty, free>>
vars == <<flash, bad, saved, tables, clean, pc, req, job, bm, flight, want, count>>

-----------------------------------------------------------------------------
(* Pure parts.                                                              *)

\* Mutant: the log page is looked for in the page line in use only.
SameLine(last, i) ==
    IF last = None THEN i % BANKS ELSE last + ((i % BANKS) - (last % BANKS))

\* _GetLogPageForWrite: log page and logical page lie in the same bank.
NextLogPage(last, i) ==
    CASE last = None -> i % BANKS
      [] last # None /\ i % BANKS > last % BANKS -> last + ((i % BANKS) - (last % BANKS))
      [] OTHER -> last + (i % BANKS) + (BANKS - (last % BANKS))

\* _get_page_map_tbl_info
ValidPages == {p \in Pages : pmap[p] # None}
InOrder == /\ \A p \in ValidPages : pmap[p] = p
           /\ lastUsed # None
           /\ Cardinality(ValidPages) >= lastUsed + 1

\* COMPARE_AGE: the difference of two log ages as a signed byte.
CompareAge(a, b) == ((a - b + 128) % 256) - 128

\* _GetLastUsedPage: a binary search over page lines that calls a line used
\* when one of its pages is.
UsedPages(f, b) == {p \in Pages : f[b][p].status # FreeMark \/ f[b][p].lp # None}
LinePages(n) == {n * BANKS + k : k \in 0 .. BANKS - 1}
GetLastUsedPage(f, b) ==
    LET lines == PAGES \div BANKS
        search[r \in (0 .. lines) \X (-1 .. lines - 1)] ==
            LET lo == r[1]
                hi == r[2]
                mid == (lo + hi) \div 2
            IN  IF lo > hi THEN hi
                ELSE IF LinePages(mid) \intersect UsedPages(f, b) = {}
                     THEN search[<<lo, mid - 1>>] ELSE search[<<mid + 1, hi>>]
        line == search[<<0, lines - 1>>]
    IN  IF line = -1 THEN 0
        ELSE CHOOSE p \in LinePages(line) \intersect UsedPages(f, b) :
                \A q \in LinePages(line) \intersect UsedPages(f, b) : q <= p

\* _FillBlkToZoneTbl: what the scan makes of the block b, given the data block
\* and the log block it has settled on so far; `loser` is to be erased.
FillBlkToZoneTbl(f, r, b) ==
    LET ageData == f[r.data][0].status
        ageNew == f[b][0].status
        fuller(x, y) == GetLastUsedPage(f, x) > GetLastUsedPage(f, y)
    IN  CASE r.data = None -> [data |-> b, log |-> None, loser |-> None]
          [] r.data # None /\ ageNew = ageData ->
                IF fuller(b, r.data) THEN [data |-> b, log |-> r.log, loser |-> r.data]
                                     ELSE [data |-> r.data, log |-> r.log, loser |-> b]
          [] r.data # None /\ ageNew # ageData /\ CompareAge(ageNew, ageData) > 0 ->
                CASE ageNew # (ageData + 1) % 256 -> [data |-> r.data, log |-> r.log, loser |-> b]
                  [] ageNew = (ageData + 1) % 256 /\ r.log = None ->
                        [data |-> r.data, log |-> b, loser |-> None]
                  [] OTHER -> IF fuller(b, r.log)
                              THEN [data |-> r.data, log |-> b, loser |-> r.log]
                              ELSE [data |-> r.data, log |-> r.log, loser |-> b]
          [] OTHER ->
                IF ageData = (ageNew + 1) % 256
                THEN [data |-> b, log |-> r.data, loser |-> r.log]
                ELSE [data |-> b, log |-> r.log, loser |-> r.data]

\* _GetBlkLogicInfo: the blocks the scan looks at; the others are free or bad.
Scanned(f, b) == b \notin bad /\ f[b][0].info
NothingFound == [data |-> None, log |-> None, loser |-> None]
Rebuilt(f) ==
    LET found[n \in 0 .. BLOCKS] ==
            IF n = 0 THEN NothingFound
            ELSE IF Scanned(f, n - 1) THEN FillBlkToZoneTbl(f, found[n - 1], n - 1)
                 ELSE found[n - 1]
    IN  found[BLOCKS]

\* _read_page_map_tbl: the page map page, if it is the last page of the log
\* block, or _rebuild_page_map_tbl: the last page that names the logical page.
\* Mutant: the rebuilt map keeps the oldest page.
FirstNamed(f, b, last) ==
    IF b = None \/ last = None THEN NoMap
    ELSE [i \in Pages |-> LET at == {p \in Pages : f[b][p].lp = i}
                          IN  IF at = {} THEN None ELSE CHOOSE p \in at : \A q \in at : p <= q]
IsMapPage(page) == page.status = TableMark /\ page.lp = None
ReadPageMapTbl(f, b, last) ==
    CASE b = None \/ last = None -> NoMap
      [] b # None /\ last # None /\ IsMapPage(f[b][last]) -> saved[b]
      [] OTHER -> [i \in Pages |->
                     LET at == {p \in Pages : f[b][p].lp = i}
                     IN  IF at = {} THEN None ELSE CHOOSE p \in at : \A q \in at : q <= p]

\* LML_PageRead.
PageRead(f, data, log, map, i) ==
    IF log # None /\ map[i] # None THEN f[log][map[i]].val ELSE f[data][i].val

\* What a read would return if power failed now and the tables were rebuilt.
RebuiltRead(i) ==
    LET r == Rebuilt(flash)
        map == ReadPageMapTbl(flash, r.log, IF r.log = None THEN None ELSE GetLastUsedPage(flash, r.log))
    IN  IF r.data = None THEN Junk ELSE PageRead(flash, r.data, r.log, map, i)

-----------------------------------------------------------------------------
(* Flash steps.                                                             *)

NoJob == [kind |-> "none", p |-> 0, dst |-> None, blk |-> None, last |-> 0, toErase |-> <<>>]
NoBad == [bad |-> None, n |-> 0, new |-> None, p |-> 0, ret |-> "idle"]

\* A page that is not erased does not take the data.  A copy is waited for, and a
\* program in a bank waits for the one before it there, so all that were started
\* before one of these have ended too; those of the write path go on in other banks.
Programmed(b, p, content) ==
    [flash EXCEPT ![b][p] = IF @ = Erased THEN content ELSE [content EXCEPT !.val = Junk]]
StartedAfter(g, f) == IF f.user THEN ~g.user \/ g.p > f.p ELSE ~g.user /\ g.p > f.p
OtherBanks(p) ==
    LET waited == {g \in flight : ~g.user \/ g.p % BANKS = p % BANKS}
    IN  {f \in flight \ waited : \A g \in waited : ~StartedAfter(g, f)}
Program(b, p, content) ==
    /\ flash' = Programmed(b, p, content)
    /\ flight' = OtherBanks(p) \union {[b |-> b, p |-> p, user |-> FALSE]}

\* The operation under way gives up: there is no free block left.
GiveUp == pc' = "fail" /\ job' = NoJob /\ bm' = NoBad

MayFail == count.fails < count.load.fails
Failed == count' = [count EXCEPT !.fails = @ + 1]
EraseMayFail == count.eraseFails < MaxEraseFails
EraseFailed == count' = [count EXCEPT !.eraseFails = @ + 1]

\* Mutant: the new block is not taken from the free table.
NewBlkStaysFree(b, n, ret) ==
    \/ /\ free = {}
       /\ GiveUp
       /\ UNCHANGED free
    \/ \E new \in free :
          /\ bm' = [bad |-> b, n |-> n, new |-> new, p |-> 0, ret |-> ret]
          /\ pc' = "restore"
          /\ UNCHANGED <<job, free>>

\* LML_BadBlkManage(b, n, new): a free block takes the pages 0 .. n - 1 of b.
LML_BadBlkManage(b, n, ret) ==
    \/ /\ free = {}
       /\ GiveUp
       /\ UNCHANGED free
    \/ \E new \in free :
          /\ free' = free \ {new}
          /\ bm' = [bad |-> b, n |-> n, new |-> new, p |-> 0, ret |-> ret]
          /\ pc' = "restore"
          /\ UNCHANGED job

\* _RestorePageData, one page.
RestorePageData ==
    /\ pc = "restore"
    /\ bm.p < bm.n
    /\ Program(bm.new, bm.p, flash[bm.bad][bm.p])
    /\ bm' = [bm EXCEPT !.p = @ + 1]
    /\ UNCHANGED <<bad, saved, tables, clean, pc, req, job, want, count>>

\* The new block is bad as well: it is marked, and another one is taken.
RestoreFails ==
    /\ pc = "restore"
    /\ bm.p < bm.n
    /\ MayFail /\ Failed
    /\ flash' = [flash EXCEPT ![bm.new] = MarkedBad]
    /\ bad' = bad \union {bm.new}
    /\ flight' = {}
    /\ LML_BadBlkManage(bm.bad, bm.n, bm.ret)
    /\ UNCHANGED <<saved, dataBlk, logBlk, lastUsed, pmap, cached, mapDirty, clean, req, want>>

\* _MarkBadBlk, and the new block takes the place of the bad one: what all callers
\* have in common.
Replaced ==
    /\ pc = "restore"
    /\ bm.p = bm.n
    /\ flash' = [flash EXCEPT ![bm.bad] = MarkedBad]
    /\ bad' = bad \union {bm.bad}
    /\ saved' = [saved EXCEPT ![bm.new] = saved[bm.bad]]
    /\ flight' = {}
    /\ dataBlk' = IF bm.ret = "datainfo" THEN bm.new ELSE dataBlk
    /\ pc' = bm.ret
    /\ bm' = NoBad
    /\ UNCHANGED <<lastUsed, pmap, cached, mapDirty, free, clean, req, want, count>>
\* Mutant: _CloseWritePage does not put the new block into the log block table.
LogBlkNotSet ==
    /\ Replaced
    /\ logBlk' = IF bm.ret \in {"loginfo", "program", "table"} THEN bm.new ELSE logBlk
    /\ job' = IF bm.ret \in {"swap", "simple", "move"} THEN [job EXCEPT !.blk = bm.new] ELSE job

\* ... and what each of them does with the new block.
MarkBadBlk ==
    /\ Replaced
    /\ logBlk' = IF bm.ret \in {"loginfo", "program", "idle", "table"} THEN bm.new ELSE logBlk
    /\ job' = CASE bm.ret \in {"swap", "simple"} -> [job EXCEPT !.blk = bm.new]
                [] bm.ret = "move" ->   \* goto redo
                      [job EXCEPT !.blk = bm.new, !.p = -1, !.dst = None, !.last = 0]
                [] OTHER -> job

-----------------------------------------------------------------------------
(* LML_PageWrite.                                                           *)

LML_PageWrite(i) ==
    /\ pc = "idle"
    /\ count.cuts = 0 \/ Resume
    /\ count.writes < count.load.writes
    /\ count' = [count EXCEPT !.writes = @ + 1]
    /\ req' = [lp |-> i, val |-> count'.writes, again |-> FALSE, special |-> TRUE]
    /\ pc' = "getlog"
    /\ clean' = FALSE
    /\ UNCHANGED <<flash, bad, saved, tables, job, bm, flight, want>>

\* PMM_SwitchMapTbl: the page map is fetched; one that has to be rebuilt makes the
\* tables dirty.
PMM_SwitchMapTbl ==
    /\ logBlk # None /\ ~cached
    /\ pmap' = ReadPageMapTbl(flash, logBlk, lastUsed)
    /\ cached' = TRUE
    /\ mapDirty' = (lastUsed # None /\ ~IsMapPage(flash[logBlk][lastUsed]))
    /\ clean' = (clean /\ ~mapDirty')
    /\ UNCHANGED <<flash, bad, saved, dataBlk, logBlk, lastUsed, free, pc, req, job, bm, flight, want, count>>

LML_PageRead == pc = "idle" /\ PMM_SwitchMapTbl
SwitchForWrite == pc \in {"getlog", "merge"} /\ PMM_SwitchMapTbl

\* _CreateNewLogBlk
CreateNewLogBlk ==
    /\ pc = "getlog"
    /\ logBlk = None
    /\ \E b \in free :
          /\ free' = free \ {b}
          /\ logBlk' = b
    /\ lastUsed' = None
    /\ pmap' = NoMap
    /\ cached' = TRUE
    /\ mapDirty' = FALSE
    /\ pc' = "datainfo"
    /\ UNCHANGED <<flash, bad, saved, dataBlk, clean, req, job, bm, flight, want, count>>

\* Mutant: there is no error when the free block table is empty.
WaitsForFreeBlk == FALSE

NoFreeBlk ==
    /\ pc = "getlog"
    /\ logBlk = None
    /\ free = {}
    /\ GiveUp
    /\ UNCHANGED <<flash, bad, saved, tables, clean, req, flight, want, count>>

\* An empty data block gets the logical information that a rebuild needs.
WriteDataInfo ==
    /\ pc = "datainfo"
    /\ IF flash[dataBlk][0].info
       THEN pc' = "getlog" /\ UNCHANGED <<flash, flight, free, job, bm, count>>
       ELSE \/ /\ Program(dataBlk, 0, [info |-> TRUE, status |-> FreeMark, lp |-> None, val |-> Junk])
               /\ pc' = "getlog"
               /\ UNCHANGED <<free, job, bm, count>>
            \/ /\ MayFail /\ Failed
               /\ LML_BadBlkManage(dataBlk, 0, "datainfo")
               /\ UNCHANGED <<flash, flight>>
    /\ UNCHANGED <<bad, saved, dataBlk, logBlk, lastUsed, pmap, cached, mapDirty, clean, req, want>>

\* PMM_GetLogPage: the page map names the log page before it is programmed.
TakeLogPage ==
    LET t == NextLogPage(lastUsed, req.lp) IN
    /\ lastUsed' = t
    /\ pmap' = [pmap EXCEPT ![req.lp] = t]
    /\ mapDirty' = TRUE
    /\ pc' = "program"

\* Mutant: the log block gets the age of the data block.
SameAge == flash[dataBlk][0].status
LogAge == (flash[dataBlk][0].status + 1) % 256

\* Mutant: the page after the last one counts.
HasRoomOffByOne(t) == t <= PAGES
HasRoom(t) == t < PAGES

GetLogPage ==
    /\ pc = "getlog"
    /\ logBlk # None /\ cached
    /\ LET t == NextLogPage(lastUsed, req.lp) IN
       \/ /\ HasRoom(t)
          /\ lastUsed # None \/ t = 0
          /\ TakeLogPage
          /\ UNCHANGED <<req, job>>
       \/ /\ HasRoom(t)
          /\ lastUsed = None /\ t # 0
          /\ pc' = "loginfo"
          /\ UNCHANGED <<req, job, lastUsed, pmap, cached, mapDirty>>
       \/ /\ ~HasRoom(t)
          /\ IF req.again
             THEN pc' = "fail" /\ UNCHANGED <<req, job>>
             ELSE /\ pc' = "merge"
                  /\ req' = [req EXCEPT !.again = TRUE]
                  /\ job' = NoJob
          /\ UNCHANGED <<lastUsed, pmap, cached, mapDirty>>
    /\ UNCHANGED <<flash, bad, saved, dataBlk, logBlk, cached, free, clean, bm, flight, want, count>>

\* Page 0 of the log block is skipped by the bank alignment: it gets the logical
\* information and the age.
WriteLogInfo ==
    /\ pc = "loginfo"
    /\ \/ /\ Program(logBlk, 0, [info |-> TRUE, status |-> LogAge, lp |-> None, val |-> Junk])
          /\ TakeLogPage
          /\ UNCHANGED <<free, job, bm, count>>
       \/ /\ MayFail /\ Failed
          /\ LML_BadBlkManage(logBlk, 0, "loginfo")
          /\ UNCHANGED <<flash, flight, lastUsed, pmap, cached, mapDirty>>
    /\ UNCHANGED <<bad, saved, dataBlk, logBlk, cached, clean, req, want>>

\* The page is programmed; the call returns without waiting for the end.
ProgramPage ==
    /\ pc = "program"
    /\ flash' = Programmed(logBlk, lastUsed,
                    [info |-> TRUE, status |-> IF lastUsed = 0 THEN LogAge ELSE DataMark,
                     lp |-> req.lp, val |-> req.val])
    /\ flight' = OtherBanks(lastUsed) \union {[b |-> logBlk, p |-> lastUsed, user |-> TRUE]}
    /\ want' = [want EXCEPT ![req.lp] = req.val]
    /\ pc' = "idle"
    /\ UNCHANGED <<bad, saved, tables, clean, req, job, bm, count>>

\* A program of the write path turns out to have failed, when it has ended and with
\* it those before it: what is left of its page is moved with the rest of the log block.
Ruin(f) ==
    /\ flash' = [flash EXCEPT ![f.b][f.p].val = Junk]
    /\ want' = [want EXCEPT ![flash[f.b][f.p].lp] = Any]
    /\ flight' = {g \in flight \ {f} : ~StartedAfter(f, g)}

SyncFails ==
    /\ pc = "program"
    /\ MayFail /\ Failed
    /\ \E f \in flight :
          /\ f.user /\ f.b = logBlk /\ f.p % BANKS = lastUsed % BANKS
          /\ Ruin(f)
    /\ LML_BadBlkManage(logBlk, lastUsed, "program")
    /\ UNCHANGED <<bad, saved, dataBlk, logBlk, lastUsed, pmap, cached, mapDirty, clean, req>>

\* The error goes back to the caller: the page it was writing is undefined.
WriteFails ==
    /\ pc = "fail"
    /\ want' = [i \in Pages |-> IF i = req.lp THEN Any ELSE want[i]]
    /\ pc' = "idle"
    /\ UNCHANGED <<flash, bad, saved, tables, clean, req, job, bm, flight, count>>

\* _CloseWritePage waits for the last program, and looks at the result of no other.
CloseWritePage ==
    /\ pc = "idle"
    /\ \E f \in flight : f.user
    /\ \/ /\ flight' = {}
          /\ UNCHANGED <<flash, want, pc, job, bm, free, count>>
       \/ /\ MayFail /\ Failed
          /\ \E f \in flight : f.user /\ f.b = logBlk /\ f.p = lastUsed /\ Ruin(f)
          /\ LML_BadBlkManage(logBlk, lastUsed + 1, "idle")
    /\ UNCHANGED <<bad, saved, dataBlk, logBlk, lastUsed, pmap, cached, mapDirty, clean, req>>

\* An access to another logical block closes the page first.
Closed == pc = "idle" /\ \A f \in flight : ~f.user

-----------------------------------------------------------------------------
(* _write_back_page_map_tbl: the page map leaves the cache.                 *)

NoReq == [lp |-> None, val |-> 0, again |-> FALSE, special |-> TRUE]
EvictPageMap ==
    /\ Closed
    /\ logBlk # None /\ cached
    /\ count.cuts = 0 \/ Resume
    /\ count.evictions < MaxEvictions
    /\ count' = [count EXCEPT !.evictions = @ + 1]
    /\ \/ /\ ~mapDirty
          /\ cached' = FALSE
          /\ UNCHANGED <<req, job, pc>>
       \/ /\ mapDirty
          /\ req' = NoReq
          /\ job' = NoJob
          /\ pc' = IF lastUsed + 1 = PAGES THEN "merge" ELSE "table"
          /\ UNCHANGED cached
    /\ UNCHANGED <<flash, bad, saved, dataBlk, logBlk, lastUsed, pmap, mapDirty, free, clean, bm, flight, want>>

WritePageMapTbl ==
    /\ pc = "table"
    /\ \/ /\ Program(logBlk, lastUsed + 1, [info |-> FALSE, status |-> TableMark, lp |-> None, val |-> Junk])
          /\ saved' = [saved EXCEPT ![logBlk] = pmap]
          /\ lastUsed' = lastUsed + 1
          /\ cached' = FALSE
          /\ mapDirty' = FALSE
          /\ pc' = "idle"
          /\ UNCHANGED <<free, job, bm, count>>
       \/ /\ MayFail /\ Failed
          /\ LML_BadBlkManage(logBlk, lastUsed + 1, "table")
          /\ UNCHANGED <<flash, flight, saved, lastUsed, cached, mapDirty>>
    /\ UNCHANGED <<bad, dataBlk, logBlk, pmap, clean, req, want>>

\* BMM_WriteBackAllMapTbl, and the post of a zone's table: after the page maps.
WriteBackMapTbl ==
    /\ Closed
    /\ ~clean
    /\ ~mapDirty
    /\ clean' = TRUE
    /\ UNCHANGED <<flash, bad, saved, tables, pc, req, job, bm, flight, want, count>>

-----------------------------------------------------------------------------
(* LML_MergeLogBlk.                                                         *)

\* Where control goes after the merge.
AfterMerge == CASE req.lp # None -> "getlog"
                [] req.lp = None /\ job.kind = "move" -> "table"
                [] OTHER -> "idle"

\* _CreateNewLogBlk for another logical block finds the log block table full and
\* picks this log block to make room.
MergeOldest ==
    /\ Closed
    /\ logBlk # None
    /\ count.cuts = 0 \/ Resume
    /\ count.evictions < MaxEvictions
    /\ count' = [count EXCEPT !.evictions = @ + 1]
    /\ req' = [NoReq EXCEPT !.special = FALSE]
    /\ job' = NoJob
    /\ pc' = "merge"
    /\ clean' = FALSE
    /\ UNCHANGED <<flash, bad, saved, tables, bm, flight, want>>

\* Mutant: the move merge is taken with more valid pages than it may leave room for.
FewValidHalf == Cardinality(ValidPages) <= PAGES \div BANKS
FewValid == Cardinality(ValidPages) < PAGES \div (BANKS + 1)

LML_MergeLogBlk ==
    /\ pc = "merge"
    /\ cached
    /\ \/ /\ InOrder
          /\ job' = [NoJob EXCEPT !.kind = "swap", !.p = lastUsed + 1, !.blk = logBlk]
          /\ pc' = "swap"
          /\ UNCHANGED <<free, bm>>
       \/ /\ ~InOrder
          /\ free = {}
          /\ GiveUp
          /\ UNCHANGED free
       \/ /\ ~InOrder
          /\ \E b \in free :
                /\ free' = free \ {b}
                /\ job' = IF req.special /\ FewValid
                          THEN [NoJob EXCEPT !.kind = "move", !.p = -1, !.blk = b]
                          ELSE [NoJob EXCEPT !.kind = "simple", !.blk = b]
          /\ pc' = job'.kind
          /\ UNCHANGED bm
    /\ UNCHANGED <<flash, bad, saved, dataBlk, logBlk, lastUsed, pmap, cached, mapDirty, clean, req, flight, want, count>>

\* A copy of a page turns out to have failed.
CopyFails(n) ==
    /\ MayFail /\ Failed
    /\ LML_BadBlkManage(job.blk, n, job.kind)
    /\ UNCHANGED <<flash, flight>>

\* _log2data_swap_merge: the rest of the data block is copied behind the log
\* pages, and the log block becomes the data block.
SwapCopy ==
    /\ pc = "swap"
    /\ job.p < PAGES
    /\ \/ /\ Program(job.blk, job.p, flash[dataBlk][job.p])
          /\ job' = [job EXCEPT !.p = @ + 1]
          /\ UNCHANGED <<pc, bm, free, count>>
       \/ CopyFails(job.p)
    /\ UNCHANGED <<bad, saved, dataBlk, logBlk, lastUsed, pmap, cached, mapDirty, clean, req, want>>

SwapDone ==
    /\ pc = "swap"
    /\ job.p = PAGES
    /\ dataBlk' = job.blk
    /\ logBlk' = None
    /\ lastUsed' = None
    /\ pmap' = NoMap
    /\ cached' = FALSE
    /\ mapDirty' = FALSE
    /\ job' = [job EXCEPT !.toErase = <<dataBlk>>]
    /\ pc' = "erase"
    /\ UNCHANGED <<flash, bad, saved, free, clean, req, bm, flight, want, count>>

\* _copy_page0: page 0 takes the data and the logical page number of the page
\* (b, p) and, with `plus` added, the age of the block b.
CopiedPage0(b, p, plus) ==
    [flash[b][p] EXCEPT !.info = flash[b][0].info, !.status = (flash[b][0].status + plus) % 256]

\* _free2log_move_merge: the valid log pages move to a new log block, bank by
\* bank; the page map is rewritten on the way.
MoveRank(p) == (p % BANKS) * PAGES + p
MoveNext == LET left == {p \in ValidPages : job.p = -1 \/ MoveRank(p) > MoveRank(job.p)}
            IN  IF left = {} THEN None
                ELSE CHOOSE p \in left : \A q \in left : MoveRank(p) <= MoveRank(q)
MoveTo(p) == IF job.dst # None /\ job.p # -1 /\ job.p % BANKS = p % BANKS
             THEN job.dst + BANKS ELSE p % BANKS
NeedsPage0 == job.dst = None /\ (MoveNext = None \/ MoveNext % BANKS # 0)

MovePage0 ==
    /\ pc = "move"
    /\ NeedsPage0
    /\ \/ /\ Program(job.blk, 0, CopiedPage0(logBlk, 0, 0))
          /\ job' = [job EXCEPT !.dst = 0]
          /\ UNCHANGED <<pc, bm, free, count>>
       \/ CopyFails(0)
    /\ UNCHANGED <<bad, saved, dataBlk, logBlk, lastUsed, pmap, cached, mapDirty, clean, req, want>>

MoveCopy ==
    /\ pc = "move"
    /\ ~NeedsPage0
    /\ MoveNext # None
    /\ LET p == MoveNext
           to == MoveTo(p)
           page == IF to = 0 THEN CopiedPage0(logBlk, pmap[p], 0) ELSE flash[logBlk][pmap[p]]
       IN  \/ /\ Program(job.blk, to, page)
              /\ pmap' = [pmap EXCEPT ![p] = to]
              /\ job' = [job EXCEPT !.p = p, !.dst = to, !.last = IF to > @ THEN to ELSE @]
              /\ UNCHANGED <<pc, bm, free, count>>
           \/ CopyFails(0) /\ UNCHANGED pmap
    /\ UNCHANGED <<bad, saved, dataBlk, logBlk, lastUsed, cached, mapDirty, clean, req, want>>

MoveDone ==
    /\ pc = "move"
    /\ ~NeedsPage0
    /\ MoveNext = None
    /\ job' = [job EXCEPT !.toErase = <<logBlk>>]
    /\ pc' = "erase"
    /\ UNCHANGED <<flash, bad, saved, tables, clean, req, bm, flight, want, count>>

\* The age of the new data block is two above that of the old one.
SeqPlus(inData) == IF inData THEN 2 ELSE 1

\* _free2data_simple_merge: the newest version of every page goes to a new data
\* block.
SimpleCopy ==
    /\ pc = "simple"
    /\ job.p < PAGES
    /\ LET inData == pmap[job.p] = None
           b == IF inData THEN dataBlk ELSE logBlk
           p == IF inData THEN job.p ELSE pmap[job.p]
           page == IF job.p = 0 THEN CopiedPage0(b, p, SeqPlus(inData)) ELSE flash[b][p]
       IN  \/ /\ Program(job.blk, job.p, page)
              /\ job' = [job EXCEPT !.p = @ + 1]
              /\ UNCHANGED <<pc, bm, free, count>>
           \/ CopyFails(job.p)
    /\ UNCHANGED <<bad, saved, dataBlk, logBlk, lastUsed, pmap, cached, mapDirty, clean, req, want>>

\* Mutant: the log block is erased before the old data block.
LogErasedFirst ==
    /\ pc = "simple"
    /\ job.p = PAGES
    /\ dataBlk' = job.blk
    /\ job' = [job EXCEPT !.toErase = <<logBlk, dataBlk>>]
    /\ pc' = "erase"
    /\ UNCHANGED <<flash, bad, saved, logBlk, lastUsed, pmap, cached, mapDirty, free, clean, req, bm, flight, want, count>>

SimpleDone ==
    /\ pc = "simple"
    /\ job.p = PAGES
    /\ dataBlk' = job.blk
    /\ job' = [job EXCEPT !.toErase = <<dataBlk, logBlk>>]
    /\ pc' = "erase"
    /\ UNCHANGED <<flash, bad, saved, logBlk, lastUsed, pmap, cached, mapDirty, free, clean, req, bm, flight, want, count>>

\* The blocks the merge has emptied are erased.  A block that cannot be erased
\* gets a bad block flag, and goes to the free block table like any other.
\* Mutant: the block goes to the free block table as it is.
FreedUnerased ==
    /\ pc = "erase"
    /\ job.toErase # <<>>
    /\ free' = free \union {job.toErase[1]}
    /\ job' = [job EXCEPT !.toErase = Tail(@)]
    /\ flight' = {}
    /\ UNCHANGED <<flash, bad, saved, dataBlk, logBlk, lastUsed, pmap, cached, mapDirty, clean, pc, req, bm, want, count>>

EraseBlk ==
    /\ pc = "erase"
    /\ job.toErase # <<>>
    /\ LET b == job.toErase[1] IN
       /\ free' = free \union {b}
       /\ \/ /\ flash' = [flash EXCEPT ![b] = ErasedBlock]
             /\ UNCHANGED <<bad, count>>
          \/ /\ EraseMayFail /\ EraseFailed
             /\ flash' = [flash EXCEPT ![b] = MarkedBad]
             /\ bad' = bad \union {b}
    /\ job' = [job EXCEPT !.toErase = Tail(@)]
    /\ flight' = {}
    /\ UNCHANGED <<saved, dataBlk, logBlk, lastUsed, pmap, cached, mapDirty, clean, pc, req, bm, want>>

MergeDone ==
    /\ pc = "erase"
    /\ job.toErase = <<>>
    /\ IF job.kind = "move"
       THEN /\ logBlk' = job.blk
            /\ lastUsed' = job.last
            /\ UNCHANGED <<pmap, cached, mapDirty>>
       ELSE /\ logBlk' = None
            /\ lastUsed' = None
            /\ pmap' = NoMap
            /\ cached' = FALSE
            /\ mapDirty' = FALSE
    /\ pc' = AfterMerge
    /\ job' = NoJob
    /\ UNCHANGED <<flash, bad, saved, dataBlk, free, clean, req, bm, flight, want, count>>

-----------------------------------------------------------------------------
(* Power cuts, and the rebuild of the tables (_RebuildZoneTbls).            *)

\* A page under programming comes back programmed, erased (then so do those that
\* were started later), or with ruined data.
TearsAs(f) == IF f.user THEN "write" ELSE "copy"
PowerCut ==
    /\ pc # "off"
    /\ count.cuts < MaxPowerCuts
    /\ count' = [count EXCEPT !.cuts = @ + 1]
    /\ \E gone \in SUBSET flight, ruined \in SUBSET {f \in flight : TearsAs(f) \in Torn} :
          LET at(b, p, s) == \E f \in s : f.b = b /\ f.p = p
              whole == [b \in Phys |-> [p \in Pages |->
                           CASE at(b, p, gone) -> Erased
                             [] ~at(b, p, gone) /\ at(b, p, ruined) -> [flash[b][p] EXCEPT !.val = Junk]
                             [] OTHER -> flash[b][p]]]
              torn(b, banks) == [p \in Pages |-> IF p % BANKS \in banks THEN Erased ELSE flash[b][p]]
          IN  /\ \A f \in gone, g \in flight : StartedAfter(g, f) => g \in gone
              /\ \/ flash' = whole
                 \/ /\ "erase" \in Torn /\ pc = "erase" /\ job.toErase # <<>> /\ flight = {}
                    /\ \E banks \in SUBSET (0 .. BANKS - 1) :
                          flash' = [flash EXCEPT ![job.toErase[1]] = torn(job.toErase[1], banks)]
              /\ want' = [i \in Pages |->
                             IF \E f \in gone \union ruined : f.user /\ flash[f.b][f.p].lp = i
                             THEN Any ELSE want[i]]
    /\ pc' = "off"
    /\ flight' = {}
    /\ job' = NoJob
    /\ bm' = NoBad
    /\ UNCHANGED <<bad, saved, tables, clean, req>>

\* FMT_FormatNand finds an up-to-date table: its blocks are taken from there.
LoadTables ==
    /\ pc = "off"
    /\ clean
    /\ pmap' = NoMap
    /\ cached' = FALSE
    /\ mapDirty' = FALSE
    /\ pc' = "idle"
    /\ UNCHANGED <<flash, bad, saved, dataBlk, logBlk, lastUsed, free, clean, req, job, bm, flight, want, count>>

StartScan ==
    /\ pc = "off"
    /\ ~clean
    /\ pc' = "scan"
    /\ dataBlk' = None
    /\ logBlk' = None
    /\ job' = NoJob
    /\ UNCHANGED <<flash, bad, saved, lastUsed, pmap, cached, mapDirty, free, clean, req, bm, flight, want, count>>

\* One block of _FillZoneTblInfo; job.p is the block, dataBlk and logBlk what the
\* scan has settled on.
ScanBlk ==
    /\ pc = "scan"
    /\ job.p < BLOCKS
    /\ IF Scanned(flash, job.p)
       THEN LET r == FillBlkToZoneTbl(flash, [data |-> dataBlk, log |-> logBlk], job.p) IN
            /\ dataBlk' = r.data
            /\ logBlk' = r.log
            /\ \/ /\ flash' = IF r.loser = None THEN flash ELSE [flash EXCEPT ![r.loser] = ErasedBlock]
                  /\ UNCHANGED <<bad, count>>
               \/ /\ r.loser # None /\ EraseMayFail /\ EraseFailed
                  /\ flash' = [flash EXCEPT ![r.loser] = MarkedBad]
                  /\ bad' = bad \union {r.loser}
       ELSE UNCHANGED <<dataBlk, logBlk, flash, bad, count>>
    /\ job' = [job EXCEPT !.p = @ + 1]
    /\ UNCHANGED <<saved, lastUsed, pmap, cached, mapDirty, free, clean, pc, req, bm, flight, want>>

\* _RepairLogBlkTbl, _DistributeFreeBlk and _WriteBlkMapTbl.
\* Mutant: a free block that becomes a data block stays in the free table.
DataBlkStaysFree ==
    LET blank == {b \in Phys : b \notin bad /\ ~flash[b][0].info} IN
    /\ pc = "scan"
    /\ job.p = BLOCKS
    /\ \E d \in IF dataBlk = None THEN blank ELSE {dataBlk} : dataBlk' = d
    /\ free' = blank
    /\ lastUsed' = IF logBlk = None THEN None ELSE GetLastUsedPage(flash, logBlk)
    /\ pmap' = NoMap
    /\ cached' = FALSE
    /\ mapDirty' = FALSE
    /\ clean' = TRUE
    /\ pc' = "idle"
    /\ job' = NoJob
    /\ UNCHANGED <<flash, bad, saved, logBlk, req, bm, flight, want, count>>

ScanDone ==
    LET blank == {b \in Phys : b \notin bad /\ ~flash[b][0].info} IN
    /\ pc = "scan"
    /\ job.p = BLOCKS
    /\ \E d \in IF dataBlk = None THEN blank ELSE {dataBlk} :
          /\ dataBlk' = d
          /\ free' = blank \ {d}
    /\ lastUsed' = IF logBlk = None THEN None ELSE GetLastUsedPage(flash, logBlk)
    /\ pmap' = NoMap
    /\ cached' = FALSE
    /\ mapDirty' = FALSE
    /\ clean' = TRUE
    /\ pc' = "idle"
    /\ job' = NoJob
    /\ UNCHANGED <<flash, bad, saved, logBlk, req, bm, flight, want, count>>

-----------------------------------------------------------------------------
\* A formatted volume: nothing written, the data block not even marked as such.
Init ==
    /\ \E load \in Loads :
          /\ count = [load |-> load, writes |-> 0, cuts |-> 0, fails |-> 0, eraseFails |-> 0,
                      evictions |-> 0]
          /\ bad = load.bad
    /\ flash = [b \in Phys |-> IF b \in bad THEN MarkedBad ELSE ErasedBlock]
    /\ saved = [b \in Phys |-> NoMap]
    /\ dataBlk = 0
    /\ logBlk = None
    /\ lastUsed = None
    /\ pmap = NoMap
    /\ cached = FALSE
    /\ mapDirty = FALSE
    /\ free = Phys \ ({0} \union bad)
    /\ clean = TRUE
    /\ pc = "idle"
    /\ req = NoReq
    /\ job = NoJob
    /\ bm = NoBad
    /\ flight = {}
    /\ want = [i \in Pages |-> Any]

Call == \/ \E i \in count.load.pages : LML_PageWrite(i)
        \/ LML_PageRead \/ CloseWritePage \/ EvictPageMap \/ MergeOldest \/ WriteBackMapTbl

Step == \/ SwitchForWrite \/ CreateNewLogBlk \/ NoFreeBlk \/ WriteDataInfo \/ GetLogPage \/ WriteLogInfo
        \/ ProgramPage \/ SyncFails \/ WriteFails \/ WritePageMapTbl
        \/ LML_MergeLogBlk \/ SwapCopy \/ SwapDone \/ MovePage0 \/ MoveCopy \/ MoveDone
        \/ SimpleCopy \/ SimpleDone \/ EraseBlk \/ MergeDone
        \/ RestorePageData \/ RestoreFails \/ MarkBadBlk
        \/ LoadTables \/ StartScan \/ ScanBlk \/ ScanDone

Next == Call \/ Step \/ PowerCut

Spec == Init /\ [][Next]_vars /\ WF_vars(Step)


-----------------------------------------------------------------------------
(* Properties.                                                              *)

Page == [info : BOOLEAN, status : 0 .. 255, lp : Pages \union {None}, val : 0 .. count.load.writes \union {Junk}]

\* The variables keep their types.
TypeOK ==
    /\ flash \in [Phys -> [Pages -> Page]]
    /\ bad \subseteq Phys /\ free \subseteq Phys
    /\ saved \in [Phys -> [Pages -> Pages \union {None}]]
    /\ pmap \in [Pages -> Pages \union {None}]
    /\ dataBlk \in Phys \union {None} /\ logBlk \in Phys \union {None}
    /\ lastUsed \in Pages \union {None}
    /\ cached \in BOOLEAN /\ mapDirty \in BOOLEAN /\ clean \in BOOLEAN
    /\ pc \in {"idle", "getlog", "datainfo", "loginfo", "program", "table", "merge", "swap", "move",
               "simple", "erase", "restore", "fail", "off", "scan"}
    /\ flight \subseteq [b : Phys, p : Pages, user : BOOLEAN]
    /\ want \in [Pages -> 0 .. count.load.writes \union {Any}]

CurrentRead(i) ==
    PageRead(flash, dataBlk, logBlk,
             IF cached THEN pmap ELSE ReadPageMapTbl(flash, logBlk, lastUsed), i)

\* Between two calls of the driver every logical page reads as it was last
\* written, through any sequence of log writes, merges, page map evictions and
\* bad block replacements (LML_PageRead after LML_PageWrite).
ReadsBack == pc = "idle" => \A i \in Pages : want[i] \in {Any, CurrentRead(i)}

AfterPowerCut(i) == IF clean THEN PageRead(flash, dataBlk, logBlk, ReadPageMapTbl(flash, logBlk, lastUsed), i)
                    ELSE RebuiltRead(i)

\* Whenever the power fails, in the middle of a merge or of an earlier rebuild
\* too, the tables that FMT_FormatNand finds or rebuilds give every page whose
\* program had ended its content back.
SurvivesPowerCut == \A i \in Pages : want[i] \in {Any, AfterPowerCut(i)}

\* A block of the free block table can be programmed as it is: _CreateNewLogBlk
\* and the merges take it without erasing it.
FreeBlocksUsable ==
    pc \notin {"off", "scan"} \/ clean => \A b \in free : b \notin bad /\ flash[b] = ErasedBlock

\* Between two calls every physical block has exactly one role: data block, log
\* block, free block or bad block.  No merge loses a block or uses one twice.
BlocksAccounted ==
    pc = "idle" =>
        /\ Phys = free \union bad \union {dataBlk} \union ({logBlk} \ {None})
        /\ free \intersect bad = {}
        /\ dataBlk # logBlk
        /\ {dataBlk, logBlk} \intersect (free \union bad) = {}

\* "this mode should return a value page number except there is no enough valid
\* blocks": after a merge the log block has a page for the write (PMM_GetLogPage,
\* LML_MergeLogBlk's choice between the move merge and the simple merge).
RoomAfterMerge ==
    pc = "getlog" /\ req.again /\ logBlk # None => NextLogPage(lastUsed, req.lp) < PAGES

\* A NAND page is programmed once between two erases of its block, and the pages
\* of a bank are programmed in ascending order.
ProgramRule ==
    \A b \in Phys, p \in Pages :
        \/ flash'[b][p] \in {flash[b][p], Erased, [flash[b][p] EXCEPT !.val = Junk]}
        \/ b \in bad'
        \/ /\ flash[b][p] = Erased
           /\ \A q \in p + 1 .. PAGES - 1 : q % BANKS = p % BANKS => flash[b][q] = Erased

\* Every step that programs flash (_write_page, MoveDstPage and the copies of
\* bad block handling included) keeps to that rule.
ProgramRules == [][ProgramRule]_vars

\* Every operation and every start of the driver comes to an end.
Returns == (pc # "idle") ~> (pc = "idle")

=============================================================================
