------------------------------ MODULE LogicCtl ------------------------------
(***************************************************************************)
(* The sector interface of the NAND driver (nand_sunxi/src/logic:          *)
(* logic_ctl.c and read_reclaim.c): LML_Read, LML_Write,                   *)
(* LML_FlushPageCache, LML_ReadReclaim, LML_Init and LML_Exit with the     *)
(* one-page write cache between them and the flash translation layer.      *)
(*                                                                         *)
(* The layer below, LML_PageRead and LML_PageWrite, is a volume of logical *)
(* pages whose operations may fail.  A call is split where the flash       *)
(* changes, so that a power cut can fall between any two changes.  A       *)
(* program is only waited for by _CloseWritePage or by the next program of *)
(* the same bank: until then its page is in `flight`.                      *)
(***************************************************************************)
EXTENDS Integers

CONSTANTS
    SPP,          \* SECTOR_CNT_OF_LOGIC_PAGE
    NPAGES,       \* logical pages of the volume
    WORD,         \* 2^32: sector sums wrap here
    Val,          \* sector contents
    Junk,         \* content of a sector that cannot be read back
    None,         \* LogicPageNum 0xffffffff, and OpMode other than 'w'
    EccLimit,     \* whether reads may report ECC_LIMIT
    Calls,        \* requests callers make: records [n, c]
    UserData(_, _),  \* UserData(k, c): buffers of c sectors the k-th call may pass
    InitialFlash, \* contents of the volume when the driver first starts
    MaxCalls      \* bound on the number of calls

ASSUME GeometryAssumption == SPP \in Nat \ {0} /\ NPAGES \in Nat \ {0} /\ WORD \in Nat \ {0}
ASSUME NoneAssumption == None \notin Nat
ASSUME CallsAssumption == /\ MaxCalls \in Nat
                          /\ \A r \in Calls : r \in [n : Nat, c : Nat]
                          /\ \A k \in 0 .. MaxCalls - 1, r \in Calls :
                                UserData(k, r.c) \subseteq [0 .. r.c - 1 -> Val]

Pages == 0 .. NPAGES - 1
Sects == 0 .. SPP - 1
Content == [Sects -> Val \union {Junk}]
JunkPage == [s \in Sects |-> Junk]
DiskCap == NPAGES * SPP

ASSUME FlashAssumption == InitialFlash \subseteq [Pages -> Content]

VARIABLES
    flash,      \* what LML_PageRead finds in each logical page
    flight,     \* pages under programming -> what a power cut may restore
    open,       \* the page last programmed while OpMode is 'w', else None
    CachePage,  \* LogicPageNum and SectorBitmap of the cached page
    cacheBuf,   \* the buffer LML_WRITE_PAGE_CACHE
    wr,         \* the write call: first sector n, count c, loop index i, status
    wbuf,       \* its buffer
    rd,         \* the read call, likewise
    rbuf,       \* its buffer
    pc,         \* where the one thread is
    onBehalf,   \* who called LML_FlushPageCache
    flushed,    \* the result of the last LML_FlushPageCache, until the next call
    calls       \* calls made so far

vars == <<flash, flight, open, CachePage, cacheBuf, wr, wbuf, rd, rbuf, pc, onBehalf, flushed, calls>>
nand == <<flash, flight, open>>
cache == <<CachePage, cacheBuf>>
reading == <<rd, rbuf>>

Empty == [LogicPageNum |-> None, SectorBitmap |-> {}]

-----------------------------------------------------------------------------
(***************************************************************************)
(* _CalculateSectPar: bitmaps are sets of sector numbers, FULL << k is the *)
(* sectors from k on and FULL >> (SPP - k) the sectors below k.            *)
(***************************************************************************)

HeadPage(r) == r.n \div SPP
SpanCnt(r) == r.c + (r.n % SPP)
HeadBitmap(r) == {s \in Sects : s >= r.n % SPP /\ (SpanCnt(r) <= SPP => s < SpanCnt(r))}
MidPageCnt(r) == IF SpanCnt(r) > SPP THEN (SpanCnt(r) - SPP) \div SPP ELSE 0
TailBitmap(r) == IF SpanCnt(r) > SPP THEN {s \in Sects : s < (SpanCnt(r) - SPP) % SPP} ELSE {}

\* The page loop of LML_Read and LML_Write: how many pages, and for the pass i
\* which page, which sectors, and where in the caller's buffer sector s lies.
PageCnt(r) == 1 + MidPageCnt(r) + (IF TailBitmap(r) # {} THEN 1 ELSE 0)
PageAt(r) == HeadPage(r) + r.i
BitmapAt(r) == CASE r.i = 0 -> HeadBitmap(r)
                 [] r.i # 0 /\ TailBitmap(r) # {} /\ r.i = PageCnt(r) - 1 -> TailBitmap(r)
                 [] OTHER -> Sects
AlignGap(r) == CHOOSE k \in HeadBitmap(r) : \A s \in HeadBitmap(r) : k <= s
BufIdxUnaligned(r, s) == r.i * SPP + s
BufIdx(r, s) == r.i * SPP + s - AlignGap(r)

\* (nSectNum + nSectorCnt) > LogicalCtl.DiskCap, in 32 bits.
BeyondDisk(r) == (r.n + r.c) % WORD > DiskCap

-----------------------------------------------------------------------------
(* The page layer: LML_PageRead, LML_PageWrite and _CloseWritePage.         *)

Restricted(keep) == [q \in keep |-> flight[q]]
Settle(done) == \E keep \in SUBSET (DOMAIN flight \ done) : flight' = Restricted(keep)

\* OpMode 'w' is left: the last program is waited for.  The others, on other
\* banks, may or may not have ended.
CloseWritePage == /\ open' = None
                  /\ Settle({open})
                  /\ UNCHANGED flash

\* _CloseWritePage fails when the last program failed and no free block is left
\* to save the log block to: OpMode stays 'w'.
CloseFails == /\ open # None
              /\ UNCHANGED nand

\* LML_PageRead switches to read mode first, and may fail there or later.  The
\* zone of a page beyond the volume has no block mapping table.
PageRead(p) == p \in Pages /\ CloseWritePage
PageReadFails == CloseWritePage \/ CloseFails

\* LML_PageWrite: `done` is whether it returns 0.  The page map names the new
\* log page before it is programmed, so a failed call may leave the page Junk;
\* a program that fails after the call is only noticed by a later call, which
\* copies the failed page as it is.
PageWrite(p, data, done) ==
    \/ /\ p \in Pages
       /\ done
       /\ \E page \in {data, JunkPage} : flash' = [flash EXCEPT ![p] = page]
       /\ \E keep \in SUBSET (DOMAIN flight \ {p}) :
             flight' = [q \in keep \union {p} |-> IF q = p THEN flash[p] ELSE flight[q]]
       /\ open' = p
    \/ /\ ~done
       /\ open' \in {open, None}
       /\ Settle({})
       /\ \/ UNCHANGED flash
          \/ p \in Pages /\ flash' = [flash EXCEPT ![p] = JunkPage]

-----------------------------------------------------------------------------
(* The write cache.                                                         *)

Cached(p) == CachePage.LogicPageNum = p
CacheOver(page) == [s \in Sects |-> IF s \in CachePage.SectorBitmap THEN cacheBuf[s] ELSE page[s]]

\* Mutant: the merged sectors are marked one place too far.
MergeCachePageDataShifted ==
    /\ CachePage' = [LogicPageNum |-> PageAt(wr),
                     SectorBitmap |-> CachePage.SectorBitmap \union {s + 1 : s \in BitmapAt(wr)}]
    /\ cacheBuf' = [s \in Sects |-> IF s \in BitmapAt(wr) THEN wbuf[BufIdx(wr, s)] ELSE cacheBuf[s]]

\* _MergeCachePageData(nPage, nBitmap, pBuf) for the current pass of the write.
MergeCachePageData ==
    /\ CachePage' = [LogicPageNum |-> PageAt(wr),
                     SectorBitmap |-> CachePage.SectorBitmap \union BitmapAt(wr)]
    /\ cacheBuf' = [s \in Sects |-> IF s \in BitmapAt(wr) THEN wbuf[BufIdx(wr, s)] ELSE cacheBuf[s]]

\* Mutant: the sectors the cache lacks are not read from the flash first.
WritePageCacheToNandUnfilled(done) ==
    \/ /\ Cached(None)
       /\ done
       /\ UNCHANGED <<nand, cache>>
    \/ /\ ~Cached(None)
       /\ PageWrite(CachePage.LogicPageNum, cacheBuf, done)
       /\ CachePage' = IF done THEN Empty ELSE CachePage
       /\ UNCHANGED cacheBuf

\* _WritePageCacheToNand: `done` is whether it returns 0.
WritePageCacheToNand(done) ==
    LET p == CachePage.LogicPageNum IN
    \/ /\ Cached(None)
       /\ done
       /\ UNCHANGED <<nand, cache>>
    \/ /\ ~Cached(None)
       /\ CachePage.SectorBitmap # Sects
       /\ ~done
       /\ PageReadFails
       /\ UNCHANGED cache
    \/ /\ ~Cached(None)
       /\ p \in Pages \/ CachePage.SectorBitmap = Sects
       /\ cacheBuf' = CacheOver(IF p \in Pages THEN flash[p] ELSE cacheBuf)
       /\ PageWrite(p, cacheBuf', done)
       /\ CachePage' = IF done THEN Empty ELSE CachePage

-----------------------------------------------------------------------------
(* LML_Write.                                                               *)

StartCall == /\ pc = "idle"
             /\ calls < MaxCalls
             /\ calls' = calls + 1
             /\ flushed' = "none"

\* A write beyond the disk volume is reported on the console and carried out.
LML_Write(r, buf) ==
    /\ StartCall
    /\ wr' = [n |-> r.n, c |-> r.c, i |-> 0, status |-> IF r.c = 0 THEN "ok" ELSE "busy"]
    /\ wbuf' = buf
    /\ pc' = IF r.c = 0 THEN "idle" ELSE "write"
    /\ UNCHANGED <<nand, cache, reading, onBehalf>>

NextWritePage ==
    LET last == wr.i + 1 = PageCnt(wr) IN
    /\ wr' = [wr EXCEPT !.i = @ + 1, !.status = IF last THEN "ok" ELSE "busy"]
    /\ pc' = IF last THEN "idle" ELSE "write"

WriteFails == /\ wr' = [wr EXCEPT !.status = "failed"]
              /\ pc' = "idle"

\* The page is the cached page.
WriteHit == /\ pc = "write"
            /\ Cached(PageAt(wr))
            /\ MergeCachePageData
            /\ NextWritePage
            /\ UNCHANGED <<nand, wbuf, reading, onBehalf, flushed, calls>>

\* Another page is cached: it goes to the flash first.
WriteEvict == /\ pc = "write"
              /\ ~Cached(PageAt(wr)) /\ ~Cached(None)
              /\ \/ /\ WritePageCacheToNand(TRUE)
                    /\ UNCHANGED <<wr, pc>>
                 \/ /\ WritePageCacheToNand(FALSE)
                    /\ WriteFails
              /\ UNCHANGED <<wbuf, reading, onBehalf, flushed, calls>>

\* A whole page bypasses the empty cache.
WriteFull == /\ pc = "write"
             /\ Cached(None)
             /\ BitmapAt(wr) = Sects
             /\ \E done \in BOOLEAN :
                   /\ PageWrite(PageAt(wr), [s \in Sects |-> wbuf[BufIdx(wr, s)]], done)
                   /\ IF done THEN NextWritePage ELSE WriteFails
             /\ UNCHANGED <<cache, wbuf, reading, onBehalf, flushed, calls>>

\* A part of a page goes to the empty cache.
WritePart == /\ pc = "write"
             /\ Cached(None)
             /\ BitmapAt(wr) # Sects
             /\ MergeCachePageData
             /\ NextWritePage
             /\ UNCHANGED <<nand, wbuf, reading, onBehalf, flushed, calls>>

-----------------------------------------------------------------------------
(* LML_Read and LML_ReadReclaim.                                            *)

LML_Read(r) ==
    LET verdict == CASE BeyondDisk(r) -> "beyond"
                     [] ~BeyondDisk(r) /\ r.c = 0 -> "ok"
                     [] OTHER -> "busy" IN
    /\ StartCall
    /\ rd' = [n |-> r.n, c |-> r.c, i |-> 0, status |-> verdict]
    /\ rbuf' = [k \in 0 .. r.c - 1 |-> Junk]
    /\ pc' = IF verdict = "busy" THEN "read" ELSE "idle"
    /\ UNCHANGED <<nand, cache, wr, wbuf, onBehalf>>

\* The buffer after the current pass delivers the page content `page`.
Delivered(page) == [k \in DOMAIN rbuf |->
    LET s == k + AlignGap(rd) - rd.i * SPP
    IN  IF s \in BitmapAt(rd) THEN page[s] ELSE rbuf[k]]

\* Mutant: the data read is not brought up to date from the cache.
NextReadPageRaw(page) ==
    LET last == rd.i + 1 = PageCnt(rd) IN
    /\ rd' = [rd EXCEPT !.i = @ + 1, !.status = IF last THEN "ok" ELSE "busy"]
    /\ rbuf' = Delivered(page)
    /\ pc' = IF last THEN "idle" ELSE "read"

\* The end of a pass: out is what the flash delivered, brought up to date when
\* the page is the cached page (_UpdateReadPageData).
NextReadPage(page) ==
    LET last == rd.i + 1 = PageCnt(rd) IN
    /\ rd' = [rd EXCEPT !.i = @ + 1, !.status = IF last THEN "ok" ELSE "busy"]
    /\ rbuf' = Delivered(IF CachePage'.LogicPageNum = PageAt(rd) THEN CacheOver(page) ELSE page)
    /\ pc' = IF last THEN "idle" ELSE "read"

ReadPage == /\ pc = "read"
            /\ PageRead(PageAt(rd))
            /\ UNCHANGED cache
            /\ NextReadPage(flash[PageAt(rd)])
            /\ UNCHANGED <<wr, wbuf, onBehalf, flushed, calls>>

ReadFails == /\ pc = "read"
             /\ PageReadFails
             /\ rd' = [rd EXCEPT !.status = "failed"]
             /\ pc' = "idle"
             /\ UNCHANGED <<cache, wr, wbuf, rbuf, onBehalf, flushed, calls>>

\* The page was read, with as many bit errors as the ECC unit can correct.
ReadAtLimit == /\ pc = "read"
               /\ EccLimit
               /\ PageRead(PageAt(rd))
               /\ rbuf' = Delivered(flash[PageAt(rd)])
               /\ pc' = "flush"
               /\ onBehalf' = "reclaim"
               /\ UNCHANGED <<cache, wr, wbuf, rd, flushed, calls>>

\* What the pass delivered so far, page sector by page sector.
Fetched == [s \in Sects |-> IF s \in BitmapAt(rd) THEN rbuf[BufIdx(rd, s)] ELSE Junk]

\* The cache is flushed: the page is read into the cache's buffer and written to
\* a new place.  LML_Read ignores how that went.
Reclaim == /\ pc = "reclaim"
           /\ \/ /\ PageReadFails
                 /\ UNCHANGED cacheBuf
              \/ /\ cacheBuf' = flash[PageAt(rd)]
                 /\ \E done \in BOOLEAN : PageWrite(PageAt(rd), cacheBuf', done)
           /\ UNCHANGED CachePage
           /\ NextReadPage(Fetched)
           /\ UNCHANGED <<wr, wbuf, onBehalf, flushed, calls>>

-----------------------------------------------------------------------------
(* LML_FlushPageCache, LML_Exit and LML_Init.                               *)

LML_FlushPageCache == /\ StartCall
                      /\ pc' = "flush"
                      /\ onBehalf' = "flush"
                      /\ UNCHANGED <<nand, cache, wr, wbuf, reading>>

LML_Exit == /\ StartCall
            /\ pc' = "flush"
            /\ onBehalf' = "exit"
            /\ UNCHANGED <<nand, cache, wr, wbuf, reading>>

\* Mutant: the result of the flush is ignored.
FlushReturnsUnchecked(done) ==
    \/ /\ onBehalf = "flush"
       /\ pc' = "idle"
       /\ flushed' = "ok"
       /\ UNCHANGED reading
    \/ /\ onBehalf # "flush"
       /\ pc' = onBehalf
       /\ UNCHANGED <<reading, flushed>>

\* Mutant: a flush that failed is tried again.
FlushReturnsRetrying(done) ==
    /\ pc' = CASE ~done -> "flush"
               [] done /\ onBehalf = "flush" -> "idle"
               [] OTHER -> onBehalf
    /\ flushed' = IF done /\ onBehalf = "flush" THEN "ok" ELSE flushed
    /\ UNCHANGED reading

\* Control goes back to the caller of LML_FlushPageCache.  LML_Exit ignores the
\* result; a failed flush ends the reclaim.
FlushReturns(done) ==
    \/ /\ onBehalf = "flush"
       /\ pc' = "idle"
       /\ flushed' = IF done THEN "ok" ELSE "failed"
       /\ UNCHANGED reading
    \/ /\ onBehalf = "exit"
       /\ pc' = "exit"
       /\ UNCHANGED <<reading, flushed>>
    \/ /\ onBehalf = "reclaim"
       /\ UNCHANGED flushed
       /\ IF done THEN pc' = "reclaim" /\ UNCHANGED reading ELSE NextReadPage(Fetched)

FlushWrite == /\ pc = "flush"
              /\ \/ /\ WritePageCacheToNand(TRUE)
                    /\ pc' = "close"
                    /\ UNCHANGED <<reading, flushed>>
                 \/ /\ WritePageCacheToNand(FALSE)
                    /\ FlushReturns(FALSE)
              /\ UNCHANGED <<wr, wbuf, onBehalf, calls>>

FlushClose == /\ pc = "close"
              /\ UNCHANGED cache
              /\ \/ CloseWritePage /\ FlushReturns(TRUE)
                 \/ CloseFails /\ FlushReturns(FALSE)
              /\ UNCHANGED <<wr, wbuf, onBehalf, calls>>

\* The cache buffers are freed; what was not flushed is gone.
Exit == /\ pc = "exit"
        /\ pc' = "off"
        /\ CachePage' = Empty
        /\ open' = None
        /\ flight' = <<>>
        /\ wr' = [wr EXCEPT !.status = "none"]
        /\ UNCHANGED <<flash, cacheBuf, wbuf, reading, onBehalf, flushed, calls>>

LML_Init == /\ pc = "off"
            /\ pc' = "idle"
            /\ UNCHANGED <<nand, cache, wr, wbuf, reading, onBehalf, flushed, calls>>

\* Power fails.  A page under programming comes back new, old or Junk.
PowerCut == /\ pc # "off"
            /\ pc' = "off"
            /\ \E new, torn \in SUBSET DOMAIN flight :
                  flash' = [p \in Pages |-> CASE p \in torn -> JunkPage
                                              [] p \in DOMAIN flight \ (new \union torn) -> flight[p]
                                              [] OTHER -> flash[p]]
            /\ CachePage' = Empty
            /\ open' = None
            /\ flight' = <<>>
            /\ wr' = [wr EXCEPT !.status = "none"]
            /\ rd' = [rd EXCEPT !.status = "none"]
            /\ flushed' = "none"
            /\ UNCHANGED <<cacheBuf, wbuf, rbuf, onBehalf, calls>>

-----------------------------------------------------------------------------
Init == /\ flash \in InitialFlash
        /\ flight = <<>>
        /\ open = None
        /\ CachePage = Empty
        /\ cacheBuf = JunkPage
        /\ wr = [n |-> 0, c |-> 0, i |-> 0, status |-> "none"]
        /\ wbuf = <<>>
        /\ rd = [n |-> 0, c |-> 0, i |-> 0, status |-> "none"]
        /\ rbuf = <<>>
        /\ pc = "off"
        /\ onBehalf = "flush"
        /\ flushed = "none"
        /\ calls = 0

Call == \/ \E r \in Calls : LML_Read(r) \/ \E buf \in UserData(calls, r.c) : LML_Write(r, buf)
        \/ LML_FlushPageCache
        \/ LML_Exit

Step == \/ WriteHit \/ WriteEvict \/ WriteFull \/ WritePart
        \/ ReadPage \/ ReadFails \/ ReadAtLimit \/ Reclaim
        \/ FlushWrite \/ FlushClose \/ Exit

Next == Call \/ Step \/ LML_Init \/ PowerCut

\* A call, once made, is carried out: the driver has one thread, which polls.
Spec == Init /\ [][Next]_vars /\ WF_vars(Step)

-----------------------------------------------------------------------------
(* Properties.                                                              *)

\* What LML_Read is to return for page p: the cached sectors over the flash.
View(p) == IF Cached(p) THEN CacheOver(flash[p]) ELSE flash[p]

\* The type invariant: every variable of the page cache and of the two page
\* loops stays in its type.
TypeOK ==
    /\ flash \in [Pages -> Content]
    /\ DOMAIN flight \subseteq Pages /\ flight \in [DOMAIN flight -> Content]
    /\ open \in Pages \union {None}
    /\ CachePage \in [LogicPageNum : Nat \union {None}, SectorBitmap : SUBSET Sects]
    /\ cacheBuf \in Content
    /\ wr \in [n : Nat, c : Nat, i : Nat, status : {"none", "busy", "ok", "failed"}]
    /\ wbuf \in [0 .. wr.c - 1 -> Val]
    /\ rd \in [n : Nat, c : Nat, i : Nat, status : {"none", "busy", "ok", "failed", "beyond"}]
    /\ rbuf \in [0 .. rd.c - 1 -> Val \union {Junk}]
    /\ pc \in {"off", "idle", "write", "read", "flush", "close", "reclaim", "exit"}
    /\ onBehalf \in {"flush", "exit", "reclaim"}
    /\ flushed \in {"none", "ok", "failed"}
    /\ calls \in Nat

\* Where LML_Read has called LML_ReadReclaim.
Reclaiming == pc = "reclaim" \/ (pc \in {"flush", "close"} /\ onBehalf = "reclaim")

\* How the control state, the calls and the cache hang together: a call is busy
\* exactly while its loop runs and has pages left, LML_ReadReclaim works on a page
\* of the volume, and the cache is empty where its buffer is borrowed and after a
\* flush that returned 0.
Consistent ==
    /\ pc = "write" <=> wr.status = "busy"
    /\ wr.status = "busy" => wr.c # 0 /\ wr.i < PageCnt(wr)
    /\ rd.status = "busy" <=> pc = "read" \/ Reclaiming
    /\ rd.status = "busy" => rd.c # 0 /\ rd.i < PageCnt(rd)
    /\ Reclaiming => PageAt(rd) \in Pages
    /\ Cached(None) => CachePage.SectorBitmap = {}
    /\ pc \in {"reclaim", "close"} => Cached(None)
    /\ flushed # "none" => pc = "idle"
    /\ flushed = "ok" => Cached(None) /\ open = None

\* LML_Read and LML_Write move the caller's buffer pointer back to align it with
\* the page and never access it outside the sectors the caller passed.
BufferInBounds ==
    /\ pc = "write" => \A s \in BitmapAt(wr) : BufIdx(wr, s) \in 0 .. wr.c - 1
    /\ rd.status = "busy" => \A s \in BitmapAt(rd) : BufIdx(rd, s) \in 0 .. rd.c - 1

\* LML_Read that returns 0 has handed out, for every sector asked for, the
\* content written last, the write cache included ("check if need update the
\* page data with the cache page"), unless the sector was ruined meanwhile.
ReadIsLatest ==
    rd.status = "busy" /\ rd'.status = "ok" =>
        \A k \in 0 .. rd.c - 1 :
            LET now == View((rd.n + k) \div SPP)[(rd.n + k) % SPP]
            IN  now \in {rbuf'[k], Junk}
ReadsLatest == [][ReadIsLatest]_vars

\* The same of every LML_Read, as long as LML_ReadReclaim, which empties the write
\* cache before LML_Read looks into it, has not run since the last call for a flush.
ReadsLatestIfSound == [][onBehalf # "reclaim" => ReadIsLatest]_vars

\* After LML_FlushPageCache returned 0 nothing a read would see is missing from
\* the flash, and the program of the page it wrote has ended.
FlushIsDurable == flushed = "ok" => /\ \A p \in Pages : View(p) = flash[p]
                                    /\ open = None

\* LML_ReadReclaim, which reads a page into the write cache's buffer, never
\* overwrites a page that waits there for its flush.
ReclaimOwnsBuffer == pc = "reclaim" => Cached(None)

\* Every call returns, whatever fails on the way: no page is retried for ever.
CallReturns == pc \in {"write", "read", "flush", "close", "reclaim", "exit"} ~> pc \in {"idle", "off"}

\* The driver implements a disk written page by page: what a read sees, what the
\* flash holds and how far the current write has got correspond at every step.
Disk == INSTANCE SectorDisk WITH
            disk <- [p \in Pages |-> View(p)],
            media <- flash,
            call <- [n |-> wr.n, c |-> wr.c, buf |-> wbuf],
            next <- PageAt(wr),
            status <- wr.status
ImplementsDisk == Disk!Spec

=============================================================================
