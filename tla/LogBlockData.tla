---------------------------- MODULE LogBlockData ----------------------------
(***************************************************************************)
(* Proofs about LogBlock: between two calls every page of the logical block *)
(* reads as it was last written, through log writes, the three merges and  *)
(* evictions of the page map, as long as no program has failed; a rebuild  *)
(* of the tables at any step in between would read the same; and pages are *)
(* programmed in the order the flash demands, failures or not.  All three  *)
(* until the first power cut.                                              *)
(***************************************************************************)
EXTENDS LogBlockAccounts

\* No program has failed so far, and the power has not been cut.
Sound == count.cuts = 0 /\ count.fails = 0

-----------------------------------------------------------------------------
(* The inductive invariant.  It follows the contents of a logical page from *)
(* the log block through a merge to the block that takes its place.         *)

\* In a block with the pages f: those that name the logical page i, and the last of
\* them, or None; what a page map must say.
Named(f, i) == {p \in Pages : f[p].lp = i}
LastNamed(f, i, p) ==
    IF p = None THEN Named(f, i) = {} ELSE p \in Named(f, i) /\ \A q \in Named(f, i) : q <= p
MapOf(f, m) == \A i \in Pages : LastNamed(f, i, m[i])

\* Data pages are in their place, log pages in their bank.
InPlace(page, p) == page.lp \in {p, None}
InBank(page, p) == page.lp # None => page.lp \in Pages /\ page.lp % BANKS = p % BANKS

\* The value is what the log block stores of page i, or the data block if it stores nothing.
Places == Pages \union {None}
Stands(i, log, data, value) ==
    \A p \in Places : LastNamed(log, i, p) => value = IF p = None THEN data[i].val ELSE log[p].val

\* The pages of the log block, of the one that takes its place while the old one is
\* erased; an erased block without a log block.
LogPages == IF pc = "erase" THEN IF job.kind = "move" THEN flash[job.blk] ELSE ErasedBlock
            ELSE IF logBlk = None THEN ErasedBlock ELSE flash[logBlk]
WantKept == \A i \in Pages : want[i] = Any \/ Stands(i, LogPages, flash[dataBlk], want[i])

\* The pages of the log block that are programmed.
Filled(p) == lastUsed # None /\ (p < lastUsed \/ (p = lastUsed /\ pc # "program"))
LogFilled ==
    logBlk # None /\ pc \notin {"swap", "erase"} =>
        \A p \in Pages : InBank(flash[logBlk][p], p) /\ (Filled(p) \/ flash[logBlk][p] = Erased)

\* The page map, in the cache or in the page map page.
Mapped == logBlk # None /\ pc \notin {"swap", "move", "erase"}
MapCached == Mapped /\ cached => \A i \in Pages : (pc = "program" /\ i = req.lp) \/ LastNamed(flash[logBlk], i, pmap[i])
MapSaved == Mapped /\ lastUsed # None /\ pc # "program" =>
                /\ IsMapPage(flash[logBlk][lastUsed]) => MapOf(flash[logBlk], saved[logBlk])
                /\ \E i \in Pages : Named(flash[logBlk], i) # {}
MapAtHand ==
    /\ pc = "program" => cached /\ pmap[req.lp] = lastUsed /\ lastUsed % BANKS = req.lp % BANKS
    /\ pc \in {"datainfo", "loginfo", "table", "swap", "move", "simple"} => cached
    /\ pc = "merge" /\ req.special => lastUsed # None

\* What the merges have copied.
SwapHalf ==
    pc = "swap" =>
        /\ lastUsed # None /\ job.blk = logBlk /\ job.p > lastUsed
        /\ \A p \in Pages : /\ InPlace(flash[logBlk][p], p)
                            /\ p <= lastUsed => flash[logBlk][p].lp = p
                            /\ lastUsed < p /\ p < job.p => flash[logBlk][p].val = flash[dataBlk][p].val
                            /\ p >= job.p => flash[logBlk][p] = Erased
SimpleHalf ==
    pc = "simple" =>
        \A i \in Pages :
            /\ InPlace(flash[job.blk][i], i)
            /\ i < job.p => Stands(i, flash[logBlk], flash[dataBlk], flash[job.blk][i].val)
            /\ i >= job.p => flash[job.blk][i] = Erased

Moved(i) == pmap[i] # None /\ job.p # -1 /\ MoveRank(i) <= MoveRank(job.p)
Reached(q) ==
    \/ q = 0 /\ job.dst # None
    \/ job.p # -1 /\ (q % BANKS < job.p % BANKS \/ (q % BANKS = job.p % BANKS /\ q <= job.dst))
MovedPage(i) ==
    IF Moved(i) THEN /\ flash[job.blk][pmap[i]].lp = i
                     /\ \E p \in Pages : LastNamed(flash[logBlk], i, p) /\ flash[job.blk][pmap[i]].val = flash[logBlk][p].val
    ELSE LastNamed(flash[logBlk], i, pmap[i])
MovedTo(q) ==
    /\ InBank(flash[job.blk][q], q)
    /\ LET i == flash[job.blk][q].lp IN i # None => Moved(i) /\ pmap[i] = q
    /\ (Reached(q) /\ q <= job.last) \/ flash[job.blk][q] = Erased
MovedLast ==
    IF job.p = -1 THEN job.last = 0
    ELSE /\ job.dst % BANKS = job.p % BANKS /\ job.dst <= job.last /\ job.last \in Pages
         /\ flash[job.blk][job.last].lp # None
MoveHalf ==
    pc = "move" => /\ \E i \in Pages : pmap[i] # None
                   /\ \A i \in Pages : MovedPage(i)
                   /\ \A q \in Pages : MovedTo(q)
                   /\ MovedLast
MoveWhole ==
    pc = "erase" /\ job.kind = "move" =>
        /\ cached /\ MapOf(flash[job.blk], pmap)
        /\ \A q \in Pages : InBank(flash[job.blk][q], q) /\ (q <= job.last \/ flash[job.blk][q] = Erased)
        /\ job.last \in Pages /\ flash[job.blk][job.last].lp # None

DataPlaced == \A p \in Pages : InPlace(flash[dataBlk][p], p)
DataInv ==
    /\ pc \notin {"restore", "off", "scan"}
    /\ DataPlaced
    /\ LogFilled /\ MapCached /\ MapSaved /\ MapAtHand
    /\ SwapHalf /\ SimpleHalf /\ MoveHalf /\ MoveWhole
    /\ WantKept

-----------------------------------------------------------------------------
(* Lemmas about the contents of a block.                                    *)

LEMMA LastThere == ASSUME NEW f, NEW i PROVE \E p \in Places : LastNamed(f, i, p)
<1> DEFINE S == Named(f, i)
<1>1. CASE S = {}
  BY <1>1 DEF LastNamed, Places
<1>2. CASE S # {}
  <2>1. S \in SUBSET (0 .. PAGES - 1) /\ PAGES - 1 \in Nat
    BY Geometry DEF Named, Pages
  <2> HIDE DEF S
  <2>2. PICK p \in S : \A q \in S : q <= p
    BY <1>2, <2>1, Largest
  <2>3. p \in Pages /\ p # None
    BY <2>1, NotNone DEF Pages
  <2> QED BY <2>2, <2>3 DEF LastNamed, Places, S
<1> QED BY <1>1, <1>2

LEMMA LastOnly ==
    ASSUME NEW f, NEW i, NEW p \in Places, NEW q \in Places, LastNamed(f, i, p), LastNamed(f, i, q)
    PROVE  p = q
<1>1. CASE p = None \/ q = None
  BY <1>1 DEF LastNamed
<1>2. CASE p # None /\ q # None
  <2>1. p \in Nat /\ q \in Nat /\ p <= q /\ q <= p
    BY <1>2 DEF LastNamed, Places, Pages
  <2> QED BY <2>1
<1> QED BY <1>1, <1>2

\* What is the last page of i depends on the page numbers in the spare areas only.
LEMMA LastSame ==
    ASSUME NEW f, NEW g, \A q \in Pages : g[q].lp = f[q].lp, NEW i, NEW p
    PROVE  LastNamed(g, i, p) <=> LastNamed(f, i, p)
<1>1. Named(g, i) = Named(f, i)
  BY DEF Named
<1> QED BY <1>1 DEF LastNamed

\* A page t that names l is added.
LEMMA LastAdded ==
    ASSUME NEW f, NEW g, NEW t \in Pages, \A q \in Pages \ {t} : g[q].lp = f[q].lp, f[t].lp = None, NEW i \in Pages
    PROVE  /\ g[t].lp # i => \A p : LastNamed(g, i, p) <=> LastNamed(f, i, p)
           /\ g[t].lp = i /\ (\A q \in Named(f, i) : q <= t) => LastNamed(g, i, t)
<1>1. i # None /\ t # None /\ t <= t
  BY NotNone DEF Pages
<1>2. ASSUME g[t].lp # i
      PROVE  Named(g, i) = Named(f, i)
  BY <1>1, <1>2 DEF Named
<1>3. ASSUME g[t].lp = i, \A q \in Named(f, i) : q <= t
      PROVE  LastNamed(g, i, t)
  <2>1. \A q \in Named(g, i) : q = t \/ q \in Named(f, i)
    BY DEF Named
  <2> QED BY <1>1, <1>3, <2>1 DEF LastNamed, Named
<1> QED BY <1>2, <1>3 DEF LastNamed

\* A block whose pages are in their place.
LEMMA LastInPlace ==
    ASSUME NEW f, \A q \in Pages : InPlace(f[q], q), NEW i \in Pages
    PROVE  LastNamed(f, i, IF f[i].lp = i THEN i ELSE None)
<1>1. i # None /\ i <= i
  BY NotNone DEF Pages
<1>2. Named(f, i) = IF f[i].lp = i THEN {i} ELSE {}
  BY <1>1 DEF Named, InPlace
<1> QED BY <1>1, <1>2 DEF LastNamed

LEMMA StandsInPlace ==
    ASSUME NEW f, \A q \in Pages : InPlace(f[q], q), NEW i \in Pages, NEW data, NEW value
    PROVE  Stands(i, f, data, value) <=> value = IF f[i].lp = i THEN f[i].val ELSE data[i].val
<1> DEFINE p == IF f[i].lp = i THEN i ELSE None
<1>1. LastNamed(f, i, p) /\ p \in Places /\ i # None
  BY LastInPlace, NotNone DEF Places
<1> HIDE DEF p
<1>2. \A q \in Places : LastNamed(f, i, q) => q = p
  BY <1>1, LastOnly
<1>3. Stands(i, f, data, value) <=> value = IF p = None THEN data[i].val ELSE f[p].val
  BY <1>1, <1>2 DEF Stands
<1> QED BY <1>1, <1>3 DEF p

\* The same pages, with the same contents.
LEMMA StandsSame ==
    ASSUME NEW f, NEW g, \A q \in Pages : g[q].lp = f[q].lp /\ (g[q].val = f[q].val \/ f[q].lp = None),
           NEW data, NEW data2, NEW i \in Pages, data2[i].val = data[i].val, NEW value, Stands(i, f, data, value)
    PROVE  Stands(i, g, data2, value)
<1> SUFFICES ASSUME NEW p \in Places, LastNamed(g, i, p)
             PROVE  value = IF p = None THEN data2[i].val ELSE g[p].val
  BY DEF Stands
<1>1. LastNamed(f, i, p)
  BY LastSame
<1>2. p # None => p \in Pages /\ f[p].lp = i /\ i # None
  BY <1>1, NotNone DEF LastNamed, Named
<1>3. p # None => g[p].val = f[p].val
  BY <1>2
<1> QED BY <1>1, <1>3 DEF Stands

LEMMA NothingNamed ==
    ASSUME NEW f, \A q \in Pages : f[q] = Erased, NEW i \in Pages
    PROVE  Named(f, i) = {} /\ LastNamed(f, i, None)
<1>1. i # None
  BY NotNone
<1> QED BY <1>1 DEF Named, LastNamed, Erased

LEMMA ErasedKnown == \A q \in Pages : ErasedBlock[q] = Erased /\ Erased.lp = None /\ Erased.val = Junk /\ ~IsMapPage(Erased)
BY DEF ErasedBlock, Erased, IsMapPage, TableMark, FreeMark

\* An erased page takes the data.
LEMMA ErasedTakes ==
    ASSUME flash \in Blocks, NEW b \in Phys, NEW p \in Pages, NEW content, flash' = Programmed(b, p, content),
           flash[b][p] = Erased
    PROVE  /\ \A c \in Phys \ {b} : flash'[c] = flash[c]
           /\ \A q \in Pages \ {p} : flash'[b][q] = flash[b][q]
           /\ flash'[b][p] = content
<1>1. flash' = [flash EXCEPT ![b][p] = content]
  BY DEF Programmed, Blocks
<1> QED BY <1>1 DEF Blocks

-----------------------------------------------------------------------------
(* The page map that is fetched.                                            *)

LEMMA RebuiltMap ==
    ASSUME NEW f, NEW b, NEW last, b # None, last # None, ~IsMapPage(f[b][last])
    PROVE  MapOf(f[b], ReadPageMapTbl(f, b, last))
<1> DEFINE at(i) == {p \in Pages : f[b][p].lp = i}
           found(i) == IF at(i) = {} THEN None ELSE CHOOSE p \in at(i) : \A q \in at(i) : q <= p
<1>1. ReadPageMapTbl(f, b, last) = [i \in Pages |-> found(i)]
  BY DEF ReadPageMapTbl
<1> SUFFICES ASSUME NEW i \in Pages
             PROVE  LastNamed(f[b], i, found(i))
  <2> HIDE DEF found
  <2> QED BY <1>1 DEF MapOf
<1>2. Named(f[b], i) = at(i)
  BY DEF Named
<1>3. PICK p \in Places : LastNamed(f[b], i, p)
  BY LastThere
<1>4. CASE at(i) = {}
  BY <1>2, <1>4 DEF LastNamed
<1>5. CASE at(i) # {}
  <2>1. p # None /\ p \in at(i) /\ \A q \in at(i) : q <= p
    BY <1>2, <1>3, <1>5 DEF LastNamed
  <2>2. found(i) \in at(i) /\ \A q \in at(i) : q <= found(i)
    <3> DEFINE S == at(i)
    <3>1. found(i) = CHOOSE x \in S : \A q \in S : q <= x
      BY <1>5
    <3> HIDE DEF S, found
    <3> QED BY <2>1, <3>1 DEF S
  <2>3. found(i) # None
    <3>1. found(i) \in Pages
      BY <2>2
    <3> QED BY <3>1, NotNone
  <2> QED BY <1>2, <2>2, <2>3 DEF LastNamed
<1> QED BY <1>4, <1>5

\* Between the writes and the merges it names the last page of every logical page.
LEMMA MapFetched ==
    ASSUME TypeInv, DataInv, Mapped, pc # "program"
    PROVE  MapOf(flash[logBlk], ReadPageMapTbl(flash, logBlk, lastUsed))
<1>1. logBlk # None /\ logBlk \in Phys /\ lastUsed \in Pages \union {None}
  BY Typed DEF Mapped, TypeInv
<1>2. CASE lastUsed = None
  <2>1. \A q \in Pages : flash[logBlk][q] = Erased
    BY <1>1, <1>2 DEF DataInv, LogFilled, Filled, Mapped
  <2>2. ReadPageMapTbl(flash, logBlk, lastUsed) = NoMap
    BY <1>2 DEF ReadPageMapTbl
  <2> QED BY <2>1, <2>2, NothingNamed DEF MapOf, NoMap
<1>3. CASE lastUsed # None /\ IsMapPage(flash[logBlk][lastUsed])
  <2>1. ReadPageMapTbl(flash, logBlk, lastUsed) = saved[logBlk]
    BY <1>1, <1>3 DEF ReadPageMapTbl
  <2> QED BY <1>3, <2>1 DEF DataInv, MapSaved
<1>4. CASE lastUsed # None /\ ~IsMapPage(flash[logBlk][lastUsed])
  BY <1>1, <1>4, RebuiltMap
<1> QED BY <1>2, <1>3, <1>4

\* What the invariant is for.
LEMMA DataReads == ASSUME TypeInv, DataInv PROVE ReadsBack
<1> SUFFICES ASSUME pc = "idle", NEW i \in Pages, want[i] # Any
             PROVE  want[i] = CurrentRead(i)
  BY DEF ReadsBack
<1> DEFINE map == IF cached THEN pmap ELSE ReadPageMapTbl(flash, logBlk, lastUsed)
<1>1. Stands(i, LogPages, flash[dataBlk], want[i])
  BY DEF DataInv, WantKept
<1>2. CurrentRead(i) = PageRead(flash, dataBlk, logBlk, map, i)
  BY DEF CurrentRead
<1>3. CASE logBlk = None
  <2>1. LogPages = ErasedBlock
    BY <1>3 DEF LogPages
  <2>2. LastNamed(ErasedBlock, i, None) /\ None \in Places
    BY ErasedKnown, NothingNamed DEF Places
  <2>3. want[i] = flash[dataBlk][i].val
    BY <1>1, <2>1, <2>2 DEF Stands
  <2> QED BY <1>2, <1>3, <2>3 DEF PageRead
<1>4. CASE logBlk # None
  <2>1. LogPages = flash[logBlk] /\ Mapped
    BY <1>4 DEF LogPages, Mapped
  <2>2. MapOf(flash[logBlk], ReadPageMapTbl(flash, logBlk, lastUsed))
    BY <2>1, MapFetched
  <2>3. cached => LastNamed(flash[logBlk], i, pmap[i])
    BY <2>1 DEF DataInv, MapCached
  <2>4. LastNamed(flash[logBlk], i, map[i])
    BY <2>2, <2>3 DEF MapOf
  <2>5. map[i] \in Places
    <3> HIDE DEF map
    <3> QED BY <2>4 DEF LastNamed, Named, Places
  <2> HIDE DEF map
  <2>6. want[i] = IF map[i] = None THEN flash[dataBlk][i].val ELSE flash[logBlk][map[i]].val
    BY <1>1, <2>1, <2>4, <2>5 DEF Stands
  <2> QED BY <1>2, <1>4, <2>6 DEF PageRead
<1> QED BY <1>3, <1>4

LEMMA DataInit == ASSUME Init PROVE DataInv
<1>1. /\ pc = "idle" /\ logBlk = None /\ dataBlk = 0 /\ cached = FALSE /\ lastUsed = None
      /\ want = [i \in Pages |-> Any] /\ flash = [b \in Phys |-> IF b \in bad THEN MarkedBad ELSE ErasedBlock]
      /\ 0 \notin bad
  <2>1. PICK load \in Loads : bad = load.bad
    BY DEF Init
  <2>2. load.bad \subseteq 1 .. BLOCKS - 1
    BY LoadsAssumption
  <2> QED BY <2>1, <2>2 DEF Init
<1>2. flash[dataBlk] = ErasedBlock
  BY <1>1, Geometry
<1>3. DataPlaced
  BY <1>2, ErasedKnown DEF DataPlaced, InPlace
<1>4. WantKept
  BY <1>1 DEF WantKept
<1> QED BY <1>1, <1>3, <1>4 DEF DataInv, LogFilled, MapCached, MapSaved, Mapped, MapAtHand, SwapHalf, SimpleHalf, MoveHalf, MoveWhole

\* A failure counts.
LEMMA FailsCount == ASSUME TypeInv, Sound' PROVE ~Failed
<1> SUFFICES ASSUME Failed
             PROVE  FALSE
  OBVIOUS
<1>1. count.fails \in Nat /\ count'.fails = count.fails + 1
  BY DEF Failed, TypeInv, RecordsOK, Counts
<1> QED BY <1>1 DEF Sound

-----------------------------------------------------------------------------
(* Steps that leave the contents of the pages alone.                        *)

Quiet == {"idle", "getlog", "datainfo", "loginfo", "table", "merge"}

LEMMA DataQuiet ==
    ASSUME TypeInv, DataInv, pc \in Quiet, pc' \in Quiet, UNCHANGED <<dataBlk, logBlk, lastUsed, saved, want>>,
           logBlk # None => flash'[logBlk] = flash[logBlk],
           \A p \in Pages : InPlace(flash'[dataBlk][p], p) /\ flash'[dataBlk][p].val = flash[dataBlk][p].val,
           MapAtHand',
           cached' /\ logBlk # None => (cached /\ pmap' = pmap) \/ MapOf(flash[logBlk], pmap')
    PROVE  DataInv'
<1>1. /\ pc \notin {"restore", "off", "scan", "program", "swap", "move", "simple", "erase"}
      /\ pc' \notin {"restore", "off", "scan", "program", "swap", "move", "simple", "erase"}
  BY DEF Quiet
<1>2. Mapped' = Mapped /\ \A p : Filled(p)' = Filled(p)
  BY <1>1 DEF Mapped, Filled
<1>3. LogPages' = LogPages
  BY <1>1 DEF LogPages
<1>4. WantKept'
  <2> SUFFICES ASSUME NEW i \in Pages, want'[i] # Any
               PROVE  Stands(i, LogPages', flash'[dataBlk'], want'[i])
    BY DEF WantKept
  <2>1. Stands(i, LogPages, flash[dataBlk], want[i])
    BY DEF DataInv, WantKept
  <2>2. flash'[dataBlk][i].val = flash[dataBlk][i].val
    OBVIOUS
  <2>3. Stands(i, LogPages, flash'[dataBlk], want[i])
    BY <2>1, <2>2 DEF Stands
  <2> QED BY <1>3, <2>3
<1>5. LogFilled'
  BY <1>1, <1>2 DEF DataInv, LogFilled
<1>6. MapCached'
  <2> SUFFICES ASSUME Mapped', cached', NEW i \in Pages
               PROVE  LastNamed(flash'[logBlk'], i, pmap'[i])
    BY DEF MapCached
  <2>1. logBlk # None /\ flash'[logBlk'] = flash[logBlk]
    BY DEF Mapped
  <2>2. CASE cached /\ pmap' = pmap
    BY <1>1, <1>2, <2>1, <2>2 DEF DataInv, MapCached
  <2>3. CASE MapOf(flash[logBlk], pmap')
    BY <2>1, <2>3 DEF MapOf
  <2> QED BY <2>1, <2>2, <2>3
<1>7. MapSaved'
  <2>1. Mapped => logBlk # None /\ flash'[logBlk'] = flash[logBlk] /\ saved'[logBlk'] = saved[logBlk]
    BY DEF Mapped
  <2> QED BY <1>1, <1>2, <2>1 DEF DataInv, MapSaved
<1>8. DataPlaced'
  BY DEF DataPlaced
<1> QED BY <1>1, <1>4, <1>5, <1>6, <1>7, <1>8 DEF DataInv, SwapHalf, SimpleHalf, MoveHalf, MoveWhole

\* The flash does not change.
LEMMA DataStill ==
    ASSUME TypeInv, DataInv, pc \in Quiet, pc' \in Quiet, UNCHANGED <<flash, dataBlk, logBlk, lastUsed, saved, want>>,
           MapAtHand', cached' /\ logBlk # None => (cached /\ pmap' = pmap) \/ MapOf(flash[logBlk], pmap')
    PROVE  DataInv'
<1>1. \A p \in Pages : InPlace(flash'[dataBlk][p], p) /\ flash'[dataBlk][p].val = flash[dataBlk][p].val
  BY DEF DataInv, DataPlaced
<1> QED BY <1>1, DataQuiet

LEMMA DataPageWrite == ASSUME TypeInv, DataInv, NEW i \in count.load.pages, LML_PageWrite(i) PROVE DataInv'
<1>1. /\ pc = "idle" /\ pc' = "getlog"
      /\ UNCHANGED <<flash, dataBlk, logBlk, lastUsed, saved, want, cached, pmap>>
  BY DEF LML_PageWrite, tables
<1>2. MapAtHand'
  BY <1>1 DEF MapAtHand
<1> QED BY <1>1, <1>2, DataStill DEF Quiet

LEMMA DataSwitch == ASSUME TypeInv, DataInv, pc \in {"idle", "getlog", "merge"}, PMM_SwitchMapTbl PROVE DataInv'
<1>1. /\ logBlk # None /\ pmap' = ReadPageMapTbl(flash, logBlk, lastUsed) /\ cached'
      /\ UNCHANGED <<flash, dataBlk, logBlk, lastUsed, saved, want, pc, req>>
  BY DEF PMM_SwitchMapTbl
<1>2. MapOf(flash[logBlk], pmap')
  BY <1>1, MapFetched DEF Mapped
<1>3. MapAtHand'
  BY <1>1 DEF MapAtHand, DataInv
<1> QED BY <1>1, <1>2, <1>3, DataStill DEF Quiet

LEMMA DataWriteBackMapTbl == ASSUME TypeInv, DataInv, WriteBackMapTbl PROVE DataInv'
<1>1. /\ pc = "idle" /\ pc' = "idle"
      /\ UNCHANGED <<flash, dataBlk, logBlk, lastUsed, saved, want, cached, pmap>>
  BY DEF WriteBackMapTbl, Closed, tables
<1>2. MapAtHand'
  BY <1>1 DEF MapAtHand
<1> QED BY <1>1, <1>2, DataStill DEF Quiet

LEMMA DataMergeOldest == ASSUME TypeInv, DataInv, MergeOldest PROVE DataInv'
<1>1. /\ pc = "idle" /\ pc' = "merge" /\ ~req'.special
      /\ UNCHANGED <<flash, dataBlk, logBlk, lastUsed, saved, want, cached, pmap>>
  BY DEF MergeOldest, Closed, tables, NoReq
<1>2. MapAtHand'
  BY <1>1 DEF MapAtHand
<1> QED BY <1>1, <1>2, DataStill DEF Quiet

LEMMA DataEvictPageMap == ASSUME TypeInv, DataInv, EvictPageMap PROVE DataInv'
<1>1. /\ pc = "idle" /\ cached
      /\ UNCHANGED <<flash, dataBlk, logBlk, lastUsed, saved, want, pmap>>
      /\ \/ cached' = FALSE /\ pc' = pc
         \/ mapDirty /\ cached' = cached /\ pc' \in {"merge", "table"}
  BY DEF EvictPageMap, Closed
<1>2. mapDirty => lastUsed # None
  BY DEF TypeInv, PagesNamed
<1>3. MapAtHand'
  BY <1>1, <1>2 DEF MapAtHand
<1> QED BY <1>1, <1>3, DataStill DEF Quiet

LEMMA DataCloseWritePage == ASSUME TypeInv, DataInv, CloseWritePage, Sound' PROVE DataInv'
<1>1. /\ pc = "idle" /\ UNCHANGED <<dataBlk, logBlk, lastUsed, saved, pmap, cached, req>>
      /\ Failed \/ UNCHANGED <<flash, want, pc>>
  BY DEF CloseWritePage
<1>2. ~Failed
  BY FailsCount
<1>3. MapAtHand'
  BY <1>1, <1>2 DEF MapAtHand
<1> QED BY <1>1, <1>2, <1>3, DataStill DEF Quiet

-----------------------------------------------------------------------------
(* The write of a page.                                                     *)

\* A new log block is an erased one.
LEMMA DataCreateNewLogBlk == ASSUME TypeInv, UseInv, DataInv, CreateNewLogBlk PROVE DataInv'
<1>1. PICK b \in free : logBlk' = b
  BY DEF CreateNewLogBlk
<1>2. /\ pc = "getlog" /\ pc' = "datainfo" /\ logBlk = None /\ lastUsed' = None /\ pmap' = NoMap /\ cached'
      /\ UNCHANGED <<flash, dataBlk, saved, want, req>>
  BY DEF CreateNewLogBlk
<1>3. b \in Phys /\ b # None /\ flash[b] = ErasedBlock
  BY <1>1, <1>2, Typed, NotNone DEF TypeInv, UseInv, Stored, FreeErased, Known
<1>4. LogPages' = LogPages
  BY <1>1, <1>2, <1>3 DEF LogPages
<1>5. WantKept'
  BY <1>2, <1>4 DEF WantKept, DataInv
<1>6. LogFilled'
  BY <1>1, <1>2, <1>3, ErasedKnown DEF LogFilled, InBank
<1>7. MapCached'
  BY <1>1, <1>2, <1>3, ErasedKnown, NothingNamed DEF MapCached, NoMap
<1>8. MapSaved' /\ MapAtHand' /\ DataPlaced'
  BY <1>2 DEF MapSaved, MapAtHand, DataPlaced, DataInv
<1> QED BY <1>2, <1>5, <1>6, <1>7, <1>8 DEF DataInv, SwapHalf, SimpleHalf, MoveHalf, MoveWhole

LEMMA DataWriteDataInfo == ASSUME TypeInv, AccInv, UseInv, DataInv, WriteDataInfo, Sound' PROVE DataInv'
<1> DEFINE content == [info |-> TRUE, status |-> FreeMark, lp |-> None, val |-> Junk]
<1>1. /\ pc = "datainfo" /\ pc' = "getlog" /\ cached
      /\ UNCHANGED <<dataBlk, logBlk, lastUsed, saved, want, cached, pmap, req>>
      /\ \/ flash' = flash
         \/ ~flash[dataBlk][0].info /\ flash' = Programmed(dataBlk, 0, content)
  BY FailsCount DEF WriteDataInfo, Program, DataInv, MapAtHand
<1>2. /\ dataBlk \in Phys /\ dataBlk \notin bad /\ (logBlk # None => logBlk \in Phys /\ logBlk # dataBlk) /\ flash \in Blocks
  BY <1>1, TwoBlocks, Typed DEF TypeInv
<1>3. MapAtHand'
  BY <1>1 DEF MapAtHand
<1>4. CASE flash' = flash
  BY <1>1, <1>3, <1>4, DataStill DEF Quiet
<1>5. CASE ~flash[dataBlk][0].info /\ flash' = Programmed(dataBlk, 0, content)
  <2>1. flash[dataBlk] = ErasedBlock
    BY <1>2, <1>5 DEF UseInv, Stored, Blank
  <2>2. 0 \in Pages /\ flash[dataBlk][0] = Erased /\ content.lp = None /\ content.val = Junk
    BY <2>1, ErasedKnown, Geometry
  <2> HIDE DEF content
  <2>3. /\ \A c \in Phys \ {dataBlk} : flash'[c] = flash[c]
        /\ \A q \in Pages \ {0} : flash'[dataBlk][q] = flash[dataBlk][q]
        /\ flash'[dataBlk][0] = content
    BY <1>2, <1>5, <2>2, ErasedTakes
  <2>4. \A p \in Pages : InPlace(flash'[dataBlk][p], p) /\ flash'[dataBlk][p].val = flash[dataBlk][p].val
    BY <2>1, <2>2, <2>3, ErasedKnown DEF InPlace
  <2> QED BY <1>1, <1>2, <1>3, <2>3, <2>4, DataQuiet DEF Quiet
<1> QED BY <1>1, <1>4, <1>5

LEMMA Quotient ==
    ASSUME NEW n \in Nat
    PROVE  \E k \in Nat : n = BANKS * k + (n % BANKS)
<1> DEFINE d == n \div BANKS
           r == n % BANKS
<1>1. BANKS \in Nat /\ BANKS > 0
  BY Geometry
<1>2. d \in Nat /\ n = BANKS * d + r
  BY <1>1
<1> QED BY <1>2

\* The log page is in the bank of the logical page, behind those in use.
LEMMA NextLogPageBehind ==
    ASSUME NEW last \in Pages \union {None}, NEW i \in Pages
    PROVE  /\ NextLogPage(last, i) % BANKS = i % BANKS
           /\ last # None => NextLogPage(last, i) > last
<1> DEFINE a == i % BANKS
           c == last % BANKS
           t == NextLogPage(last, i)
<1>1. a \in 0 .. BANKS - 1 /\ BANKS \in Nat /\ BANKS > 0
  BY Remainder, Geometry DEF Pages
<1>2. CASE last = None
  <2>1. t = a
    BY <1>2 DEF NextLogPage
  <2>2. \A x \in 0 .. BANKS - 1 : x % BANKS = x
    BY <1>1
  <2> QED BY <1>1, <1>2, <2>1, <2>2
<1>3. CASE last # None
  <2>1. last \in Nat /\ c \in 0 .. BANKS - 1
    BY <1>3, Remainder DEF Pages
  <2>2. t = IF a > c THEN last + (a - c) ELSE last + a + (BANKS - c)
    BY <1>3 DEF NextLogPage
  <2>3. PICK k \in Nat : last = BANKS * k + c
    BY <2>1, Quotient
  <2> HIDE DEF a, c, t
  <2>4. t > last
    BY <1>1, <2>1, <2>2
  <2>5. t = BANKS * k + a \/ t = BANKS * (k + 1) + a
    <3>1. BANKS * (k + 1) = BANKS * k + BANKS /\ BANKS * k \in Nat
      BY <1>1
    <3> QED BY <1>1, <2>1, <2>2, <2>3, <3>1
  <2>6. t % BANKS = a
    <3>1. \A n \in Nat, x \in 0 .. BANKS - 1 : (BANKS * n + x) % BANKS = x
      BY <1>1
    <3> QED BY <1>1, <2>5, <3>1
  <2> QED BY <2>4, <2>6 DEF a, t
<1> QED BY <1>2, <1>3

\* The page map names a log page that is not programmed yet.
LEMMA DataTakeLogPage ==
    ASSUME TypeInv, TypeInv', DataInv, pc \in {"getlog", "loginfo"}, logBlk # None, cached, TakeLogPage,
           UNCHANGED <<dataBlk, logBlk, saved, want, cached, req>>, flash'[dataBlk] = flash[dataBlk],
           \A q \in Pages : \/ flash'[logBlk][q] = flash[logBlk][q]
                            \/ q = 0 /\ lastUsed = None /\ lastUsed' # 0 /\ flash'[logBlk][0].lp = None
    PROVE  DataInv'
<1> DEFINE t == NextLogPage(lastUsed, req.lp)
<1>1. lastUsed' = t /\ pmap' = [pmap EXCEPT ![req.lp] = t] /\ pc' = "program" /\ pmap \in Maps /\ pmap' \in Maps
  BY Typed, TypedNext DEF TakeLogPage, TypeInv
<1>2. /\ lastUsed \in Pages \union {None} /\ req.lp \in Pages /\ lastUsed' \in Pages /\ lastUsed' # None
  <2>1. lastUsed \in Pages \union {None} /\ req.lp \in Pages
    BY Typed DEF TypeInv, RecordsOK, Requests, PagesNamed, Mode
  <2>2. t \in Nat
    BY <2>1, NextLogPageRange
  <2>3. t # None
    BY <2>2, NotNone
  <2> QED BY <1>1, <2>1, <2>3, TypedNext DEF TypeInv
<1>3. t % BANKS = req.lp % BANKS /\ (lastUsed # None => t > lastUsed)
  BY <1>2, NextLogPageBehind
<1> HIDE DEF t
<1>4. \A q \in Pages : InBank(flash[logBlk][q], q) /\ (Filled(q) \/ flash[logBlk][q] = Erased)
  BY DEF DataInv, LogFilled
<1>5. \A q \in Pages : Filled(q) => Filled(q)'
  <2>1. \A q \in Pages : q \in Nat
    BY DEF Pages
  <2> QED BY <1>1, <1>2, <1>3, <2>1 DEF Filled, Pages
<1>6. 0 \in Pages /\ (lastUsed' # 0 => Filled(0)')
  <2>1. 0 \in Pages
    BY Geometry
  <2>2. lastUsed' # 0 => 0 < lastUsed'
    BY <1>2 DEF Pages
  <2> QED BY <1>2, <2>1, <2>2 DEF Filled
<1>7. \A q \in Pages : /\ flash'[logBlk][q].lp = flash[logBlk][q].lp
                       /\ flash'[logBlk][q].val = flash[logBlk][q].val \/ flash[logBlk][q].lp = None
  <2>1. lastUsed = None => flash[logBlk][0] = Erased
    BY <1>4, <1>6 DEF Filled
  <2> QED BY <2>1, ErasedKnown
<1>8. LogFilled'
  <2> SUFFICES ASSUME NEW q \in Pages
               PROVE  InBank(flash'[logBlk][q], q) /\ (Filled(q)' \/ flash'[logBlk][q] = Erased)
    BY DEF LogFilled
  <2>1. CASE flash'[logBlk][q] = flash[logBlk][q]
    BY <1>4, <1>5, <2>1
  <2>2. CASE flash'[logBlk][q] # flash[logBlk][q]
    <3>1. q = 0 /\ lastUsed' # 0 /\ flash'[logBlk][q].lp = None
      BY <2>2
    <3> QED BY <1>6, <3>1 DEF InBank
  <2> QED BY <2>1, <2>2
<1>9. MapCached'
  <2> SUFFICES ASSUME NEW i \in Pages, i # req.lp
               PROVE  LastNamed(flash'[logBlk], i, pmap'[i])
    BY <1>1 DEF MapCached
  <2>1. pmap'[i] = pmap[i]
    BY <1>1 DEF Maps
  <2>2. LastNamed(flash[logBlk], i, pmap[i])
    BY DEF DataInv, MapCached, Mapped
  <2> QED BY <1>7, <2>1, <2>2, LastSame
<1>10. LogPages' = flash'[logBlk] /\ LogPages = flash[logBlk]
  BY <1>1 DEF LogPages
<1>11. WantKept'
  <2> SUFFICES ASSUME NEW i \in Pages, want[i] # Any
               PROVE  Stands(i, flash'[logBlk], flash'[dataBlk], want[i])
    BY <1>10 DEF WantKept
  <2>1. Stands(i, flash[logBlk], flash[dataBlk], want[i])
    BY <1>10 DEF DataInv, WantKept
  <2> QED BY <1>7, <2>1, StandsSame
<1>12. MapAtHand'
  <2>1. pmap'[req.lp] = t
    BY <1>1, <1>2 DEF Maps
  <2> QED BY <1>1, <1>3, <2>1 DEF MapAtHand
<1>13. DataPlaced' /\ MapSaved'
  BY <1>1 DEF DataPlaced, MapSaved, DataInv
<1> QED BY <1>1, <1>8, <1>9, <1>11, <1>12, <1>13 DEF DataInv, SwapHalf, SimpleHalf, MoveHalf, MoveWhole

LEMMA DataGetLogPage == ASSUME TypeInv, TypeInv', AccInv', DataInv, GetLogPage PROVE DataInv'
<1> DEFINE t == NextLogPage(lastUsed, req.lp)
<1>1. /\ pc = "getlog" /\ logBlk # None /\ cached /\ UNCHANGED <<flash, saved, dataBlk, logBlk, want, cached>>
      /\ \/ TakeLogPage /\ UNCHANGED req
         \/ pc' = "loginfo" /\ UNCHANGED <<lastUsed, pmap, req>>
         \/ ~(t < PAGES) /\ pc' = "merge" /\ UNCHANGED <<lastUsed, pmap>>
  <2>1. pc' # "fail"
    BY DEF AccInv
  <2> HIDE DEF t
  <2> QED BY <2>1, Zenon DEF GetLogPage, HasRoom, t
<1>2. CASE TakeLogPage /\ UNCHANGED req
  BY <1>1, <1>2, DataTakeLogPage
<1>3. CASE pc' = "loginfo" /\ UNCHANGED <<lastUsed, pmap, req>>
  <2>1. MapAtHand'
    BY <1>1, <1>3 DEF MapAtHand
  <2> QED BY <1>1, <1>3, <2>1, DataStill DEF Quiet
<1>4. CASE ~(t < PAGES) /\ pc' = "merge" /\ UNCHANGED <<lastUsed, pmap>>
  <2>1. lastUsed # None
    <3>1. lastUsed \in Pages \union {None} /\ req.lp \in Pages
      BY <1>1, Typed DEF TypeInv, RecordsOK, Requests, PagesNamed, Mode
    <3>2. t \in Nat /\ (lastUsed = None => t < BANKS)
      BY <3>1, NextLogPageRange
    <3> HIDE DEF t
    <3> QED BY <1>4, <3>2, Geometry
  <2>2. MapAtHand'
    BY <1>1, <1>4, <2>1 DEF MapAtHand
  <2> QED BY <1>1, <1>4, <2>2, DataStill DEF Quiet
<1> QED BY <1>1, <1>2, <1>3, <1>4

LEMMA DataWriteLogInfo == ASSUME TypeInv, TypeInv', AccInv, UseInv, DataInv, WriteLogInfo, Sound' PROVE DataInv'
<1> DEFINE content == [info |-> TRUE, status |-> LogAge, lp |-> None, val |-> Junk]
<1>1. /\ pc = "loginfo" /\ UNCHANGED <<saved, dataBlk, logBlk, want, cached, req>>
      /\ flash' = Programmed(logBlk, 0, content) /\ TakeLogPage /\ content.lp = None
  BY FailsCount DEF WriteLogInfo, Program
<1>2. /\ logBlk \in Phys /\ logBlk # dataBlk /\ dataBlk \in Phys /\ flash \in Blocks /\ logBlk # None
  BY <1>1, LogBlockThere, NotNone
<1>3. lastUsed = None /\ lastUsed' # 0 /\ flash[logBlk] = ErasedBlock /\ cached
  BY <1>1, <1>2, LogBlockThere DEF UseInv, LogInfo, FreshLog, TakeLogPage, DataInv, MapAtHand, Mode
<1> HIDE DEF content
<1>4. 0 \in Pages /\ flash[logBlk][0] = Erased
  BY <1>3, ErasedKnown, Geometry
<1>5. /\ \A c \in Phys \ {logBlk} : flash'[c] = flash[c]
      /\ \A q \in Pages \ {0} : flash'[logBlk][q] = flash[logBlk][q]
      /\ flash'[logBlk][0] = content
  BY <1>1, <1>2, <1>4, ErasedTakes
<1>6. \A q \in Pages : \/ flash'[logBlk][q] = flash[logBlk][q]
                       \/ q = 0 /\ lastUsed = None /\ lastUsed' # 0 /\ flash'[logBlk][0].lp = None
  BY <1>1, <1>3, <1>5
<1> QED BY <1>1, <1>2, <1>3, <1>5, <1>6, DataTakeLogPage

\* The page is the last one of the log block.
LEMMA DataProgramPage == ASSUME TypeInv, AccInv, UseInv, DataInv, ProgramPage PROVE DataInv'
<1> DEFINE content == [info |-> TRUE, status |-> IF lastUsed = 0 THEN LogAge ELSE DataMark,
                       lp |-> req.lp, val |-> req.val]
<1>1. /\ pc = "program" /\ pc' = "idle" /\ UNCHANGED <<saved, dataBlk, logBlk, lastUsed, pmap, cached, req>>
      /\ flash' = Programmed(logBlk, lastUsed, content) /\ want' = [want EXCEPT ![req.lp] = req.val]
      /\ content.lp = req.lp /\ content.val = req.val
  BY DEF ProgramPage, tables
<1>2. /\ logBlk \in Phys /\ logBlk # None /\ logBlk # dataBlk /\ dataBlk \in Phys /\ flash \in Blocks
  BY <1>1, LogBlockThere, NotNone
<1>3. /\ lastUsed \in Pages /\ req.lp \in Pages /\ lastUsed # None /\ req.lp # None /\ want \in Wants
  BY <1>1, Typed, NotNone DEF TypeInv, RecordsOK, Requests, PagesNamed, Mode
<1>4. \A q \in Pages : InBank(flash[logBlk][q], q) /\ (Filled(q) \/ flash[logBlk][q] = Erased)
  BY <1>1, <1>2 DEF DataInv, LogFilled
<1> HIDE DEF content
<1>5. \A q \in Pages : Filled(q) => q < lastUsed
  BY <1>1 DEF Filled
<1>6. flash[logBlk][lastUsed] = Erased
  <2>1. ~(lastUsed < lastUsed)
    BY <1>3 DEF Pages
  <2> QED BY <1>3, <1>4, <1>5, <2>1
<1>7. /\ \A c \in Phys \ {logBlk} : flash'[c] = flash[c]
      /\ \A q \in Pages \ {lastUsed} : flash'[logBlk][q] = flash[logBlk][q]
      /\ flash'[logBlk][lastUsed] = content
  BY <1>1, <1>2, <1>3, <1>6, ErasedTakes
<1>8. flash'[dataBlk] = flash[dataBlk]
  BY <1>2, <1>7
<1>9. \A i \in Pages : \A q \in Named(flash[logBlk], i) : q <= lastUsed
  <2> SUFFICES ASSUME NEW i \in Pages, NEW q \in Named(flash[logBlk], i)
               PROVE  q <= lastUsed
    OBVIOUS
  <2>1. q \in Pages /\ flash[logBlk][q] # Erased
    BY ErasedKnown, NotNone DEF Named
  <2>2. q < lastUsed
    BY <1>4, <1>5, <2>1
  <2> QED BY <1>3, <2>1, <2>2 DEF Pages
<1>10. \A i \in Pages : /\ i # req.lp => \A p : LastNamed(flash'[logBlk], i, p) <=> LastNamed(flash[logBlk], i, p)
                        /\ i = req.lp => LastNamed(flash'[logBlk], i, lastUsed)
  <2> SUFFICES ASSUME NEW i \in Pages
               PROVE  /\ i # req.lp => \A p : LastNamed(flash'[logBlk], i, p) <=> LastNamed(flash[logBlk], i, p)
                      /\ i = req.lp => LastNamed(flash'[logBlk], i, lastUsed)
    OBVIOUS
  <2>1. /\ \A q \in Pages \ {lastUsed} : flash'[logBlk][q].lp = flash[logBlk][q].lp
        /\ flash[logBlk][lastUsed].lp = None /\ flash'[logBlk][lastUsed].lp = req.lp
    BY <1>1, <1>6, <1>7, ErasedKnown
  <2>2. /\ flash'[logBlk][lastUsed].lp # i => \A p : LastNamed(flash'[logBlk], i, p) <=> LastNamed(flash[logBlk], i, p)
        /\ flash'[logBlk][lastUsed].lp = i /\ (\A q \in Named(flash[logBlk], i) : q <= lastUsed)
              => LastNamed(flash'[logBlk], i, lastUsed)
    BY <1>3, <2>1, LastAdded
  <2> QED BY <1>9, <2>1, <2>2
<1>11. LogFilled'
  <2> SUFFICES ASSUME NEW q \in Pages
               PROVE  InBank(flash'[logBlk][q], q) /\ (Filled(q)' \/ flash'[logBlk][q] = Erased)
    BY <1>1 DEF LogFilled
  <2>1. CASE q = lastUsed
    <3>1. lastUsed % BANKS = req.lp % BANKS
      BY <1>1 DEF DataInv, MapAtHand
    <3> QED BY <1>1, <1>3, <1>7, <2>1, <3>1 DEF InBank, Filled
  <2>2. CASE q # lastUsed
    <3>1. Filled(q) => Filled(q)'
      BY <1>1, <1>3 DEF Filled
    <3> QED BY <1>4, <1>7, <2>2, <3>1
  <2> QED BY <2>1, <2>2
<1>12. MapCached'
  <2> SUFFICES ASSUME NEW i \in Pages, cached
               PROVE  LastNamed(flash'[logBlk], i, pmap[i])
    BY <1>1 DEF MapCached
  <2>1. CASE i = req.lp
    BY <1>1, <1>10, <2>1 DEF DataInv, MapAtHand
  <2>2. CASE i # req.lp
    <3>1. LastNamed(flash[logBlk], i, pmap[i])
      BY <1>1, <1>2, <2>2 DEF DataInv, MapCached, Mapped
    <3> QED BY <1>10, <2>2, <3>1
  <2> QED BY <2>1, <2>2
<1>13. MapSaved'
  <2>1. ~IsMapPage(flash'[logBlk][lastUsed])
    BY <1>1, <1>3, <1>7 DEF IsMapPage
  <2>2. lastUsed \in Named(flash'[logBlk], req.lp)
    BY <1>1, <1>3, <1>7 DEF Named
  <2> QED BY <1>1, <1>3, <2>1, <2>2 DEF MapSaved
<1>14. WantKept'
  <2>1. LogPages' = flash'[logBlk] /\ LogPages = flash[logBlk]
    BY <1>1, <1>2 DEF LogPages
  <2> SUFFICES ASSUME NEW i \in Pages, want'[i] # Any, NEW p \in Places, LastNamed(flash'[logBlk], i, p)
               PROVE  want'[i] = IF p = None THEN flash[dataBlk][i].val ELSE flash'[logBlk][p].val
    BY <1>1, <1>8, <2>1 DEF WantKept, Stands
  <2>2. CASE i = req.lp
    <3>1. LastNamed(flash'[logBlk], i, lastUsed) /\ lastUsed \in Places
      BY <1>3, <1>10, <2>2 DEF Places
    <3>2. p = lastUsed
      BY <3>1, LastOnly
    <3>3. want'[i] = req.val
      BY <1>1, <1>3, <2>2 DEF Wants
    <3> QED BY <1>1, <1>3, <1>7, <3>2, <3>3
  <2>3. CASE i # req.lp
    <3>1. LastNamed(flash[logBlk], i, p) /\ want'[i] = want[i]
      BY <1>1, <1>3, <1>10, <2>3 DEF Wants
    <3>2. want[i] = IF p = None THEN flash[dataBlk][i].val ELSE flash[logBlk][p].val
      BY <2>1, <3>1 DEF DataInv, WantKept, Stands
    <3>3. p # None => p \in Pages /\ p # lastUsed
      <4> HAVE p # None
      <4>1. p \in Pages /\ flash[logBlk][p].lp = i
        BY <3>1 DEF LastNamed, Named
      <4> QED BY <1>6, <4>1, ErasedKnown, NotNone
    <3> QED BY <1>7, <3>1, <3>2, <3>3
  <2> QED BY <2>2, <2>3
<1>15. DataPlaced' /\ MapAtHand'
  BY <1>1, <1>8 DEF DataInv, DataPlaced, MapAtHand
<1> QED BY <1>1, <1>11, <1>12, <1>13, <1>14, <1>15 DEF DataInv, SwapHalf, SimpleHalf, MoveHalf, MoveWhole

\* The page map page is the last one of the log block.
LEMMA DataWritePageMapTbl == ASSUME TypeInv, AccInv, UseInv, DataInv, WritePageMapTbl, Sound' PROVE DataInv'
<1> DEFINE content == [info |-> FALSE, status |-> TableMark, lp |-> None, val |-> Junk]
           t == lastUsed + 1
<1>1. /\ pc = "table" /\ pc' = "idle" /\ UNCHANGED <<dataBlk, logBlk, pmap, want, req>> /\ cached' = FALSE
      /\ flash' = Programmed(logBlk, t, content) /\ lastUsed' = t /\ saved' = [saved EXCEPT ![logBlk] = pmap]
      /\ content.lp = None
  BY FailsCount DEF WritePageMapTbl, Program
<1>2. /\ logBlk \in Phys /\ logBlk # None /\ logBlk # dataBlk /\ dataBlk \in Phys /\ flash \in Blocks
      /\ pmap \in Maps /\ saved \in [Phys -> Maps]
  BY <1>1, LogBlockThere, NotNone, Typed DEF TypeInv
<1>3. /\ lastUsed \in Pages /\ lastUsed # None /\ t \in Pages /\ t # None /\ lastUsed < t
  <2>1. lastUsed \in Pages /\ lastUsed # None /\ lastUsed + 1 < PAGES
    BY <1>1, Typed DEF TypeInv, PagesNamed, Mode
  <2>2. t \in Pages /\ lastUsed < t
    BY <2>1, Geometry DEF Pages
  <2> HIDE DEF t
  <2> QED BY <2>1, <2>2, NotNone
<1> HIDE DEF content, t
<1>4. \A q \in Pages : InBank(flash[logBlk][q], q) /\ (Filled(q) \/ flash[logBlk][q] = Erased)
  BY <1>1, <1>2 DEF DataInv, LogFilled
<1>5. \A q \in Pages : Filled(q) => q <= lastUsed
  <2>1. \A q \in Pages : q < lastUsed \/ q = lastUsed => q <= lastUsed
    BY <1>3 DEF Pages
  <2> QED BY <2>1 DEF Filled
<1>6. flash[logBlk][t] = Erased
  <2>1. ~(t <= lastUsed)
    BY <1>3 DEF Pages
  <2> QED BY <1>3, <1>4, <1>5, <2>1
<1>7. /\ \A c \in Phys \ {logBlk} : flash'[c] = flash[c]
      /\ \A q \in Pages \ {t} : flash'[logBlk][q] = flash[logBlk][q]
      /\ flash'[logBlk][t] = content
  BY <1>1, <1>2, <1>3, <1>6, ErasedTakes
<1>8. flash'[dataBlk] = flash[dataBlk]
  BY <1>2, <1>7
<1>9. \A q \in Pages : /\ flash'[logBlk][q].lp = flash[logBlk][q].lp
                       /\ flash'[logBlk][q].val = flash[logBlk][q].val \/ flash[logBlk][q].lp = None
  BY <1>1, <1>6, <1>7, ErasedKnown
<1>10. LogFilled'
  <2> SUFFICES ASSUME NEW q \in Pages
               PROVE  InBank(flash'[logBlk][q], q) /\ (Filled(q)' \/ flash'[logBlk][q] = Erased)
    BY <1>1 DEF LogFilled
  <2>1. CASE q = t
    BY <1>1, <1>3, <1>7, <2>1 DEF InBank, Filled
  <2>2. CASE q # t
    <3>1. Filled(q) => Filled(q)'
      <4>1. q <= lastUsed => q < t
        BY <1>3 DEF Pages
      <4> QED BY <1>1, <1>3, <1>5, <4>1 DEF Filled
    <3> QED BY <1>4, <1>7, <2>2, <3>1
  <2> QED BY <2>1, <2>2
<1>11. MapSaved'
  <2>1. \A i \in Pages : LastNamed(flash'[logBlk], i, pmap[i])
    <3> SUFFICES ASSUME NEW i \in Pages
                 PROVE  LastNamed(flash'[logBlk], i, pmap[i])
      OBVIOUS
    <3>1. LastNamed(flash[logBlk], i, pmap[i])
      BY <1>1, <1>2 DEF DataInv, MapAtHand, MapCached, Mapped
    <3> QED BY <1>9, <3>1, LastSame
  <2>2. saved'[logBlk] = pmap
    BY <1>1, <1>2
  <2>3. PICK i \in Pages : Named(flash[logBlk], i) # {}
    BY <1>1, <1>2, <1>3 DEF DataInv, MapSaved, Mapped
  <2>4. Named(flash'[logBlk], i) = Named(flash[logBlk], i)
    BY <1>9 DEF Named
  <2> QED BY <1>1, <2>1, <2>2, <2>3, <2>4 DEF MapSaved, MapOf
<1>12. WantKept'
  <2>1. LogPages' = flash'[logBlk] /\ LogPages = flash[logBlk]
    BY <1>1, <1>2 DEF LogPages
  <2> SUFFICES ASSUME NEW i \in Pages, want[i] # Any
               PROVE  Stands(i, flash'[logBlk], flash'[dataBlk], want[i])
    BY <1>1, <2>1 DEF WantKept
  <2>2. Stands(i, flash[logBlk], flash[dataBlk], want[i])
    BY <2>1 DEF DataInv, WantKept
  <2> QED BY <1>8, <1>9, <2>2, StandsSame
<1>13. DataPlaced' /\ MapAtHand' /\ MapCached'
  BY <1>1, <1>8 DEF DataInv, DataPlaced, MapAtHand, MapCached
<1> QED BY <1>1, <1>10, <1>11, <1>12, <1>13 DEF DataInv, SwapHalf, SimpleHalf, MoveHalf, MoveWhole

-----------------------------------------------------------------------------
(* The merge begins.                                                        *)

\* A log block in order: its pages are the first ones of the logical block.
LEMMA InOrderPages ==
    ASSUME TypeInv, DataInv, pc = "merge", logBlk # None, cached, InOrder
    PROVE  /\ lastUsed \in Pages
           /\ \A p \in Pages : IF p <= lastUsed THEN flash[logBlk][p].lp = p ELSE flash[logBlk][p] = Erased
<1>1. /\ lastUsed \in Pages /\ lastUsed \in Nat /\ Cardinality(ValidPages) >= lastUsed + 1
      /\ \A p \in ValidPages : pmap[p] = p /\ p \in Pages
  BY Typed DEF TypeInv, InOrder, ValidPages, Pages
<1>2. \A p \in Pages : p <= lastUsed \/ flash[logBlk][p] = Erased
  <2>1. \A p \in Pages : p < lastUsed \/ p = lastUsed => p <= lastUsed
    BY <1>1 DEF Pages
  <2> QED BY <2>1 DEF DataInv, LogFilled, Filled
<1>3. \A p \in ValidPages : flash[logBlk][p].lp = p /\ p # None
  <2> SUFFICES ASSUME NEW p \in ValidPages
               PROVE  flash[logBlk][p].lp = p /\ p # None
    OBVIOUS
  <2>1. LastNamed(flash[logBlk], p, pmap[p])
    BY <1>1 DEF DataInv, MapCached, Mapped
  <2> QED BY <1>1, <2>1, NotNone DEF LastNamed, Named
<1> DEFINE T == 0 .. lastUsed
<1>4. ValidPages \subseteq T
  <2> SUFFICES ASSUME NEW p \in ValidPages
               PROVE  p \in 0 .. lastUsed
    OBVIOUS
  <2>1. p \in Pages /\ p <= lastUsed
    <3>1. p \in Pages /\ flash[logBlk][p].lp = p /\ p # None
      BY <1>1, <1>3
    <3>2. flash[logBlk][p] # Erased
      BY <3>1 DEF Erased
    <3> QED BY <1>2, <3>1, <3>2
  <2> QED BY <1>1, <2>1 DEF Pages
<1>5. IsFiniteSet(T) /\ Cardinality(T) = lastUsed + 1
  <2>1. 0 <= lastUsed /\ lastUsed - 0 + 1 = lastUsed + 1
    BY <1>1
  <2> QED BY <1>1, <2>1, FS_Interval
<1> HIDE DEF T
<1>6. ValidPages = T
  <2>1. /\ Cardinality(ValidPages) \in Nat /\ Cardinality(ValidPages) <= Cardinality(T)
        /\ Cardinality(ValidPages) = Cardinality(T) => ValidPages = T
    BY <1>4, <1>5, ValidCount, FS_Subset
  <2> QED BY <1>1, <1>5, <2>1
<1>7. \A p \in Pages : p <= lastUsed => p \in T
  BY <1>1 DEF T, Pages
<1> QED BY <1>1, <1>2, <1>3, <1>6, <1>7

LEMMA DataMergeLogBlk == ASSUME TypeInv, AccInv', UseInv, DataInv, LML_MergeLogBlk PROVE DataInv'
<1>1. /\ pc = "merge" /\ cached
      /\ UNCHANGED <<flash, saved, dataBlk, logBlk, lastUsed, pmap, cached, req, want>>
  BY Zenon DEF LML_MergeLogBlk
<1>2. /\ logBlk \in Phys /\ logBlk # None /\ lastUsed \in Pages \union {None} /\ free \subseteq Phys /\ pmap \in Maps
  BY <1>1, Typed DEF Mode, TypeInv, BlocksNamed
<1>3. ASSUME pc' \in Merges
      PROVE  WantKept' /\ DataPlaced' /\ MapAtHand'
  <2>1. LogPages' = LogPages
    BY <1>1, <1>3 DEF LogPages, Merges
  <2> QED BY <1>1, <1>3, <2>1 DEF DataInv, WantKept, DataPlaced, MapAtHand, Merges
<1>4. CASE InOrder /\ job' = Started("swap", lastUsed + 1, logBlk) /\ pc' = "swap"
  <2>1. /\ lastUsed \in Pages
        /\ \A p \in Pages : IF p <= lastUsed THEN flash[logBlk][p].lp = p ELSE flash[logBlk][p] = Erased
    BY <1>1, <1>2, <1>4, InOrderPages
  <2>2. job'.p = lastUsed + 1 /\ job'.blk = logBlk /\ lastUsed \in Nat
    BY <1>2, <1>4, <2>1, StartedOK DEF Merges, Pages
  <2>3. lastUsed # None /\ job'.p > lastUsed
    BY <2>1, <2>2, NotNone
  <2>4. ASSUME NEW p \in Pages
        PROVE  /\ InPlace(flash[logBlk][p], p)
               /\ p <= lastUsed => flash[logBlk][p].lp = p
               /\ ~(lastUsed < p /\ p < job'.p)
               /\ p >= job'.p => flash[logBlk][p] = Erased
    <3>1. p \in Nat
      BY DEF Pages
    <3> QED BY <2>1, <2>2, <3>1, ErasedKnown DEF InPlace
  <2>5. SwapHalf'
    BY <1>1, <2>2, <2>3, <2>4 DEF SwapHalf
  <2> QED BY <1>3, <1>4, <2>5
          DEF DataInv, LogFilled, MapCached, MapSaved, Mapped, SimpleHalf, MoveHalf, MoveWhole, Merges
<1>5. ASSUME NEW b \in free, pc' = job'.kind,
             \/ req.special /\ job' = [NoJob EXCEPT !.kind = "move", !.p = -1, !.blk = b]
             \/ job' = [NoJob EXCEPT !.kind = "simple", !.blk = b]
      PROVE  DataInv'
  <2>1. \A q \in Pages : flash'[b][q] = Erased /\ InPlace(flash'[b][q], q) /\ InBank(flash'[b][q], q)
    <3>1. flash[b] = ErasedBlock
      BY <1>1, <1>2, <1>5 DEF UseInv, Stored, FreeErased, Known
    <3> QED BY <1>1, <3>1, ErasedKnown DEF InPlace, InBank
  <2>2. \/ pc' = "move" /\ req.special /\ job'.p = -1 /\ job'.dst = None /\ job'.blk = b /\ job'.last = 0
        \/ pc' = "simple" /\ job'.p = 0 /\ job'.blk = b
    BY <1>5 DEF NoJob
  <2>3. pc' \in {"move", "simple"} /\ Mapped /\ (Mapped' => pc' = "simple")
    BY <1>1, <1>2, <2>2 DEF Mapped
  <2>4. LogFilled' /\ MapCached' /\ MapSaved'
    <3>1. \A p : Filled(p)' = Filled(p)
      BY <1>1, <2>3 DEF Filled
    <3>2. LogFilled'
      BY <1>1, <1>2, <3>1 DEF DataInv, LogFilled
    <3>3. MapCached'
      BY <1>1, <2>3 DEF DataInv, MapCached
    <3>4. MapSaved'
      BY <1>1, <2>3 DEF DataInv, MapSaved
    <3> QED BY <3>2, <3>3, <3>4
  <2>5. SimpleHalf'
    <3>1. \A i \in Pages : ~(i < 0)
      BY DEF Pages
    <3> QED BY <2>1, <2>2, <3>1 DEF SimpleHalf
  <2>6. CASE pc' = "move"
    <3>1. \A i \in Pages : LastNamed(flash'[logBlk'], i, pmap'[i])
      BY <1>1, <2>3 DEF DataInv, MapCached
    <3>2. \E i \in Pages : pmap'[i] # None
      <4>1. lastUsed # None
        BY <1>1, <2>2, <2>6 DEF DataInv, MapAtHand
      <4>2. PICK i \in Pages : Named(flash[logBlk], i) # {}
        BY <1>1, <2>3, <4>1 DEF DataInv, MapSaved
      <4> QED BY <1>1, <3>1, <4>2 DEF LastNamed
    <3>3. \A i : ~Moved(i)'
      BY <2>2, <2>6 DEF Moved
    <3>4. \A i \in Pages : MovedPage(i)'
      BY <3>1, <3>3 DEF MovedPage
    <3>5. \A q \in Pages : MovedTo(q)'
      BY <2>1, <2>2, <2>6, ErasedKnown DEF MovedTo
    <3>6. MovedLast'
      BY <2>2, <2>6 DEF MovedLast
    <3>7. MoveHalf'
      BY <3>2, <3>4, <3>5, <3>6 DEF MoveHalf
    <3> QED BY <1>3, <2>3, <2>4, <2>5, <2>6, <3>7 DEF DataInv, SwapHalf, MoveWhole, Merges
  <2>7. CASE pc' = "simple"
    BY <1>3, <2>3, <2>4, <2>5, <2>7 DEF DataInv, SwapHalf, MoveHalf, MoveWhole, Merges
  <2> QED BY <2>3, <2>6, <2>7
<1>6. pc' # "fail"
  BY DEF AccInv
<1>7. \/ /\ InOrder /\ pc' = "swap"
         /\ job' = [NoJob EXCEPT !.kind = "swap", !.p = lastUsed + 1, !.blk = logBlk]
      \/ \E b \in free : /\ pc' = job'.kind
                         /\ \/ req.special /\ job' = [NoJob EXCEPT !.kind = "move", !.p = -1, !.blk = b]
                            \/ job' = [NoJob EXCEPT !.kind = "simple", !.blk = b]
  BY <1>6, Zenon DEF LML_MergeLogBlk, GiveUp
<1> QED BY <1>4, <1>5, <1>7, Zenon DEF Started

-----------------------------------------------------------------------------
(* The swap merge and the simple merge.                                     *)

LEMMA MergeApart ==
    ASSUME TypeInv, AccInv, UseInv, pc \in Merges
    PROVE  /\ job.blk # dataBlk /\ dataBlk # None /\ logBlk # None /\ job.blk # None
           /\ pc # "swap" => logBlk # dataBlk /\ logBlk # job.blk
<1>1. /\ Mode = pc /\ job.blk \in Phys /\ dataBlk \in Phys /\ logBlk \in Phys
  BY MergeBlocks
<1>2. job.blk # None /\ dataBlk # None /\ logBlk # None
  BY <1>1, NotNone
<1>3. Work = job.blk /\ (pc # "swap" => Log = logBlk) /\ Accounted
  BY <1>1 DEF Work, Log, AccInv, Merges
<1> QED BY <1>2, <1>3 DEF Accounted, Split

LEMMA DataSwapCopy == ASSUME TypeInv, AccInv, UseInv, DataInv, SwapCopy, Sound' PROVE DataInv'
<1> DEFINE t == job.p
           page == flash[dataBlk][t]
<1>1. /\ pc = "swap" /\ pc \in Merges /\ pc' = pc /\ job.p < PAGES
      /\ UNCHANGED <<saved, dataBlk, logBlk, lastUsed, pmap, cached, req, want>>
      /\ flash' = Programmed(job.blk, t, page) /\ job' = [job EXCEPT !.p = @ + 1]
  BY FailsCount DEF SwapCopy, CopyFails, Program, Merges
<1>2. /\ logBlk \in Phys /\ logBlk # None /\ logBlk # dataBlk /\ dataBlk \in Phys /\ flash \in Blocks
      /\ job \in Jobs /\ job.blk = logBlk /\ lastUsed # None /\ t > lastUsed
  BY <1>1, MergeBlocks, MergeApart DEF DataInv, SwapHalf
<1>3. t \in Pages /\ t \in Nat /\ lastUsed \in Nat /\ t # None
  <2>1. t \in Nat /\ lastUsed \in Pages
    BY <1>1, <1>2, Typed DEF TypeInv, PagesNamed, Mode
  <2> HIDE DEF t
  <2>2. t \in Pages
    BY <1>1, <2>1, Geometry DEF t, Pages
  <2> QED BY <2>1, <2>2, NotNone DEF Pages
<1>4. job'.p = t + 1 /\ job'.blk = logBlk
  BY <1>1, <1>2 DEF Jobs
<1>5. InPlace(page, t)
  BY <1>3 DEF DataInv, DataPlaced
<1> HIDE DEF t, page
<1>6. \A p \in Pages : /\ InPlace(flash[logBlk][p], p)
                       /\ p <= lastUsed => flash[logBlk][p].lp = p
                       /\ lastUsed < p /\ p < t => flash[logBlk][p].val = flash[dataBlk][p].val
                       /\ p >= t => flash[logBlk][p] = Erased
  BY <1>1 DEF DataInv, SwapHalf, t
<1>7. flash[logBlk][t] = Erased
  BY <1>3, <1>6
<1>8. /\ \A c \in Phys \ {logBlk} : flash'[c] = flash[c]
      /\ \A q \in Pages \ {t} : flash'[logBlk][q] = flash[logBlk][q]
      /\ flash'[logBlk][t] = page
  BY <1>1, <1>2, <1>3, <1>7, ErasedTakes
<1>9. flash'[dataBlk] = flash[dataBlk] /\ page.val = flash[dataBlk][t].val
  BY <1>2, <1>8 DEF page
<1>10. \A p \in Pages : InPlace(flash'[logBlk][p], p)
  BY <1>5, <1>6, <1>8
<1>11. SwapHalf'
  <2> SUFFICES ASSUME NEW p \in Pages
               PROVE  /\ p <= lastUsed => flash'[logBlk][p].lp = p
                      /\ lastUsed < p /\ p < t + 1 => flash'[logBlk][p].val = flash[dataBlk][p].val
                      /\ p >= t + 1 => flash'[logBlk][p] = Erased
    <3>1. t + 1 > lastUsed
      BY <1>2, <1>3 DEF t
    <3> QED BY <1>1, <1>2, <1>4, <1>9, <1>10, <3>1 DEF SwapHalf
  <2>1. p \in Nat
    BY DEF Pages
  <2>2. CASE p = t
    <3>1. ~(p <= lastUsed) /\ ~(p >= t + 1)
      BY <1>2, <1>3, <2>2 DEF t
    <3> QED BY <1>8, <1>9, <2>2, <3>1
  <2>3. CASE p # t
    <3>1. (p < t + 1 => p < t) /\ (p >= t + 1 => p >= t)
      BY <1>3, <2>1, <2>3
    <3> QED BY <1>6, <1>8, <2>3, <3>1
  <2> QED BY <2>2, <2>3
<1>12. WantKept'
  <2>1. LogPages' = flash'[logBlk] /\ LogPages = flash[logBlk]
    BY <1>1, <1>2 DEF LogPages
  <2> SUFFICES ASSUME NEW i \in Pages, want[i] # Any
               PROVE  Stands(i, flash'[logBlk], flash[dataBlk], want[i])
    BY <1>1, <1>9, <2>1 DEF WantKept
  <2>2. Stands(i, flash[logBlk], flash[dataBlk], want[i])
    BY <2>1 DEF DataInv, WantKept
  <2>3. want[i] = IF flash[logBlk][i].lp = i THEN flash[logBlk][i].val ELSE flash[dataBlk][i].val
    BY <1>6, <2>2, StandsInPlace
  <2>4. want[i] = IF flash'[logBlk][i].lp = i THEN flash'[logBlk][i].val ELSE flash[dataBlk][i].val
    <3>1. CASE i = t
      BY <1>3, <1>7, <1>8, <1>9, <2>3, <3>1, ErasedKnown
    <3>2. CASE i # t
      BY <1>8, <2>3, <3>2
    <3> QED BY <3>1, <3>2
  <2> QED BY <1>10, <2>4, StandsInPlace
<1>13. DataPlaced' /\ MapAtHand'
  BY <1>1, <1>9 DEF DataInv, DataPlaced, MapAtHand
<1> QED BY <1>1, <1>11, <1>12, <1>13
        DEF DataInv, LogFilled, MapCached, MapSaved, Mapped, SimpleHalf, MoveHalf, MoveWhole

\* The log block becomes the data block.
LEMMA DataSwapDone == ASSUME TypeInv, AccInv, UseInv, DataInv, SwapDone PROVE DataInv'
<1>1. /\ pc = "swap" /\ pc \in Merges /\ pc' = "erase" /\ job.p = PAGES /\ dataBlk' = job.blk
      /\ job' = [job EXCEPT !.toErase = <<dataBlk>>] /\ UNCHANGED <<flash, want>>
  BY DEF SwapDone, Merges
<1>2. /\ job \in Jobs /\ job.kind = "swap" /\ job.blk = logBlk /\ logBlk # None
  BY <1>1, MergeBlocks, MergeApart DEF DataInv, SwapHalf
<1>3. job'.kind = "swap"
  BY <1>1, <1>2 DEF Jobs
<1>4. \A p \in Pages : /\ InPlace(flash[logBlk][p], p)
                       /\ p <= lastUsed => flash[logBlk][p].lp = p
                       /\ lastUsed < p => flash[logBlk][p].val = flash[dataBlk][p].val
  <2>1. \A p \in Pages : p < PAGES
    BY Geometry DEF Pages
  <2> QED BY <1>1, <2>1 DEF DataInv, SwapHalf
<1>5. WantKept'
  <2>1. LogPages = flash[logBlk] /\ LogPages' = ErasedBlock
    BY <1>1, <1>2, <1>3 DEF LogPages
  <2> SUFFICES ASSUME NEW i \in Pages, want[i] # Any
               PROVE  Stands(i, ErasedBlock, flash[logBlk], want[i])
    BY <1>1, <1>2, <2>1 DEF WantKept
  <2>2. Stands(i, flash[logBlk], flash[dataBlk], want[i])
    BY <2>1 DEF DataInv, WantKept
  <2>3. want[i] = IF flash[logBlk][i].lp = i THEN flash[logBlk][i].val ELSE flash[dataBlk][i].val
    BY <1>4, <2>2, StandsInPlace
  <2>4. i <= lastUsed \/ lastUsed < i
    <3>1. lastUsed \in Nat /\ i \in Nat
      BY <1>1, MergeBlocks, Typed DEF TypeInv, Pages
    <3> QED BY <3>1
  <2>5. want[i] = flash[logBlk][i].val
    BY <1>4, <2>3, <2>4
  <2>6. LastNamed(ErasedBlock, i, None) /\ None \in Places
    BY ErasedKnown, NothingNamed DEF Places
  <2> QED BY <2>5, <2>6, LastOnly DEF Stands
<1>6. DataPlaced'
  BY <1>1, <1>2, <1>4 DEF DataPlaced
<1> QED BY <1>1, <1>3, <1>5, <1>6
        DEF DataInv, LogFilled, MapCached, MapSaved, Mapped, MapAtHand, SwapHalf, SimpleHalf, MoveHalf, MoveWhole

\* A copy of the other merges leaves log block and data block alone.
LEMMA DataCopied ==
    ASSUME TypeInv, DataInv, pc \in {"simple", "move"}, pc' = pc, dataBlk # None, logBlk # None,
           UNCHANGED <<saved, dataBlk, logBlk, lastUsed, cached, req, want>>,
           flash'[dataBlk] = flash[dataBlk], flash'[logBlk] = flash[logBlk],
           pc = "simple" => pmap' = pmap, SimpleHalf', MoveHalf'
    PROVE  DataInv'
<1>1. LogPages' = LogPages
  BY DEF LogPages
<1>2. WantKept' /\ DataPlaced'
  BY <1>1 DEF DataInv, WantKept, DataPlaced
<1>3. LogFilled'
  BY DEF DataInv, LogFilled, Filled
<1>4. MapCached' /\ MapSaved' /\ MapAtHand'
  BY DEF DataInv, MapCached, MapSaved, MapAtHand, Mapped
<1> QED BY <1>2, <1>3, <1>4 DEF DataInv, SwapHalf, MoveWhole

LEMMA DataSimpleCopy == ASSUME TypeInv, AccInv, UseInv, DataInv, SimpleCopy, Sound' PROVE DataInv'
<1> DEFINE t == job.p
           inData == pmap[t] = None
           b == IF inData THEN dataBlk ELSE logBlk
           p == IF inData THEN t ELSE pmap[t]
           page == IF t = 0 THEN CopiedPage0(b, p, SeqPlus(inData)) ELSE flash[b][p]
<1>1. /\ pc = "simple" /\ pc \in Merges /\ pc' = pc /\ t < PAGES
      /\ UNCHANGED <<saved, dataBlk, logBlk, lastUsed, pmap, cached, req, want>>
      /\ flash' = Programmed(job.blk, t, page) /\ job' = [job EXCEPT !.p = @ + 1]
  BY FailsCount, Zenon DEF SimpleCopy, CopyFails, Program, Merges
<1>2. /\ logBlk \in Phys /\ logBlk # None /\ dataBlk \in Phys /\ dataBlk # None /\ flash \in Blocks /\ pmap \in Maps
      /\ job \in Jobs /\ job.blk \in Phys /\ job.blk # logBlk /\ job.blk # dataBlk /\ cached
  BY <1>1, MergeBlocks, MergeApart, Typed DEF TypeInv, DataInv, MapAtHand
<1>3. t \in Pages /\ t \in Nat /\ t # None
  <2>1. t \in Nat
    BY <1>1 DEF TypeInv, PagesNamed, Mode
  <2> HIDE DEF t
  <2> QED BY <1>1, <2>1, Geometry, NotNone DEF Pages
<1>4. job'.p = t + 1 /\ job'.blk = job.blk
  BY <1>1, <1>2 DEF Jobs
<1> HIDE DEF t
<1>5. LastNamed(flash[logBlk], t, pmap[t]) /\ pmap[t] \in Places
  BY <1>1, <1>2, <1>3 DEF DataInv, MapCached, Mapped, Maps, Places
<1>6. page.lp = flash[b][p].lp /\ page.val = flash[b][p].val
  <2>1. flash[b][p] \in Page
    <3>1. b \in Phys /\ p \in Pages
      BY <1>2, <1>3, <1>5 DEF Places
    <3> HIDE DEF b, p
    <3> QED BY <1>2, <3>1 DEF Blocks
  <2> HIDE DEF b, p, inData
  <2>2. CopiedPage0(b, p, SeqPlus(inData)).lp = flash[b][p].lp /\ CopiedPage0(b, p, SeqPlus(inData)).val = flash[b][p].val
    BY <2>1 DEF CopiedPage0, Page
  <2> QED BY <2>2
<1>7. page.val = IF pmap[t] = None THEN flash[dataBlk][t].val ELSE flash[logBlk][pmap[t]].val
  <2> HIDE DEF page
  <2> QED BY <1>6
<1>8. InPlace(page, t)
  <2> HIDE DEF page
  <2>1. CASE inData
    BY <1>3, <1>6, <2>1 DEF DataInv, DataPlaced, InPlace
  <2>2. CASE ~inData
    BY <1>5, <1>6, <2>2 DEF LastNamed, Named, InPlace
  <2> QED BY <2>1, <2>2
<1> HIDE DEF inData, b, p, page
<1>9. \A i \in Pages : /\ InPlace(flash[job.blk][i], i)
                       /\ i < t => Stands(i, flash[logBlk], flash[dataBlk], flash[job.blk][i].val)
                       /\ i >= t => flash[job.blk][i] = Erased
  BY <1>1 DEF DataInv, SimpleHalf, t
<1>10. flash[job.blk][t] = Erased
  BY <1>3, <1>9
<1>11. /\ \A c \in Phys \ {job.blk} : flash'[c] = flash[c]
       /\ \A q \in Pages \ {t} : flash'[job.blk][q] = flash[job.blk][q]
       /\ flash'[job.blk][t] = page
  BY <1>1, <1>2, <1>3, <1>10, ErasedTakes
<1>12. flash'[dataBlk] = flash[dataBlk] /\ flash'[logBlk] = flash[logBlk]
  BY <1>2, <1>11
<1>13. SimpleHalf'
  <2> SUFFICES ASSUME NEW i \in Pages
               PROVE  /\ InPlace(flash'[job.blk][i], i)
                      /\ i < t + 1 => Stands(i, flash[logBlk], flash[dataBlk], flash'[job.blk][i].val)
                      /\ i >= t + 1 => flash'[job.blk][i] = Erased
    BY <1>1, <1>4, <1>12 DEF SimpleHalf
  <2>1. i \in Nat
    BY DEF Pages
  <2>2. CASE i = t
    <3>1. \A q \in Places : LastNamed(flash[logBlk], t, q) => q = pmap[t]
      BY <1>5, LastOnly
    <3>2. Stands(t, flash[logBlk], flash[dataBlk], page.val)
      BY <1>7, <3>1 DEF Stands
    <3>3. ~(i >= t + 1)
      BY <2>1, <2>2
    <3> QED BY <1>8, <1>11, <2>2, <3>2, <3>3
  <2>3. CASE i # t
    <3>1. (i < t + 1 => i < t) /\ (i >= t + 1 => i >= t)
      BY <1>3, <2>1, <2>3
    <3> QED BY <1>9, <1>11, <2>3, <3>1
  <2> QED BY <2>2, <2>3
<1>14. MoveHalf'
  BY <1>1 DEF MoveHalf
<1> QED BY <1>1, <1>2, <1>12, <1>13, <1>14, DataCopied

\* The block that has taken the newest pages becomes the data block.
LEMMA DataSimpleDone == ASSUME TypeInv, AccInv, UseInv, DataInv, SimpleDone PROVE DataInv'
<1>1. /\ pc = "simple" /\ pc \in Merges /\ pc' = "erase" /\ job.p = PAGES /\ dataBlk' = job.blk
      /\ job' = [job EXCEPT !.toErase = <<dataBlk, logBlk>>] /\ UNCHANGED <<flash, want>>
  BY DEF SimpleDone, Merges
<1>2. /\ job \in Jobs /\ job.kind = "simple" /\ logBlk # None
  BY <1>1, MergeBlocks, MergeApart
<1>3. job'.kind = "simple"
  BY <1>1, <1>2 DEF Jobs
<1>4. \A i \in Pages : /\ InPlace(flash[job.blk][i], i)
                       /\ Stands(i, flash[logBlk], flash[dataBlk], flash[job.blk][i].val)
  <2>1. \A i \in Pages : i < PAGES
    BY Geometry DEF Pages
  <2> QED BY <1>1, <2>1 DEF DataInv, SimpleHalf
<1>5. WantKept'
  <2>1. LogPages = flash[logBlk] /\ LogPages' = ErasedBlock
    BY <1>1, <1>2, <1>3 DEF LogPages
  <2> SUFFICES ASSUME NEW i \in Pages, want[i] # Any
               PROVE  Stands(i, ErasedBlock, flash[job.blk], want[i])
    BY <1>1, <2>1 DEF WantKept
  <2>2. Stands(i, flash[logBlk], flash[dataBlk], want[i])
    BY <2>1 DEF DataInv, WantKept
  <2>3. PICK p \in Places : LastNamed(flash[logBlk], i, p)
    BY LastThere
  <2>4. want[i] = flash[job.blk][i].val
    BY <1>4, <2>2, <2>3 DEF Stands
  <2>5. LastNamed(ErasedBlock, i, None) /\ None \in Places
    BY ErasedKnown, NothingNamed DEF Places
  <2> QED BY <2>4, <2>5, LastOnly DEF Stands
<1>6. DataPlaced'
  BY <1>1, <1>4 DEF DataPlaced
<1> QED BY <1>1, <1>3, <1>5, <1>6
        DEF DataInv, LogFilled, MapCached, MapSaved, Mapped, MapAtHand, SwapHalf, SimpleHalf, MoveHalf, MoveWhole

-----------------------------------------------------------------------------
(* The move merge.  MoveRank orders the pages by bank, and is a page number *)
(* within a bank.                                                           *)

LEMMA MoveRankBanks ==
    ASSUME NEW p \in Pages, NEW q \in Pages
    PROVE  /\ p % BANKS < q % BANKS => MoveRank(p) < MoveRank(q)
           /\ MoveRank(p) = MoveRank(q) => p = q
<1> DEFINE a == p % BANKS
           c == q % BANKS
<1>1. a \in Nat /\ c \in Nat /\ p \in Nat /\ q \in Nat /\ PAGES \in Nat /\ p < PAGES /\ q < PAGES
  BY Remainder, Geometry DEF Pages
<1>2. MoveRank(p) = a * PAGES + p /\ MoveRank(q) = c * PAGES + q
  BY DEF MoveRank
<1> HIDE DEF a, c
<1>3. ASSUME NEW x \in Nat, NEW y \in Nat, x < y
      PROVE  y * PAGES >= x * PAGES + PAGES /\ x * PAGES \in Nat /\ y * PAGES \in Nat
  <2>1. PICK e \in Nat : y = x + 1 + e
    <3>1. y - (x + 1) \in Nat /\ y = x + 1 + (y - (x + 1))
      BY <1>3
    <3> QED BY <3>1
  <2>2. y * PAGES = x * PAGES + PAGES + e * PAGES /\ x * PAGES \in Nat /\ e * PAGES \in Nat
    BY <1>1, <2>1
  <2> QED BY <1>1, <2>2
<1>4. a < c => MoveRank(p) < MoveRank(q)
  <2> HAVE a < c
  <2>1. c * PAGES >= a * PAGES + PAGES /\ a * PAGES \in Nat /\ c * PAGES \in Nat
    BY <1>1, <1>3
  <2> QED BY <1>1, <1>2, <2>1
<1>5. c < a => MoveRank(q) < MoveRank(p)
  <2> HAVE c < a
  <2>1. a * PAGES >= c * PAGES + PAGES /\ a * PAGES \in Nat /\ c * PAGES \in Nat
    BY <1>1, <1>3
  <2> QED BY <1>1, <1>2, <2>1
<1>6. a = c /\ MoveRank(p) = MoveRank(q) => p = q
  <2>1. a * PAGES \in Nat
    BY <1>1
  <2> QED BY <1>1, <1>2, <2>1
<1>7. MoveRank(p) \in Nat /\ MoveRank(q) \in Nat
  BY RankOK
<1>8. (a < c => MoveRank(p) < MoveRank(q)) /\ (MoveRank(p) = MoveRank(q) => p = q)
  BY <1>1, <1>4, <1>5, <1>6, <1>7
<1> QED BY <1>8 DEF a, c

\* The next page is the one of the least rank that has not been moved.
LEMMA MoveNextLeast ==
    ASSUME NEW i \in ValidPages, ~Moved(i), job.p = -1 \/ job.p \in Pages
    PROVE  MoveNext # None /\ MoveRank(MoveNext) <= MoveRank(i)
<1> DEFINE left == {p \in ValidPages : job.p = -1 \/ MoveRank(p) > MoveRank(job.p)}
           Ranks == {MoveRank(p) : p \in left}
<1>1. MoveNext = IF left = {} THEN None ELSE CHOOSE p \in left : \A q \in left : MoveRank(p) <= MoveRank(q)
  BY DEF MoveNext
<1>2. left \subseteq Pages
  BY DEF ValidPages
<1>3. i \in left
  <2>1. i \in Pages /\ pmap[i] # None
    BY DEF ValidPages
  <2>2. CASE job.p = -1
    BY <2>2
  <2>3. CASE job.p # -1
    <3>1. MoveRank(i) \in Nat /\ MoveRank(job.p) \in Nat
      BY <2>1, <2>3, RankOK
    <3>2. ~(MoveRank(i) <= MoveRank(job.p))
      BY <2>1, <2>3 DEF Moved
    <3> QED BY <3>1, <3>2
  <2> QED BY <2>2, <2>3
<1>4. \E p \in left : \A q \in left : MoveRank(p) <= MoveRank(q)
  <2> HIDE DEF left
  <2>1. Ranks \in SUBSET Nat /\ Ranks # {}
    BY <1>2, <1>3, RankOK
  <2>2. PICK m \in Ranks : \A r \in Ranks : m <= r
    <3> HIDE DEF Ranks
    <3> QED BY <2>1, Smallest
  <2> QED BY <2>2
<1>5. MoveNext \in left /\ \A q \in left : MoveRank(MoveNext) <= MoveRank(q)
  <2> HIDE DEF left
  <2> QED BY <1>1, <1>3, <1>4
<1> HIDE DEF left
<1>6. MoveNext # None
  BY <1>2, <1>5, NotNone
<1> QED BY <1>3, <1>5, <1>6

\* The next page of a move merge, and the place it gets.
LEMMA MoveNextThere ==
    ASSUME TypeInv, AccInv, UseInv, pc = "move", MoveNext # None, ~NeedsPage0,
           job.p # -1 => job.dst % BANKS = job.p % BANKS
    PROVE  /\ MoveNext \in Pages /\ MoveNext # None /\ MoveNext # -1 /\ pmap[MoveNext] \in Pages /\ ~Moved(MoveNext)
           /\ MoveTo(MoveNext) \in Pages /\ MoveTo(MoveNext) # None
           /\ MoveTo(MoveNext) % BANKS = MoveNext % BANKS
           /\ ~Reached(MoveTo(MoveNext))
           /\ job.p # -1 => /\ job.p % BANKS <= MoveNext % BANKS
                            /\ job.p % BANKS = MoveNext % BANKS => job.dst <= MoveTo(MoveNext)
<1> DEFINE m == MoveNext
           to == MoveTo(m)
<1>1. m \in ValidPages /\ (job.p = -1 \/ MoveRank(m) > MoveRank(job.p))
  BY MoveNextOK
<1>2. m \in Pages /\ pmap[m] \in Pages /\ m # None /\ m # -1 /\ m \in Nat
  <2>1. m \in Pages /\ pmap[m] \in Pages
    BY <1>1, Typed DEF TypeInv, ValidPages, Maps
  <2> HIDE DEF m
  <2> QED BY <2>1, NotNone DEF Pages
<1>3. to \in Pages /\ to # None
  <2>1. to \in Nat /\ to < BANKS * Cardinality(ValidPages)
    BY <1>1, MoveCounts
  <2> HIDE DEF to
  <2>2. to + BANKS < PAGES
    BY <2>1, MoveRoom
  <2> QED BY <2>1, <2>2, Geometry, NotNone DEF Pages
<1>4. (job.p # -1 => job.p \in Pages /\ job.dst \in Nat)
  BY DEF TypeInv, PagesNamed, Moving
<1>5. to = 0 => job.dst = None
  BY MovesOn DEF UseInv
<1> HIDE DEF m
<1>6. ~Moved(m)
  <2> SUFFICES ASSUME job.p # -1
               PROVE  ~(MoveRank(m) <= MoveRank(job.p))
    BY DEF Moved
  <2>1. MoveRank(m) \in Nat /\ MoveRank(job.p) \in Nat
    BY <1>2, <1>4, RankOK
  <2> QED BY <1>1, <2>1
<1>7. m % BANKS \in 0 .. BANKS - 1 /\ (job.p # -1 => job.p % BANKS \in 0 .. BANKS - 1) /\ BANKS \in Nat /\ BANKS > 0
  BY <1>2, <1>4, Remainder, Geometry DEF Pages
<1>8. job.p # -1 => job.p % BANKS <= m % BANKS
  <2> HAVE job.p # -1
  <2>1. MoveRank(m) \in Nat /\ MoveRank(job.p) \in Nat
    BY <1>2, <1>4, RankOK
  <2>2. m % BANKS < job.p % BANKS => MoveRank(m) < MoveRank(job.p)
    BY <1>2, <1>4, MoveRankBanks
  <2> QED BY <1>1, <1>7, <2>1, <2>2
<1> DEFINE same == job.dst # None /\ job.p # -1 /\ job.p % BANKS = m % BANKS
<1>9. to = IF same THEN job.dst + BANKS ELSE m % BANKS
  BY DEF MoveTo
<1>10. job.p # -1 => job.dst # None /\ job.dst % BANKS = job.p % BANKS
  BY <1>4, NotNone
<1> HIDE DEF to
<1>11. to % BANKS = m % BANKS
  <2>1. CASE same
    <3>1. job.dst \in Nat /\ job.dst % BANKS = m % BANKS /\ to = job.dst + BANKS
      BY <1>4, <1>9, <1>10, <2>1
    <3>2. PICK k \in Nat : job.dst = BANKS * k + (m % BANKS)
      BY <3>1, Quotient
    <3>3. to = BANKS * (k + 1) + (m % BANKS)
      <4>1. BANKS * (k + 1) = BANKS * k + BANKS /\ BANKS * k \in Nat
        BY <1>7
      <4> QED BY <1>7, <3>1, <3>2, <4>1
    <3>4. \A n \in Nat, x \in 0 .. BANKS - 1 : (BANKS * n + x) % BANKS = x
      BY <1>7
    <3>5. k + 1 \in Nat
      OBVIOUS
    <3> HIDE DEF m
    <3>6. (BANKS * (k + 1) + (m % BANKS)) % BANKS = m % BANKS
      BY <1>7, <3>4, <3>5
    <3> QED BY <3>3, <3>6
  <2>2. CASE ~same
    <3>1. \A x \in 0 .. BANKS - 1 : x % BANKS = x
      BY <1>7
    <3> QED BY <1>7, <1>9, <2>2, <3>1
  <2> QED BY <2>1, <2>2
<1>12. job.p # -1 /\ job.p % BANKS = m % BANKS => job.dst < to
  <2> HAVE job.p # -1 /\ job.p % BANKS = m % BANKS
  <2>1. to = job.dst + BANKS /\ job.dst \in Nat
    BY <1>4, <1>9, <1>10
  <2> QED BY <1>7, <2>1
<1>13. ~Reached(to)
  <2>1. ~(to = 0 /\ job.dst # None)
    BY <1>5
  <2>2. ASSUME job.p # -1
        PROVE  ~(to % BANKS < job.p % BANKS) /\ ~(to % BANKS = job.p % BANKS /\ to <= job.dst)
    <3>1. ~(to % BANKS < job.p % BANKS)
      BY <1>7, <1>8, <1>11, <2>2
    <3>2. ~(to % BANKS = job.p % BANKS /\ to <= job.dst)
      <4> SUFFICES ASSUME to % BANKS = job.p % BANKS, to <= job.dst
                   PROVE  FALSE
        OBVIOUS
      <4>1. job.dst < to /\ to \in Nat /\ job.dst \in Nat
        BY <1>3, <1>4, <1>11, <1>12, <2>2 DEF Pages
      <4> QED BY <4>1
    <3> QED BY <3>1, <3>2
  <2> QED BY <2>1, <2>2 DEF Reached
<1>14. job.p # -1 /\ job.p % BANKS = m % BANKS => job.dst <= to
  <2> HAVE job.p # -1 /\ job.p % BANKS = m % BANKS
  <2>1. job.dst < to /\ to \in Nat /\ job.dst \in Nat
    BY <1>3, <1>4, <1>12 DEF Pages
  <2> QED BY <2>1
<1> QED BY <1>2, <1>3, <1>6, <1>8, <1>11, <1>13, <1>14 DEF m, to

\* What a move merge has in hand.
LEMMA MoveThere ==
    ASSUME TypeInv, AccInv, UseInv, DataInv, pc = "move"
    PROVE  /\ logBlk \in Phys /\ logBlk # None /\ dataBlk \in Phys /\ dataBlk # None /\ flash \in Blocks /\ pmap \in Maps
           /\ job \in Jobs /\ job.blk \in Phys /\ job.blk # logBlk /\ job.blk # dataBlk
           /\ (job.p # -1 => job.p \in Pages /\ job.dst \in Nat)
           /\ job.last \in Nat /\ job.dst \in Nat \union {None}
           /\ (\E i \in Pages : pmap[i] # None) /\ (\A i \in Pages : MovedPage(i)) /\ (\A q \in Pages : MovedTo(q)) /\ MovedLast
<1>1. Moving
  BY DEF TypeInv, PagesNamed
<1>2. pc \in Merges
  BY DEF Merges
<1>3. job \in Jobs
  BY DEF TypeInv, RecordsOK
<1>4. job.last \in Nat /\ job.dst \in Nat \union {None}
  BY <1>3 DEF Jobs
<1>5. MoveHalf
  BY DEF DataInv
<1>6. (job.p # -1 => job.p \in Pages /\ job.dst \in Nat)
  BY <1>1 DEF Moving
<1>7. pmap \in Maps
  BY Typed DEF TypeInv
<1>8. /\ logBlk \in Phys /\ dataBlk \in Phys /\ flash \in Blocks /\ job.blk \in Phys
      /\ logBlk # None /\ dataBlk # None /\ job.blk # logBlk /\ job.blk # dataBlk
  BY <1>2, MergeBlocks, MergeApart
<1> QED BY <1>3, <1>4, <1>5, <1>6, <1>7, <1>8 DEF MoveHalf

\* Without a valid page in the first bank, page 0 of the log block holds no page.
LEMMA DataMovePage0 == ASSUME TypeInv, AccInv, UseInv, DataInv, MovePage0, Sound' PROVE DataInv'
<1> DEFINE page == CopiedPage0(logBlk, 0, 0)
<1>1. /\ pc = "move" /\ pc' = pc /\ job.dst = None /\ (MoveNext = None \/ MoveNext % BANKS # 0)
      /\ UNCHANGED <<saved, dataBlk, logBlk, lastUsed, pmap, cached, req, want>>
      /\ flash' = Programmed(job.blk, 0, page) /\ job' = [job EXCEPT !.dst = 0]
  BY FailsCount DEF MovePage0, NeedsPage0, CopyFails, Program
<1>2. /\ logBlk \in Phys /\ logBlk # None /\ dataBlk \in Phys /\ dataBlk # None /\ flash \in Blocks /\ pmap \in Maps
      /\ job \in Jobs /\ job.blk \in Phys /\ job.blk # logBlk /\ job.blk # dataBlk /\ job.last \in Nat
      /\ (\E i \in Pages : pmap[i] # None) /\ (\A i \in Pages : MovedPage(i)) /\ (\A q \in Pages : MovedTo(q)) /\ MovedLast
  BY <1>1, MoveThere
<1>3. job.p = -1 /\ flash[job.blk] = ErasedBlock
  <2>1. Mode = "move"
    BY <1>1 DEF Mode
  <2> QED BY <1>1, <2>1 DEF UseInv, MergeInfo, Begun
<1>4. job'.dst = 0 /\ job'.p = job.p /\ job'.blk = job.blk /\ job'.last = job.last /\ 0 # None /\ 0 \in Pages
  BY <1>1, <1>2, NotNone, Geometry DEF Jobs
<1>5. flash[logBlk][0].lp = None
  <2> SUFFICES ASSUME flash[logBlk][0].lp # None
               PROVE  FALSE
    OBVIOUS
  <2> DEFINE i == flash[logBlk][0].lp
  <2>1. InBank(flash[logBlk][0], 0)
    BY <1>1, <1>2, <1>4 DEF DataInv, LogFilled
  <2>2. i \in Pages /\ i % BANKS = 0 % BANKS
    BY <2>1 DEF InBank
  <2>3. ~Moved(i) /\ LastNamed(flash[logBlk], i, pmap[i]) /\ 0 \in Named(flash[logBlk], i)
    BY <1>2, <1>3, <1>4, <2>2 DEF Moved, MovedPage, Named
  <2> HIDE DEF i
  <2>4. i \in ValidPages
    BY <2>2, <2>3 DEF ValidPages, LastNamed
  <2>5. MoveNext # None /\ MoveRank(MoveNext) <= MoveRank(i)
    BY <1>3, <2>3, <2>4, MoveNextLeast
  <2>6. MoveNext \in Pages
    BY <2>5, MoveNextOK DEF ValidPages
  <2>7. i % BANKS < MoveNext % BANKS
    <3>1. 0 % BANKS = 0 /\ MoveNext % BANKS \in 0 .. BANKS - 1 /\ BANKS \in Nat
      BY <2>6, Geometry, Remainder DEF Pages
    <3> QED BY <1>1, <2>2, <2>5, <3>1
  <2>8. MoveRank(i) < MoveRank(MoveNext) /\ MoveRank(i) \in Nat /\ MoveRank(MoveNext) \in Nat
    BY <2>2, <2>6, <2>7, MoveRankBanks, RankOK
  <2> QED BY <2>5, <2>8
<1>6. page.lp = None
  <2>1. flash[logBlk][0] \in Page
    BY <1>2, <1>4 DEF Blocks
  <2> QED BY <1>5, <2>1 DEF CopiedPage0, Page
<1> HIDE DEF page
<1>7. /\ \A c \in Phys \ {job.blk} : flash'[c] = flash[c]
      /\ \A q \in Pages \ {0} : flash'[job.blk][q] = flash[job.blk][q]
      /\ flash'[job.blk][0] = page
  <2>1. flash[job.blk][0] = Erased
    BY <1>3, <1>4, ErasedKnown
  <2> QED BY <1>1, <1>2, <1>4, <2>1, ErasedTakes
<1>8. flash'[dataBlk] = flash[dataBlk] /\ flash'[logBlk] = flash[logBlk]
  BY <1>2, <1>7
<1>9. \A i : ~Moved(i) /\ ~Moved(i)'
  BY <1>3, <1>4 DEF Moved
<1>10. \A i \in Pages : MovedPage(i)'
  BY <1>1, <1>2, <1>8, <1>9 DEF MovedPage
<1>11. \A q \in Pages : MovedTo(q)'
  <2> SUFFICES ASSUME NEW q \in Pages
               PROVE  MovedTo(q)'
    OBVIOUS
  <2>1. CASE q = 0
    <3>1. flash'[job'.blk][q].lp = None
      BY <1>4, <1>6, <1>7, <2>1
    <3>2. Reached(q)' /\ q <= job'.last
      BY <1>2, <1>4, <2>1 DEF Reached
    <3> QED BY <3>1, <3>2 DEF MovedTo, InBank
  <2>2. CASE q # 0
    <3>1. flash'[job'.blk][q] = Erased
      BY <1>3, <1>4, <1>7, <2>2, ErasedKnown
    <3> QED BY <3>1, ErasedKnown DEF MovedTo, InBank
  <2> QED BY <2>1, <2>2
<1>12. MovedLast'
  BY <1>2, <1>3, <1>4 DEF MovedLast
<1>13. MoveHalf' /\ SimpleHalf'
  BY <1>1, <1>2, <1>10, <1>11, <1>12 DEF MoveHalf, SimpleHalf
<1> QED BY <1>1, <1>2, <1>8, <1>13, DataCopied

\* The last version of a page moves, and the page map goes with it.
LEMMA DataMoveCopy == ASSUME TypeInv, AccInv, UseInv, DataInv, MoveCopy, Sound' PROVE DataInv'
<1>0. PICK m, to, from, page : /\ m = MoveNext /\ to = MoveTo(m) /\ from = pmap[m]
                               /\ page = IF to = 0 THEN CopiedPage0(logBlk, from, 0) ELSE flash[logBlk][from]
  OBVIOUS
<1>1. /\ pc = "move" /\ pc' = pc /\ MoveNext # None /\ ~NeedsPage0
      /\ UNCHANGED <<saved, dataBlk, logBlk, lastUsed, cached, req, want>>
      /\ flash' = Programmed(job.blk, to, page) /\ pmap' = [pmap EXCEPT ![m] = to]
      /\ job' = [job EXCEPT !.p = m, !.dst = to, !.last = IF to > @ THEN to ELSE @]
  BY <1>0, FailsCount, Zenon DEF MoveCopy, CopyFails, Program
<1>2. /\ logBlk \in Phys /\ logBlk # None /\ dataBlk \in Phys /\ dataBlk # None /\ flash \in Blocks /\ pmap \in Maps
      /\ job \in Jobs /\ job.blk \in Phys /\ job.blk # logBlk /\ job.blk # dataBlk
      /\ (job.p # -1 => job.p \in Pages /\ job.dst \in Nat)
      /\ job.last \in Nat /\ job.dst \in Nat \union {None}
      /\ (\A i \in Pages : MovedPage(i)) /\ (\A q \in Pages : MovedTo(q)) /\ MovedLast
  BY <1>1, MoveThere
<1>3. /\ m \in Pages /\ m # None /\ m # -1 /\ from \in Pages /\ ~Moved(m)
      /\ to \in Pages /\ to # None /\ to % BANKS = m % BANKS /\ ~Reached(to)
      /\ job.p # -1 => /\ job.p % BANKS <= m % BANKS
                       /\ job.p % BANKS = m % BANKS => job.dst <= to
  BY <1>0, <1>1, <1>2, MoveNextThere DEF MovedLast
<1>4. \A i \in ValidPages : Moved(i) \/ i = m \/ MoveRank(m) < MoveRank(i)
  <2> SUFFICES ASSUME NEW i \in ValidPages, ~Moved(i), i # m
               PROVE  MoveRank(m) < MoveRank(i)
    OBVIOUS
  <2>1. MoveRank(m) <= MoveRank(i) /\ i \in Pages
    BY <1>0, <1>2, MoveNextLeast DEF ValidPages
  <2>2. MoveRank(m) # MoveRank(i) /\ MoveRank(m) \in Nat /\ MoveRank(i) \in Nat
    BY <1>3, <2>1, MoveRankBanks, RankOK
  <2> QED BY <2>1, <2>2
<1>5. job.p # -1 => MoveRank(job.p) < MoveRank(m)
  <2> HAVE job.p # -1
  <2>1. MoveRank(m) > MoveRank(job.p)
    BY <1>0, <1>1, MoveNextOK
  <2>2. MoveRank(m) \in Nat /\ MoveRank(job.p) \in Nat
    BY <1>2, <1>3, RankOK
  <2> QED BY <2>1, <2>2
<1>6. page.lp = flash[logBlk][from].lp /\ page.val = flash[logBlk][from].val
  <2>1. flash[logBlk][from] \in Page
    BY <1>2, <1>3 DEF Blocks
  <2>2. CopiedPage0(logBlk, from, 0).lp = flash[logBlk][from].lp /\ CopiedPage0(logBlk, from, 0).val = flash[logBlk][from].val
    BY <2>1 DEF CopiedPage0, Page
  <2> QED BY <1>0, <2>2
<1>7. LastNamed(flash[logBlk], m, from) /\ page.lp = m
  <2>1. LastNamed(flash[logBlk], m, from)
    BY <1>0, <1>2, <1>3 DEF MovedPage
  <2>2. flash[logBlk][from].lp = m
    BY <1>3, <2>1, NotNone DEF LastNamed, Named
  <2> QED BY <1>6, <2>1, <2>2
<1>8. flash[job.blk][to] = Erased
  BY <1>2, <1>3 DEF MovedTo
<1>9. /\ \A c \in Phys \ {job.blk} : flash'[c] = flash[c]
      /\ \A q \in Pages \ {to} : flash'[job.blk][q] = flash[job.blk][q]
      /\ flash'[job.blk][to] = page
  BY <1>1, <1>2, <1>3, <1>8, ErasedTakes
<1>10. flash'[dataBlk] = flash[dataBlk] /\ flash'[logBlk] = flash[logBlk]
  BY <1>2, <1>9
<1>11. /\ job'.p = m /\ job'.dst = to /\ job'.blk = job.blk /\ job'.last = IF to > job.last THEN to ELSE job.last
       /\ pmap'[m] = to /\ \A i \in Pages \ {m} : pmap'[i] = pmap[i]
  BY <1>1, <1>2, <1>3 DEF Jobs, Maps
<1>12. to <= job'.last /\ job.last <= job'.last /\ job'.last \in Nat
  <2>1. to \in Nat
    BY <1>3 DEF Pages
  <2> QED BY <1>2, <1>11, <2>1
<1>13. Moved(m)' /\ \A i \in Pages \ {m} : Moved(i)' <=> Moved(i)
  <2>1. Moved(m)'
    <3>1. MoveRank(m) <= MoveRank(m)
      BY <1>3, RankOK
    <3> QED BY <1>3, <1>11, <3>1 DEF Moved
  <2>2. ASSUME NEW i \in Pages, i # m
        PROVE  Moved(i)' <=> Moved(i)
    <3>1. MoveRank(m) \in Nat /\ MoveRank(i) \in Nat /\ (job.p # -1 => MoveRank(job.p) \in Nat)
      BY <1>2, <1>3, RankOK
    <3>2. Moved(i)' <=> pmap[i] # None /\ MoveRank(i) <= MoveRank(m)
      BY <1>3, <1>11, <2>2 DEF Moved
    <3>3. Moved(i) => pmap[i] # None /\ MoveRank(i) <= MoveRank(m)
      BY <1>5, <3>1 DEF Moved
    <3>4. pmap[i] # None => Moved(i) \/ MoveRank(m) < MoveRank(i)
      BY <1>4, <2>2 DEF ValidPages
    <3> QED BY <3>1, <3>2, <3>3, <3>4
  <2> QED BY <2>1, <2>2
<1>14. \A i \in Pages : MovedPage(i)'
  <2> SUFFICES ASSUME NEW i \in Pages
               PROVE  MovedPage(i)'
    OBVIOUS
  <2>1. CASE i = m
    <3>1. flash'[job'.blk][pmap'[i]] = page
      BY <1>9, <1>11, <2>1
    <3>2. LastNamed(flash'[logBlk'], i, from) /\ flash'[logBlk'][from] = flash[logBlk][from]
      BY <1>1, <1>7, <1>10, <2>1
    <3> QED BY <1>3, <1>6, <1>7, <1>13, <2>1, <3>1, <3>2 DEF MovedPage
  <2>2. CASE i # m /\ Moved(i)
    <3>1. flash[job.blk][pmap[i]].lp = i /\ pmap[i] \in Pages
      BY <1>2, <2>2 DEF MovedPage, Moved, Maps
    <3>2. pmap[i] # to
      BY <1>8, <3>1, ErasedKnown, NotNone
    <3>3. flash'[job'.blk][pmap'[i]] = flash[job.blk][pmap[i]]
      BY <1>9, <1>11, <2>2, <3>1, <3>2
    <3>4. PICK p \in Pages : LastNamed(flash[logBlk], i, p) /\ flash[job.blk][pmap[i]].val = flash[logBlk][p].val
      BY <1>2, <2>2 DEF MovedPage
    <3>5. LastNamed(flash'[logBlk'], i, p) /\ flash'[job'.blk][pmap'[i]].val = flash'[logBlk'][p].val
      BY <1>1, <1>10, <3>3, <3>4
    <3>6. Moved(i)'
      BY <1>13, <2>2
    <3> QED BY <3>1, <3>3, <3>5, <3>6 DEF MovedPage
  <2>3. CASE i # m /\ ~Moved(i)
    <3>1. LastNamed(flash'[logBlk'], i, pmap'[i])
      BY <1>1, <1>2, <1>10, <1>11, <2>3 DEF MovedPage
    <3>2. ~Moved(i)'
      BY <1>13, <2>3
    <3> QED BY <3>1, <3>2 DEF MovedPage
  <2> QED BY <2>1, <2>2, <2>3
<1>15. \A q \in Pages : MovedTo(q)'
  <2> SUFFICES ASSUME NEW q \in Pages
               PROVE  MovedTo(q)'
    OBVIOUS
  <2>1. CASE q = to
    <3>1. flash'[job'.blk][q] = page
      BY <1>9, <1>11, <2>1
    <3>2. InBank(flash'[job'.blk][q], q)
      BY <1>3, <1>7, <2>1, <3>1 DEF InBank
    <3>3. flash'[job'.blk][q].lp = m /\ Moved(m)' /\ pmap'[m] = q
      BY <1>7, <1>11, <1>13, <2>1, <3>1
    <3>4. Reached(q)' /\ q <= job'.last
      <4>1. q <= q
        BY DEF Pages
      <4> QED BY <1>3, <1>11, <1>12, <2>1, <4>1 DEF Reached
    <3> QED BY <3>2, <3>3, <3>4 DEF MovedTo
  <2>2. CASE q # to
    <3>1. flash'[job'.blk][q] = flash[job.blk][q]
      BY <1>9, <1>11, <2>2
    <3>2. InBank(flash[job.blk][q], q)
      BY <1>2 DEF MovedTo
    <3>3. flash[job.blk][q].lp # None => \E i : i = flash[job.blk][q].lp /\ Moved(i)' /\ pmap'[i] = q
      <4> HAVE flash[job.blk][q].lp # None
      <4>0. PICK i : i = flash[job.blk][q].lp
        OBVIOUS
      <4>1. Moved(i) /\ pmap[i] = q /\ i \in Pages
        BY <1>2, <3>2, <4>0 DEF MovedTo, InBank
      <4>2. i # m
        BY <1>3, <4>1
      <4>3. Moved(i)' /\ pmap'[i] = q
        BY <1>11, <1>13, <4>1, <4>2
      <4> QED BY <4>0, <4>3
    <3>4. (Reached(q) /\ q <= job.last) \/ flash[job.blk][q] = Erased
      BY <1>2 DEF MovedTo
    <3>5. Reached(q) => Reached(q)'
      <4> HAVE Reached(q)
      <4>1. CASE q = 0 /\ job.dst # None
        BY <1>3, <1>11, <4>1 DEF Reached
      <4>2. CASE job.p # -1 /\ (q % BANKS < job.p % BANKS \/ (q % BANKS = job.p % BANKS /\ q <= job.dst))
        <5>1. q % BANKS \in Nat /\ job.p % BANKS \in Nat /\ m % BANKS \in Nat /\ job.p % BANKS <= m % BANKS
          BY <1>2, <1>3, <4>2, Remainder DEF Pages
        <5>2. q \in Nat /\ job.dst \in Nat /\ to \in Nat
          BY <1>2, <1>3, <4>2 DEF Pages
        <5>3. CASE job.p % BANKS = m % BANKS
          <6>1. job.dst <= to
            BY <1>3, <4>2, <5>3
          <6>2. q <= job.dst => q <= to
            BY <5>2, <6>1
          <6>3. q % BANKS < m % BANKS \/ (q % BANKS = m % BANKS /\ q <= to)
            BY <4>2, <5>3, <6>2
          <6> QED BY <1>3, <1>11, <6>3 DEF Reached
        <5>4. CASE job.p % BANKS # m % BANKS
          <6>1. q % BANKS < m % BANKS
            BY <4>2, <5>1, <5>4
          <6> QED BY <1>3, <1>11, <6>1 DEF Reached
        <5> QED BY <5>3, <5>4
      <4> QED BY <4>1, <4>2 DEF Reached
    <3>6. q <= job.last => q <= job'.last
      <4>1. q \in Nat
        BY DEF Pages
      <4> QED BY <1>2, <1>12, <4>1
    <3> QED BY <3>1, <3>2, <3>3, <3>4, <3>5, <3>6 DEF MovedTo
  <2> QED BY <2>1, <2>2
<1>16. MovedLast'
  <2>1. job'.last \in Pages /\ flash'[job.blk][job'.last].lp # None
    <3>1. CASE job'.last = to
      BY <1>3, <1>7, <1>9, <3>1
    <3>2. CASE job'.last # to
      <4>1. job'.last = job.last
        BY <1>11, <3>2
      <4>2. job.p # -1
        <5> SUFFICES ASSUME job.p = -1
                     PROVE  FALSE
          OBVIOUS
        <5>1. job.last = 0 /\ to \in Nat
          BY <1>2, <1>3 DEF MovedLast, Pages
        <5> QED BY <1>12, <3>2, <4>1, <5>1
      <4>3. job.last \in Pages /\ flash[job.blk][job.last].lp # None
        BY <1>2, <4>2 DEF MovedLast
      <4> QED BY <1>9, <3>2, <4>1, <4>3
    <3> QED BY <3>1, <3>2
  <2>2. m % BANKS = to % BANKS
    BY <1>3
  <2> QED BY <1>3, <1>11, <1>12, <2>1, <2>2 DEF MovedLast
<1>17. MoveHalf' /\ SimpleHalf'
  BY <1>1, <1>3, <1>11, <1>14, <1>15, <1>16 DEF MoveHalf, SimpleHalf
<1> QED BY <1>1, <1>2, <1>10, <1>17, DataCopied

\* The move merge has moved every page: its block takes the place of the log block.
LEMMA DataMoveDone == ASSUME TypeInv, AccInv, UseInv, DataInv, MoveDone PROVE DataInv'
<1>1. /\ pc = "move" /\ pc' = "erase" /\ MoveNext = None /\ job' = [job EXCEPT !.toErase = <<logBlk>>]
      /\ UNCHANGED <<flash, dataBlk, pmap, cached, want>>
  BY DEF MoveDone, tables
<1>2. /\ logBlk # None /\ pmap \in Maps /\ job \in Jobs /\ (job.p # -1 => job.p \in Pages /\ job.dst \in Nat)
      /\ (\E i \in Pages : pmap[i] # None) /\ (\A i \in Pages : MovedPage(i)) /\ (\A q \in Pages : MovedTo(q)) /\ MovedLast
  BY <1>1, MoveThere
<1>3. job.kind = "move" /\ cached
  BY <1>1, MergeBlocks DEF Merges, DataInv, MapAtHand
<1>4. job'.kind = "move" /\ job'.blk = job.blk /\ job'.last = job.last
  BY <1>1, <1>2, <1>3 DEF Jobs
<1>5. \A i \in Pages : pmap[i] # None => Moved(i)
  <2> SUFFICES ASSUME NEW i \in Pages, pmap[i] # None, ~Moved(i)
               PROVE  FALSE
    OBVIOUS
  <2>1. i \in ValidPages /\ (job.p = -1 \/ job.p \in Pages)
    BY <1>2 DEF ValidPages
  <2> QED BY <1>1, <2>1, MoveNextLeast
<1>6. job.p # -1
  BY <1>2, <1>5 DEF Moved
<1>7. \A i \in Pages : LastNamed(flash[job.blk], i, pmap[i])
  <2> SUFFICES ASSUME NEW i \in Pages
               PROVE  LastNamed(flash[job.blk], i, pmap[i])
    OBVIOUS
  <2>1. \A q \in Named(flash[job.blk], i) : q \in Pages /\ pmap[i] = q
    <3> SUFFICES ASSUME NEW q \in Pages, flash[job.blk][q].lp = i
                 PROVE  pmap[i] = q
      BY DEF Named
    <3>1. MovedTo(q) /\ i # None
      BY <1>2, NotNone
    <3> QED BY <3>1 DEF MovedTo
  <2>2. CASE pmap[i] = None
    BY <2>1, <2>2, NotNone DEF LastNamed
  <2>3. CASE pmap[i] # None
    <3>1. pmap[i] \in Pages /\ flash[job.blk][pmap[i]].lp = i
      BY <1>2, <1>5, <2>3 DEF Maps, MovedPage
    <3>2. pmap[i] <= pmap[i]
      BY <3>1 DEF Pages
    <3> QED BY <2>1, <2>3, <3>1, <3>2 DEF LastNamed, Named
  <2> QED BY <2>2, <2>3
<1>8. MoveWhole'
  <2>1. \A q \in Pages : InBank(flash[job.blk][q], q) /\ (q <= job.last \/ flash[job.blk][q] = Erased)
    BY <1>2 DEF MovedTo
  <2>2. job.last \in Pages /\ flash[job.blk][job.last].lp # None
    BY <1>2, <1>6 DEF MovedLast
  <2> QED BY <1>1, <1>3, <1>4, <1>7, <2>1, <2>2 DEF MoveWhole, MapOf
<1>9. WantKept'
  <2>1. LogPages = flash[logBlk] /\ LogPages' = flash[job.blk]
    BY <1>1, <1>2, <1>4 DEF LogPages
  <2> SUFFICES ASSUME NEW i \in Pages, want[i] # Any, NEW p \in Places, LastNamed(flash[job.blk], i, p)
               PROVE  want[i] = IF p = None THEN flash[dataBlk][i].val ELSE flash[job.blk][p].val
    BY <1>1, <2>1 DEF WantKept, Stands
  <2>2. Stands(i, flash[logBlk], flash[dataBlk], want[i])
    BY <2>1 DEF DataInv, WantKept
  <2>3. p = pmap[i]
    <3>1. pmap[i] \in Places
      BY <1>2 DEF Maps, Places
    <3> QED BY <1>7, <3>1, LastOnly
  <2>4. CASE p = None
    <3>1. LastNamed(flash[logBlk], i, None)
      BY <1>2, <2>3, <2>4 DEF MovedPage, Moved
    <3> QED BY <2>2, <2>4, <3>1 DEF Stands, Places
  <2>5. CASE p # None
    <3>1. PICK o \in Pages : LastNamed(flash[logBlk], i, o) /\ flash[job.blk][p].val = flash[logBlk][o].val
      BY <1>2, <1>5, <2>3, <2>5 DEF MovedPage
    <3>2. o \in Places /\ o # None
      BY NotNone DEF Places
    <3> QED BY <2>2, <2>5, <3>1, <3>2 DEF Stands
  <2> QED BY <2>4, <2>5
<1>10. DataPlaced'
  BY <1>1 DEF DataInv, DataPlaced
<1> QED BY <1>1, <1>8, <1>9, <1>10
        DEF DataInv, LogFilled, MapCached, MapSaved, Mapped, MapAtHand, SwapHalf, SimpleHalf, MoveHalf

\* The erase of the old blocks leaves the new ones alone.
LEMMA DataEraseBlk == ASSUME TypeInv, AccInv, UseInv, DataInv, MaxEraseFails = 0, EraseBlk PROVE DataInv'
<1>0. PICK b : b = job.toErase[1]
  OBVIOUS
<1>1. /\ pc = "erase" /\ pc' = "erase" /\ job.toErase # <<>> /\ flash' = [flash EXCEPT ![b] = ErasedBlock]
      /\ job' = [job EXCEPT !.toErase = Tail(@)]
      /\ UNCHANGED <<dataBlk, pmap, cached, want>>
  BY <1>0, NoEraseFails, Zenon DEF EraseBlk
<1>2. job \in Jobs /\ job.toErase \in Seq(Phys) /\ flash \in Blocks
  BY Typed DEF TypeInv, RecordsOK, Jobs
<1>3. job'.kind = job.kind /\ job'.blk = job.blk /\ job'.last = job.last
  BY <1>1, <1>2 DEF Jobs
<1>4. b \in Phys /\ b \in Old
  <2>1. 1 \in 1 .. Len(job.toErase)
    BY <1>1, <1>2
  <2> QED BY <1>0, <1>1, <1>2, <2>1 DEF Old
<1>5. \A c \in Phys : c # b => flash'[c] = flash[c]
  BY <1>1, <1>2, <1>4 DEF Blocks
<1>6. dataBlk # b /\ dataBlk # None /\ (job.kind = "move" => job.blk # None /\ job.blk # b)
  <2>1. (job.kind = "move" => Work = job.blk) /\ Accounted
    BY <1>1 DEF Work, Mode, AccInv
  <2>2. dataBlk # None /\ (job.kind = "move" => job.blk # None)
    BY <1>1 DEF TypeInv, BlocksNamed
  <2> QED BY <1>4, <2>1, <2>2 DEF Accounted, Split
<1>7. flash'[dataBlk] = flash[dataBlk] /\ (job.kind = "move" => flash'[job.blk] = flash[job.blk])
  BY <1>2, <1>5, <1>6, Typed DEF TypeInv, Jobs
<1>8. LogPages' = LogPages
  BY <1>1, <1>3, <1>7 DEF LogPages
<1>9. WantKept' /\ DataPlaced'
  BY <1>1, <1>7, <1>8 DEF DataInv, WantKept, DataPlaced
<1>10. MoveWhole'
  BY <1>1, <1>3, <1>7 DEF DataInv, MoveWhole
<1> QED BY <1>1, <1>9, <1>10
        DEF DataInv, LogFilled, MapCached, MapSaved, Mapped, MapAtHand, SwapHalf, SimpleHalf, MoveHalf

LEMMA DataMergeDone == ASSUME TypeInv, DataInv, MergeDone PROVE DataInv'
<1>1. /\ pc = "erase" /\ UNCHANGED <<flash, saved, dataBlk, want>> /\ pc' = AfterMerge
  BY DEF MergeDone
<1>2. DataPlaced'
  BY <1>1 DEF DataInv, DataPlaced
<1>3. CASE job.kind = "move"
  <2>1. /\ logBlk' = job.blk /\ lastUsed' = job.last /\ pmap' = pmap /\ cached' = cached /\ pc' \in {"getlog", "table"}
    BY <1>1, <1>3 DEF MergeDone, AfterMerge
  <2>2. /\ cached /\ (\A i \in Pages : LastNamed(flash[job.blk], i, pmap[i]))
        /\ \A q \in Pages : InBank(flash[job.blk][q], q) /\ (q <= job.last \/ flash[job.blk][q] = Erased)
        /\ job.last \in Pages /\ flash[job.blk][job.last].lp # None
    BY <1>1, <1>3 DEF DataInv, MoveWhole, MapOf
  <2>3. job.blk # None /\ job.last # None
    BY <1>1, <1>3, <2>2, NotNone DEF TypeInv, BlocksNamed
  <2>4. LogPages' = LogPages
    BY <1>1, <1>3, <2>1, <2>3 DEF LogPages
  <2>5. WantKept'
    BY <1>1, <2>4 DEF DataInv, WantKept
  <2>6. LogFilled'
    <3>1. \A q \in Pages : q <= job.last => q < job.last \/ q = job.last
      BY <2>2 DEF Pages
    <3> QED BY <1>1, <2>1, <2>2, <2>3, <3>1 DEF LogFilled, Filled
  <2>7. MapSaved'
    <3>1. PICK i \in Pages : i = flash[job.blk][job.last].lp
      BY <2>2 DEF InBank
    <3>2. job.last \in Named(flash[job.blk], i)
      BY <2>2, <3>1 DEF Named
    <3>3. ~IsMapPage(flash[job.blk][job.last])
      BY <2>2 DEF IsMapPage
    <3> QED BY <1>1, <2>1, <3>2, <3>3 DEF MapSaved
  <2>8. MapCached' /\ MapAtHand'
    BY <1>1, <2>1, <2>2 DEF MapCached, MapAtHand
  <2> QED BY <1>2, <2>1, <2>5, <2>6, <2>7, <2>8 DEF DataInv, SwapHalf, SimpleHalf, MoveHalf, MoveWhole
<1>4. CASE job.kind # "move"
  <2>1. logBlk' = None /\ cached' = FALSE /\ pc' \in {"getlog", "idle"}
    BY <1>1, <1>4 DEF MergeDone, AfterMerge
  <2>2. LogPages' = LogPages
    BY <1>1, <1>4, <2>1 DEF LogPages
  <2>3. WantKept'
    BY <1>1, <2>2 DEF DataInv, WantKept
  <2> QED BY <1>2, <2>1, <2>3
          DEF DataInv, LogFilled, MapCached, MapSaved, Mapped, MapAtHand, SwapHalf, SimpleHalf, MoveHalf, MoveWhole
<1> QED BY <1>3, <1>4

-----------------------------------------------------------------------------
(* The theorem.                                                             *)

\* The failures and the power cuts are never forgotten.
Grows == count'.fails >= count.fails /\ count'.cuts >= count.cuts
LEMMA CountsGrow == ASSUME TypeInv, [Next]_vars PROVE Grows /\ (PowerCut => count'.cuts > 0)
<1>1. count.cuts \in Nat /\ count.fails \in Nat /\ count \in Counts
  BY DEF TypeInv, RecordsOK, Counts
<1>2. count' = count => Grows
  BY <1>1 DEF Grows
<1>3. Failed \/ EraseFailed => Grows
  BY <1>1 DEF Failed, EraseFailed, Counts, Grows
<1>4. PowerCut => Grows /\ count'.cuts > 0
  BY <1>1 DEF PowerCut, Counts, Grows
<1>5. count' = [count EXCEPT !.writes = @ + 1] \/ count' = [count EXCEPT !.evictions = @ + 1] => Grows
  BY <1>1 DEF Counts, Grows
<1>6. UNCHANGED vars => Grows
  BY <1>2 DEF vars, tables
<1>7. Call => Grows
  <2>1. (\E i \in count.load.pages : LML_PageWrite(i)) \/ EvictPageMap \/ MergeOldest => Grows
    BY <1>5 DEF LML_PageWrite, EvictPageMap, MergeOldest
  <2>2. LML_PageRead \/ CloseWritePage \/ WriteBackMapTbl => Grows
    BY <1>2, <1>3 DEF LML_PageRead, PMM_SwitchMapTbl, CloseWritePage, WriteBackMapTbl
  <2> QED BY <2>1, <2>2 DEF Call
<1>8. Step => Grows
  <2>1. CopyFails(0) \/ CopyFails(job.p) => Grows
    BY <1>3 DEF CopyFails
  <2>2. SwitchForWrite \/ CreateNewLogBlk \/ NoFreeBlk \/ WriteDataInfo \/ GetLogPage \/ WriteLogInfo => Grows
    BY <1>2, <1>3 DEF SwitchForWrite, PMM_SwitchMapTbl, CreateNewLogBlk, NoFreeBlk, WriteDataInfo, GetLogPage, WriteLogInfo
  <2>3. ProgramPage \/ SyncFails \/ WriteFails \/ WritePageMapTbl \/ LML_MergeLogBlk => Grows
    BY <1>2, <1>3 DEF ProgramPage, SyncFails, WriteFails, WritePageMapTbl, LML_MergeLogBlk
  <2>4. SwapCopy \/ SwapDone \/ MovePage0 \/ MoveCopy \/ MoveDone \/ SimpleCopy \/ SimpleDone => Grows
    BY <1>2, <2>1 DEF SwapCopy, SwapDone, MovePage0, MoveCopy, MoveDone, SimpleCopy, SimpleDone
  <2>5. EraseBlk \/ MergeDone \/ RestorePageData \/ RestoreFails \/ MarkBadBlk => Grows
    BY <1>2, <1>3 DEF EraseBlk, MergeDone, RestorePageData, RestoreFails, MarkBadBlk, Replaced
  <2>6. LoadTables \/ StartScan \/ ScanBlk \/ ScanDone => Grows
    BY <1>2, <1>3 DEF LoadTables, StartScan, ScanBlk, ScanDone
  <2> QED BY <2>2, <2>3, <2>4, <2>5, <2>6 DEF Step
<1> QED BY <1>4, <1>6, <1>7, <1>8 DEF Next

LEMMA SoundBefore == ASSUME TypeInv, [Next]_vars, Sound' PROVE Sound /\ ~PowerCut
<1>1. count.fails \in Nat /\ count.cuts \in Nat
  BY DEF TypeInv, RecordsOK, Counts
<1> QED BY <1>1, CountsGrow DEF Sound, Grows

LEMMA DataNext ==
    ASSUME TypeInv, AccInv, UseInv, DataInv, EnoughSpares, MaxEraseFails = 0, [Next]_vars, Sound'
    PROVE  DataInv'
<1>1. TypeInv' /\ AccInv'
  BY TypesNext, AccNext
<1>2. CASE UNCHANGED vars
  <2>1. UNCHANGED <<flash, saved, dataBlk, logBlk, lastUsed, pmap, cached, pc, req, job, want>>
    BY <1>2 DEF vars, tables
  <2>2. DataPlaced' /\ LogFilled' /\ MapCached' /\ MapSaved' /\ MapAtHand'
    BY <2>1 DEF DataInv, DataPlaced, LogFilled, Filled, MapCached, MapSaved, Mapped, MapAtHand
  <2>3. SwapHalf' /\ SimpleHalf' /\ MoveWhole'
    BY <2>1 DEF DataInv, SwapHalf, SimpleHalf, MoveWhole
  <2>4. \A i : Moved(i)' = Moved(i)
    BY <2>1 DEF Moved
  <2>5. MoveHalf'
    BY <2>1, <2>4 DEF DataInv, MoveHalf, MovedPage, MovedTo, Reached, MovedLast
  <2>6. WantKept'
    BY <2>1 DEF DataInv, WantKept, LogPages
  <2> QED BY <2>1, <2>2, <2>3, <2>5, <2>6 DEF DataInv
<1>3. CASE Call
  <2>1. LML_PageRead => DataInv'
    BY DataSwitch DEF LML_PageRead
  <2> QED BY <1>3, <2>1, DataPageWrite, DataCloseWritePage, DataEvictPageMap, DataMergeOldest, DataWriteBackMapTbl DEF Call
<1>4. CASE Step
  <2>1. SwitchForWrite => DataInv'
    BY DataSwitch DEF SwitchForWrite
  <2>2. ~WriteFails /\ ~NoFreeBlk
    BY <1>1 DEF AccInv, WriteFails, NoFreeBlk, GiveUp
  <2>3. ~SyncFails /\ ~RestoreFails
    BY FailsCount DEF SyncFails, RestoreFails
  <2>4. ~RestorePageData /\ ~MarkBadBlk /\ ~LoadTables /\ ~StartScan /\ ~ScanBlk /\ ~ScanDone
    BY DEF DataInv, RestorePageData, MarkBadBlk, Replaced, LoadTables, StartScan, ScanBlk, ScanDone
  <2> QED BY <1>1, <1>4, <2>1, <2>2, <2>3, <2>4, DataCreateNewLogBlk, DataWriteDataInfo, DataGetLogPage, DataWriteLogInfo,
             DataProgramPage, DataWritePageMapTbl, DataMergeLogBlk, DataSwapCopy, DataSwapDone, DataMovePage0,
             DataMoveCopy, DataMoveDone, DataSimpleCopy, DataSimpleDone, DataEraseBlk, DataMergeDone DEF Step
<1>5. ~PowerCut
  BY SoundBefore
<1> QED BY <1>2, <1>3, <1>4, <1>5 DEF Next

\* Between two calls every logical page reads as LML_PageWrite last wrote it, whatever
\* has been written, merged in each of the three ways, evicted from the page map cache
\* and fetched again, as long as no program has failed and the power has not been cut.
THEOREM PagesReadBack ==
    ASSUME EnoughSpares, MaxEraseFails = 0 PROVE Spec => [](Sound => ReadsBack)
<1> DEFINE Inv == TypeInv /\ AccInv /\ (Sound => UseInv /\ DataInv)
<1>1. ASSUME Inv, [Next]_vars PROVE Inv'
  <2>1. TypeInv' /\ AccInv'
    BY <1>1, TypesNext, AccNext
  <2>2. ASSUME Sound' PROVE UseInv' /\ DataInv'
    <3>1. Sound /\ ~PowerCut
      BY <1>1, <2>2, SoundBefore
    <3> QED BY <1>1, <2>2, <3>1, UseKept, DataNext
  <2> QED BY <2>1, <2>2
<1>2. Init => Inv
  BY TypesInit, AccInit, UseInit, DataInit
<1>3. Inv => (Sound => ReadsBack)
  BY DataReads
<1> QED BY <1>1, <1>2, <1>3, PTL DEF Spec

-----------------------------------------------------------------------------
(* The order in which pages are programmed.  The invariant says of every    *)
(* block that is being filled which of its pages are still erased; it holds *)
(* through failing programs and the replacement of bad blocks as well.      *)

\* Pages are taken from the log block, or will be when its data block is replaced.
LogTakes == logBlk # None /\ (pc \notin Merges \union {"erase", "restore"} \/ (pc = "restore" /\ bm.ret = "datainfo"))
LogRoom == LogTakes => \A q \in Pages : Filled(q) \/ flash[logBlk][q] = Erased
CopyRoom == pc \in {"swap", "simple"} => \A q \in Pages : q < job.p \/ flash[job.blk][q] = Erased
MoveRooms ==
    pc = "move" => /\ \A q \in Pages : (Reached(q) /\ q <= job.last) \/ flash[job.blk][q] = Erased
                   /\ job.p # -1 => job.dst % BANKS = job.p % BANKS
MovedRoom == pc = "erase" /\ job.kind = "move" => \A q \in Pages : q <= job.last \/ flash[job.blk][q] = Erased
RestoreRoom == pc = "restore" => bm.p <= bm.n /\ \A q \in Pages : q < bm.p \/ flash[bm.new][q] = Erased
RoomInv == pc \notin {"off", "scan"} /\ LogRoom /\ CopyRoom /\ MoveRooms /\ MovedRoom /\ RestoreRoom

\* Nothing is programmed.
LEMMA RuleSame == ASSUME UNCHANGED flash PROVE ProgramRule
BY DEF ProgramRule

\* Page p of block b is programmed: it is erased, and so are those behind it in its bank.
LEMMA RuleProgram ==
    ASSUME flash \in Blocks, NEW b \in Phys, NEW p \in Pages, NEW content, flash' = Programmed(b, p, content),
           \A q \in Pages : q >= p /\ q % BANKS = p % BANKS => flash[b][q] = Erased
    PROVE  /\ ProgramRule
           /\ \A c \in Phys \ {b} : flash'[c] = flash[c]
           /\ \A q \in Pages \ {p} : flash'[b][q] = flash[b][q]
<1>1. p \in Nat /\ p >= p
  BY DEF Pages
<1>2. flash[b][p] = Erased
  BY <1>1
<1>3. /\ \A c \in Phys \ {b} : flash'[c] = flash[c]
      /\ \A q \in Pages \ {p} : flash'[b][q] = flash[b][q]
  BY <1>2, ErasedTakes
<1>4. \A q \in p + 1 .. PAGES - 1 : q \in Pages /\ q >= p
  BY <1>1, Geometry DEF Pages
<1>5. \A q \in p + 1 .. PAGES - 1 : q % BANKS = p % BANKS => flash[b][q] = Erased
  BY <1>4
<1> QED BY <1>2, <1>3, <1>5 DEF ProgramRule

\* The pages from p on are erased.
LEMMA RuleTail ==
    ASSUME flash \in Blocks, NEW b \in Phys, NEW p \in Pages, NEW content, flash' = Programmed(b, p, content),
           \A q \in Pages : q < p \/ flash[b][q] = Erased
    PROVE  /\ ProgramRule
           /\ \A c \in Phys \ {b} : flash'[c] = flash[c]
           /\ \A q \in Pages \ {p} : flash'[b][q] = flash[b][q]
<1>1. \A q \in Pages : q >= p => ~(q < p)
  BY DEF Pages
<1>2. \A q \in Pages : q >= p /\ q % BANKS = p % BANKS => flash[b][q] = Erased
  BY <1>1
<1> QED BY <1>2, RuleProgram

\* What is left of a page whose program has failed.
LEMMA RuinRule ==
    ASSUME TypeInv, NEW f \in flight, Ruin(f)
    PROVE  ProgramRule /\ \A c \in Phys, q \in Pages : flash[c][q] = Erased => flash'[c][q] = Erased
<1>1. flash \in Blocks /\ flight \in Flights
  BY Typed DEF TypeInv
<1> PICK b \in Phys : b = f.b
  BY <1>1 DEF Flights
<1> PICK p \in Pages : p = f.p
  BY <1>1 DEF Flights
<1>2. flash' = [flash EXCEPT ![b][p].val = Junk]
  BY DEF Ruin
<1>3. PICK x : x = [flash[b][p] EXCEPT !.val = Junk]
  OBVIOUS
<1>4. /\ \A c \in Phys \ {b} : flash'[c] = flash[c]
      /\ \A q \in Pages \ {p} : flash'[b][q] = flash[b][q]
      /\ flash'[b][p] = x
  BY <1>1, <1>2, <1>3 DEF Blocks
<1>5. flash[b][p] = Erased => x = Erased
  <2>1. flash[b][p] \in Page
    BY <1>1 DEF Blocks
  <2>2. x.info = flash[b][p].info /\ (flash[b][p] = Erased => x = Erased)
    BY <1>3, <2>1 DEF Page, Erased
  <2> QED BY <2>2
<1>6. ProgramRule
  BY <1>3, <1>4 DEF ProgramRule
<1>7. \A c \in Phys, q \in Pages : flash[c][q] = Erased => flash'[c][q] = Erased
  <2> SUFFICES ASSUME NEW c \in Phys, NEW q \in Pages, flash[c][q] = Erased
               PROVE  flash'[c][q] = Erased
    OBVIOUS
  <2> QED BY <1>4, <1>5
<1> QED BY <1>6, <1>7

\* A step outside the merges and the replacement of bad blocks.
Taking == pc \notin Merges \union {"erase", "restore", "off", "scan"}
LEMMA RoomKeep ==
    ASSUME TypeInv, RoomInv, Taking, Taking', UNCHANGED <<logBlk, lastUsed>>, pc' # "program", pc # "program",
           logBlk # None => flash'[logBlk] = flash[logBlk]
    PROVE  RoomInv'
<1>1. \A q \in Pages : Filled(q) => Filled(q)'
  BY DEF Filled
<1>2. LogRoom'
  <2> SUFFICES ASSUME logBlk # None, NEW q \in Pages, ~Filled(q)'
               PROVE  flash'[logBlk][q] = Erased
    BY DEF LogRoom, LogTakes
  <2>1. flash[logBlk][q] = Erased
    BY <1>1 DEF RoomInv, LogRoom, LogTakes, Taking
  <2> QED BY <2>1
<1> QED BY <1>2 DEF RoomInv, CopyRoom, MoveRooms, MovedRoom, RestoreRoom, Taking, Merges

LEMMA RoomStill ==
    ASSUME TypeInv, RoomInv, Taking, Taking', UNCHANGED <<flash, logBlk, lastUsed>>, pc' # "program", pc # "program"
    PROVE  RoomInv' /\ ProgramRule
BY RoomKeep, RuleSame

\* A program fails: a free block takes the first n pages of the bad one.
LEMMA RoomSpare ==
    ASSUME TypeInv, UseInv, RoomInv, AccInv', pc \in Returned, NEW b, NEW n \in Nat,
           LML_BadBlkManage(b, n, pc), UNCHANGED <<logBlk, lastUsed>>,
           UNCHANGED flash \/ \E f \in flight : Ruin(f)
    PROVE  RoomInv' /\ ProgramRule
<1>1. PICK new \in free : pc' = "restore" /\ bm' = [bad |-> b, n |-> n, new |-> new, p |-> 0, ret |-> pc]
  BY DEF LML_BadBlkManage, GiveUp, AccInv
<1>2. ProgramRule /\ \A c \in Phys, q \in Pages : flash[c][q] = Erased => flash'[c][q] = Erased
  BY RuleSame, RuinRule
<1>3. new \in Phys /\ flash[new] = ErasedBlock
  BY Typed DEF TypeInv, UseInv, Stored, FreeErased, Known, RoomInv
<1>4. RestoreRoom'
  BY <1>1, <1>2, <1>3, ErasedKnown DEF RestoreRoom
<1>5. LogRoom'
  <2> SUFFICES ASSUME logBlk # None, pc = "datainfo", NEW q \in Pages, ~Filled(q)'
               PROVE  flash'[logBlk][q] = Erased
    BY <1>1 DEF LogRoom, LogTakes
  <2>1. ~Filled(q)
    BY <1>1 DEF Filled
  <2>2. flash[logBlk][q] = Erased
    BY <2>1 DEF RoomInv, LogRoom, LogTakes, Merges
  <2>3. logBlk \in Phys
    BY Typed DEF TypeInv
  <2> QED BY <1>2, <2>2, <2>3
<1> QED BY <1>1, <1>2, <1>4, <1>5 DEF RoomInv, CopyRoom, MoveRooms, MovedRoom

-----------------------------------------------------------------------------
(* Outside the merges.                                                      *)

LEMMA RoomInit == ASSUME Init PROVE RoomInv
BY DEF Init, RoomInv, LogRoom, LogTakes, CopyRoom, MoveRooms, MovedRoom, RestoreRoom

LEMMA RoomPageWrite == ASSUME TypeInv, RoomInv, NEW i \in count.load.pages, LML_PageWrite(i) PROVE RoomInv' /\ ProgramRule
<1>1. pc = "idle" /\ pc' = "getlog" /\ UNCHANGED <<flash, logBlk, lastUsed>>
  BY DEF LML_PageWrite, tables
<1> QED BY <1>1, RoomStill DEF Taking, Merges

LEMMA RoomSwitch == ASSUME TypeInv, RoomInv, pc \in {"idle", "getlog", "merge"}, PMM_SwitchMapTbl PROVE RoomInv' /\ ProgramRule
<1>1. pc' = pc /\ UNCHANGED <<flash, logBlk, lastUsed>>
  BY DEF PMM_SwitchMapTbl
<1> QED BY <1>1, RoomStill DEF Taking, Merges

LEMMA RoomWriteBackMapTbl == ASSUME TypeInv, RoomInv, WriteBackMapTbl PROVE RoomInv' /\ ProgramRule
<1>1. pc = "idle" /\ pc' = pc /\ UNCHANGED <<flash, logBlk, lastUsed>>
  BY DEF WriteBackMapTbl, Closed, tables
<1> QED BY <1>1, RoomStill DEF Taking, Merges

LEMMA RoomMergeOldest == ASSUME TypeInv, RoomInv, MergeOldest PROVE RoomInv' /\ ProgramRule
<1>1. pc = "idle" /\ pc' = "merge" /\ UNCHANGED <<flash, logBlk, lastUsed>>
  BY DEF MergeOldest, Closed, tables
<1> QED BY <1>1, RoomStill DEF Taking, Merges

LEMMA RoomEvictPageMap == ASSUME TypeInv, RoomInv, EvictPageMap PROVE RoomInv' /\ ProgramRule
<1>1. pc = "idle" /\ pc' \in {"idle", "merge", "table"} /\ UNCHANGED <<flash, logBlk, lastUsed>>
  BY DEF EvictPageMap, Closed
<1> QED BY <1>1, RoomStill DEF Taking, Merges

LEMMA RoomCloseWritePage == ASSUME TypeInv, TypeInv', UseInv, AccInv', RoomInv, CloseWritePage PROVE RoomInv' /\ ProgramRule
<1>1. pc = "idle" /\ UNCHANGED <<logBlk, lastUsed>>
  BY DEF CloseWritePage
<1>2. CASE UNCHANGED <<flash, pc>>
  BY <1>1, <1>2, RoomStill DEF Taking, Merges
<1>3. CASE ~UNCHANGED <<flash, pc>>
  <2>1. LML_BadBlkManage(logBlk, lastUsed + 1, "idle") /\ \E f \in flight : f.p = lastUsed /\ Ruin(f)
    BY <1>3 DEF CloseWritePage
  <2>2. lastUsed + 1 \in Nat
    <3>1. flight \in Flights
      BY Typed DEF TypeInv
    <3>2. lastUsed \in Nat
      BY <2>1, <3>1 DEF Flights, Pages
    <3> QED BY <3>2
  <2> QED BY <1>1, <2>1, <2>2, RoomSpare DEF Returned
<1> QED BY <1>2, <1>3

LEMMA RoomCreateNewLogBlk == ASSUME TypeInv, UseInv, RoomInv, CreateNewLogBlk PROVE RoomInv' /\ ProgramRule
<1>1. PICK b \in free : logBlk' = b
  BY DEF CreateNewLogBlk
<1>2. pc = "getlog" /\ pc' = "datainfo" /\ UNCHANGED flash
  BY DEF CreateNewLogBlk
<1>3. flash[b] = ErasedBlock
  BY <1>1, <1>2 DEF UseInv, Stored, FreeErased, Known
<1>4. LogRoom'
  BY <1>1, <1>2, <1>3, ErasedKnown DEF LogRoom
<1> QED BY <1>2, <1>4, RuleSame DEF RoomInv, CopyRoom, MoveRooms, MovedRoom, RestoreRoom, Merges

\* The page map names a log page: at most page 0 has been programmed for it.
LEMMA RoomTakeLogPage ==
    ASSUME TypeInv, RoomInv, pc \in {"getlog", "loginfo"}, logBlk # None, TakeLogPage, UNCHANGED logBlk,
           \A q \in Pages : flash'[logBlk][q] = flash[logBlk][q] \/ (q = 0 /\ lastUsed = None /\ lastUsed' # 0)
    PROVE  RoomInv'
<1> DEFINE t == NextLogPage(lastUsed, req.lp)
<1>1. lastUsed' = t /\ pc' = "program"
  BY DEF TakeLogPage
<1>2. lastUsed \in Pages \union {None} /\ req.lp \in Pages
  BY Typed DEF TypeInv, RecordsOK, Requests, PagesNamed, Mode
<1>3. t \in Nat /\ t # None /\ (lastUsed # None => t > lastUsed /\ lastUsed \in Nat)
  BY <1>2, NextLogPageBehind, NextLogPageRange, NotNone DEF Pages
<1> HIDE DEF t
<1>4. \A q \in Pages : Filled(q) => Filled(q)'
  <2> SUFFICES ASSUME NEW q \in Pages, Filled(q)
               PROVE  Filled(q)'
    OBVIOUS
  <2>1. lastUsed # None /\ q \in Nat /\ q <= lastUsed
    BY <1>3 DEF Filled, Pages
  <2>2. q < t
    BY <1>3, <2>1
  <2> QED BY <1>1, <1>3, <2>2 DEF Filled
<1>5. lastUsed' # 0 => Filled(0)'
  <2> HAVE lastUsed' # 0
  <2>1. 0 < t
    BY <1>1, <1>3
  <2> QED BY <1>1, <1>3, <2>1 DEF Filled
<1>6. LogRoom'
  <2> SUFFICES ASSUME NEW q \in Pages, ~Filled(q)'
               PROVE  flash'[logBlk][q] = Erased
    BY DEF LogRoom
  <2>1. flash[logBlk][q] = Erased
    BY <1>4 DEF RoomInv, LogRoom, LogTakes, Merges
  <2> QED BY <1>5, <2>1
<1> QED BY <1>1, <1>6 DEF RoomInv, CopyRoom, MoveRooms, MovedRoom, RestoreRoom, Merges

LEMMA RoomGetLogPage == ASSUME TypeInv, TypeInv', AccInv', RoomInv, GetLogPage PROVE RoomInv' /\ ProgramRule
<1>1. /\ pc = "getlog" /\ logBlk # None /\ UNCHANGED <<flash, logBlk>>
      /\ TakeLogPage \/ (pc' \in {"loginfo", "merge"} /\ UNCHANGED lastUsed)
  <2>1. pc' # "fail"
    BY DEF AccInv
  <2> QED BY <2>1, Zenon DEF GetLogPage, HasRoom
<1>2. CASE TakeLogPage
  BY <1>1, <1>2, RoomTakeLogPage, RuleSame
<1>3. CASE pc' \in {"loginfo", "merge"} /\ UNCHANGED lastUsed
  BY <1>1, <1>3, RoomStill DEF Taking, Merges
<1> QED BY <1>1, <1>2, <1>3

\* Page 0 of a data block without logical information: the block is erased.
LEMMA RoomWriteDataInfo == ASSUME TypeInv, AccInv, AccInv', UseInv, RoomInv, WriteDataInfo PROVE RoomInv' /\ ProgramRule
<1>1. pc = "datainfo" /\ UNCHANGED <<logBlk, lastUsed>> /\ flash \in Blocks /\ Known
  BY Typed DEF WriteDataInfo, TypeInv, Known
<1>2. CASE flash[dataBlk][0].info
  <2>1. pc' = "getlog" /\ UNCHANGED flash
    BY <1>2 DEF WriteDataInfo
  <2> QED BY <1>1, <2>1, RoomStill DEF Taking, Merges
<1>3. CASE ~flash[dataBlk][0].info
  <2>1. CASE Failed /\ LML_BadBlkManage(dataBlk, 0, "datainfo") /\ UNCHANGED flash
    BY <1>1, <2>1, RoomSpare DEF Returned
  <2>2. CASE Program(dataBlk, 0, [info |-> TRUE, status |-> FreeMark, lp |-> None, val |-> Junk]) /\ pc' = "getlog"
    <3>1. Accounted /\ Log = logBlk /\ dataBlk # None
      BY <1>1 DEF AccInv, Log, Mode, TypeInv, BlocksNamed
    <3>2. dataBlk \in Phys /\ dataBlk # logBlk /\ dataBlk \notin bad
      BY <3>1, Typed DEF TypeInv, Accounted, Split, Roles
    <3>3. flash[dataBlk] = ErasedBlock
      BY <1>3, <3>2 DEF UseInv, Stored, Blank
    <3>4. 0 \in Pages /\ \A q \in Pages : flash[dataBlk][q] = Erased
      BY <3>3, Geometry, ErasedKnown
    <3>5. PICK content : flash' = Programmed(dataBlk, 0, content)
      BY <2>2 DEF Program
    <3>6. ProgramRule /\ \A c \in Phys \ {dataBlk} : flash'[c] = flash[c]
      BY <1>1, <3>2, <3>4, <3>5, RuleTail
    <3>7. logBlk # None => flash'[logBlk] = flash[logBlk]
      BY <3>2, <3>6, Typed DEF TypeInv
    <3> QED BY <1>1, <2>2, <3>6, <3>7, RoomKeep DEF Taking, Merges
  <2> QED BY <1>3, <2>1, <2>2 DEF WriteDataInfo
<1> QED BY <1>2, <1>3

LEMMA RoomWriteLogInfo == ASSUME TypeInv, AccInv', UseInv, RoomInv, WriteLogInfo PROVE RoomInv' /\ ProgramRule
<1>1. pc = "loginfo" /\ UNCHANGED logBlk /\ flash \in Blocks /\ logBlk # None /\ logBlk \in Phys
  BY Typed DEF WriteLogInfo, TypeInv, BlocksNamed, Mode
<1>2. CASE LML_BadBlkManage(logBlk, 0, "loginfo") /\ UNCHANGED <<flash, lastUsed>>
  BY <1>1, <1>2, RoomSpare DEF Returned
<1>3. CASE Program(logBlk, 0, [info |-> TRUE, status |-> LogAge, lp |-> None, val |-> Junk]) /\ TakeLogPage
  <2>1. lastUsed = None /\ NextLogPage(lastUsed, req.lp) # 0
    BY <1>1 DEF UseInv, LogInfo, Mode
  <2>2. 0 \in Pages /\ \A q \in Pages : flash[logBlk][q] = Erased
    BY <1>1, <2>1, Geometry DEF RoomInv, LogRoom, LogTakes, Filled, Merges
  <2>3. PICK content : flash' = Programmed(logBlk, 0, content)
    BY <1>3 DEF Program
  <2>4. ProgramRule /\ \A q \in Pages \ {0} : flash'[logBlk][q] = flash[logBlk][q]
    BY <1>1, <2>2, <2>3, RuleTail
  <2>5. lastUsed' # 0
    BY <1>3, <2>1 DEF TakeLogPage
  <2>6. \A q \in Pages : flash'[logBlk][q] = flash[logBlk][q] \/ (q = 0 /\ lastUsed = None /\ lastUsed' # 0)
    BY <2>1, <2>4, <2>5
  <2> QED BY <1>1, <1>3, <2>4, <2>6, RoomTakeLogPage
<1> QED BY <1>2, <1>3 DEF WriteLogInfo

LEMMA RoomProgramPage == ASSUME TypeInv, RoomInv, ProgramPage PROVE RoomInv' /\ ProgramRule
<1>1. /\ pc = "program" /\ pc' = "idle" /\ UNCHANGED <<logBlk, lastUsed>> /\ flash \in Blocks
      /\ logBlk # None /\ logBlk \in Phys /\ lastUsed # None /\ lastUsed \in Pages
  BY Typed DEF ProgramPage, TypeInv, BlocksNamed, PagesNamed, Mode, tables
<1>2. \A q \in Pages : q < lastUsed \/ flash[logBlk][q] = Erased
  BY <1>1 DEF RoomInv, LogRoom, LogTakes, Filled, Merges
<1>3. PICK content : flash' = Programmed(logBlk, lastUsed, content)
  BY DEF ProgramPage
<1>4. ProgramRule /\ \A q \in Pages \ {lastUsed} : flash'[logBlk][q] = flash[logBlk][q]
  BY <1>1, <1>2, <1>3, RuleTail
<1>5. LogRoom'
  BY <1>1, <1>2, <1>4 DEF LogRoom, Filled
<1> QED BY <1>1, <1>4, <1>5 DEF RoomInv, CopyRoom, MoveRooms, MovedRoom, RestoreRoom, Merges

LEMMA RoomSyncFails == ASSUME TypeInv, AccInv', UseInv, RoomInv, SyncFails PROVE RoomInv' /\ ProgramRule
<1>1. /\ pc = "program" /\ UNCHANGED <<logBlk, lastUsed>> /\ LML_BadBlkManage(logBlk, lastUsed, "program")
      /\ \E f \in flight : Ruin(f)
  BY DEF SyncFails
<1>2. lastUsed \in Nat
  BY <1>1, Typed DEF TypeInv, PagesNamed, Mode, Pages
<1> QED BY <1>1, <1>2, RoomSpare DEF Returned

LEMMA RoomWritePageMapTbl == ASSUME TypeInv, AccInv', UseInv, RoomInv, WritePageMapTbl PROVE RoomInv' /\ ProgramRule
<1>1. /\ pc = "table" /\ UNCHANGED logBlk /\ flash \in Blocks
      /\ logBlk # None /\ logBlk \in Phys /\ lastUsed \in Pages /\ lastUsed # None /\ lastUsed + 1 < PAGES
  BY Typed DEF WritePageMapTbl, TypeInv, BlocksNamed, PagesNamed, Mode
<1>2. lastUsed \in Nat /\ lastUsed + 1 \in Pages /\ lastUsed + 1 # None
  BY <1>1, Geometry, NotNone DEF Pages
<1>3. CASE LML_BadBlkManage(logBlk, lastUsed + 1, "table") /\ UNCHANGED <<flash, lastUsed>>
  BY <1>1, <1>2, <1>3, RoomSpare DEF Returned
<1>4. CASE /\ Program(logBlk, lastUsed + 1, [info |-> FALSE, status |-> TableMark, lp |-> None, val |-> Junk])
           /\ lastUsed' = lastUsed + 1 /\ pc' = "idle"
  <2>1. PICK content : flash' = Programmed(logBlk, lastUsed + 1, content)
    BY <1>4 DEF Program
  <2>2. \A q \in Pages : q < lastUsed + 1 \/ flash[logBlk][q] = Erased
    <3>1. \A q \in Pages : Filled(q) => q < lastUsed + 1
      BY <1>1, <1>2 DEF Filled, Pages
    <3> QED BY <1>1, <3>1 DEF RoomInv, LogRoom, LogTakes, Merges
  <2>3. ProgramRule /\ \A q \in Pages \ {lastUsed + 1} : flash'[logBlk][q] = flash[logBlk][q]
    BY <1>1, <1>2, <2>1, <2>2, RuleTail
  <2>4. LogRoom'
    <3> SUFFICES ASSUME NEW q \in Pages, ~Filled(q)'
                 PROVE  flash'[logBlk][q] = Erased
      BY <1>1 DEF LogRoom
    <3>1. ~(q < lastUsed + 1) /\ q # lastUsed + 1
      BY <1>2, <1>4 DEF Filled
    <3> QED BY <2>2, <2>3, <3>1
  <2> QED BY <1>1, <1>4, <2>3, <2>4 DEF RoomInv, CopyRoom, MoveRooms, MovedRoom, RestoreRoom, Merges
<1> QED BY <1>3, <1>4 DEF WritePageMapTbl

LEMMA RoomMergeLogBlk == ASSUME TypeInv, AccInv', UseInv, RoomInv, LML_MergeLogBlk PROVE RoomInv' /\ ProgramRule
<1>1. pc = "merge" /\ UNCHANGED flash /\ pc' # "fail" /\ logBlk # None
  BY DEF LML_MergeLogBlk, AccInv, TypeInv, BlocksNamed, Mode
<1>2. CASE InOrder
  <2>1. /\ pc' = "swap" /\ job' = [NoJob EXCEPT !.kind = "swap", !.p = lastUsed + 1, !.blk = logBlk]
    BY <1>2 DEF LML_MergeLogBlk
  <2>2. job'.p = lastUsed + 1 /\ job'.blk = logBlk /\ lastUsed \in Nat
    BY <1>2, <2>1, Typed DEF InOrder, TypeInv, NoJob, Pages
  <2>3. \A q \in Pages : Filled(q) => q < lastUsed + 1
    BY <2>2 DEF Filled, Pages
  <2>4. CopyRoom'
    BY <1>1, <2>1, <2>2, <2>3 DEF CopyRoom, RoomInv, LogRoom, LogTakes, Merges
  <2> QED BY <1>1, <2>1, <2>4, RuleSame DEF RoomInv, LogRoom, LogTakes, MoveRooms, MovedRoom, RestoreRoom, Merges
<1>3. CASE ~InOrder
  <2>1. PICK b \in free : /\ pc' = job'.kind
                          /\ \/ job' = [NoJob EXCEPT !.kind = "move", !.p = -1, !.blk = b]
                             \/ job' = [NoJob EXCEPT !.kind = "simple", !.blk = b]
    BY <1>1, <1>3 DEF LML_MergeLogBlk, GiveUp
  <2>2. pc' \in {"move", "simple"} /\ job'.blk = b /\ (pc' = "move" => job'.p = -1)
    BY <2>1 DEF NoJob
  <2>3. \A q \in Pages : flash'[job'.blk][q] = Erased
    BY <1>1, <2>2, ErasedKnown DEF UseInv, Stored, FreeErased, Known
  <2> QED BY <1>1, <2>2, <2>3, RuleSame
          DEF RoomInv, LogRoom, LogTakes, CopyRoom, MoveRooms, MovedRoom, RestoreRoom, Merges
<1> QED BY <1>2, <1>3

-----------------------------------------------------------------------------
(* Inside the merges, and the replacement of bad blocks.                    *)

\* A copy fails: nothing of the new block counts, or the pages that are copied so far.
LEMMA RoomCopyFails ==
    ASSUME TypeInv, AccInv, UseInv, RoomInv, AccInv', pc \in Merges, NEW n \in Nat, CopyFails(n), UNCHANGED <<logBlk, lastUsed>>
    PROVE  RoomInv' /\ ProgramRule
<1>1. job.kind = pc
  BY MergeBlocks
<1>2. LML_BadBlkManage(job.blk, n, pc) /\ UNCHANGED flash
  BY <1>1 DEF CopyFails
<1> QED BY <1>2, RoomSpare DEF Returned, Merges

LEMMA RoomSwapCopy == ASSUME TypeInv, AccInv, AccInv', UseInv, RoomInv, SwapCopy PROVE RoomInv' /\ ProgramRule
<1>1. pc = "swap" /\ pc \in Merges /\ job.p < PAGES /\ UNCHANGED <<logBlk, lastUsed>>
  BY DEF SwapCopy, Merges
<1>2. flash \in Blocks /\ job \in Jobs /\ job.blk \in Phys /\ job.p \in Nat /\ job.p \in Pages
  <2>1. flash \in Blocks /\ job \in Jobs /\ job.blk \in Phys
    BY <1>1, MergeBlocks
  <2>2. job.p \in Nat
    BY <1>1 DEF TypeInv, PagesNamed, Mode
  <2> QED BY <1>1, <2>1, <2>2, Geometry DEF Pages
<1>3. CASE CopyFails(job.p)
  BY <1>1, <1>2, <1>3, RoomCopyFails
<1>4. CASE Program(job.blk, job.p, flash[dataBlk][job.p]) /\ job' = [job EXCEPT !.p = @ + 1] /\ UNCHANGED pc
  <2>1. PICK content : flash' = Programmed(job.blk, job.p, content)
    BY <1>4 DEF Program
  <2>2. \A q \in Pages : q < job.p \/ flash[job.blk][q] = Erased
    BY <1>1 DEF RoomInv, CopyRoom
  <2>3. ProgramRule /\ \A q \in Pages \ {job.p} : flash'[job.blk][q] = flash[job.blk][q]
    BY <1>2, <2>1, <2>2, RuleTail
  <2>4. job'.p = job.p + 1 /\ job'.blk = job.blk
    BY <1>2, <1>4 DEF Jobs
  <2>5. \A q \in Pages : q < job.p + 1 \/ flash'[job.blk][q] = Erased
    <3> SUFFICES ASSUME NEW q \in Pages, ~(q < job.p + 1)
                 PROVE  flash'[job.blk][q] = Erased
      OBVIOUS
    <3>1. q # job.p /\ ~(q < job.p)
      BY <1>2 DEF Pages
    <3> QED BY <2>2, <2>3, <3>1
  <2> QED BY <1>1, <1>4, <2>3, <2>4, <2>5 DEF RoomInv, LogRoom, LogTakes, CopyRoom, MoveRooms, MovedRoom, RestoreRoom
<1> QED BY <1>3, <1>4 DEF SwapCopy

LEMMA RoomSimpleCopy == ASSUME TypeInv, AccInv, AccInv', UseInv, RoomInv, SimpleCopy PROVE RoomInv' /\ ProgramRule
<1>1. pc = "simple" /\ pc \in Merges /\ job.p < PAGES /\ UNCHANGED <<logBlk, lastUsed>>
  BY DEF SimpleCopy, Merges
<1>2. flash \in Blocks /\ job \in Jobs /\ job.blk \in Phys /\ job.p \in Nat /\ job.p \in Pages
  <2>1. flash \in Blocks /\ job \in Jobs /\ job.blk \in Phys
    BY <1>1, MergeBlocks
  <2>2. job.p \in Nat
    BY <1>1 DEF TypeInv, PagesNamed, Mode
  <2> QED BY <1>1, <2>1, <2>2, Geometry DEF Pages
<1>3. CASE CopyFails(job.p)
  BY <1>1, <1>2, <1>3, RoomCopyFails
<1>4. CASE ~CopyFails(job.p)
  <2>0. PICK content : flash' = Programmed(job.blk, job.p, content) /\ job' = [job EXCEPT !.p = @ + 1] /\ UNCHANGED pc
    BY <1>4, Zenon DEF SimpleCopy, Program
  <2>2. \A q \in Pages : q < job.p \/ flash[job.blk][q] = Erased
    BY <1>1 DEF RoomInv, CopyRoom
  <2>3. ProgramRule /\ \A q \in Pages \ {job.p} : flash'[job.blk][q] = flash[job.blk][q]
    BY <1>2, <2>0, <2>2, RuleTail
  <2>4. job'.p = job.p + 1 /\ job'.blk = job.blk
    BY <1>2, <2>0 DEF Jobs
  <2>5. \A q \in Pages : q < job.p + 1 \/ flash'[job.blk][q] = Erased
    <3> SUFFICES ASSUME NEW q \in Pages, ~(q < job.p + 1)
                 PROVE  flash'[job.blk][q] = Erased
      OBVIOUS
    <3>1. q # job.p /\ ~(q < job.p)
      BY <1>2 DEF Pages
    <3> QED BY <2>2, <2>3, <3>1
  <2> QED BY <1>1, <2>0, <2>3, <2>4, <2>5 DEF RoomInv, LogRoom, LogTakes, CopyRoom, MoveRooms, MovedRoom, RestoreRoom
<1> QED BY <1>3, <1>4

\* A block is given up: control waits for the erase of the old blocks.
LEMMA RoomSwapDone == ASSUME TypeInv, AccInv, UseInv, RoomInv, SwapDone \/ SimpleDone PROVE RoomInv' /\ ProgramRule
<1>1. /\ pc \in {"swap", "simple"} /\ pc \in Merges /\ pc' = "erase" /\ UNCHANGED flash
      /\ \E e : job' = [job EXCEPT !.toErase = e]
  BY DEF SwapDone, SimpleDone, Merges
<1>2. job \in Jobs /\ job.kind = pc
  BY <1>1, MergeBlocks
<1>3. job'.kind = pc
  BY <1>1, <1>2 DEF Jobs
<1> QED BY <1>1, <1>3, RuleSame DEF RoomInv, LogRoom, LogTakes, CopyRoom, MoveRooms, MovedRoom, RestoreRoom

LEMMA RoomMoveDone == ASSUME TypeInv, AccInv, UseInv, RoomInv, MoveDone PROVE RoomInv' /\ ProgramRule
<1>1. /\ pc = "move" /\ pc \in Merges /\ pc' = "erase" /\ UNCHANGED flash
      /\ job' = [job EXCEPT !.toErase = <<logBlk>>]
  BY DEF MoveDone, Merges
<1>2. job \in Jobs
  BY <1>1, MergeBlocks
<1>3. job'.blk = job.blk /\ job'.last = job.last
  BY <1>1, <1>2 DEF Jobs
<1>4. MovedRoom'
  BY <1>1, <1>3 DEF RoomInv, MoveRooms, MovedRoom
<1> QED BY <1>1, <1>4, RuleSame DEF RoomInv, LogRoom, LogTakes, CopyRoom, MoveRooms, RestoreRoom

LEMMA RoomMovePage0 == ASSUME TypeInv, AccInv, AccInv', UseInv, RoomInv, MovePage0 PROVE RoomInv' /\ ProgramRule
<1>1. pc = "move" /\ pc \in Merges /\ job.dst = None /\ UNCHANGED <<logBlk, lastUsed>>
  BY DEF MovePage0, NeedsPage0, Merges
<1>2. flash \in Blocks /\ job \in Jobs /\ job.blk \in Phys /\ 0 \in Pages /\ 0 # None
  BY <1>1, MergeBlocks, Geometry, NotNone
<1>3. CASE CopyFails(0)
  BY <1>1, <1>3, RoomCopyFails
<1>4. CASE Program(job.blk, 0, CopiedPage0(logBlk, 0, 0)) /\ job' = [job EXCEPT !.dst = 0] /\ UNCHANGED pc
  <2>1. PICK content : flash' = Programmed(job.blk, 0, content)
    BY <1>4 DEF Program
  <2>2. job.p = -1 /\ flash[job.blk] = ErasedBlock
    <3>1. Mode = "move"
      BY <1>1 DEF Mode
    <3> QED BY <1>1, <3>1 DEF UseInv, MergeInfo, Begun
  <2>3. ProgramRule /\ \A q \in Pages \ {0} : flash'[job.blk][q] = flash[job.blk][q]
    BY <1>2, <2>1, <2>2, ErasedKnown, RuleTail
  <2>4. job'.dst = 0 /\ job'.p = -1 /\ job'.blk = job.blk /\ job'.last = job.last /\ job.last \in Nat
    BY <1>2, <1>4, <2>2 DEF Jobs
  <2>5. Reached(0)' /\ 0 <= job'.last
    BY <1>2, <2>4 DEF Reached
  <2>6. \A q \in Pages : (Reached(q)' /\ q <= job'.last) \/ flash'[job.blk][q] = Erased
    BY <2>2, <2>3, <2>5, ErasedKnown
  <2> QED BY <1>1, <1>4, <2>3, <2>4, <2>6 DEF RoomInv, LogRoom, LogTakes, CopyRoom, MoveRooms, MovedRoom, RestoreRoom
<1> QED BY <1>3, <1>4 DEF MovePage0

\* A page of a move merge: what has been reached in its bank lies before it.
LEMMA RoomMoveCopy == ASSUME TypeInv, AccInv, AccInv', UseInv, RoomInv, MoveCopy PROVE RoomInv' /\ ProgramRule
<1>0. PICK m, to : m = MoveNext /\ to = MoveTo(m)
  OBVIOUS
<1>1. pc = "move" /\ pc \in Merges /\ m # None /\ ~NeedsPage0 /\ UNCHANGED <<logBlk, lastUsed>>
  BY <1>0 DEF MoveCopy, Merges
<1>2. flash \in Blocks /\ job \in Jobs /\ job.blk \in Phys /\ job.last \in Nat
  BY <1>1, MergeBlocks DEF Jobs
<1>3. /\ job.p # -1 => job.p \in Pages /\ job.dst \in Nat
      /\ job.p # -1 => job.dst % BANKS = job.p % BANKS
  BY <1>1 DEF TypeInv, PagesNamed, Moving, RoomInv, MoveRooms
<1>4. /\ m \in Pages /\ m # -1 /\ to \in Pages /\ to # None /\ to % BANKS = m % BANKS /\ ~Reached(to)
      /\ job.p # -1 => /\ job.p % BANKS <= m % BANKS
                       /\ job.p % BANKS = m % BANKS => job.dst <= to
  BY <1>0, <1>1, <1>3, MoveNextThere
<1>5. to \in Nat /\ m % BANKS \in Nat /\ (job.p # -1 => job.p % BANKS \in Nat)
  BY <1>3, <1>4, Remainder DEF Pages
<1>6. CASE CopyFails(0)
  BY <1>1, <1>6, RoomCopyFails
<1>7. CASE ~CopyFails(0)
  <2>1. PICK content : /\ flash' = Programmed(job.blk, to, content) /\ UNCHANGED pc
                       /\ job' = [job EXCEPT !.p = m, !.dst = to, !.last = IF to > @ THEN to ELSE @]
    BY <1>0, <1>7, Zenon DEF MoveCopy, Program
  <2>2. \A q \in Pages : (Reached(q) /\ q <= job.last) \/ flash[job.blk][q] = Erased
    BY <1>1 DEF RoomInv, MoveRooms
  <2>3. ASSUME NEW q \in Pages, q >= to, q % BANKS = to % BANKS
        PROVE  ~Reached(q)
    <3>1. q \in Nat
      BY DEF Pages
    <3>2. ~(q = 0 /\ job.dst # None)
      <4> SUFFICES ASSUME q = 0, job.dst # None
                   PROVE  FALSE
        OBVIOUS
      <4>1. to = 0
        BY <1>5, <2>3
      <4> QED BY <1>4, <4>1 DEF Reached
    <3>3. ASSUME job.p # -1
          PROVE  ~(q % BANKS < job.p % BANKS) /\ ~(q % BANKS = job.p % BANKS /\ q <= job.dst)
      <4>1. ~(q % BANKS < job.p % BANKS)
        BY <1>4, <1>5, <2>3, <3>3
      <4>2. ~(q % BANKS = job.p % BANKS /\ q <= job.dst)
        <5> SUFFICES ASSUME q % BANKS = job.p % BANKS, q <= job.dst
                     PROVE  FALSE
          OBVIOUS
        <5>1. to <= job.dst /\ to % BANKS = job.p % BANKS
          BY <1>3, <1>5, <2>3, <3>1, <3>3
        <5> QED BY <1>4, <3>3, <5>1 DEF Reached
      <4> QED BY <4>1, <4>2
    <3> QED BY <3>2, <3>3 DEF Reached
  <2>4. \A q \in Pages : q >= to /\ q % BANKS = to % BANKS => flash[job.blk][q] = Erased
    BY <2>2, <2>3
  <2>5. ProgramRule /\ \A q \in Pages \ {to} : flash'[job.blk][q] = flash[job.blk][q]
    BY <1>2, <1>4, <2>1, <2>4, RuleProgram
  <2>6. job'.p = m /\ job'.dst = to /\ job'.blk = job.blk /\ job'.last = IF to > job.last THEN to ELSE job.last
    BY <1>2, <2>1 DEF Jobs
  <2>7. to <= job'.last /\ job.last <= job'.last /\ job'.last \in Nat
    BY <1>2, <1>5, <2>6
  <2>8. Reached(to)'
    BY <1>4, <1>5, <2>6 DEF Reached
  <2>9. \A q \in Pages : Reached(q) => Reached(q)'
    <3> SUFFICES ASSUME NEW q \in Pages, Reached(q)
                 PROVE  Reached(q)'
      OBVIOUS
    <3>1. CASE q = 0 /\ job.dst # None
      BY <1>4, <2>6, <3>1 DEF Reached
    <3>2. CASE job.p # -1 /\ (q % BANKS < job.p % BANKS \/ (q % BANKS = job.p % BANKS /\ q <= job.dst))
      <4>1. q % BANKS \in Nat /\ q \in Nat
        BY Remainder DEF Pages
      <4>2. q % BANKS < m % BANKS \/ (q % BANKS = m % BANKS /\ q <= to)
        <5>1. CASE job.p % BANKS = m % BANKS
          BY <1>3, <1>4, <1>5, <3>2, <4>1, <5>1
        <5>2. CASE job.p % BANKS # m % BANKS
          BY <1>4, <1>5, <3>2, <4>1, <5>2
        <5> QED BY <5>1, <5>2
      <4> QED BY <1>4, <2>6, <4>2 DEF Reached
    <3> QED BY <3>1, <3>2 DEF Reached
  <2>10. \A q \in Pages : (Reached(q)' /\ q <= job'.last) \/ flash'[job.blk][q] = Erased
    <3> SUFFICES ASSUME NEW q \in Pages, flash'[job.blk][q] # Erased
                 PROVE  Reached(q)' /\ q <= job'.last
      OBVIOUS
    <3>1. CASE q = to
      BY <2>7, <2>8, <3>1
    <3>2. CASE q # to
      <4>1. Reached(q) /\ q <= job.last
        BY <2>2, <2>5, <3>2
      <4>2. q \in Nat
        BY DEF Pages
      <4> QED BY <1>2, <2>7, <2>9, <4>1, <4>2
    <3> QED BY <3>1, <3>2
  <2> QED BY <1>1, <1>4, <2>1, <2>5, <2>6, <2>10
          DEF RoomInv, LogRoom, LogTakes, CopyRoom, MoveRooms, MovedRoom, RestoreRoom
<1> QED BY <1>6, <1>7

\* An erased block: the blocks in use are others.
LEMMA RoomEraseBlk == ASSUME TypeInv, AccInv, UseInv, RoomInv, MaxEraseFails = 0, EraseBlk PROVE RoomInv' /\ ProgramRule
<1>0. PICK b : b = job.toErase[1]
  OBVIOUS
<1>1. /\ pc = "erase" /\ pc' = "erase" /\ job.toErase # <<>> /\ flash' = [flash EXCEPT ![b] = ErasedBlock]
      /\ job' = [job EXCEPT !.toErase = Tail(@)]
  BY <1>0, NoEraseFails, Zenon DEF EraseBlk
<1>2. job \in Jobs /\ job.toErase \in Seq(Phys) /\ flash \in Blocks
  BY Typed DEF TypeInv, RecordsOK, Jobs
<1>3. job'.kind = job.kind /\ job'.blk = job.blk /\ job'.last = job.last
  BY <1>1, <1>2 DEF Jobs
<1>4. b \in Phys
  BY <1>0, <1>1, <1>2
<1>5. \A c \in Phys, q \in Pages : flash'[c][q] = flash[c][q] \/ flash'[c][q] = Erased
  BY <1>1, <1>2, <1>4, ErasedKnown DEF Blocks
<1>6. ProgramRule
  BY <1>5 DEF ProgramRule
<1>7. MovedRoom'
  <2> SUFFICES ASSUME job.kind = "move", NEW q \in Pages
               PROVE  q <= job.last \/ flash'[job.blk][q] = Erased
    BY <1>1, <1>3 DEF MovedRoom
  <2>1. job.blk \in Phys
    BY <1>1, <1>2 DEF TypeInv, BlocksNamed, Jobs
  <2>2. q <= job.last \/ flash[job.blk][q] = Erased
    BY <1>1 DEF RoomInv, MovedRoom
  <2> QED BY <1>5, <2>1, <2>2
<1> QED BY <1>1, <1>6, <1>7 DEF RoomInv, LogRoom, LogTakes, CopyRoom, MoveRooms, RestoreRoom

LEMMA RoomMergeDone == ASSUME TypeInv, RoomInv, MergeDone PROVE RoomInv' /\ ProgramRule
<1>1. /\ pc = "erase" /\ UNCHANGED flash /\ pc' \in {"getlog", "table", "idle"}
      /\ IF job.kind = "move" THEN logBlk' = job.blk /\ lastUsed' = job.last ELSE logBlk' = None
  BY DEF MergeDone, AfterMerge
<1>2. LogRoom'
  <2> SUFFICES ASSUME job.kind = "move", NEW q \in Pages, ~Filled(q)'
               PROVE  flash[job.blk][q] = Erased
    BY <1>1 DEF LogRoom, LogTakes
  <2>1. job.last \in Nat /\ job.last # None /\ q \in Nat
    BY NotNone DEF TypeInv, RecordsOK, Jobs, Pages
  <2>2. ~(q <= job.last)
    BY <1>1, <2>1 DEF Filled
  <2> QED BY <1>1, <2>2 DEF RoomInv, MovedRoom
<1> QED BY <1>1, <1>2, RuleSame DEF RoomInv, CopyRoom, MoveRooms, MovedRoom, RestoreRoom, Merges

LEMMA RoomRestorePageData == ASSUME TypeInv, AccInv, UseInv, RoomInv, RestorePageData PROVE RoomInv' /\ ProgramRule
<1>1. /\ pc = "restore" /\ bm.p < bm.n /\ Program(bm.new, bm.p, flash[bm.bad][bm.p])
      /\ bm' = [bm EXCEPT !.p = @ + 1] /\ UNCHANGED <<logBlk, lastUsed, pc>>
  BY DEF RestorePageData, tables
<1>2. bm \in BadJobs /\ bm.new \in Phys /\ flash \in Blocks
  BY <1>1, RestoreBlocks
<1>3. bm.p \in Nat /\ bm.p \in Pages /\ bm.n \in Nat
  BY <1>1, <1>2, Geometry DEF BadJobs, Pages
<1>4. PICK content : flash' = Programmed(bm.new, bm.p, content)
  BY <1>1 DEF Program
<1>5. \A q \in Pages : q < bm.p \/ flash[bm.new][q] = Erased
  BY <1>1 DEF RoomInv, RestoreRoom
<1>6. /\ ProgramRule
      /\ \A q \in Pages \ {bm.p} : flash'[bm.new][q] = flash[bm.new][q]
  BY <1>2, <1>3, <1>4, <1>5, RuleTail
<1>7. bm'.p = bm.p + 1 /\ bm'.n = bm.n /\ bm'.new = bm.new /\ bm'.ret = bm.ret
  BY <1>1, <1>2 DEF BadJobs
<1>8. RestoreRoom'
  <2>1. bm'.p <= bm'.n
    BY <1>1, <1>3, <1>7
  <2>2. ASSUME NEW q \in Pages, ~(q < bm.p + 1)
        PROVE  flash'[bm.new][q] = Erased
    <3>1. q # bm.p /\ ~(q < bm.p)
      BY <1>3, <2>2 DEF Pages
    <3> QED BY <1>5, <1>6, <3>1
  <2> QED BY <1>1, <1>7, <2>1, <2>2 DEF RestoreRoom
<1>9. bm.ret # "datainfo"
  <2> SUFFICES ASSUME bm.ret = "datainfo"
               PROVE  FALSE
    OBVIOUS
  <2>1. bm.n = 0
    BY <1>1 DEF UseInv, RestoreInfo, Copied
  <2> QED BY <1>1, <1>3, <2>1
<1> QED BY <1>1, <1>6, <1>7, <1>8, <1>9 DEF RoomInv, LogRoom, LogTakes, CopyRoom, MoveRooms, MovedRoom

LEMMA RoomRestoreFails == ASSUME TypeInv, AccInv, UseInv, AccInv', RoomInv, RestoreFails PROVE RoomInv' /\ ProgramRule
<1>1. /\ pc = "restore" /\ flash' = [flash EXCEPT ![bm.new] = MarkedBad] /\ bad' = bad \union {bm.new}
      /\ LML_BadBlkManage(bm.bad, bm.n, bm.ret) /\ UNCHANGED <<logBlk, lastUsed>>
  BY DEF RestoreFails
<1>2. PICK new \in free : pc' = "restore" /\ bm' = [bad |-> bm.bad, n |-> bm.n, new |-> new, p |-> 0, ret |-> bm.ret]
  BY <1>1 DEF LML_BadBlkManage, GiveUp, AccInv
<1>3. /\ bm.new \in Phys /\ bm.new \notin free /\ flash \in Blocks /\ bm \in BadJobs /\ Known
  BY <1>1, RestoreBlocks
<1>4. \A c \in Phys \ {bm.new} : flash'[c] = flash[c]
  BY <1>1, <1>3 DEF Blocks
<1>5. ProgramRule
  BY <1>1, <1>4 DEF ProgramRule
<1>6. new \in Phys /\ flash'[new] = ErasedBlock
  BY <1>2, <1>3, <1>4, Typed DEF TypeInv, UseInv, Stored, FreeErased
<1>7. RestoreRoom'
  BY <1>2, <1>3, <1>6, ErasedKnown DEF RestoreRoom, BadJobs
<1>8. bm'.ret = bm.ret
  BY <1>2
<1>9. bm.ret = "datainfo" /\ logBlk # None => flash'[logBlk] = flash[logBlk]
  <2> HAVE bm.ret = "datainfo" /\ logBlk # None
  <2>1. Log = logBlk /\ Spare = bm.new /\ Accounted
    BY <1>1, <1>3 DEF Log, Spare, Mode, AccInv
  <2>2. logBlk \in Phys \ {bm.new}
    BY <2>1, Typed DEF TypeInv, Accounted, Split
  <2> QED BY <1>4, <2>2
<1>10. LogRoom'
  BY <1>1, <1>2, <1>8, <1>9 DEF RoomInv, LogRoom, LogTakes, Filled
<1> QED BY <1>2, <1>5, <1>7, <1>10 DEF RoomInv, CopyRoom, MoveRooms, MovedRoom

\* The new block holds what the bad one held, up to the page in hand.
LEMMA RoomMarkBadBlk == ASSUME TypeInv, TypeInv', AccInv, UseInv, RoomInv, MarkBadBlk PROVE RoomInv' /\ ProgramRule
<1>0. PICK new, n, ret : new = bm.new /\ n = bm.n /\ ret = bm.ret
  OBVIOUS
<1>1. /\ pc = "restore" /\ bm.p = n /\ pc' = ret
      /\ flash' = [flash EXCEPT ![bm.bad] = MarkedBad] /\ bad' = bad \union {bm.bad}
      /\ logBlk' = IF ret \in {"loginfo", "program", "idle", "table"} THEN new ELSE logBlk
      /\ UNCHANGED lastUsed
      /\ job' = CASE ret \in {"swap", "simple"} -> [job EXCEPT !.blk = new]
                  [] ret = "move" -> [job EXCEPT !.blk = new, !.p = -1, !.dst = None, !.last = 0]
                  [] OTHER -> job
  BY <1>0 DEF MarkBadBlk, Replaced
<1>2. /\ Mode = ret /\ ret \in Returned /\ flash \in Blocks /\ bm \in BadJobs
      /\ new \in Phys /\ bm.bad \in Phys /\ new # bm.bad /\ job \in Jobs
  BY <1>0, <1>1, RestoreBlocks DEF TypeInv, RecordsOK
<1>3. \A c \in Phys \ {bm.bad} : flash'[c] = flash[c]
  BY <1>1, <1>2 DEF Blocks
<1>4. ProgramRule
  BY <1>1, <1>3 DEF ProgramRule
<1>5. \A q \in Pages : q < n \/ flash'[new][q] = Erased
  BY <1>0, <1>1, <1>2, <1>3 DEF RoomInv, RestoreRoom
<1>6. n = Copied(ret)
  BY <1>0, <1>1 DEF UseInv, RestoreInfo
<1>7. LogRoom'
  <2> SUFFICES ASSUME LogTakes', NEW q \in Pages, ~Filled(q)'
               PROVE  flash'[logBlk'][q] = Erased
    BY DEF LogRoom
  <2>1. ret \in {"datainfo", "loginfo", "program", "idle", "table"}
    BY <1>1, <1>2 DEF LogTakes, Returned, Merges
  <2>2. CASE ret = "datainfo"
    <3>1. logBlk' = logBlk /\ logBlk # None
      BY <1>1, <2>2 DEF LogTakes
    <3>2. Log = logBlk /\ Accounted /\ bm.bad = dataBlk
      BY <1>0, <1>1, <1>2, <2>2 DEF Log, AccInv, Victim, VictimAt
    <3>3. logBlk \in Phys \ {bm.bad}
      BY <3>1, <3>2, Typed DEF TypeInv, Accounted, Split
    <3>4. ~Filled(q)
      BY <1>1, <2>2 DEF Filled
    <3> QED BY <1>0, <1>1, <1>3, <2>2, <3>1, <3>3, <3>4 DEF RoomInv, LogRoom, LogTakes
  <2>3. CASE ret # "datainfo"
    <3>1. logBlk' = new /\ q \in Nat
      BY <1>1, <2>1, <2>3 DEF Pages
    <3>2. ~(q < n)
      <4>1. CASE ret = "loginfo"
        BY <1>6, <3>1, <4>1 DEF Copied
      <4>2. CASE ret = "program"
        <5>1. n = lastUsed /\ lastUsed # None
          BY <1>2, <1>6, <4>2 DEF Copied, TypeInv, PagesNamed
        <5> QED BY <1>1, <4>2, <5>1 DEF Filled
      <4>3. CASE ret \in {"idle", "table"}
        <5>1. n = lastUsed + 1 /\ lastUsed \in Pages \union {None}
          BY <1>6, <4>3, Typed DEF Copied, TypeInv
        <5>2. lastUsed # None
          <6>1. logBlk # None /\ Known
            BY <1>0, <1>1, <1>2, <4>3, NotNone, RestoreBlocks DEF AccInv, Victim, VictimAt
          <6> QED BY <1>2, <4>3, <6>1 DEF UseInv, LogInfo
        <5>3. lastUsed \in Nat
          BY <5>1, <5>2 DEF Pages
        <5>4. ~(q <= lastUsed)
          BY <1>1, <4>3, <5>2, <5>3, <3>1 DEF Filled
        <5> QED BY <3>1, <5>1, <5>3, <5>4
      <4> QED BY <2>1, <2>3, <4>1, <4>2, <4>3
    <3> QED BY <1>5, <3>1, <3>2
  <2> QED BY <2>2, <2>3
<1>8. CopyRoom'
  <2> SUFFICES ASSUME ret \in {"swap", "simple"}, NEW q \in Pages
               PROVE  q < job'.p \/ flash'[job'.blk][q] = Erased
    BY <1>1 DEF CopyRoom
  <2>1. job'.p = job.p /\ job'.blk = new
    BY <1>1, <1>2 DEF Jobs
  <2>2. n = job.p
    BY <1>6 DEF Copied
  <2> QED BY <1>5, <2>1, <2>2
<1>9. MoveRooms'
  <2> SUFFICES ASSUME ret = "move"
               PROVE  job'.p = -1 /\ \A q \in Pages : flash'[job'.blk][q] = Erased
    BY <1>1 DEF MoveRooms
  <2>1. job'.p = -1 /\ job'.blk = new
    BY <1>1, <1>2 DEF Jobs
  <2>2. n = 0
    BY <1>6 DEF Copied
  <2>3. \A q \in Pages : ~(q < 0)
    BY DEF Pages
  <2> QED BY <1>5, <2>1, <2>2, <2>3
<1> QED BY <1>1, <1>2, <1>4, <1>7, <1>8, <1>9 DEF RoomInv, MovedRoom, RestoreRoom, Returned, Merges

\* No cut so far: the driver has not started anew.
LEMMA NeverCut == ASSUME TypeInv, [Next]_vars, count'.cuts = 0 PROVE count.cuts = 0 /\ ~PowerCut
<1>1. count.cuts \in Nat
  BY DEF TypeInv, RecordsOK, Counts
<1> QED BY <1>1, CountsGrow DEF Grows

LEMMA RoomNext ==
    ASSUME TypeInv, AccInv, UseInv, RoomInv, EnoughSpares, MaxEraseFails = 0, [Next]_vars, ~PowerCut
    PROVE  RoomInv' /\ ProgramRule
<1>1. TypeInv' /\ AccInv'
  BY TypesNext, AccNext
<1>2. CASE UNCHANGED vars
  <2>1. UNCHANGED <<flash, logBlk, lastUsed, pc, job, bm>>
    BY <1>2 DEF vars, tables
  <2>2. LogRoom' /\ CopyRoom' /\ MovedRoom' /\ RestoreRoom'
    BY <2>1 DEF RoomInv, LogRoom, LogTakes, Filled, CopyRoom, MovedRoom, RestoreRoom
  <2>3. MoveRooms'
    BY <2>1 DEF RoomInv, MoveRooms, Reached
  <2> QED BY <2>1, <2>2, <2>3, RuleSame DEF RoomInv
<1>3. CASE Call
  <2>1. LML_PageRead => RoomInv' /\ ProgramRule
    BY RoomSwitch DEF LML_PageRead
  <2> QED BY <1>1, <1>3, <2>1, RoomPageWrite, RoomCloseWritePage, RoomEvictPageMap, RoomMergeOldest, RoomWriteBackMapTbl DEF Call
<1>4. CASE Step
  <2>1. SwitchForWrite => RoomInv' /\ ProgramRule
    BY RoomSwitch DEF SwitchForWrite
  <2>2. ~WriteFails /\ ~NoFreeBlk
    BY <1>1 DEF AccInv, WriteFails, NoFreeBlk, GiveUp
  <2>3. ~LoadTables /\ ~StartScan /\ ~ScanBlk /\ ~ScanDone
    BY DEF RoomInv, LoadTables, StartScan, ScanBlk, ScanDone
  <2> QED BY <1>1, <1>4, <2>1, <2>2, <2>3, RoomCreateNewLogBlk, RoomWriteDataInfo, RoomGetLogPage, RoomWriteLogInfo,
             RoomProgramPage, RoomSyncFails, RoomWritePageMapTbl, RoomMergeLogBlk, RoomSwapCopy, RoomSwapDone,
             RoomMovePage0, RoomMoveCopy, RoomMoveDone, RoomSimpleCopy, RoomEraseBlk, RoomMergeDone,
             RoomRestorePageData, RoomRestoreFails, RoomMarkBadBlk DEF Step
<1> QED BY <1>2, <1>3, <1>4 DEF Next

\* Until the first power cut no NAND page is programmed twice between two erases of its
\* block, and the pages of a bank are programmed in ascending order: by the log writes
\* with their bank alignment, the three merges and the replacement of bad blocks, also
\* when programs fail in any of them, inside the replacement too.
THEOREM ProgrammedInOrder ==
    ASSUME EnoughSpares, MaxEraseFails = 0
    PROVE  /\ Spec => [][count'.cuts = 0 => ProgramRule]_vars
           /\ MaxPowerCuts = 0 => (Spec => ProgramRules)
<1> DEFINE Inv == TypeInv /\ AccInv /\ (count.cuts = 0 => UseInv /\ RoomInv)
           Uncut == TypeInv /\ AccInv /\ UseInv /\ RoomInv
<1>1. ASSUME Inv, [Next]_vars PROVE Inv' /\ (count'.cuts = 0 => ProgramRule)
  <2>1. TypeInv' /\ AccInv'
    BY <1>1, TypesNext, AccNext
  <2>2. ASSUME count'.cuts = 0 PROVE UseInv' /\ RoomInv' /\ ProgramRule
    <3>1. count.cuts = 0 /\ ~PowerCut
      BY <1>1, <2>2, NeverCut
    <3> QED BY <1>1, <3>1, UseKept, RoomNext
  <2> QED BY <2>1, <2>2
<1>2. Init => Inv /\ Uncut
  BY TypesInit, AccInit, UseInit, RoomInit
<1>3. Inv /\ [Next]_vars => Inv' /\ [count'.cuts = 0 => ProgramRule]_vars
  BY <1>1
<1>4. Spec => [][count'.cuts = 0 => ProgramRule]_vars
  BY <1>2, <1>3, PTL DEF Spec
<1>5. ASSUME MaxPowerCuts = 0 PROVE Spec => ProgramRules
  <2>1. ASSUME Uncut, [Next]_vars PROVE Uncut' /\ ProgramRule
    <3>1. ~PowerCut
      BY <1>5, <2>1 DEF PowerCut, TypeInv, RecordsOK, Counts
    <3>2. TypeInv' /\ AccInv'
      BY <2>1, TypesNext, AccNext
    <3> QED BY <2>1, <3>1, <3>2, UseKept, RoomNext
  <2>2. Uncut /\ [Next]_vars => Uncut' /\ [ProgramRule]_vars
    BY <2>1
  <2> QED BY <1>2, <2>2, PTL DEF Spec, ProgramRules
<1> QED BY <1>4, <1>5

-----------------------------------------------------------------------------
(* What is on the flash for a rebuild of the tables.  The blocks of a merge *)
(* are told apart by their ages and by how full they are, and the search    *)
(* for the last page of the log block meets no empty page line before it.   *)

Line(p) == p \div BANKS

\* A page that names no logical page holds nothing.
Unnamed == \A b \in Phys, p \in Pages : flash[b][p].lp = None => flash[b][p].val = Junk

\* The log block, until it is erased: its page lines are in use up to that of the last page,
\* and a page map page that is its last page in use holds the map of its pages.
LogWaits == logBlk # None /\ (pc = "erase" => job.toErase # <<>>)
LinesUsed(b, p) == \A n \in 0 .. Line(p) - 1 : LineUsed(flash, b, n)
LogLines ==
    LogWaits /\ lastUsed # None =>
        /\ LinesUsed(logBlk, lastUsed)
        /\ pc # "program" => lastUsed \in UsedPages(flash, logBlk)
        /\ pc # "swap" => \A p \in Pages : p > lastUsed => flash[logBlk][p] = Erased
TableLast ==
    LogWaits => \A q \in Pages \ {0} :
        IsMapPage(flash[logBlk][q]) /\ (\A p \in UsedPages(flash, logBlk) : p <= q) => MapOf(flash[logBlk], saved[logBlk])

\* Behind page 0, neither data blocks nor what the merges fill have page map pages.
NoTables(f) == \A q \in Pages \ {0} : ~IsMapPage(f[q])
Plain ==
    /\ NoTables(flash[dataBlk])
    /\ pc \in Merges \/ (pc = "erase" /\ job.kind = "move") => NoTables(flash[job.blk])

\* Block b is n ages above block a.
Follows(b, n, a) == flash[b][0].info /\ flash[b][0].status = (flash[a][0].status + n) % 256
Ages ==
    /\ pc # "erase" /\ logBlk # None /\ flash[logBlk][0].info => Follows(logBlk, 1, dataBlk)
    /\ pc = "simple" /\ flash[job.blk][0].info => Follows(job.blk, 2, dataBlk)
    /\ (pc = "move" /\ flash[job.blk][0].info) \/ (pc = "erase" /\ job.kind = "move") => Follows(job.blk, 1, dataBlk)

\* The blocks that wait for their erase still have what is wanted, as long as a rebuild
\* would take them for the data block and the log block.
StandsIn(log, data) == \A i \in Pages : want[i] = Any \/ Stands(i, log, data, want[i])
LastLine == lastUsed # None /\ lastUsed + BANKS >= PAGES
SwapWaits ==
    /\ job.kind = "swap" /\ logBlk = None
    /\ \E o \in Phys : job.toErase = <<o>> /\ flash[o][0].info /\ Follows(dataBlk, 1, o)
BothWait ==
    /\ job.kind = "simple" /\ logBlk # None /\ lastUsed # None
    /\ \E o \in Phys : /\ job.toErase = <<o, logBlk>> /\ flash[o][0].info
                       /\ Follows(logBlk, 1, o) /\ Follows(dataBlk, 2, o) /\ StandsIn(flash[logBlk], flash[o])
SimpleWaits ==
    /\ job.kind = "simple" /\ logBlk # None /\ job.toErase = <<logBlk>>
    /\ flash[logBlk][0].info /\ Follows(dataBlk, 1, logBlk)
MoveWaits ==
    /\ job.kind = "move" /\ logBlk # None /\ job.toErase = <<logBlk>>
    /\ Follows(logBlk, 1, dataBlk) /\ StandsIn(flash[logBlk], flash[dataBlk]) /\ LastLine
Erasing == pc = "erase" => job.toErase = <<>> \/ SwapWaits \/ BothWait \/ SimpleWaits \/ MoveWaits

\* A move merge starts with a full log block, and fills its new block line by line.
InLastLine == (pc = "merge" /\ req.special) \/ pc = "move" => LastLine
MoveLines ==
    /\ (pc = "move" /\ job.p # -1) \/ (pc = "erase" /\ job.kind = "move") => LinesUsed(job.blk, job.last)
    /\ pc = "move" /\ job.p # -1 =>
           \A q \in Pages : q % BANKS = job.p % BANKS /\ q <= job.dst => flash[job.blk][q].lp # None

CutInv == Unnamed /\ LogLines /\ TableLast /\ Plain /\ Ages /\ Erasing /\ InLastLine /\ MoveLines

\* In no page 0 the log age looks like the mark of a page map page.
Heads == \A b \in Phys : ~IsMapPage(flash[b][0])

-----------------------------------------------------------------------------
(* The binary search of _GetLastUsedPage finds the last page in use when no *)
(* page line before it is empty.                                            *)

LEMMA LineOf ==
    ASSUME NEW p \in Nat
    PROVE  /\ Line(p) \in Nat /\ BANKS * Line(p) \in Nat
           /\ BANKS * Line(p) <= p /\ p < BANKS * Line(p) + BANKS
           /\ p - BANKS * Line(p) = p % BANKS
<1> DEFINE d == p \div BANKS
           r == p % BANKS
<1>1. BANKS \in Nat /\ BANKS > 0
  BY Geometry
<1>2. d \in Nat /\ r \in Nat /\ r < BANKS /\ p = BANKS * d + r /\ BANKS * d \in Nat
  BY <1>1
<1> HIDE DEF d, r
<1>3. BANKS * d <= p /\ p < BANKS * d + BANKS /\ p - BANKS * d = r
  BY <1>1, <1>2
<1> QED BY <1>2, <1>3 DEF Line, d, r

\* Lines follow each other.
LEMMA LineOrder ==
    ASSUME NEW p \in Nat, NEW q \in Nat
    PROVE  /\ Line(p) < Line(q) => p < q
           /\ p < BANKS * Line(q) => Line(p) < Line(q)
           /\ BANKS * Line(q) <= p => Line(q) <= Line(p)
<1> DEFINE m == Line(p)
           n == Line(q)
<1>1. /\ m \in Nat /\ n \in Nat /\ BANKS \in Nat /\ BANKS > 0
      /\ BANKS * m \in Nat /\ BANKS * n \in Nat
      /\ BANKS * m <= p /\ p < BANKS * m + BANKS /\ BANKS * n <= q /\ q < BANKS * n + BANKS
  BY LineOf, Geometry
<1> HIDE DEF m, n
<1>2. ASSUME m < n PROVE BANKS * n >= BANKS * m + BANKS
  <2>1. n - m - 1 \in Nat
    BY <1>1, <1>2
  <2>2. BANKS * n = BANKS * m + BANKS + BANKS * (n - m - 1) /\ BANKS * (n - m - 1) \in Nat
    BY <1>1, <2>1
  <2> QED BY <1>1, <2>2
<1>3. ASSUME n <= m PROVE BANKS * m >= BANKS * n
  <2>1. m - n \in Nat
    BY <1>1, <1>3
  <2>2. BANKS * m = BANKS * n + BANKS * (m - n) /\ BANKS * (m - n) \in Nat
    BY <1>1, <2>1
  <2> QED BY <1>1, <2>2
<1>4. m < n => p < q
  BY <1>1, <1>2
<1>5. p < BANKS * n => m < n
  BY <1>1, <1>3
<1>6. BANKS * n <= p => n <= m
  BY <1>1, <1>2
<1> QED BY <1>4, <1>5, <1>6 DEF m, n

LEMMA LinePagesIn ==
    ASSUME NEW p \in Pages, NEW n \in Nat
    PROVE  /\ Line(p) \in 0 .. Lines - 1
           /\ p \in LinePages(n) <=> Line(p) = n
<1>1. /\ p \in Nat /\ p < PAGES /\ BANKS \in Nat /\ BANKS > 0 /\ Lines \in Nat /\ PAGES = BANKS * Lines
      /\ Line(p) \in Nat /\ BANKS * Line(p) \in Nat /\ BANKS * Line(p) <= p /\ p < BANKS * Line(p) + BANKS
  <2>1. p \in Nat /\ p < PAGES
    BY Geometry DEF Pages
  <2> HIDE DEF Line
  <2> QED BY <2>1, LineOf, Geometry
<1>2. Line(p) < Lines
  <2> SUFFICES ASSUME Lines <= Line(p) PROVE FALSE
    BY <1>1
  <2>1. Line(p) - Lines \in Nat
    BY <1>1
  <2>2. BANKS * Line(p) = BANKS * Lines + BANKS * (Line(p) - Lines) /\ BANKS * (Line(p) - Lines) \in Nat
    BY <1>1, <2>1
  <2> QED BY <1>1, <2>2
<1>3. ASSUME p \in LinePages(n) PROVE Line(p) = n
  <2>1. PICK k \in 0 .. BANKS - 1 : p = n * BANKS + k
    BY <1>3 DEF LinePages
  <2>2. k \in Nat /\ k < BANKS /\ n * BANKS = BANKS * n /\ BANKS * n \in Nat
    BY <1>1, <2>1
  <2>3. ASSUME n < Line(p) PROVE FALSE
    <3>1. Line(p) - n - 1 \in Nat
      BY <1>1, <2>3
    <3>2. BANKS * Line(p) = BANKS * n + BANKS + BANKS * (Line(p) - n - 1) /\ BANKS * (Line(p) - n - 1) \in Nat
      BY <1>1, <3>1
    <3> QED BY <1>1, <2>1, <2>2, <3>2
  <2>4. ASSUME Line(p) < n PROVE FALSE
    <3>1. n - Line(p) - 1 \in Nat
      BY <1>1, <2>4
    <3> DEFINE l == Line(p)
               e == n - l - 1
    <3>2. n = l + 1 + e /\ l \in Nat /\ e \in Nat /\ BANKS \in Nat
      BY <1>1, <3>1
    <3> HIDE DEF l, e
    <3>3. BANKS * n = BANKS * l + BANKS + BANKS * e /\ BANKS * e \in Nat
      BY <3>2
    <3>4. p < BANKS * l + BANKS /\ BANKS * l \in Nat
      BY <1>1 DEF l
    <3> QED BY <1>1, <2>1, <2>2, <3>3, <3>4
  <2> QED BY <1>1, <2>3, <2>4
<1>4. p \in LinePages(Line(p))
  <2> DEFINE k == p - BANKS * Line(p)
  <2>1. k \in 0 .. BANKS - 1 /\ p = Line(p) * BANKS + k
    BY <1>1
  <2> HIDE DEF k
  <2> QED BY <2>1 DEF LinePages
<1> QED BY <1>1, <1>2, <1>3, <1>4

\* The lines in use are those up to k: the search ends at k.
LEMMA SearchFinds ==
    ASSUME NEW f, NEW b, NEW k \in -1 .. Lines - 1,
           \A m \in 0 .. Lines - 1 : LineUsed(f, b, m) <=> m <= k,
           NEW n \in Nat,
           NEW lo \in 0 .. Lines, NEW hi \in -1 .. Lines - 1, hi - lo < n, lo <= k + 1, k <= hi
    PROVE  Search(f, b)[<<lo, hi>>] = k
<1> DEFINE g == Search(f, b)
           Right(i) == \A x \in 0 .. Lines, y \in -1 .. Lines - 1 :
                          y - x < i /\ x <= k + 1 /\ k <= y => g[<<x, y>>] = k
           T == {i \in Nat : ~ Right(i)}
<1>1. g = Searches(f, b, g)
  BY SearchExists
<1> HIDE DEF g
<1>2. ASSUME NEW i \in Nat, \A j \in Nat : j < i => Right(j)
      PROVE  Right(i)
  <2> SUFFICES ASSUME NEW x \in 0 .. Lines, NEW y \in -1 .. Lines - 1, y - x < i, x <= k + 1, k <= y
               PROVE  g[<<x, y>>] = k
    OBVIOUS
  <2>0. x \in Nat /\ y \in Int /\ Lines \in Nat /\ k \in Int
    BY Geometry
  <2>1. CASE x > y
    <3>1. Searches(f, b, g)[<<x, y>>] = y
      BY <2>1, SearchEnd
    <3>2. y = k
      BY <2>0, <2>1
    <3> QED BY <1>1, <3>1, <3>2
  <2>2. CASE x <= y
    <3> DEFINE m == Mid(x, y)
               empty == LinePages(m) \intersect UsedPages(f, b) = {}
    <3>1. /\ m \in x .. y /\ m \in 0 .. Lines - 1 /\ m - 1 \in -1 .. Lines - 1 /\ m + 1 \in 0 .. Lines
          /\ Searches(f, b, g)[<<x, y>>] = IF empty THEN g[<<x, m - 1>>] ELSE g[<<m + 1, y>>]
      BY <2>2, SearchStep
    <3>2. empty <=> ~(m <= k)
      BY <3>1 DEF LineUsed
    <3> HIDE DEF m, empty
    <3>3. g[<<x, y>>] = IF empty THEN g[<<x, m - 1>>] ELSE g[<<m + 1, y>>]
      BY <1>1, <3>1
    <3>4. i - 1 \in Nat /\ i - 1 < i /\ m - 1 - x < i - 1 /\ y - (m + 1) < i - 1
      BY <2>0, <2>2, <3>1
    <3>5. Right(i - 1)
      BY <1>2, <3>4
    <3>6. empty => g[<<x, m - 1>>] = k
      BY <2>0, <3>1, <3>2, <3>4, <3>5
    <3>7. ~empty => g[<<m + 1, y>>] = k
      BY <2>0, <3>1, <3>2, <3>4, <3>5
    <3> QED BY <3>3, <3>6, <3>7
  <2> QED BY <2>0, <2>1, <2>2
<1>3. T = {}
  <2> HIDE DEF Right
  <2> SUFFICES ASSUME T # {}
               PROVE  FALSE
    OBVIOUS
  <2>1. T \in SUBSET Nat
    OBVIOUS
  <2>2. PICK i \in T : \A j \in T : i <= j
    <3> HIDE DEF T
    <3> QED BY <2>1, Smallest
  <2>3. \A j \in Nat : j < i => j \notin T
    BY <2>1, <2>2
  <2> QED BY <1>2, <2>2, <2>3
<1>4. Right(n)
  <2> HIDE DEF Right
  <2> QED BY <1>3
<1> QED BY <1>4 DEF g

LEMMA SearchWhole ==
    ASSUME NEW f, NEW b, NEW k \in -1 .. Lines - 1,
           \A m \in 0 .. Lines - 1 : LineUsed(f, b, m) <=> m <= k
    PROVE  GetLastUsedPage(f, b) = LastUsedOf(f, b, k)
<1>1. Lines \in Nat /\ 0 \in 0 .. Lines /\ Lines - 1 \in -1 .. Lines - 1 /\ Lines - 1 - 0 < Lines /\ 0 <= k + 1 /\ k <= Lines - 1
  BY Geometry
<1>2. Search(f, b)[<<0, Lines - 1>>] = k
  BY <1>1, SearchFinds
<1> QED BY <1>2, SearchUnfold

\* With lines in use up to that of u, the last page in use.
LEMMA LastPageFound ==
    ASSUME NEW f, NEW b, NEW u \in UsedPages(f, b), \A p \in UsedPages(f, b) : p <= u,
           \A n \in 0 .. Line(u) - 1 : LineUsed(f, b, n)
    PROVE  GetLastUsedPage(f, b) = u
<1> DEFINE k == Line(u)
           S == LinePages(k) \intersect UsedPages(f, b)
<1>1. u \in Pages /\ u \in Nat /\ k \in 0 .. Lines - 1 /\ Lines \in Nat /\ UsedPages(f, b) \subseteq Pages
  BY LinePagesIn, Geometry DEF UsedPages, Pages
<1>2. u \in S
  BY <1>1, LinePagesIn
<1>3. ASSUME NEW m \in 0 .. Lines - 1 PROVE LineUsed(f, b, m) <=> m <= k
  <2>1. CASE m < k
    BY <1>1, <2>1
  <2>2. CASE m = k
    BY <1>1, <1>2, <2>2 DEF LineUsed
  <2>3. ASSUME m > k, LineUsed(f, b, m) PROVE FALSE
    <3>1. PICK p \in LinePages(m) : p \in UsedPages(f, b)
      BY <2>3 DEF LineUsed
    <3>2. p \in Pages /\ p \in Nat /\ Line(p) = m
      BY <1>1, <3>1, LinePagesIn DEF Pages
    <3>3. u < p
      BY <1>1, <2>3, <3>2, LineOrder
    <3> QED BY <1>1, <3>1, <3>2, <3>3
  <2> QED BY <1>1, <2>1, <2>2, <2>3
<1>4. GetLastUsedPage(f, b) = LastUsedOf(f, b, k)
  <2>1. k \in -1 .. Lines - 1
    BY <1>1
  <2> HIDE DEF k
  <2> QED BY <1>3, <2>1, SearchWhole
<1>5. LastUsedOf(f, b, k) = CHOOSE p \in S : \A q \in S : q <= p
  <2>1. k # -1
    BY <1>1
  <2> HIDE DEF k
  <2> QED BY <2>1 DEF LastUsedOf, S
<1>6. \A q \in S : q <= u
  OBVIOUS
<1>7. S \subseteq Nat
  BY <1>1 DEF Pages
<1> HIDE DEF S
<1>8. \A p \in S : (\A q \in S : q <= p) => p = u
  BY <1>1, <1>2, <1>6, <1>7
<1> QED BY <1>2, <1>4, <1>5, <1>6, <1>8

\* Nothing in use.
LEMMA NothingFound0 ==
    ASSUME NEW f, NEW b, UsedPages(f, b) = {}
    PROVE  GetLastUsedPage(f, b) = 0
<1>1. \A m \in 0 .. Lines - 1 : LineUsed(f, b, m) <=> m <= -1
  BY Geometry DEF LineUsed
<1>2. -1 \in -1 .. Lines - 1
  BY Geometry
<1> QED BY <1>1, <1>2, SearchWhole DEF LastUsedOf

\* In any case, the page found is in use, or page 0.
LEMMA FoundInUse ==
    ASSUME NEW f, NEW b
    PROVE  GetLastUsedPage(f, b) \in UsedPages(f, b) \union {0}
<1> DEFINE line == Search(f, b)[<<0, Lines - 1>>]
           S == LinePages(line) \intersect UsedPages(f, b)
<1>1. line = -1 \/ LineUsed(f, b, line)
  <2>1. Lines \in Nat /\ 0 \in 0 .. Lines /\ Lines - 1 \in -1 .. Lines - 1 /\ Lines - 1 - 0 < Lines /\ 0 <= Lines - 1 + 1
    BY Geometry
  <2> QED BY <2>1, SearchResult
<1>2. GetLastUsedPage(f, b) = LastUsedOf(f, b, line)
  BY SearchUnfold
<1>3. CASE line = -1
  BY <1>2, <1>3 DEF LastUsedOf
<1>4. CASE line # -1
  <2> HIDE DEF line
  <2>1. S \subseteq Pages /\ S # {}
    BY <1>1, <1>4, LinePagesOK DEF LineUsed
  <2>2. \E p \in S : \A q \in S : q <= p
    <3>1. PAGES - 1 \in Nat
      BY Geometry
    <3> HIDE DEF S
    <3> QED BY <2>1, <3>1, Largest DEF Pages
  <2>3. LastUsedOf(f, b, line) = CHOOSE p \in S : \A q \in S : q <= p
    BY <1>4 DEF LastUsedOf
  <2>4. S \subseteq UsedPages(f, b)
    OBVIOUS
  <2> HIDE DEF S
  <2> QED BY <1>2, <2>2, <2>3, <2>4
<1> QED BY <1>3, <1>4

-----------------------------------------------------------------------------
(* What _FillZoneTblInfo settles on, whatever the order of the blocks.      *)

\* The recursion of the scan.
Scans(f, g) ==
    [n \in 0 .. BLOCKS |->
        IF n = 0 THEN NothingFound
        ELSE IF Scanned(f, n - 1) THEN FillBlkToZoneTbl(f, g[n - 1], n - 1) ELSE g[n - 1]]
Scan(f) == CHOOSE g : g = Scans(f, g)
ScansTo(f, n, g) == \A k \in 0 .. BLOCKS : k < n => g[k] = Scans(f, g)[k]

LEMMA ScanUnfold == ASSUME NEW f PROVE Rebuilt(f) = Scan(f)[BLOCKS]
BY DEF Rebuilt, Scan, Scans

LEMMA ScansAt ==
    ASSUME NEW f, NEW g, NEW n \in 0 .. BLOCKS
    PROVE  /\ n = 0 => Scans(f, g)[n] = NothingFound
           /\ n # 0 => Scans(f, g)[n] = IF Scanned(f, n - 1) THEN FillBlkToZoneTbl(f, g[n - 1], n - 1) ELSE g[n - 1]
BY DEF Scans

LEMMA ScansGrow ==
    ASSUME NEW f, NEW n \in Nat, NEW g, ScansTo(f, n, g)
    PROVE  ScansTo(f, n + 1, Scans(f, g))
<1> DEFINE h == Scans(f, g)
<1> SUFFICES ASSUME NEW k \in 0 .. BLOCKS, k < n + 1
             PROVE  h[k] = Scans(f, h)[k]
  BY DEF ScansTo
<1>1. CASE k = 0
  BY <1>1, ScansAt
<1>2. CASE k # 0
  <2>1. k - 1 \in 0 .. BLOCKS /\ k - 1 < n
    BY <1>2, BlocksAssumption
  <2>2. h[k - 1] = g[k - 1]
    BY <2>1 DEF ScansTo
  <2>3. h[k] = IF Scanned(f, k - 1) THEN FillBlkToZoneTbl(f, g[k - 1], k - 1) ELSE g[k - 1]
    BY <1>2, ScansAt
  <2> HIDE DEF h
  <2>4. Scans(f, h)[k] = IF Scanned(f, k - 1) THEN FillBlkToZoneTbl(f, h[k - 1], k - 1) ELSE h[k - 1]
    BY <1>2, ScansAt
  <2> QED BY <2>2, <2>3, <2>4
<1> QED BY <1>1, <1>2

LEMMA ScanExists == ASSUME NEW f PROVE Scan(f) = Scans(f, Scan(f))
<1> DEFINE T == {n \in Nat : ~ \E g : ScansTo(f, n, g)}
<1>1. ASSUME NEW n \in Nat
      PROVE  \E g : ScansTo(f, n, g)
  <2> SUFFICES ASSUME T # {}
               PROVE  FALSE
    OBVIOUS
  <2>1. PICK m \in T : \A k \in T : m <= k
    <3> HIDE DEF T
    <3>1. ASSUME T \in SUBSET Nat PROVE \E m \in T : \A k \in T : m <= k
      BY <3>1, Smallest
    <3> QED BY <3>1 DEF T
  <2>2. CASE m = 0
    <3>1. \A k \in 0 .. BLOCKS : ~(k < 0)
      BY BlocksAssumption
    <3>2. ScansTo(f, 0, f)
      BY <3>1 DEF ScansTo
    <3> QED BY <2>2, <3>2
  <2>3. CASE m # 0
    <3>1. m \in Nat /\ m - 1 \in Nat /\ m - 1 + 1 = m /\ ~(m <= m - 1)
      BY <2>3
    <3>2. m - 1 \notin T
      BY <2>1, <3>1
    <3>3. PICK g : ScansTo(f, m - 1, g)
      BY <3>1, <3>2
    <3>4. ScansTo(f, m, Scans(f, g))
      BY <3>1, <3>3, ScansGrow
    <3> QED BY <2>1, <3>4
  <2> QED BY <2>2, <2>3
<1>2. BLOCKS + 1 \in Nat /\ \A k \in 0 .. BLOCKS : k < BLOCKS + 1
  BY BlocksAssumption
<1>3. PICK g : ScansTo(f, BLOCKS + 1, g)
  BY <1>1, <1>2
<1> DEFINE h == Scans(f, g)
<1>4. \A k \in 0 .. BLOCKS : g[k] = h[k]
  BY <1>2, <1>3 DEF ScansTo
<1>5. h = Scans(f, h)
  <2> HIDE DEF h
  <2>1. ASSUME NEW n \in 0 .. BLOCKS
        PROVE  (IF n = 0 THEN NothingFound
                ELSE IF Scanned(f, n - 1) THEN FillBlkToZoneTbl(f, g[n - 1], n - 1) ELSE g[n - 1])
               = (IF n = 0 THEN NothingFound
                  ELSE IF Scanned(f, n - 1) THEN FillBlkToZoneTbl(f, h[n - 1], n - 1) ELSE h[n - 1])
    <3>1. n # 0 => n - 1 \in 0 .. BLOCKS
      BY BlocksAssumption
    <3> QED BY <1>4, <3>1
  <2>2. Scans(f, g) = Scans(f, h)
    BY <2>1 DEF Scans
  <2> QED BY <2>2 DEF h
<1> HIDE DEF h
<1> QED BY <1>5 DEF Scan

LEMMA ScanStep ==
    ASSUME NEW f
    PROVE  /\ Scan(f)[0] = NothingFound
           /\ \A n \in Phys : Scan(f)[n + 1] = IF Scanned(f, n) THEN FillBlkToZoneTbl(f, Scan(f)[n], n) ELSE Scan(f)[n]
<1> DEFINE g == Scan(f)
<1>1. g = Scans(f, g)
  BY ScanExists
<1> HIDE DEF g
<1>2. g[0] = NothingFound
  <2>1. 0 \in 0 .. BLOCKS
    BY BlocksAssumption
  <2> QED BY <1>1, <2>1, ScansAt
<1>3. ASSUME NEW n \in Phys
      PROVE  g[n + 1] = IF Scanned(f, n) THEN FillBlkToZoneTbl(f, g[n], n) ELSE g[n]
  <2>1. n + 1 \in 0 .. BLOCKS /\ n + 1 # 0 /\ n + 1 - 1 = n
    BY BlocksAssumption DEF Phys
  <2>2. Scans(f, g)[n + 1] = IF Scanned(f, n) THEN FillBlkToZoneTbl(f, g[n], n) ELSE g[n]
    <3>1. PICK k \in 0 .. BLOCKS : k = n + 1
      BY <2>1
    <3>2. k # 0 /\ k - 1 = n
      BY <2>1, <3>1 DEF Phys
    <3>3. Scans(f, g)[k] = IF Scanned(f, k - 1) THEN FillBlkToZoneTbl(f, g[k - 1], k - 1) ELSE g[k - 1]
      BY <3>2, ScansAt
    <3>4. Scans(f, g)[k] = IF Scanned(f, n) THEN FillBlkToZoneTbl(f, g[n], n) ELSE g[n]
      BY <3>2, <3>3
    <3> QED BY <3>1, <3>4
  <2>3. g[n + 1] = Scans(f, g)[n + 1]
    BY <1>1
  <2> QED BY <2>1, <2>2, <2>3
<1> QED BY <1>2, <1>3 DEF g

LEMMA ByteWraps == ASSUME NEW x \in Int PROVE (x + 256) % 256 = x % 256
OBVIOUS

\* Ages in a row.
LEMMA AgesApart ==
    ASSUME NEW a \in 0 .. 255, NEW l, NEW m, l = (a + 1) % 256, m = (a + 2) % 256
    PROVE  /\ l # a /\ m # a /\ l # m /\ m = (l + 1) % 256
           /\ a # (l + 1) % 256 /\ a # (m + 1) % 256 /\ l # (m + 1) % 256 /\ m # (a + 1) % 256
           /\ CompareAge(l, a) > 0 /\ ~(CompareAge(a, l) > 0)
           /\ CompareAge(m, a) > 0 /\ ~(CompareAge(a, m) > 0)
           /\ CompareAge(m, l) > 0 /\ ~(CompareAge(l, m) > 0)
<1>1. CASE a < 254
  <2>1. l = a + 1 /\ m = a + 2
    BY <1>1
  <2> QED BY <1>1, <2>1 DEF CompareAge
<1>2. CASE a = 254
  <2>1. l = 255 /\ m = 0
    BY <1>2
  <2>2. CompareAge(l, a) = 1
    <3>1. l - a + 128 = 129 /\ 129 % 256 = 129
      BY <1>2, <2>1
    <3> QED BY <3>1 DEF CompareAge
  <2>3. CompareAge(a, l) = -1
    <3>1. a - l + 128 = 127 /\ 127 % 256 = 127
      BY <1>2, <2>1
    <3> QED BY <3>1 DEF CompareAge
  <2>4. CompareAge(m, a) = 2
    <3>1. (m - a + 128) % 256 = 130
      <4>1. PICK x \in Int : x = m - a + 128 /\ x + 256 = 130
        BY <1>2, <2>1
      <4>2. (x + 256) % 256 = x % 256
        BY ByteWraps
      <4>3. 130 % 256 = 130
        OBVIOUS
      <4> QED BY <4>1, <4>2, <4>3
    <3> QED BY <3>1 DEF CompareAge
  <2>5. CompareAge(a, m) = -2
    <3>1. a - m + 128 = 382 /\ 382 % 256 = 126
      BY <1>2, <2>1
    <3> QED BY <3>1 DEF CompareAge
  <2>6. CompareAge(m, l) = 1
    <3>1. (m - l + 128) % 256 = 129
      <4>1. PICK x \in Int : x = m - l + 128 /\ x + 256 = 129
        BY <1>2, <2>1
      <4>2. (x + 256) % 256 = x % 256
        BY ByteWraps
      <4>3. 129 % 256 = 129
        OBVIOUS
      <4> QED BY <4>1, <4>2, <4>3
    <3> QED BY <3>1 DEF CompareAge
  <2>7. CompareAge(l, m) = -1
    <3>1. l - m + 128 = 383 /\ 383 % 256 = 127
      BY <1>2, <2>1
    <3> QED BY <3>1 DEF CompareAge
  <2>8. (l + 1) % 256 = 0 /\ (m + 1) % 256 = 1 /\ (a + 1) % 256 = 255
    BY <1>2, <2>1
  <2> QED BY <1>2, <2>1, <2>2, <2>3, <2>4, <2>5, <2>6, <2>7, <2>8
<1>3. CASE a = 255
  <2>1. l = 0 /\ m = 1
    BY <1>3
  <2>2. CompareAge(l, a) = 1
    <3>1. (l - a + 128) % 256 = 129
      <4>1. PICK x \in Int : x = l - a + 128 /\ x + 256 = 129
        BY <1>3, <2>1
      <4>2. (x + 256) % 256 = x % 256
        BY ByteWraps
      <4>3. 129 % 256 = 129
        OBVIOUS
      <4> QED BY <4>1, <4>2, <4>3
    <3> QED BY <3>1 DEF CompareAge
  <2>3. CompareAge(a, l) = -1
    <3>1. a - l + 128 = 383 /\ 383 % 256 = 127
      BY <1>3, <2>1
    <3> QED BY <3>1 DEF CompareAge
  <2>4. CompareAge(m, a) = 2
    <3>1. (m - a + 128) % 256 = 130
      <4>1. PICK x \in Int : x = m - a + 128 /\ x + 256 = 130
        BY <1>3, <2>1
      <4>2. (x + 256) % 256 = x % 256
        BY ByteWraps
      <4>3. 130 % 256 = 130
        OBVIOUS
      <4> QED BY <4>1, <4>2, <4>3
    <3> QED BY <3>1 DEF CompareAge
  <2>5. CompareAge(a, m) = -2
    <3>1. a - m + 128 = 382 /\ 382 % 256 = 126
      BY <1>3, <2>1
    <3> QED BY <3>1 DEF CompareAge
  <2>6. CompareAge(m, l) = 1
    <3>1. m - l + 128 = 129 /\ 129 % 256 = 129
      BY <1>3, <2>1
    <3> QED BY <3>1 DEF CompareAge
  <2>7. CompareAge(l, m) = -1
    <3>1. l - m + 128 = 127 /\ 127 % 256 = 127
      BY <1>3, <2>1
    <3> QED BY <3>1 DEF CompareAge
  <2>8. (l + 1) % 256 = 1 /\ (m + 1) % 256 = 2 /\ (a + 1) % 256 = 0
    BY <1>3, <2>1
  <2> QED BY <1>3, <2>1, <2>2, <2>3, <2>4, <2>5, <2>6, <2>7, <2>8
<1> QED BY <1>1, <1>2, <1>3

\* The data block d, the log block l and the target n of a merge (or None): the target is
\* two ages above the data block, or as old as the log block and less full.
Twin(f, l, n) == f[n][0].status = f[l][0].status /\ GetLastUsedPage(f, n) < GetLastUsedPage(f, l)
Family(f, d, l, n) ==
    /\ d \in Phys /\ l \in Phys \union {None} /\ n \in Phys \union {None}
    /\ d # l /\ d # n /\ (n # None => l # None /\ l # n)
    /\ \A b \in Phys : Scanned(f, b) <=> b \in {d, l, n} \ {None}
    /\ f[d][0].status \in 0 .. 255
    /\ l # None => f[l][0].status = (f[d][0].status + 1) % 256
    /\ n # None => f[n][0].status = (f[d][0].status + 2) % 256 \/ Twin(f, l, n)

\* What the scan has settled on before the block k.
Seen(b, k) == b # None /\ b < k
DataAt(d, l, n, k) == IF Seen(d, k) THEN d ELSE IF Seen(l, k) THEN l ELSE IF Seen(n, k) THEN n ELSE None
LogAt(f, d, l, n, k) ==
    IF Seen(d, k) THEN IF Seen(l, k) THEN l ELSE IF Seen(n, k) /\ Twin(f, l, n) THEN n ELSE None
    ELSE IF Seen(l, k) /\ Seen(n, k) /\ ~Twin(f, l, n) THEN n ELSE None

LEMMA FamilyStep ==
    ASSUME NEW f, NEW d, NEW l, NEW n, Family(f, d, l, n), NEW b \in {d, l, n} \ {None}, NEW r,
           r.data = DataAt(d, l, n, b), r.log = LogAt(f, d, l, n, b)
    PROVE  /\ FillBlkToZoneTbl(f, r, b).data = DataAt(d, l, n, b + 1)
           /\ FillBlkToZoneTbl(f, r, b).log = LogAt(f, d, l, n, b + 1)
<1> DEFINE a == f[d][0].status
           al == f[l][0].status
           an == f[n][0].status
<1>0. /\ d \in Nat /\ d # None /\ (l # None => l \in Nat) /\ (n # None => n \in Nat /\ l \in Nat /\ l # None /\ l # n) /\ d # l /\ d # n
      /\ a \in 0 .. 255 /\ (l # None => al = (a + 1) % 256) /\ (n # None => an = (a + 2) % 256 \/ Twin(f, l, n))
  BY NotNone DEF Family, Phys
<1> HIDE DEF a, al, an
<1>1. l # None => /\ al # a /\ a # (al + 1) % 256 /\ CompareAge(al, a) > 0 /\ ~(CompareAge(a, al) > 0)
  <2> SUFFICES ASSUME l # None PROVE al # a /\ a # (al + 1) % 256 /\ CompareAge(al, a) > 0 /\ ~(CompareAge(a, al) > 0)
    OBVIOUS
  <2>1. al = (a + 1) % 256
    BY <1>0
  <2> QED BY <1>0, <2>1, AgesApart
<1>2. n # None /\ ~Twin(f, l, n) =>
         /\ an # a /\ al # an /\ an = (al + 1) % 256
         /\ a # (an + 1) % 256 /\ al # (an + 1) % 256 /\ an # (a + 1) % 256
         /\ CompareAge(an, a) > 0 /\ ~(CompareAge(a, an) > 0)
         /\ CompareAge(an, al) > 0 /\ ~(CompareAge(al, an) > 0)
  <2> SUFFICES ASSUME n # None, ~Twin(f, l, n)
               PROVE  /\ an # a /\ al # an /\ an = (al + 1) % 256
                      /\ a # (an + 1) % 256 /\ al # (an + 1) % 256 /\ an # (a + 1) % 256
                      /\ CompareAge(an, a) > 0 /\ ~(CompareAge(a, an) > 0)
                      /\ CompareAge(an, al) > 0 /\ ~(CompareAge(al, an) > 0)
    OBVIOUS
  <2>1. al = (a + 1) % 256 /\ an = (a + 2) % 256
    BY <1>0
  <2> QED BY <1>0, <2>1, AgesApart
<1>3. n # None /\ Twin(f, l, n) =>
         /\ an = al /\ GetLastUsedPage(f, l) > GetLastUsedPage(f, n) /\ ~(GetLastUsedPage(f, n) > GetLastUsedPage(f, l))
  <2>1. GetLastUsedPage(f, l) \in Nat /\ GetLastUsedPage(f, n) \in Nat
    BY LastUsedPageOK DEF Pages
  <2> QED BY <2>1 DEF Twin, al, an
<1> DEFINE twin == Twin(f, l, n)
<1> HIDE DEF twin
<1>4. CASE b = d
  <2>1. DataAt(d, l, n, b + 1) = d /\ ~Seen(d, b)
    BY <1>0, <1>4 DEF DataAt, Seen
  <2>2. Seen(l, b + 1) = Seen(l, b) /\ Seen(n, b + 1) = Seen(n, b) /\ Seen(d, b + 1)
    BY <1>0, <1>4 DEF Seen
  <2>3. CASE ~Seen(l, b) /\ ~Seen(n, b)
    <3>1. r.data = None /\ LogAt(f, d, l, n, b + 1) = None
      BY <2>1, <2>2, <2>3 DEF DataAt, LogAt
    <3> QED BY <1>4, <2>1, <3>1 DEF FillBlkToZoneTbl
  <2>4. CASE Seen(l, b)
    <3>1. r.data = l /\ LogAt(f, d, l, n, b + 1) = l /\ l # None
      BY <2>1, <2>2, <2>4 DEF DataAt, LogAt, Seen
    <3>2. FillBlkToZoneTbl(f, r, b) = [data |-> b, log |-> r.data, loser |-> r.log]
      BY <1>0, <1>1, <1>4, <3>1 DEF FillBlkToZoneTbl, a, al
    <3> QED BY <1>4, <2>1, <3>1, <3>2
  <2>5. CASE ~Seen(l, b) /\ Seen(n, b)
    <3>1. r.data = n /\ r.log = None /\ n # None
      BY <2>1, <2>5 DEF DataAt, LogAt, Seen
    <3>2. CASE Twin(f, l, n)
      <4>1. LogAt(f, d, l, n, b + 1) = n
        BY <2>2, <2>5, <3>2 DEF LogAt
      <4>2. an = al /\ al = (a + 1) % 256 /\ al # a /\ ~(CompareAge(a, al) > 0)
        BY <1>0, <1>1, <1>3, <3>1, <3>2 DEF twin
      <4>3. FillBlkToZoneTbl(f, r, b) = [data |-> b, log |-> r.data, loser |-> r.log]
        BY <1>4, <3>1, <4>2 DEF FillBlkToZoneTbl, a, an
      <4> QED BY <1>4, <2>1, <3>1, <4>1, <4>3
    <3>3. CASE ~Twin(f, l, n)
      <4>1. LogAt(f, d, l, n, b + 1) = None
        BY <2>2, <2>5, <3>3 DEF LogAt
      <4>2. an # (a + 1) % 256 /\ an # a /\ ~(CompareAge(a, an) > 0)
        BY <1>2, <3>1, <3>3
      <4>3. FillBlkToZoneTbl(f, r, b) = [data |-> b, log |-> r.log, loser |-> r.data]
        BY <1>4, <3>1, <4>2 DEF FillBlkToZoneTbl, a, an
      <4> QED BY <1>4, <2>1, <3>1, <4>1, <4>3
    <3> QED BY <3>2, <3>3
  <2> QED BY <2>3, <2>4, <2>5
<1>5. CASE b = l
  <2>0. l # None
    BY <1>5
  <2>1. Seen(l, b + 1) /\ ~Seen(l, b) /\ Seen(n, b + 1) = Seen(n, b) /\ Seen(d, b + 1) = Seen(d, b)
    BY <1>0, <1>5, <2>0 DEF Seen
  <2>2. DataAt(d, l, n, b + 1) = IF Seen(d, b) THEN d ELSE l
    BY <2>1 DEF DataAt
  <2>3. CASE ~Seen(d, b) /\ ~Seen(n, b)
    <3>1. r.data = None /\ LogAt(f, d, l, n, b + 1) = None
      BY <2>1, <2>3 DEF DataAt, LogAt
    <3> QED BY <1>5, <2>2, <2>3, <3>1 DEF FillBlkToZoneTbl
  <2>4. CASE Seen(d, b)
    <3>1. r.data = d /\ d # None /\ LogAt(f, d, l, n, b + 1) = l /\ al = (a + 1) % 256 /\ al # a /\ CompareAge(al, a) > 0
      BY <1>0, <1>1, <2>0, <2>1, <2>4 DEF DataAt, LogAt
    <3>2. CASE r.log = None
      <4>1. FillBlkToZoneTbl(f, r, b) = [data |-> r.data, log |-> b, loser |-> None]
        BY <1>5, <3>1, <3>2 DEF FillBlkToZoneTbl, a, al
      <4> QED BY <1>5, <2>2, <2>4, <3>1, <4>1
    <3>3. CASE r.log # None
      <4>1. r.log = n /\ n # None /\ Twin(f, l, n)
        BY <2>1, <2>4, <3>3 DEF LogAt, Seen
      <4>2. GetLastUsedPage(f, b) > GetLastUsedPage(f, r.log)
        BY <1>3, <1>5, <4>1
      <4>3. FillBlkToZoneTbl(f, r, b) = [data |-> r.data, log |-> b, loser |-> r.log]
        BY <1>5, <3>1, <3>3, <4>2 DEF FillBlkToZoneTbl, a, al
      <4> QED BY <1>5, <2>2, <2>4, <3>1, <4>3
    <3> QED BY <3>2, <3>3
  <2>5. CASE ~Seen(d, b) /\ Seen(n, b)
    <3>1. r.data = n /\ n # None /\ r.log = None
      BY <2>1, <2>5 DEF DataAt, LogAt, Seen
    <3>2. CASE Twin(f, l, n)
      <4>1. LogAt(f, d, l, n, b + 1) = None
        BY <2>1, <2>5, <3>2 DEF LogAt
      <4>2. an = al /\ GetLastUsedPage(f, b) > GetLastUsedPage(f, r.data)
        BY <1>3, <1>5, <3>1, <3>2
      <4>3. FillBlkToZoneTbl(f, r, b) = [data |-> b, log |-> r.log, loser |-> r.data]
        BY <1>5, <3>1, <4>2 DEF FillBlkToZoneTbl, an, al
      <4> QED BY <1>5, <2>2, <2>5, <3>1, <4>1, <4>3
    <3>3. CASE ~Twin(f, l, n)
      <4>1. LogAt(f, d, l, n, b + 1) = n
        BY <2>1, <2>5, <3>3 DEF LogAt
      <4>2. al # an /\ an = (al + 1) % 256 /\ ~(CompareAge(al, an) > 0)
        BY <1>2, <3>1, <3>3
      <4>3. FillBlkToZoneTbl(f, r, b) = [data |-> b, log |-> r.data, loser |-> r.log]
        BY <1>5, <3>1, <4>2 DEF FillBlkToZoneTbl, an, al
      <4> QED BY <1>5, <2>2, <2>5, <3>1, <4>1, <4>3
    <3> QED BY <3>2, <3>3
  <2> QED BY <2>3, <2>4, <2>5
<1>6. CASE b = n
  <2>0. n # None /\ l # None
    BY <1>0, <1>6
  <2>1. Seen(n, b + 1) /\ ~Seen(n, b) /\ Seen(l, b + 1) = Seen(l, b) /\ Seen(d, b + 1) = Seen(d, b)
    BY <1>0, <1>6, <2>0 DEF Seen
  <2>3. CASE ~Seen(d, b) /\ ~Seen(l, b)
    <3>1. r.data = None /\ LogAt(f, d, l, n, b + 1) = None /\ DataAt(d, l, n, b + 1) = n
      BY <2>1, <2>3 DEF DataAt, LogAt
    <3> QED BY <1>6, <3>1 DEF FillBlkToZoneTbl
  <2>4. CASE Seen(d, b)
    <3>1. r.data = d /\ d # None /\ DataAt(d, l, n, b + 1) = d
      BY <1>0, <2>1, <2>4 DEF DataAt
    <3>2. CASE ~Twin(f, l, n)
      <4>1. LogAt(f, d, l, n, b + 1) = r.log
        BY <2>1, <2>4, <3>2 DEF LogAt
      <4>2. an # (a + 1) % 256 /\ an # a /\ CompareAge(an, a) > 0
        BY <1>2, <2>0, <3>2
      <4>3. FillBlkToZoneTbl(f, r, b) = [data |-> r.data, log |-> r.log, loser |-> b]
        <5>1. f[b][0].status = an /\ f[r.data][0].status = a /\ r.data # None
          BY <1>6, <3>1 DEF a, an
        <5> QED BY <4>2, <5>1 DEF FillBlkToZoneTbl
      <4> QED BY <3>1, <4>1, <4>3
    <3>3. CASE Twin(f, l, n)
      <4>2. an = al /\ al = (a + 1) % 256 /\ al # a /\ CompareAge(al, a) > 0
        BY <1>0, <1>1, <1>3, <2>0, <3>3
      <4>3. CASE Seen(l, b)
        <5>1. r.log = l /\ LogAt(f, d, l, n, b + 1) = l
          BY <2>1, <2>4, <4>3 DEF LogAt
        <5>2. ~(GetLastUsedPage(f, b) > GetLastUsedPage(f, r.log))
          BY <1>3, <1>6, <2>0, <3>3, <5>1
        <5>3. FillBlkToZoneTbl(f, r, b) = [data |-> r.data, log |-> r.log, loser |-> b]
          BY <1>6, <2>0, <3>1, <4>2, <5>1, <5>2 DEF FillBlkToZoneTbl, a, an
        <5> QED BY <3>1, <5>1, <5>3
      <4>4. CASE ~Seen(l, b)
        <5>1. r.log = None /\ LogAt(f, d, l, n, b + 1) = n
          BY <2>1, <2>4, <3>3, <4>4 DEF LogAt
        <5>2. FillBlkToZoneTbl(f, r, b) = [data |-> r.data, log |-> b, loser |-> None]
          BY <1>6, <3>1, <4>2, <5>1 DEF FillBlkToZoneTbl, a, an
        <5> QED BY <1>6, <3>1, <5>1, <5>2
      <4> QED BY <4>3, <4>4
    <3> QED BY <3>2, <3>3
  <2>5. CASE ~Seen(d, b) /\ Seen(l, b)
    <3>1. r.data = l /\ r.log = None /\ DataAt(d, l, n, b + 1) = l
      BY <2>1, <2>5 DEF DataAt, LogAt
    <3>2. CASE Twin(f, l, n)
      <4>1. LogAt(f, d, l, n, b + 1) = None
        BY <2>1, <2>5, <3>2 DEF LogAt
      <4>2. an = al /\ ~(GetLastUsedPage(f, b) > GetLastUsedPage(f, r.data))
        BY <1>3, <1>6, <2>0, <3>1, <3>2
      <4>3. FillBlkToZoneTbl(f, r, b) = [data |-> r.data, log |-> r.log, loser |-> b]
        BY <1>6, <2>0, <3>1, <4>2 DEF FillBlkToZoneTbl, an, al
      <4> QED BY <3>1, <4>1, <4>3
    <3>3. CASE ~Twin(f, l, n)
      <4>1. LogAt(f, d, l, n, b + 1) = n
        BY <2>1, <2>5, <3>3 DEF LogAt
      <4>2. al # an /\ an = (al + 1) % 256 /\ CompareAge(an, al) > 0
        BY <1>2, <2>0, <3>3
      <4>3. FillBlkToZoneTbl(f, r, b) = [data |-> r.data, log |-> b, loser |-> None]
        BY <1>6, <2>0, <3>1, <4>2 DEF FillBlkToZoneTbl, an, al
      <4> QED BY <1>6, <3>1, <4>1, <4>3
    <3> QED BY <3>2, <3>3
  <2> QED BY <2>3, <2>4, <2>5
<1> QED BY <1>4, <1>5, <1>6

\* The scan settles on data block and log block.
LEMMA FamilyFound ==
    ASSUME NEW f, NEW d, NEW l, NEW n, Family(f, d, l, n)
    PROVE  Rebuilt(f).data = d /\ Rebuilt(f).log = l
<1> DEFINE Right(k) == Scan(f)[k].data = DataAt(d, l, n, k) /\ Scan(f)[k].log = LogAt(f, d, l, n, k)
           T == {k \in Nat : k <= BLOCKS /\ ~Right(k)}
<1>0. BLOCKS \in Nat /\ d \in Nat /\ d < BLOCKS /\ d # None /\ (l # None => l \in Nat /\ l < BLOCKS) /\ (n # None => n \in Nat /\ n < BLOCKS)
  BY BlocksAssumption, NotNone DEF Family, Phys
<1>1. Right(0)
  <2>1. ~Seen(d, 0) /\ ~Seen(l, 0) /\ ~Seen(n, 0)
    BY <1>0 DEF Seen
  <2>2. DataAt(d, l, n, 0) = None /\ LogAt(f, d, l, n, 0) = None
    BY <2>1 DEF DataAt, LogAt
  <2> QED BY <2>2, ScanStep DEF NothingFound
<1>2. ASSUME NEW b \in Phys, Right(b)
      PROVE  Right(b + 1)
  <2>1. CASE Scanned(f, b)
    <3>1. b \in {d, l, n} \ {None}
      BY <2>1 DEF Family
    <3>2. Scan(f)[b + 1] = FillBlkToZoneTbl(f, Scan(f)[b], b)
      BY <2>1, ScanStep
    <3> QED BY <1>2, <3>1, <3>2, FamilyStep
  <2>2. CASE ~Scanned(f, b)
    <3>1. b # d /\ (l # None => b # l) /\ (n # None => b # n) /\ b \in Nat
      BY <1>0, <2>2 DEF Family, Phys
    <3>2. Seen(d, b + 1) = Seen(d, b) /\ Seen(l, b + 1) = Seen(l, b) /\ Seen(n, b + 1) = Seen(n, b)
      BY <1>0, <3>1 DEF Seen
    <3>3. Scan(f)[b + 1] = Scan(f)[b]
      BY <2>2, ScanStep
    <3> QED BY <1>2, <3>2, <3>3 DEF DataAt, LogAt
  <2> QED BY <2>1, <2>2
<1> HIDE DEF Right
<1>3. T = {}
  <2> SUFFICES ASSUME T # {}
               PROVE  FALSE
    OBVIOUS
  <2>1. T \in SUBSET Nat
    OBVIOUS
  <2>2. PICK k \in T : \A i \in T : k <= i
    <3> HIDE DEF T
    <3> QED BY <2>1, Smallest
  <2>3. k # 0 /\ k \in Nat /\ k <= BLOCKS
    BY <1>1, <2>2
  <2>4. k - 1 \in Nat /\ k - 1 \in Phys /\ ~(k <= k - 1) /\ k - 1 <= BLOCKS /\ k - 1 + 1 = k
    BY <1>0, <2>3 DEF Phys
  <2>5. Right(k - 1)
    BY <2>2, <2>4
  <2> QED BY <1>2, <2>2, <2>4, <2>5
<1>4. Right(BLOCKS)
  BY <1>0, <1>3
<1>5. Seen(d, BLOCKS) /\ (l # None => Seen(l, BLOCKS)) /\ (l = None => n = None)
  BY <1>0 DEF Seen, Family
<1>6. DataAt(d, l, n, BLOCKS) = d /\ LogAt(f, d, l, n, BLOCKS) = l
  BY <1>5 DEF DataAt, LogAt, Seen
<1> QED BY <1>4, <1>6, ScanUnfold DEF Right

\* Nothing is found where no block has logical information.
LEMMA NoneFound ==
    ASSUME NEW f, \A b \in Phys : ~Scanned(f, b)
    PROVE  Rebuilt(f).data = None
<1> DEFINE T == {k \in Nat : k <= BLOCKS /\ Scan(f)[k] # NothingFound}
<1>0. BLOCKS \in Nat
  BY BlocksAssumption
<1>1. T = {}
  <2> SUFFICES ASSUME T # {}
               PROVE  FALSE
    OBVIOUS
  <2>1. T \in SUBSET Nat
    OBVIOUS
  <2>2. PICK k \in T : \A i \in T : k <= i
    <3> HIDE DEF T
    <3> QED BY <2>1, Smallest
  <2>3. k # 0 /\ k \in Nat /\ k <= BLOCKS
    BY <2>2, ScanStep
  <2>4. k - 1 \in Nat /\ k - 1 \in Phys /\ ~(k <= k - 1) /\ k - 1 <= BLOCKS /\ k - 1 + 1 = k
    BY <1>0, <2>3 DEF Phys
  <2>5. Scan(f)[k - 1] = NothingFound
    BY <2>2, <2>4
  <2>6. Scan(f)[k - 1 + 1] = Scan(f)[k - 1]
    BY <2>4, ScanStep
  <2> QED BY <2>2, <2>4, <2>5, <2>6
<1>2. Scan(f)[BLOCKS] = NothingFound
  BY <1>0, <1>1
<1> QED BY <1>2, ScanUnfold DEF NothingFound

-----------------------------------------------------------------------------
(* What a rebuild finds.                                                    *)

\* The bad blocks and the free ones are not looked at, nor those whose page 0 is erased.
LEMMA ScannedRoles ==
    ASSUME TypeInv, DataInv, AccInv, UseInv, NEW b \in Phys, Scanned(flash, b)
    PROVE  b \in Roles(dataBlk, Log, Work, None, Old)
<1>1. pc \notin {"off", "scan", "restore"}
  BY DEF DataInv
<1>2. Split(free, bad, dataBlk, Log, Work, None, Old)
  BY <1>1 DEF AccInv, Accounted, Spare
<1>3. b \notin bad /\ flash[b][0].info
  BY DEF Scanned
<1>4. b \notin free
  <2>1. \A c \in free : flash[c] = ErasedBlock
    BY <1>1 DEF UseInv, Stored, FreeErased, Known
  <2> QED BY <1>3, <2>1, ErasedPage, Geometry
<1> QED BY <1>2, <1>3, <1>4 DEF Split

LEMMA RolesGood ==
    ASSUME TypeInv, DataInv, AccInv
    PROVE  /\ pc \notin {"off", "scan", "restore", "fail"} /\ Mode = pc
           /\ dataBlk \in Phys /\ dataBlk # None
           /\ \A b \in Roles(dataBlk, Log, Work, None, Old) : b \notin bad
           /\ dataBlk \notin {Log, Work} /\ (Log # None => Log # Work)
           /\ \A b \in {dataBlk, Log, Work} : b \notin Old
<1>1. pc \notin {"off", "scan", "restore", "fail"}
  BY DEF DataInv, AccInv
<1>2. Split(free, bad, dataBlk, Log, Work, None, Old)
  BY <1>1 DEF AccInv, Accounted, Spare
<1>3. dataBlk \in Phys /\ dataBlk # None
  BY <1>1, Typed, NotNone DEF TypeInv, BlocksNamed
<1> QED BY <1>1, <1>2, <1>3 DEF Split, Mode

\* A used page is not erased.
LEMMA UsedKnown == ASSUME NEW b, NEW p \in Pages PROVE flash[b][p] = Erased => p \notin UsedPages(flash, b)
BY DEF UsedPages, Erased

\* The last page that the search finds, in a block without page map pages.
LEMMA PlainMap ==
    ASSUME NEW b \in Phys, NoTables(flash[b]), Heads
    PROVE  MapOf(flash[b], ReadPageMapTbl(flash, b, GetLastUsedPage(flash, b)))
<1> DEFINE u == GetLastUsedPage(flash, b)
<1>1. u \in Pages /\ u # None /\ b # None
  <2>1. u \in Pages
    BY LastUsedPageOK
  <2> QED BY <2>1, NotNone
<1>2. ~IsMapPage(flash[b][u])
  BY <1>1 DEF NoTables, Heads
<1> HIDE DEF u
<1>3. MapOf(flash[b], ReadPageMapTbl(flash, b, u))
  BY <1>1, <1>2, RebuiltMap
<1> QED BY <1>3 DEF u

\* The last page of the log block is found: it is the page LastUsedPage stands for, or the
\* last one before it while that is not programmed yet.
LEMMA LogLast ==
    ASSUME TypeInv, CutInv, LogWaits, lastUsed # None, pc # "swap"
    PROVE  LET u == GetLastUsedPage(flash, logBlk) IN
           /\ u # 0 => u \in UsedPages(flash, logBlk) /\ \A p \in UsedPages(flash, logBlk) : p <= u
           /\ pc # "program" => u = lastUsed
<1> DEFINE U == UsedPages(flash, logBlk)
           u == GetLastUsedPage(flash, logBlk)
<1>1. lastUsed \in Pages /\ lastUsed \in Nat /\ U \subseteq Pages /\ PAGES - 1 \in Nat
  BY Typed, Geometry DEF TypeInv, Pages, UsedPages
<1>2. /\ LinesUsed(logBlk, lastUsed) /\ (pc # "program" => lastUsed \in U)
      /\ \A p \in Pages : p > lastUsed => flash[logBlk][p] = Erased
  BY DEF CutInv, LogLines
<1>3. \A p \in U : p <= lastUsed
  BY <1>1, <1>2, UsedKnown DEF Pages
<1>4. CASE U = {}
  BY <1>2, <1>4, NothingFound0
<1>5. CASE U # {}
  <2>1. PICK m \in U : \A p \in U : p <= m
    BY <1>1, <1>5, Largest DEF Pages
  <2>2. m \in Nat /\ m <= lastUsed
    BY <1>1, <1>3, <2>1 DEF Pages
  <2>3. Line(m) \in Nat /\ Line(lastUsed) \in Nat /\ ~(Line(lastUsed) < Line(m))
    BY <1>1, <2>2, LineOf, LineOrder
  <2>4. \A n \in 0 .. Line(m) - 1 : LineUsed(flash, logBlk, n)
    <3>1. \A n \in 0 .. Line(m) - 1 : n \in 0 .. Line(lastUsed) - 1
      BY <2>3
    <3> QED BY <1>2, <3>1 DEF LinesUsed
  <2>5. u = m
    BY <2>1, <2>4, LastPageFound
  <2>6. pc # "program" => m = lastUsed
    BY <1>1, <1>2, <2>1, <2>2
  <2> QED BY <2>1, <2>5, <2>6
<1> QED BY <1>4, <1>5

\* The map a rebuild reads for the log block.
LEMMA CutMap ==
    ASSUME TypeInv, DataInv, CutInv, Heads, LogWaits, lastUsed # None
    PROVE  MapOf(flash[logBlk], ReadPageMapTbl(flash, logBlk, GetLastUsedPage(flash, logBlk)))
<1> DEFINE u == GetLastUsedPage(flash, logBlk)
<1>1. logBlk \in Phys /\ logBlk # None
  BY Typed DEF TypeInv, LogWaits
<1>2. u \in Pages /\ u # None
  <2>1. u \in Pages
    BY LastUsedPageOK
  <2> QED BY <2>1, NotNone
<1>3. CASE ~IsMapPage(flash[logBlk][u])
  <2> HIDE DEF u
  <2>1. MapOf(flash[logBlk], ReadPageMapTbl(flash, logBlk, u))
    BY <1>1, <1>2, <1>3, RebuiltMap
  <2> QED BY <2>1 DEF u
<1>4. CASE IsMapPage(flash[logBlk][u])
  <2>1. u # 0
    BY <1>1, <1>4 DEF Heads
  <2>2. CASE pc = "swap"
    <3>1. NoTables(flash[job.blk])
      BY <2>2 DEF CutInv, Plain, Merges
    <3>2. job.blk = logBlk
      BY <2>2 DEF DataInv, SwapHalf
    <3> QED BY <1>2, <1>4, <2>1, <3>1, <3>2 DEF NoTables
  <2>3. CASE pc # "swap"
    <3>1. \A p \in UsedPages(flash, logBlk) : p <= u
      BY <2>1, <2>3, LogLast
    <3>2. MapOf(flash[logBlk], saved[logBlk])
      BY <1>2, <1>4, <2>1, <3>1 DEF CutInv, TableLast
    <3>3. ReadPageMapTbl(flash, logBlk, u) = saved[logBlk]
      BY <1>1, <1>2, <1>4 DEF ReadPageMapTbl
    <3> QED BY <3>2, <3>3
  <2> QED BY <2>2, <2>3
<1> QED BY <1>3, <1>4

\* What a rebuilt table reads, with a log block and without.
LEMMA RebuiltReads ==
    ASSUME NEW d \in Phys, NEW l \in Phys, NEW n, Family(flash, d, l, n), NEW i \in Pages, NEW value,
           MapOf(flash[l], ReadPageMapTbl(flash, l, GetLastUsedPage(flash, l))),
           Stands(i, flash[l], flash[d], value)
    PROVE  RebuiltRead(i) = value
<1> DEFINE map == ReadPageMapTbl(flash, l, GetLastUsedPage(flash, l))
<1>1. Rebuilt(flash).data = d /\ Rebuilt(flash).log = l /\ d # None /\ l # None
  BY FamilyFound, NotNone
<1>2. RebuiltRead(i) = PageRead(flash, d, l, map, i)
  BY <1>1 DEF RebuiltRead
<1>3. LastNamed(flash[l], i, map[i])
  BY DEF MapOf
<1> HIDE DEF map
<1>4. map[i] \in Places
  BY <1>3 DEF LastNamed, Named, Places
<1>5. value = IF map[i] = None THEN flash[d][i].val ELSE flash[l][map[i]].val
  BY <1>3, <1>4 DEF Stands
<1> QED BY <1>1, <1>2, <1>5 DEF PageRead

LEMMA RebuiltReadsData ==
    ASSUME NEW d \in Phys, Family(flash, d, None, None), NEW i \in Pages
    PROVE  RebuiltRead(i) = flash[d][i].val
<1>1. Rebuilt(flash).data = d /\ Rebuilt(flash).log = None /\ d # None
  BY FamilyFound, NotNone
<1> QED BY <1>1 DEF RebuiltRead, PageRead

\* A block of pages in their place that stands for itself stands before any other one.
LEMMA StandsAlone ==
    ASSUME TypeInv, Unnamed, NEW b \in Phys, \A q \in Pages : InPlace(flash[b][q], q), NEW i \in Pages, NEW data,
           flash[b][i].val # Junk
    PROVE  Stands(i, flash[b], data, flash[b][i].val)
<1>1. flash[b][i].lp # None
  BY DEF Unnamed
<1>2. flash[b][i].lp = i
  BY <1>1 DEF InPlace
<1> QED BY <1>2, StandsInPlace

LEMMA WantNotJunk == ASSUME TypeInv, NEW i \in Pages, want[i] # Any PROVE want[i] # Junk
<1>1. want[i] \in 0 .. count.load.writes
  BY Typed DEF TypeInv, Wants
<1> QED BY <1>1, JunkAssumption

LEMMA AgeByte == ASSUME TypeInv, NEW b \in Phys PROVE flash[b][0].status \in 0 .. 255
<1>1. flash[b][0] \in Page
  BY Typed, Geometry DEF TypeInv, Blocks
<1> QED BY <1>1 DEF Page

\* The block that the move merge fills is less full than the log block.
LEMMA MoveTwin ==
    ASSUME TypeInv, DataInv, CutInv, LogWaits, pc = "move" \/ (pc = "erase" /\ job.kind = "move")
    PROVE  GetLastUsedPage(flash, job.blk) < GetLastUsedPage(flash, logBlk)
<1> DEFINE u == GetLastUsedPage(flash, job.blk)
<1>1. LastLine
  BY DEF CutInv, InLastLine, Erasing, SwapWaits, BothWait, SimpleWaits, MoveWaits, LogWaits
<1>2. lastUsed \in Nat /\ lastUsed # None /\ lastUsed + BANKS >= PAGES /\ BANKS \in Nat /\ PAGES \in Nat
  BY <1>1, Typed, Geometry DEF LastLine, TypeInv, Pages
<1>3. GetLastUsedPage(flash, logBlk) = lastUsed
  BY <1>2, LogLast
<1>4. job.last \in Nat /\ job.last + BANKS < PAGES
  <2>1. job.last \in Nat
    BY DEF TypeInv, RecordsOK, Jobs
  <2>2. CASE pc = "move"
    BY <2>1, <2>2, MoveRoom DEF TypeInv, PagesNamed, Moving
  <2>3. CASE pc = "erase" /\ job.kind = "move"
    BY <2>1, <2>3 DEF TypeInv, PagesNamed
  <2> QED BY <2>1, <2>2, <2>3
<1>5. \A q \in Pages : q <= job.last \/ flash[job.blk][q] = Erased
  <2>1. CASE pc = "move"
    BY <2>1 DEF DataInv, MoveHalf, MovedTo
  <2>2. CASE pc = "erase" /\ job.kind = "move"
    BY <2>2 DEF DataInv, MoveWhole
  <2> QED BY <2>1, <2>2
<1>6. u \in UsedPages(flash, job.blk) \union {0} /\ u \in Pages
  BY FoundInUse, LastUsedPageOK
<1>7. u <= job.last
  <2>1. CASE u = 0
    BY <1>4, <2>1
  <2>2. CASE u # 0
    BY <1>5, <1>6, <2>2, UsedKnown
  <2> QED BY <2>1, <2>2
<1>8. u \in Nat
  BY <1>6 DEF Pages
<1> HIDE DEF u
<1>9. u < lastUsed
  BY <1>2, <1>4, <1>7, <1>8
<1> QED BY <1>3, <1>9 DEF u

\* The families.
LEMMA OneBlock ==
    ASSUME TypeInv, NEW d \in Phys, \A b \in Phys : Scanned(flash, b) <=> b = d
    PROVE  Family(flash, d, None, None)
<1>1. d # None
  BY NotNone
<1> QED BY <1>1, AgeByte DEF Family

LEMMA TwoBlocksThere ==
    ASSUME TypeInv, NEW d \in Phys, NEW l \in Phys, d # l, Follows(l, 1, d),
           \A b \in Phys : Scanned(flash, b) <=> b \in {d, l}
    PROVE  Family(flash, d, l, None)
<1>1. d # None /\ l # None
  BY NotNone
<1> QED BY <1>1, AgeByte DEF Family, Follows

LEMMA ThreeBlocks ==
    ASSUME TypeInv, NEW d \in Phys, NEW l \in Phys, NEW n \in Phys, d # l, d # n, l # n, Follows(l, 1, d),
           flash[n][0].status = (flash[d][0].status + 2) % 256 \/ Twin(flash, l, n),
           \A b \in Phys : Scanned(flash, b) <=> b \in {d, l, n}
    PROVE  Family(flash, d, l, n)
<1>1. d # None /\ l # None /\ n # None
  BY NotNone
<1> QED BY <1>1, AgeByte DEF Family, Follows

LEMMA StandsEmpty ==
    ASSUME NEW f, \A q \in Pages : f[q] = Erased, NEW i \in Pages, NEW data, NEW value, Stands(i, f, data, value)
    PROVE  value = data[i].val
<1>1. LastNamed(f, i, None) /\ None \in Places
  BY NothingNamed DEF Places
<1> QED BY <1>1 DEF Stands

\* A block in use without logical information is erased.
LEMMA NoInfo ==
    ASSUME TypeInv, DataInv, AccInv, UseInv, NEW b \in Roles(dataBlk, Log, Work, None, Old), b \in Phys, ~flash[b][0].info
    PROVE  flash[b] = ErasedBlock /\ ~Scanned(flash, b)
BY RolesGood DEF UseInv, Stored, Blank, Scanned

LEMMA WithInfo ==
    ASSUME TypeInv, DataInv, AccInv, NEW b \in Roles(dataBlk, Log, Work, None, Old), flash[b][0].info
    PROVE  Scanned(flash, b)
BY RolesGood DEF Scanned

\* While no merge copies to another block and none erases blocks.
LEMMA CutPlain ==
    ASSUME TypeInv, DataInv, AccInv, UseInv, CutInv, Heads, pc \notin {"simple", "move", "erase"},
           NEW i \in Pages, want[i] # Any
    PROVE  RebuiltRead(i) = want[i]
<1>1. /\ dataBlk \in Phys /\ dataBlk # None /\ Mode = pc /\ pc \notin {"off", "scan", "restore", "fail"}
      /\ logBlk \in Phys \union {None}
  BY RolesGood, Typed DEF TypeInv
<1>2. /\ \A b : b \in Roles(dataBlk, Log, Work, None, Old) <=> b \in {dataBlk, logBlk} \ {None}
      /\ dataBlk # logBlk
  <2>1. Old = {}
    BY DEF Old
  <2>2. CASE pc = "swap"
    <3>1. Log = None /\ Work = job.blk /\ job.blk = logBlk
      BY <1>1, <2>2 DEF Log, Work, DataInv, SwapHalf, Merges
    <3> QED BY <1>1, <2>1, <3>1, RolesGood DEF Roles
  <2>3. CASE pc # "swap"
    <3>1. Log = logBlk /\ Work = None
      BY <1>1, <2>3 DEF Log, Work, Merges
    <3> QED BY <1>1, <2>1, <3>1, RolesGood DEF Roles
  <2> QED BY <2>2, <2>3
<1>3. LogPages = IF logBlk = None THEN ErasedBlock ELSE flash[logBlk]
  BY DEF LogPages
<1>4. Stands(i, LogPages, flash[dataBlk], want[i])
  BY DEF DataInv, WantKept
<1>5. \A b \in Phys : Scanned(flash, b) => b \in {dataBlk, logBlk} \ {None}
  BY <1>2, ScannedRoles
<1>6. CASE logBlk = None \/ (logBlk # None /\ ~flash[logBlk][0].info)
  <2>1. \A q \in Pages : LogPages[q] = Erased
    <3>1. logBlk # None => flash[logBlk] = ErasedBlock
      BY <1>1, <1>2, <1>6, NoInfo
    <3> QED BY <1>3, <3>1, ErasedKnown
  <2>2. want[i] = flash[dataBlk][i].val
    BY <1>4, <2>1, StandsEmpty
  <2>3. \A b \in Phys : Scanned(flash, b) => b = dataBlk
    BY <1>1, <1>2, <1>5, <1>6, NoInfo
  <2>4. flash[dataBlk][0].info
    <3>1. ASSUME ~flash[dataBlk][0].info PROVE FALSE
      <4>1. flash[dataBlk] = ErasedBlock
        BY <1>1, <1>2, <3>1, NoInfo
      <4>2. want[i] = Junk
        BY <2>2, <4>1, ErasedKnown
      <4> QED BY <4>2, WantNotJunk
    <3> QED BY <3>1
  <2>5. \A b \in Phys : Scanned(flash, b) <=> b = dataBlk
    BY <1>1, <1>2, <2>3, <2>4, WithInfo
  <2>6. Family(flash, dataBlk, None, None)
    BY <1>1, <2>5, OneBlock
  <2> QED BY <1>1, <2>2, <2>6, RebuiltReadsData
<1>7. CASE logBlk # None /\ flash[logBlk][0].info
  <2>1. logBlk \in Phys /\ LogPages = flash[logBlk]
    BY <1>1, <1>3, <1>7
  <2>2. lastUsed # None /\ flash[dataBlk][0].info
    <3>1. ~FreshLog /\ Known
      <4>1. Known
        BY <1>1 DEF Known
      <4>2. flash[logBlk] # ErasedBlock
        BY <1>7, ErasedPage, Geometry
      <4> QED BY <1>1, <1>7, <4>1, <4>2 DEF UseInv, LogInfo
    <3>2. lastUsed # None
      BY <3>1 DEF FreshLog
    <3>3. pc # "datainfo"
      BY <1>1, <3>2 DEF TypeInv, PagesNamed
    <3> QED BY <1>1, <1>7, <3>1, <3>2, <3>3 DEF UseInv, LogInfo
  <2>3. Follows(logBlk, 1, dataBlk)
    BY <1>7 DEF CutInv, Ages
  <2>4. \A b \in Phys : Scanned(flash, b) <=> b \in {dataBlk, logBlk}
    BY <1>1, <1>2, <1>5, <1>7, <2>2, WithInfo
  <2>5. Family(flash, dataBlk, logBlk, None)
    BY <1>1, <1>2, <2>1, <2>3, <2>4, TwoBlocksThere
  <2>6. MapOf(flash[logBlk], ReadPageMapTbl(flash, logBlk, GetLastUsedPage(flash, logBlk)))
    <3>1. LogWaits
      BY <1>7 DEF LogWaits
    <3> QED BY <2>2, <3>1, CutMap
  <2> QED BY <1>1, <1>4, <2>1, <2>5, <2>6, RebuiltReads
<1> QED BY <1>6, <1>7

\* While a merge fills another block.
LEMMA CutFills ==
    ASSUME TypeInv, DataInv, AccInv, UseInv, CutInv, Heads, pc \in {"simple", "move"},
           NEW i \in Pages, want[i] # Any
    PROVE  RebuiltRead(i) = want[i]
<1>1. /\ dataBlk \in Phys /\ dataBlk # None /\ Mode = pc /\ logBlk \in Phys /\ logBlk # None
      /\ job.blk \in Phys /\ job.blk # None
  <2>1. dataBlk \in Phys /\ dataBlk # None /\ Mode = pc
    BY RolesGood
  <2>2. logBlk # None /\ job.blk # None
    BY <2>1 DEF TypeInv, BlocksNamed, Merges
  <2> QED BY <2>1, <2>2, Typed DEF TypeInv, RecordsOK, Jobs
<1>2. /\ \A b : b \in Roles(dataBlk, Log, Work, None, Old) <=> b \in {dataBlk, logBlk, job.blk}
      /\ dataBlk # logBlk /\ dataBlk # job.blk /\ logBlk # job.blk
  <2>1. Old = {} /\ Log = logBlk /\ Work = job.blk
    BY <1>1 DEF Old, Log, Work, Merges
  <2> QED BY <1>1, <2>1, RolesGood DEF Roles
<1>3. Stands(i, flash[logBlk], flash[dataBlk], want[i])
  <2>1. LogPages = flash[logBlk]
    BY <1>1 DEF LogPages
  <2> QED BY <2>1 DEF DataInv, WantKept
<1>4. lastUsed # None /\ flash[dataBlk][0].info /\ flash[logBlk][0].info /\ LogWaits
  <2>1. Known
    BY DEF Known
  <2>2. lastUsed # None /\ flash[dataBlk][0].info
    BY <1>1, <2>1 DEF UseInv, LogInfo
  <2>3. ~FreshLog
    BY <1>1, <2>2 DEF FreshLog
  <2> QED BY <1>1, <2>1, <2>2, <2>3 DEF UseInv, LogInfo, LogWaits
<1>5. Follows(logBlk, 1, dataBlk)
  BY <1>1, <1>4 DEF CutInv, Ages
<1>6. MapOf(flash[logBlk], ReadPageMapTbl(flash, logBlk, GetLastUsedPage(flash, logBlk)))
  BY <1>4, CutMap
<1>7. \A b \in Phys : Scanned(flash, b) <=> b \in {dataBlk, logBlk} \/ (b = job.blk /\ flash[job.blk][0].info)
  BY <1>1, <1>2, <1>4, ScannedRoles, NoInfo, WithInfo
<1>8. CASE ~flash[job.blk][0].info
  <2>1. Family(flash, dataBlk, logBlk, None)
    BY <1>1, <1>2, <1>5, <1>7, <1>8, TwoBlocksThere
  <2> QED BY <1>1, <1>3, <1>6, <2>1, RebuiltReads
<1>9. CASE flash[job.blk][0].info
  <2>1. CASE pc = "simple"
    <3>1. flash[job.blk][0].status = (flash[dataBlk][0].status + 2) % 256
      BY <1>9, <2>1 DEF CutInv, Ages, Follows
    <3>2. Family(flash, dataBlk, logBlk, job.blk)
      BY <1>1, <1>2, <1>5, <1>7, <1>9, <3>1, ThreeBlocks
    <3> QED BY <1>1, <1>3, <1>6, <3>2, RebuiltReads
  <2>2. CASE pc = "move"
    <3>1. Twin(flash, logBlk, job.blk)
      <4>1. Follows(job.blk, 1, dataBlk)
        BY <1>9, <2>2 DEF CutInv, Ages
      <4> QED BY <1>4, <1>5, <2>2, <4>1, MoveTwin DEF Twin, Follows
    <3>2. Family(flash, dataBlk, logBlk, job.blk)
      BY <1>1, <1>2, <1>5, <1>7, <1>9, <3>1, ThreeBlocks
    <3> QED BY <1>1, <1>3, <1>6, <3>2, RebuiltReads
  <2> QED BY <2>1, <2>2
<1> QED BY <1>8, <1>9

LEMMA OldOnes ==
    ASSUME pc = "erase"
    PROVE  /\ job.toErase = <<>> => Old = {}
           /\ \A o : job.toErase = <<o>> => Old = {o}
           /\ \A o, p : job.toErase = <<o, p>> => Old = {o, p}
<1>1. Old = {job.toErase[i] : i \in 1 .. Len(job.toErase)}
  BY DEF Old
<1>2. ASSUME job.toErase = <<>> PROVE Old = {}
  BY <1>1, <1>2
<1>3. ASSUME NEW o, job.toErase = <<o>> PROVE Old = {o}
  <2>1. Len(job.toErase) = 1 /\ job.toErase[1] = o
    BY <1>3
  <2>2. 1 .. 1 = {1}
    OBVIOUS
  <2> QED BY <1>1, <2>1, <2>2
<1>4. ASSUME NEW o, NEW p, job.toErase = <<o, p>> PROVE Old = {o, p}
  <2>1. Len(job.toErase) = 2 /\ job.toErase[1] = o /\ job.toErase[2] = p
    BY <1>4
  <2>2. 1 .. 2 = {1, 2}
    OBVIOUS
  <2> QED BY <1>1, <2>1, <2>2
<1> QED BY <1>2, <1>3, <1>4

\* A merge without a new log block, when its blocks are erased or the last one is not yet:
\* the new data block has everything.
LEMMA CutStandsFor ==
    ASSUME TypeInv, DataInv, CutInv, Heads, pc = "erase", job.kind # "move", dataBlk \in Phys, NEW o \in Phys, dataBlk # o,
           Follows(dataBlk, 1, o), \A b \in Phys : Scanned(flash, b) <=> b \in {dataBlk, o},
           NEW i \in Pages, want[i] # Any
    PROVE  RebuiltRead(i) = want[i]
<1>1. want[i] = flash[dataBlk][i].val
  <2>1. LogPages = ErasedBlock
    BY DEF LogPages
  <2>2. Stands(i, LogPages, flash[dataBlk], want[i])
    BY DEF DataInv, WantKept
  <2> QED BY <2>1, <2>2, StandsEmpty, ErasedKnown
<1>2. Stands(i, flash[dataBlk], flash[o], want[i])
  <2>1. \A q \in Pages : InPlace(flash[dataBlk][q], q)
    BY DEF DataInv, DataPlaced
  <2> QED BY <1>1, <2>1, WantNotJunk, StandsAlone DEF CutInv
<1>3. MapOf(flash[dataBlk], ReadPageMapTbl(flash, dataBlk, GetLastUsedPage(flash, dataBlk)))
  BY PlainMap DEF CutInv, Plain
<1>4. Family(flash, o, dataBlk, None)
  BY TwoBlocksThere
<1> QED BY <1>2, <1>3, <1>4, RebuiltReads

LEMMA CutErases ==
    ASSUME TypeInv, DataInv, AccInv, UseInv, CutInv, Heads, pc = "erase", NEW i \in Pages, want[i] # Any
    PROVE  RebuiltRead(i) = want[i]
<1>1. /\ dataBlk \in Phys /\ dataBlk # None /\ Mode = pc /\ Log = None /\ logBlk \in Phys \union {None}
      /\ Work = IF job.kind = "move" THEN job.blk ELSE None
      /\ LogPages = IF job.kind = "move" THEN flash[job.blk] ELSE ErasedBlock
  <2>1. dataBlk \in Phys /\ dataBlk # None /\ Mode = pc
    BY RolesGood
  <2> QED BY <2>1, Typed DEF TypeInv, Log, Work, LogPages, Merges
<1>2. \A b : b \in Roles(dataBlk, Log, Work, None, Old) <=> b \in ({dataBlk, Work} \ {None}) \union Old
  BY <1>1 DEF Roles
<1>3. dataBlk # Work /\ dataBlk \notin Old /\ Work \notin Old
  BY RolesGood
<1>4. Stands(i, LogPages, flash[dataBlk], want[i])
  BY DEF DataInv, WantKept
<1>5. job.kind = "move" => /\ job.blk \in Phys /\ job.blk # None /\ flash[job.blk][0].info /\ flash[dataBlk][0].info
                           /\ Follows(job.blk, 1, dataBlk)
  <2>1. job.kind = "move" => job.blk # None /\ Follows(job.blk, 1, dataBlk) /\ flash[job.blk][0].info /\ flash[dataBlk][0].info
    BY DEF TypeInv, BlocksNamed, CutInv, Ages, UseInv, MergeInfo
  <2> QED BY <2>1 DEF TypeInv, RecordsOK, Jobs
<1>6. CASE job.toErase = <<>> /\ job.kind # "move"
  <2>1. \A b \in Phys : Scanned(flash, b) => b = dataBlk
    BY <1>1, <1>2, <1>6, OldOnes, ScannedRoles
  <2>2. want[i] = flash[dataBlk][i].val
    BY <1>1, <1>4, <1>6, StandsEmpty, ErasedKnown
  <2>3. ASSUME ~flash[dataBlk][0].info PROVE FALSE
    <3>1. flash[dataBlk] = ErasedBlock
      BY <1>1, <1>2, <2>3, NoInfo
    <3> QED BY <2>2, <3>1, ErasedKnown, WantNotJunk
  <2>4. \A b \in Phys : Scanned(flash, b) <=> b = dataBlk
    BY <1>1, <1>2, <2>1, <2>3, WithInfo
  <2>5. Family(flash, dataBlk, None, None)
    BY <1>1, <2>4, OneBlock
  <2> QED BY <1>1, <2>2, <2>5, RebuiltReadsData
<1>7. CASE job.toErase = <<>> /\ job.kind = "move"
  <2>1. \A b \in Phys : Scanned(flash, b) <=> b \in {dataBlk, job.blk}
    BY <1>1, <1>2, <1>5, <1>7, OldOnes, ScannedRoles, WithInfo
  <2>2. Family(flash, dataBlk, job.blk, None)
    BY <1>1, <1>3, <1>5, <1>7, <2>1, TwoBlocksThere
  <2>3. MapOf(flash[job.blk], ReadPageMapTbl(flash, job.blk, GetLastUsedPage(flash, job.blk)))
    BY <1>5, <1>7, PlainMap DEF CutInv, Plain
  <2> QED BY <1>1, <1>4, <1>5, <1>7, <2>2, <2>3, RebuiltReads
<1>8. CASE SwapWaits
  <2>1. job.kind # "move"
    BY <1>8 DEF SwapWaits
  <2>2. PICK o \in Phys : job.toErase = <<o>> /\ flash[o][0].info /\ Follows(dataBlk, 1, o)
    BY <1>8 DEF SwapWaits
  <2>3. Old = {o}
    BY <2>2, OldOnes
  <2>4. \A b \in Phys : Scanned(flash, b) <=> b \in {dataBlk, o}
    BY <1>1, <1>2, <2>1, <2>2, <2>3, ScannedRoles, WithInfo DEF Follows
  <2> QED BY <1>1, <1>3, <2>1, <2>2, <2>3, <2>4, CutStandsFor
<1>9. CASE SimpleWaits
  <2>1. job.kind # "move" /\ logBlk # None /\ job.toErase = <<logBlk>> /\ flash[logBlk][0].info /\ Follows(dataBlk, 1, logBlk)
    BY <1>9 DEF SimpleWaits
  <2>2. Old = {logBlk}
    BY <2>1, OldOnes
  <2>3. \A b \in Phys : Scanned(flash, b) <=> b \in {dataBlk, logBlk}
    BY <1>1, <1>2, <2>1, <2>2, ScannedRoles, WithInfo DEF Follows
  <2>4. logBlk \in Phys /\ dataBlk # logBlk
    BY <1>1, <1>3, <2>1, <2>2
  <2> QED BY <1>1, <2>1, <2>3, <2>4, CutStandsFor
<1>10. CASE BothWait \/ MoveWaits
  <2>1. /\ logBlk # None /\ logBlk \in Phys /\ logBlk \in Old /\ LogWaits /\ logBlk # dataBlk
    <3>1. logBlk \in Old
      BY <1>10, OldOnes DEF BothWait, MoveWaits
    <3>2. logBlk # None
      BY <1>10 DEF BothWait, MoveWaits
    <3>3. job.toErase # <<>>
      BY <3>1, OldOnes
    <3> QED BY <1>1, <1>3, <3>1, <3>2, <3>3 DEF LogWaits
  <2>2. lastUsed # None
    BY <1>10 DEF MoveWaits, BothWait, LastLine
  <2>3. MapOf(flash[logBlk], ReadPageMapTbl(flash, logBlk, GetLastUsedPage(flash, logBlk)))
    BY <2>1, <2>2, CutMap
  <2>4. CASE BothWait
    <3>1. PICK o \in Phys : /\ job.toErase = <<o, logBlk>> /\ flash[o][0].info
                            /\ Follows(logBlk, 1, o) /\ Follows(dataBlk, 2, o) /\ StandsIn(flash[logBlk], flash[o])
      BY <2>4 DEF BothWait
    <3>2. job.kind # "move"
      BY <2>4 DEF BothWait
    <3>3. Old = {o, logBlk}
      BY <3>1, OldOnes
    <3>4. o # logBlk /\ o # dataBlk
      <4>1. \A x, y \in 1 .. Len(job.toErase) : x # y => job.toErase[x] # job.toErase[y]
        BY RolesGood DEF AccInv, Accounted
      <4>2. Len(job.toErase) = 2 /\ job.toErase[1] = o /\ job.toErase[2] = logBlk
        BY <3>1
      <4> QED BY <1>3, <3>3, <4>1, <4>2
    <3>5. \A b \in Phys : Scanned(flash, b) <=> b \in {o, logBlk, dataBlk}
      BY <1>1, <1>2, <2>1, <3>1, <3>2, <3>3, ScannedRoles, WithInfo DEF Follows
    <3>6. Family(flash, o, logBlk, dataBlk)
      BY <1>1, <2>1, <3>1, <3>4, <3>5, ThreeBlocks DEF Follows
    <3>7. Stands(i, flash[logBlk], flash[o], want[i])
      BY <3>1 DEF StandsIn
    <3> QED BY <2>1, <2>3, <3>6, <3>7, RebuiltReads
  <2>5. CASE MoveWaits
    <3>1. /\ job.kind = "move" /\ job.toErase = <<logBlk>> /\ Follows(logBlk, 1, dataBlk)
          /\ Stands(i, flash[logBlk], flash[dataBlk], want[i])
      BY <2>5 DEF MoveWaits, StandsIn
    <3>2. Old = {logBlk} /\ logBlk # job.blk
      BY <1>1, <1>3, <3>1, OldOnes
    <3>3. \A b \in Phys : Scanned(flash, b) <=> b \in {dataBlk, logBlk, job.blk}
      BY <1>1, <1>2, <1>5, <2>1, <3>1, <3>2, ScannedRoles, WithInfo DEF Follows
    <3>4. Twin(flash, logBlk, job.blk)
      BY <1>5, <2>1, <3>1, MoveTwin DEF Twin, Follows
    <3>5. Family(flash, dataBlk, logBlk, job.blk)
      BY <1>1, <1>3, <1>5, <2>1, <3>1, <3>2, <3>3, <3>4, ThreeBlocks
    <3> QED BY <1>1, <2>1, <2>3, <3>1, <3>5, RebuiltReads
  <2> QED BY <1>10, <2>4, <2>5
<1> QED BY <1>6, <1>7, <1>8, <1>9, <1>10 DEF CutInv, Erasing

\* What the invariant is for.
LEMMA CutReads == ASSUME TypeInv, DataInv, AccInv, UseInv, CutInv, Heads PROVE SurvivesPowerCut
<1> SUFFICES ASSUME NEW i \in Pages, want[i] # Any
             PROVE  AfterPowerCut(i) = want[i]
  BY DEF SurvivesPowerCut
<1>1. CASE ~clean
  <2>1. RebuiltRead(i) = want[i]
    BY CutPlain, CutFills, CutErases
  <2> QED BY <1>1, <2>1 DEF AfterPowerCut
<1>2. CASE clean
  <2>1. pc = "idle"
    BY <1>2, RolesGood DEF AccInv, CleanQuiet
  <2>2. Stands(i, LogPages, flash[dataBlk], want[i])
    BY DEF DataInv, WantKept
  <2> DEFINE map == ReadPageMapTbl(flash, logBlk, lastUsed)
  <2>3. AfterPowerCut(i) = PageRead(flash, dataBlk, logBlk, map, i)
    BY <1>2 DEF AfterPowerCut
  <2>4. CASE logBlk = None
    <3>1. LogPages = ErasedBlock
      BY <2>1, <2>4 DEF LogPages
    <3>2. want[i] = flash[dataBlk][i].val
      BY <2>2, <3>1, StandsEmpty, ErasedKnown
    <3> QED BY <2>3, <2>4, <3>2 DEF PageRead
  <2>5. CASE logBlk # None
    <3>1. LogPages = flash[logBlk] /\ Mapped
      BY <2>1, <2>5 DEF LogPages, Mapped
    <3>2. LastNamed(flash[logBlk], i, map[i])
      BY <2>1, <3>1, MapFetched DEF MapOf
    <3>3. map[i] \in Places
      <4> HIDE DEF map
      <4> QED BY <3>2 DEF LastNamed, Named, Places
    <3> HIDE DEF map
    <3>4. want[i] = IF map[i] = None THEN flash[dataBlk][i].val ELSE flash[logBlk][map[i]].val
      BY <2>2, <3>1, <3>2, <3>3 DEF Stands
    <3> QED BY <2>3, <2>5, <3>4 DEF PageRead
  <2> QED BY <2>4, <2>5
<1> QED BY <1>1, <1>2

-----------------------------------------------------------------------------
(* The steps.                                                               *)

LEMMA CutInit == ASSUME Init PROVE CutInv
<1>1. /\ pc = "idle" /\ logBlk = None /\ dataBlk = 0 /\ job = NoJob /\ req = NoReq
      /\ flash = [b \in Phys |-> IF b \in bad THEN MarkedBad ELSE ErasedBlock] /\ 0 \notin bad
  <2>1. PICK load \in Loads : bad = load.bad
    BY DEF Init
  <2>2. load.bad \subseteq 1 .. BLOCKS - 1
    BY LoadsAssumption
  <2> QED BY <2>1, <2>2 DEF Init
<1>2. Unnamed
  <2> SUFFICES ASSUME NEW b \in Phys, NEW p \in Pages, flash[b][p].lp = None PROVE flash[b][p].val = Junk
    BY DEF Unnamed
  <2>1. flash[b] = MarkedBad \/ flash[b] = ErasedBlock
    BY <1>1
  <2> QED BY <2>1, ErasedKnown DEF MarkedBad, Erased
<1>3. Plain
  <2>1. flash[dataBlk] = ErasedBlock
    BY <1>1, Geometry
  <2> QED BY <1>1, <2>1, ErasedKnown DEF Plain, NoTables, Merges
<1> QED BY <1>1, <1>2, <1>3 DEF CutInv, LogLines, TableLast, LogWaits, Ages, Erasing, InLastLine, MoveLines, NoReq, NoJob

\* Page t of block b takes a content.
Takes(b, t, page) ==
    /\ flash[b][t] = Erased /\ flash'[b][t] = page
    /\ \A q \in Pages \ {t} : flash'[b][q] = flash[b][q]
    /\ \A c \in Phys \ {b} : flash'[c] = flash[c]

LEMMA TakesUnnamed ==
    ASSUME Unnamed, NEW b \in Phys, NEW t \in Pages, NEW page, Takes(b, t, page), page.lp = None => page.val = Junk
    PROVE  Unnamed'
<1> SUFFICES ASSUME NEW c \in Phys, NEW q \in Pages, flash'[c][q].lp = None PROVE flash'[c][q].val = Junk
  BY DEF Unnamed
<1>1. CASE c = b /\ q = t
  BY <1>1 DEF Takes
<1>2. CASE c # b \/ q # t
  <2>1. flash'[c][q] = flash[c][q]
    BY <1>2 DEF Takes
  <2> QED BY <2>1 DEF Unnamed
<1> QED BY <1>1, <1>2

LEMMA TakesLines ==
    ASSUME NEW b \in Phys, NEW t \in Pages, NEW page, Takes(b, t, page), NEW c \in Phys
    PROVE  /\ UsedPages(flash, c) \subseteq UsedPages(flash', c)
           /\ \A n : LineUsed(flash, c, n) => LineUsed(flash', c, n)
<1>1. UsedPages(flash, c) \subseteq UsedPages(flash', c)
  <2> SUFFICES ASSUME NEW q \in UsedPages(flash, c) PROVE q \in UsedPages(flash', c)
    OBVIOUS
  <2>1. q \in Pages
    BY DEF UsedPages
  <2>2. flash[c][q] # Erased
    BY <2>1, UsedKnown
  <2>3. flash'[c][q] = flash[c][q]
    BY <2>1, <2>2 DEF Takes
  <2> QED BY <2>1, <2>3 DEF UsedPages
<1> QED BY <1>1 DEF LineUsed

\* The log block stays what it is.
LEMMA LogKept ==
    ASSUME CutInv, UNCHANGED lastUsed,
           LogWaits' => LogWaits /\ logBlk' = logBlk /\ flash'[logBlk] = flash[logBlk] /\ saved'[logBlk] = saved[logBlk],
           pc = "program" <=> pc' = "program", pc = "swap" => pc' = "swap"
    PROVE  LogLines' /\ TableLast'
<1>1. LogWaits' => UsedPages(flash', logBlk) = UsedPages(flash, logBlk)
  BY DEF UsedPages
<1>2. LogWaits' => \A n : LineUsed(flash', logBlk, n) = LineUsed(flash, logBlk, n)
  BY <1>1 DEF LineUsed
<1>3. LogLines'
  BY <1>1, <1>2 DEF CutInv, LogLines, LinesUsed
<1>4. TableLast'
  BY <1>1 DEF CutInv, TableLast
<1> QED BY <1>3, <1>4

\* Nothing is programmed, and no merge is under way.
LEMMA CutQuiet ==
    ASSUME CutInv, pc \in Quiet, pc' \in Quiet, UNCHANGED <<flash, saved, dataBlk, logBlk, lastUsed>>,
           pc' = "merge" /\ req'.special => LastLine
    PROVE  CutInv'
<1>1. /\ pc \notin Merges \union {"erase", "program"} /\ pc' \notin Merges \union {"erase", "program"}
      /\ pc # "swap"
  BY DEF Quiet, Merges
<1>2. LogLines' /\ TableLast'
  BY <1>1, LogKept DEF LogWaits
<1>3. Unnamed' /\ Plain'
  BY <1>1 DEF CutInv, Unnamed, Plain
<1>4. Ages'
  BY <1>1 DEF CutInv, Ages, Follows, Merges
<1>5. Erasing' /\ MoveLines'
  BY <1>1 DEF Erasing, MoveLines, Merges
<1>6. InLastLine'
  BY <1>1 DEF InLastLine, LastLine, Merges
<1> QED BY <1>2, <1>3, <1>4, <1>5, <1>6 DEF CutInv

LEMMA CutPageWrite == ASSUME CutInv, NEW i \in count.load.pages, LML_PageWrite(i) PROVE CutInv'
BY CutQuiet DEF LML_PageWrite, tables, Quiet

LEMMA CutSwitch == ASSUME CutInv, pc \in {"idle", "getlog", "merge"}, PMM_SwitchMapTbl PROVE CutInv'
<1>1. pc' = "merge" /\ req'.special => LastLine
  BY DEF PMM_SwitchMapTbl, CutInv, InLastLine
<1> QED BY <1>1, CutQuiet DEF PMM_SwitchMapTbl, Quiet

LEMMA CutWriteBackMapTbl == ASSUME CutInv, WriteBackMapTbl PROVE CutInv'
BY CutQuiet DEF WriteBackMapTbl, Closed, tables, Quiet

LEMMA CutMergeOldest == ASSUME CutInv, MergeOldest PROVE CutInv'
<1>1. ~req'.special
  BY DEF MergeOldest, NoReq
<1> QED BY <1>1, CutQuiet DEF MergeOldest, Closed, tables, Quiet

LEMMA CutEvictPageMap == ASSUME TypeInv, CutInv, EvictPageMap PROVE CutInv'
<1>1. /\ pc = "idle" /\ pc' \in Quiet /\ UNCHANGED <<flash, saved, dataBlk, logBlk, lastUsed>>
      /\ pc' = "merge" => mapDirty /\ lastUsed + 1 = PAGES
  BY DEF EvictPageMap, Closed, Quiet
<1>2. mapDirty /\ lastUsed + 1 = PAGES => LastLine
  <2> HAVE mapDirty /\ lastUsed + 1 = PAGES
  <2>1. lastUsed # None /\ lastUsed \in Pages
    BY Typed DEF TypeInv, PagesNamed
  <2> QED BY <2>1, Geometry DEF LastLine, Pages
<1> QED BY <1>1, <1>2, CutQuiet DEF Quiet

LEMMA CutCloseWritePage == ASSUME TypeInv, CutInv, CloseWritePage, Sound' PROVE CutInv'
<1>1. ~Failed
  BY FailsCount
<1> QED BY <1>1, CutQuiet DEF CloseWritePage, Quiet

\* A new log block is an erased one.
LEMMA CutCreateNewLogBlk == ASSUME TypeInv, UseInv, CutInv, CreateNewLogBlk PROVE CutInv'
<1>1. PICK b \in free : logBlk' = b
  BY DEF CreateNewLogBlk
<1>2. /\ pc = "getlog" /\ pc' = "datainfo" /\ lastUsed' = None /\ UNCHANGED <<flash, dataBlk>>
  BY DEF CreateNewLogBlk
<1>3. b \in Phys /\ b # None /\ flash[b] = ErasedBlock
  BY <1>1, <1>2, Typed, NotNone DEF TypeInv, UseInv, Stored, FreeErased, Known
<1>4. LogLines' /\ TableLast'
  BY <1>1, <1>2, <1>3, ErasedKnown DEF LogLines, TableLast
<1>5. Unnamed' /\ Plain'
  BY <1>2 DEF CutInv, Unnamed, Plain, Merges
<1>6. Ages'
  BY <1>1, <1>2, <1>3, ErasedPage, Geometry DEF Ages
<1>7. Erasing' /\ MoveLines' /\ InLastLine'
  BY <1>2 DEF Erasing, MoveLines, InLastLine
<1> QED BY <1>4, <1>5, <1>6, <1>7 DEF CutInv

\* The data block gets its logical information while the log block is still erased.
LEMMA CutWriteDataInfo == ASSUME TypeInv, AccInv, UseInv, CutInv, WriteDataInfo, Sound' PROVE CutInv'
<1> DEFINE content == [info |-> TRUE, status |-> FreeMark, lp |-> None, val |-> Junk]
<1>1. /\ pc = "datainfo" /\ pc' = "getlog" /\ UNCHANGED <<dataBlk, logBlk, lastUsed, saved>>
      /\ \/ flash' = flash
         \/ ~flash[dataBlk][0].info /\ flash' = Programmed(dataBlk, 0, content)
  BY FailsCount DEF WriteDataInfo, Program
<1>2. /\ dataBlk \in Phys /\ dataBlk \notin bad /\ (logBlk # None => logBlk \in Phys /\ logBlk # dataBlk) /\ flash \in Blocks
  BY <1>1, TwoBlocks, Typed DEF TypeInv
<1>3. CASE flash' = flash
  BY <1>1, <1>3, CutQuiet DEF Quiet
<1>4. CASE ~flash[dataBlk][0].info /\ flash' = Programmed(dataBlk, 0, content)
  <2>1. flash[dataBlk] = ErasedBlock
    BY <1>2, <1>4 DEF UseInv, Stored, Blank
  <2>2. 0 \in Pages /\ flash[dataBlk][0] = Erased /\ content.lp = None /\ content.val = Junk
    BY <2>1, ErasedKnown, Geometry
  <2> HIDE DEF content
  <2>3. Takes(dataBlk, 0, content)
    BY <1>2, <1>4, <2>2, ErasedTakes DEF Takes
  <2>4. logBlk # None => flash'[logBlk] = flash[logBlk] /\ flash[logBlk] = ErasedBlock
    <3>1. lastUsed = None
      BY <1>1 DEF TypeInv, PagesNamed, Mode
    <3> QED BY <1>1, <1>2, <2>3, <3>1 DEF UseInv, LogInfo, FreshLog, Known, Mode, Takes
  <2>5. LogLines' /\ TableLast'
    BY <1>1, <2>4, LogKept DEF LogWaits
  <2>6. Unnamed'
    BY <1>2, <2>2, <2>3, TakesUnnamed DEF CutInv
  <2>7. Plain'
    BY <1>1, <2>3 DEF CutInv, Plain, NoTables, Takes, Merges
  <2>8. Ages'
    BY <1>1, <2>4, ErasedPage, Geometry DEF Ages
  <2>9. Erasing' /\ MoveLines' /\ InLastLine'
    BY <1>1 DEF Erasing, MoveLines, InLastLine
  <2> QED BY <2>5, <2>6, <2>7, <2>8, <2>9 DEF CutInv
<1> QED BY <1>1, <1>3, <1>4

\* A page line is left for the next one only.
LEMMA LineAhead ==
    ASSUME NEW p \in Nat, NEW q \in Nat, q <= p + BANKS PROVE Line(q) <= Line(p) + 1
<1> DEFINE m == Line(p)
           n == Line(q)
<1>1. /\ m \in Nat /\ n \in Nat /\ BANKS \in Nat /\ BANKS > 0 /\ BANKS * m \in Nat /\ BANKS * n \in Nat
      /\ p < BANKS * m + BANKS /\ BANKS * n <= q
  BY LineOf, Geometry
<1> HIDE DEF m, n
<1> SUFFICES ASSUME m + 1 < n PROVE FALSE
  BY <1>1 DEF m, n
<1>2. n - m - 2 \in Nat
  BY <1>1
<1>3. BANKS * n = BANKS * m + BANKS + BANKS + BANKS * (n - m - 2) /\ BANKS * (n - m - 2) \in Nat
  BY <1>1, <1>2
<1> QED BY <1>1, <1>3

LEMMA LinesAhead ==
    ASSUME TypeInv, CutInv, pc \notin {"program", "erase"}, logBlk # None, NEW t \in Pages,
           IF lastUsed = None THEN t < BANKS ELSE t <= lastUsed + BANKS,
           \A n : LineUsed(flash, logBlk, n) => LineUsed(flash', logBlk, n)
    PROVE  \A n \in 0 .. Line(t) - 1 : LineUsed(flash', logBlk, n)
<1>1. t \in Nat /\ Line(t) \in Nat /\ BANKS \in Nat /\ BANKS > 0
  <2>1. t \in Nat
    BY DEF Pages
  <2> QED BY <2>1, LineOf, Geometry
<1>2. CASE lastUsed = None
  <2> DEFINE m == Line(t)
  <2>1. BANKS * m <= t /\ m \in Nat
    BY <1>1, LineOf
  <2> HIDE DEF m
  <2>2. m = 0
    <3> SUFFICES ASSUME m > 0 PROVE FALSE
      BY <2>1
    <3>1. BANKS * m = BANKS + BANKS * (m - 1) /\ BANKS * (m - 1) \in Nat
      BY <1>1, <2>1
    <3> QED BY <1>1, <1>2, <2>1, <3>1
  <2> QED BY <2>2 DEF m
<1>3. CASE lastUsed # None
  <2>1. lastUsed \in Pages /\ lastUsed \in Nat
    BY <1>3, Typed DEF TypeInv, Pages
  <2>2. Line(t) <= Line(lastUsed) + 1 /\ Line(lastUsed) \in Nat
    BY <1>1, <1>3, <2>1, LineAhead, LineOf
  <2>3. LinesUsed(logBlk, lastUsed) /\ lastUsed \in UsedPages(flash, logBlk)
    BY <1>3 DEF CutInv, LogLines, LogWaits
  <2>4. LineUsed(flash, logBlk, Line(lastUsed))
    <3>1. Line(lastUsed) \in 0 .. Lines - 1 /\ lastUsed \in LinePages(Line(lastUsed))
      BY <2>1, <2>2, LinePagesIn
    <3> QED BY <2>3, <3>1 DEF LineUsed
  <2> SUFFICES ASSUME NEW n \in 0 .. Line(t) - 1 PROVE LineUsed(flash, logBlk, n)
    OBVIOUS
  <2>5. n \in 0 .. Line(lastUsed) - 1 \/ n = Line(lastUsed)
    BY <1>1, <2>2
  <2> QED BY <2>3, <2>4, <2>5 DEF LinesUsed
<1> QED BY <1>2, <1>3

\* The log page is taken.
LEMMA CutTakeLogPage ==
    ASSUME TypeInv, TypeInv', DataInv', CutInv, pc \in {"getlog", "loginfo"}, logBlk # None, TakeLogPage,
           UNCHANGED <<dataBlk, logBlk, saved>>,
           \A n : LineUsed(flash, logBlk, n) => LineUsed(flash', logBlk, n),
           Unnamed', Plain', TableLast', Ages'
    PROVE  CutInv'
<1>1. pc' = "program" /\ lastUsed' = NextLogPage(lastUsed, req.lp)
  BY DEF TakeLogPage
<1>2. lastUsed \in Pages \union {None} /\ req.lp \in Pages /\ lastUsed' \in Pages /\ lastUsed' # None
  <2>1. lastUsed \in Pages \union {None} /\ req.lp \in Pages
    BY Typed DEF TypeInv, RecordsOK, Requests, PagesNamed, Mode
  <2>2. NextLogPage(lastUsed, req.lp) \in Nat
    BY <2>1, NextLogPageRange
  <2>3. NextLogPage(lastUsed, req.lp) # None
    BY <2>2, NotNone
  <2> QED BY <1>1, <2>1, <2>3, TypedNext DEF TypeInv
<1>3. IF lastUsed = None THEN lastUsed' < BANKS ELSE lastUsed' <= lastUsed + BANKS
  BY <1>1, <1>2, NextLogPageRange
<1>4. \A n \in 0 .. Line(lastUsed') - 1 : LineUsed(flash', logBlk, n)
  BY <1>2, <1>3, LinesAhead
<1>5. \A p \in Pages : p > lastUsed' => flash'[logBlk'][p] = Erased
  <2> SUFFICES ASSUME NEW p \in Pages, p > lastUsed' PROVE flash'[logBlk'][p] = Erased
    OBVIOUS
  <2>1. ~Filled(p)'
    <3>1. lastUsed' \in Nat /\ p \in Nat
      BY <1>2 DEF Pages
    <3> QED BY <3>1 DEF Filled
  <2> QED BY <1>1, <2>1 DEF DataInv, LogFilled
<1>6. LogLines'
  BY <1>1, <1>4, <1>5 DEF LogLines, LinesUsed, Line
<1>7. Erasing' /\ MoveLines' /\ InLastLine'
  BY <1>1 DEF Erasing, MoveLines, InLastLine
<1> QED BY <1>6, <1>7 DEF CutInv

LEMMA CutGetLogPage ==
    ASSUME TypeInv, TypeInv', AccInv', DataInv', CutInv, GetLogPage PROVE CutInv'
<1> DEFINE t == NextLogPage(lastUsed, req.lp)
<1>1. /\ pc = "getlog" /\ logBlk # None /\ UNCHANGED <<flash, saved, dataBlk, logBlk>>
      /\ \/ TakeLogPage
         \/ pc' = "loginfo" /\ UNCHANGED lastUsed
         \/ ~(t < PAGES) /\ pc' = "merge" /\ UNCHANGED lastUsed
  <2>1. pc' # "fail"
    BY DEF AccInv
  <2> HIDE DEF t
  <2> QED BY <2>1, Zenon DEF GetLogPage, HasRoom, t
<1>2. CASE TakeLogPage
  <2>1. pc' = "program"
    BY <1>2 DEF TakeLogPage
  <2>2. Unnamed' /\ Plain' /\ TableLast' /\ Ages'
    BY <1>1, <2>1 DEF CutInv, Unnamed, Plain, TableLast, LogWaits, UsedPages, Ages, Follows, Merges
  <2>3. \A n : LineUsed(flash, logBlk, n) => LineUsed(flash', logBlk, n)
    BY <1>1
  <2> QED BY <1>1, <1>2, <2>2, <2>3, CutTakeLogPage
<1>3. CASE pc' = "loginfo" /\ UNCHANGED lastUsed
  BY <1>1, <1>3, CutQuiet DEF Quiet
<1>4. CASE ~(t < PAGES) /\ pc' = "merge" /\ UNCHANGED lastUsed
  <2>1. lastUsed \in Pages \union {None} /\ req.lp \in Pages
    BY <1>1, Typed DEF TypeInv, RecordsOK, Requests, PagesNamed, Mode
  <2>2. t \in Nat /\ (lastUsed = None => t < BANKS) /\ (lastUsed # None => t <= lastUsed + BANKS)
    BY <2>1, NextLogPageRange
  <2> HIDE DEF t
  <2>3. lastUsed # None => lastUsed \in Nat
    BY <2>1 DEF Pages
  <2>4. LastLine
    BY <1>4, <2>2, <2>3, Geometry DEF LastLine
  <2> QED BY <1>1, <1>4, <2>4, CutQuiet DEF Quiet
<1> QED BY <1>1, <1>2, <1>3, <1>4

LEMMA CutWriteLogInfo ==
    ASSUME TypeInv, TypeInv', AccInv, UseInv, DataInv', CutInv, WriteLogInfo, Sound' PROVE CutInv'
<1> DEFINE content == [info |-> TRUE, status |-> LogAge, lp |-> None, val |-> Junk]
<1>1. /\ pc = "loginfo" /\ pc' = "program" /\ UNCHANGED <<saved, dataBlk, logBlk>>
      /\ flash' = Programmed(logBlk, 0, content) /\ TakeLogPage
  BY FailsCount DEF WriteLogInfo, Program, TakeLogPage
<1>2. /\ logBlk \in Phys /\ logBlk # dataBlk /\ dataBlk \in Phys /\ flash \in Blocks /\ logBlk # None
  BY <1>1, LogBlockThere, NotNone
<1>3. lastUsed = None /\ flash[logBlk] = ErasedBlock
  BY <1>1, <1>2, LogBlockThere DEF UseInv, LogInfo, FreshLog, Mode
<1>4. content.lp = None /\ content.val = Junk /\ content.info /\ content.status = (flash[dataBlk][0].status + 1) % 256
  BY DEF LogAge
<1> HIDE DEF content
<1>5. 0 \in Pages /\ flash[logBlk][0] = Erased
  BY <1>3, ErasedKnown, Geometry
<1>6. Takes(logBlk, 0, content)
  BY <1>1, <1>2, <1>5, ErasedTakes DEF Takes
<1>7. Unnamed'
  BY <1>2, <1>4, <1>5, <1>6, TakesUnnamed DEF CutInv
<1>8. \A n : LineUsed(flash, logBlk, n) => LineUsed(flash', logBlk, n)
  BY <1>2, <1>5, <1>6, TakesLines
<1>9. flash'[dataBlk] = flash[dataBlk]
  BY <1>2, <1>6 DEF Takes
<1>10. Plain'
  BY <1>1, <1>9 DEF CutInv, Plain, Merges
<1>11. TableLast'
  <2>1. \A q \in Pages \ {0} : ~IsMapPage(flash'[logBlk'][q])
    BY <1>1, <1>3, <1>6, ErasedKnown DEF Takes
  <2> QED BY <2>1 DEF TableLast
<1>12. Ages'
  <2>1. flash'[logBlk][0] = content
    BY <1>6 DEF Takes
  <2>2. Follows(logBlk, 1, dataBlk)'
    BY <1>1, <1>4, <1>9, <2>1 DEF Follows
  <2> QED BY <1>1, <2>2 DEF Ages
<1> QED BY <1>1, <1>2, <1>7, <1>8, <1>10, <1>11, <1>12, CutTakeLogPage

LEMMA CutProgramPage ==
    ASSUME TypeInv, AccInv, UseInv, DataInv, CutInv, ProgramPage PROVE CutInv'
<1> DEFINE content == [info |-> TRUE, status |-> IF lastUsed = 0 THEN LogAge ELSE DataMark,
                       lp |-> req.lp, val |-> req.val]
<1>1. /\ pc = "program" /\ pc' = "idle" /\ UNCHANGED <<saved, dataBlk, logBlk, lastUsed>>
      /\ flash' = Programmed(logBlk, lastUsed, content)
  BY DEF ProgramPage, tables
<1>2. /\ logBlk \in Phys /\ logBlk # None /\ logBlk # dataBlk /\ dataBlk \in Phys /\ flash \in Blocks
  BY <1>1, LogBlockThere, NotNone
<1>3. lastUsed \in Pages /\ lastUsed \in Nat /\ req.lp # None /\ lastUsed # None
  BY <1>1, Typed, NotNone DEF TypeInv, RecordsOK, Requests, PagesNamed, Mode, Pages
<1>4. /\ content.lp # None /\ content.info
      /\ lastUsed = 0 => content.status = (flash[dataBlk][0].status + 1) % 256
  BY <1>3 DEF LogAge
<1> HIDE DEF content
<1>5. flash[logBlk][lastUsed] = Erased
  <2>1. ~Filled(lastUsed)
    BY <1>1, <1>3 DEF Filled
  <2> QED BY <1>1, <1>2, <1>3, <2>1 DEF DataInv, LogFilled
<1>6. Takes(logBlk, lastUsed, content)
  BY <1>1, <1>2, <1>3, <1>5, ErasedTakes DEF Takes
<1>7. Unnamed'
  BY <1>2, <1>3, <1>4, <1>6, TakesUnnamed DEF CutInv
<1>8. \A n : LineUsed(flash, logBlk, n) => LineUsed(flash', logBlk, n)
  BY <1>2, <1>3, <1>6, TakesLines
<1>9. flash'[dataBlk] = flash[dataBlk]
  BY <1>2, <1>6 DEF Takes
<1>10. lastUsed \in UsedPages(flash', logBlk) /\ ~IsMapPage(flash'[logBlk][lastUsed])
  BY <1>3, <1>4, <1>6 DEF UsedPages, IsMapPage, Takes
<1>11. \A q \in Pages : q > lastUsed => flash'[logBlk][q] = Erased
  <2> SUFFICES ASSUME NEW q \in Pages, q > lastUsed PROVE flash'[logBlk][q] = Erased
    OBVIOUS
  <2>1. flash[logBlk][q] = Erased
    BY <1>1, <1>2, <1>3 DEF CutInv, LogLines, LogWaits
  <2>2. q # lastUsed
    BY <1>3
  <2> QED BY <1>6, <2>1, <2>2 DEF Takes
<1>12. LogLines'
  <2>1. LinesUsed(logBlk, lastUsed)
    BY <1>1, <1>2, <1>3 DEF CutInv, LogLines, LogWaits
  <2>2. LinesUsed(logBlk, lastUsed)'
    BY <1>1, <1>8, <2>1 DEF LinesUsed
  <2> QED BY <1>1, <1>10, <1>11, <2>2 DEF LogLines
<1>13. TableLast'
  <2> SUFFICES ASSUME NEW q \in Pages \ {0}, IsMapPage(flash'[logBlk][q]), \A p \in UsedPages(flash', logBlk) : p <= q
               PROVE  FALSE
    BY <1>1 DEF TableLast
  <2>1. lastUsed <= q /\ q # lastUsed /\ q \in Nat
    BY <1>10 DEF Pages
  <2>2. flash'[logBlk][q] = Erased
    BY <1>3, <1>11, <2>1
  <2> QED BY <2>2, ErasedKnown
<1>14. Plain'
  BY <1>1, <1>9 DEF CutInv, Plain, Merges
<1>15. Ages'
  <2>1. flash'[logBlk][0].info => Follows(logBlk, 1, dataBlk)'
    <3>1. CASE lastUsed = 0
      BY <1>1, <1>4, <1>6, <1>9, <3>1 DEF Follows, Takes
    <3>2. CASE lastUsed # 0
      <4>1. flash'[logBlk][0] = flash[logBlk][0]
        BY <1>6, <3>2, Geometry DEF Takes
      <4> QED BY <1>1, <1>2, <1>9, <4>1 DEF CutInv, Ages, Follows
    <3> QED BY <3>1, <3>2
  <2> QED BY <1>1, <2>1 DEF Ages
<1>16. Erasing' /\ MoveLines' /\ InLastLine'
  BY <1>1 DEF Erasing, MoveLines, InLastLine
<1> QED BY <1>7, <1>12, <1>13, <1>14, <1>15, <1>16 DEF CutInv

LEMMA CutWritePageMapTbl ==
    ASSUME TypeInv, TypeInv', AccInv, UseInv, DataInv, DataInv', CutInv, WritePageMapTbl, Sound' PROVE CutInv'
<1> DEFINE content == [info |-> FALSE, status |-> TableMark, lp |-> None, val |-> Junk]
           t == lastUsed + 1
<1>1. /\ pc = "table" /\ pc' = "idle" /\ UNCHANGED <<dataBlk, logBlk>>
      /\ flash' = Programmed(logBlk, t, content) /\ lastUsed' = t
      /\ content.lp = None /\ content.val = Junk /\ content.status # FreeMark
  BY FailsCount DEF WritePageMapTbl, Program, TableMark, FreeMark
<1>2. /\ logBlk \in Phys /\ logBlk # None /\ logBlk # dataBlk /\ dataBlk \in Phys /\ flash \in Blocks
  BY <1>1, LogBlockThere, NotNone
<1>3. /\ lastUsed \in Pages /\ lastUsed # None /\ t \in Pages /\ t \in Nat /\ t # None /\ lastUsed < t /\ t # 0
      /\ t <= lastUsed + BANKS
  <2>1. lastUsed \in Pages /\ lastUsed # None /\ lastUsed + 1 < PAGES
    BY <1>1, Typed DEF TypeInv, PagesNamed, Mode
  <2>2. t \in Pages /\ lastUsed < t /\ t \in Nat /\ t # 0 /\ t <= lastUsed + BANKS
    BY <2>1, Geometry DEF Pages
  <2> HIDE DEF t
  <2> QED BY <2>1, <2>2, NotNone
<1> HIDE DEF content, t
<1>4. flash[logBlk][t] = Erased
  BY <1>1, <1>2, <1>3 DEF CutInv, LogLines, LogWaits
<1>5. Takes(logBlk, t, content)
  BY <1>1, <1>2, <1>3, <1>4, ErasedTakes DEF Takes
<1>6. Unnamed'
  BY <1>1, <1>2, <1>3, <1>5, TakesUnnamed DEF CutInv
<1>7. \A n : LineUsed(flash, logBlk, n) => LineUsed(flash', logBlk, n)
  BY <1>2, <1>3, <1>5, TakesLines
<1>8. flash'[dataBlk] = flash[dataBlk] /\ flash'[logBlk][0] = flash[logBlk][0]
  BY <1>2, <1>3, <1>5, Geometry DEF Takes
<1>9. t \in UsedPages(flash', logBlk)
  BY <1>1, <1>3, <1>5 DEF UsedPages, Takes
<1>10. \A q \in Pages : q > t => flash'[logBlk][q] = Erased
  <2> SUFFICES ASSUME NEW q \in Pages, q > t PROVE flash'[logBlk][q] = Erased
    OBVIOUS
  <2>1. ~Filled(q)'
    <3>1. q \in Nat
      BY DEF Pages
    <3> QED BY <1>1, <1>3, <3>1 DEF Filled
  <2> QED BY <1>1, <1>2, <2>1 DEF DataInv, LogFilled
<1>11. LogLines'
  <2>1. \A n \in 0 .. Line(t) - 1 : LineUsed(flash', logBlk, n)
    BY <1>1, <1>2, <1>3, <1>7, LinesAhead
  <2> QED BY <1>1, <1>9, <1>10, <2>1 DEF LogLines, LinesUsed, Line
<1>12. TableLast'
  <2> SUFFICES ASSUME NEW q \in Pages \ {0}, IsMapPage(flash'[logBlk][q]), \A p \in UsedPages(flash', logBlk) : p <= q
               PROVE  MapOf(flash'[logBlk'], saved'[logBlk'])
    BY <1>1 DEF TableLast
  <2>1. t <= q /\ q \in Nat
    BY <1>9 DEF Pages
  <2>2. ~(q > t)
    BY <1>10, ErasedKnown
  <2>3. q = t
    BY <1>3, <2>1, <2>2
  <2> QED BY <1>1, <1>2, <1>3, <2>3 DEF DataInv, MapSaved, Mapped
<1>13. Plain'
  BY <1>1, <1>8 DEF CutInv, Plain, Merges
<1>14. Ages'
  BY <1>1, <1>2, <1>8 DEF CutInv, Ages, Follows
<1>15. Erasing' /\ MoveLines' /\ InLastLine'
  BY <1>1 DEF Erasing, MoveLines, InLastLine
<1> QED BY <1>6, <1>11, <1>12, <1>13, <1>14, <1>15 DEF CutInv

\* A swap merge goes on with a log block that has no page map page any more, the others
\* with an erased block.
LEMMA CutMergeLogBlk ==
    ASSUME TypeInv, AccInv', UseInv, DataInv, CutInv, LML_MergeLogBlk PROVE CutInv'
<1>1. /\ pc = "merge" /\ cached /\ UNCHANGED <<flash, saved, dataBlk, logBlk, lastUsed>>
  BY Zenon DEF LML_MergeLogBlk
<1>2. /\ logBlk \in Phys /\ logBlk # None /\ free \subseteq Phys
  BY <1>1, Typed DEF Mode, TypeInv, BlocksNamed
<1>3. pc' # "fail"
  BY DEF AccInv
<1>4. \/ InOrder /\ pc' = "swap" /\ job' = [NoJob EXCEPT !.kind = "swap", !.p = lastUsed + 1, !.blk = logBlk]
      \/ \E b \in free : /\ pc' = job'.kind
                         /\ \/ req.special /\ job' = [NoJob EXCEPT !.kind = "move", !.p = -1, !.blk = b]
                            \/ job' = [NoJob EXCEPT !.kind = "simple", !.blk = b]
  BY <1>3, Zenon DEF LML_MergeLogBlk, GiveUp
<1>5. ASSUME pc' \in Merges, NoTables(flash[job'.blk]),
             pc' # "swap" => ~flash[job'.blk][0].info,
             pc' = "move" => req.special /\ job'.p = -1
      PROVE  CutInv'
  <2>1. LogLines' /\ TableLast'
    BY <1>1, <1>5, LogKept DEF LogWaits, Merges
  <2>2. Unnamed' /\ Plain'
    BY <1>1, <1>5 DEF CutInv, Unnamed, Plain, Merges
  <2>3. Ages'
    BY <1>1, <1>5 DEF CutInv, Ages, Follows, Merges
  <2>4. Erasing' /\ MoveLines'
    BY <1>5 DEF Erasing, MoveLines, Merges
  <2>5. InLastLine'
    BY <1>1, <1>5 DEF CutInv, InLastLine, LastLine, Merges
  <2> QED BY <2>1, <2>2, <2>3, <2>4, <2>5 DEF CutInv
<1>6. CASE InOrder /\ pc' = "swap" /\ job' = [NoJob EXCEPT !.kind = "swap", !.p = lastUsed + 1, !.blk = logBlk]
  <2>1. \A p \in Pages : IF p <= lastUsed THEN flash[logBlk][p].lp = p ELSE flash[logBlk][p] = Erased
    BY <1>1, <1>2, <1>6, InOrderPages
  <2>2. NoTables(flash[logBlk])
    <3> SUFFICES ASSUME NEW q \in Pages PROVE ~IsMapPage(flash[logBlk][q])
      BY DEF NoTables
    <3>1. q # None
      BY NotNone
    <3> QED BY <2>1, <3>1, ErasedKnown DEF IsMapPage
  <2>3. job'.blk = logBlk
    BY <1>6 DEF NoJob
  <2> QED BY <1>5, <1>6, <2>2, <2>3 DEF Merges
<1>7. ASSUME NEW b \in free, pc' = job'.kind,
             \/ req.special /\ job' = [NoJob EXCEPT !.kind = "move", !.p = -1, !.blk = b]
             \/ job' = [NoJob EXCEPT !.kind = "simple", !.blk = b]
      PROVE  CutInv'
  <2>1. flash[b] = ErasedBlock
    BY <1>1, <1>2, <1>7 DEF UseInv, Stored, FreeErased, Known
  <2>2. NoTables(flash[b]) /\ ~flash[b][0].info
    BY <2>1, ErasedKnown, ErasedPage, Geometry DEF NoTables
  <2>3. \/ pc' = "move" /\ req.special /\ job'.p = -1 /\ job'.blk = b
        \/ pc' = "simple" /\ job'.blk = b
    BY <1>7 DEF NoJob
  <2> QED BY <1>5, <2>2, <2>3 DEF Merges
<1> QED BY <1>4, <1>6, <1>7, Zenon

LEMMA CutSwapCopy ==
    ASSUME TypeInv, AccInv, UseInv, DataInv, CutInv, SwapCopy, Sound' PROVE CutInv'
<1> DEFINE t == job.p
           page == flash[dataBlk][t]
<1>1. /\ pc = "swap" /\ pc \in Merges /\ pc' = pc /\ t < PAGES /\ UNCHANGED <<saved, dataBlk, logBlk, lastUsed>>
      /\ flash' = Programmed(job.blk, t, page) /\ job' = [job EXCEPT !.p = @ + 1]
  BY FailsCount DEF SwapCopy, CopyFails, Program, Merges
<1>2. /\ logBlk \in Phys /\ logBlk # None /\ logBlk # dataBlk /\ dataBlk \in Phys /\ flash \in Blocks
      /\ job \in Jobs /\ job.blk = logBlk /\ lastUsed # None /\ t > lastUsed
  BY <1>1, MergeBlocks, MergeApart DEF DataInv, SwapHalf
<1>3. t \in Pages /\ t \in Nat /\ lastUsed \in Nat /\ t # 0
  <2>1. t \in Nat /\ lastUsed \in Nat
    BY <1>1, <1>2, Typed DEF TypeInv, PagesNamed, Mode, Pages
  <2> HIDE DEF t
  <2>2. t \in Pages /\ t # 0
    BY <1>1, <1>2, <2>1, Geometry DEF t, Pages
  <2> QED BY <2>1, <2>2
<1>4. job'.blk = logBlk
  BY <1>1, <1>2 DEF Jobs
<1>5. (page.lp = None => page.val = Junk) /\ ~IsMapPage(page)
  BY <1>2, <1>3 DEF CutInv, Unnamed, Plain, NoTables
<1>6. flash[logBlk][t] = Erased
  BY <1>1, <1>3 DEF DataInv, SwapHalf
<1> HIDE DEF t, page
<1>7. Takes(logBlk, t, page)
  BY <1>1, <1>2, <1>3, <1>6, ErasedTakes DEF Takes
<1>8. Unnamed'
  BY <1>2, <1>3, <1>5, <1>7, TakesUnnamed DEF CutInv
<1>9. flash'[dataBlk] = flash[dataBlk] /\ flash'[logBlk][0] = flash[logBlk][0]
  BY <1>2, <1>3, <1>7, Geometry DEF Takes
<1>10. NoTables(flash'[logBlk])
  BY <1>1, <1>2, <1>5, <1>7 DEF CutInv, Plain, NoTables, Takes
<1>11. LogLines'
  <2>1. LinesUsed(logBlk, lastUsed) /\ lastUsed \in UsedPages(flash, logBlk)
    BY <1>1, <1>2 DEF CutInv, LogLines, LogWaits
  <2>2. LinesUsed(logBlk, lastUsed)' /\ lastUsed \in UsedPages(flash', logBlk)
    BY <1>1, <1>2, <1>3, <1>7, <2>1, TakesLines DEF LinesUsed
  <2> QED BY <1>1, <2>2 DEF LogLines
<1>12. TableLast'
  BY <1>1, <1>10 DEF TableLast, NoTables
<1>13. Plain'
  BY <1>1, <1>4, <1>9, <1>10 DEF CutInv, Plain
<1>14. Ages'
  BY <1>1, <1>2, <1>9 DEF CutInv, Ages, Follows
<1>15. Erasing' /\ MoveLines' /\ InLastLine'
  BY <1>1 DEF Erasing, MoveLines, InLastLine
<1> QED BY <1>8, <1>11, <1>12, <1>13, <1>14, <1>15 DEF CutInv

LEMMA CutSwapDone ==
    ASSUME TypeInv, AccInv, UseInv, DataInv, CutInv, SwapDone PROVE CutInv'
<1>1. /\ pc = "swap" /\ pc \in Merges /\ pc' = "erase" /\ dataBlk' = job.blk /\ logBlk' = None
      /\ job' = [job EXCEPT !.toErase = <<dataBlk>>] /\ UNCHANGED flash
  BY DEF SwapDone, Merges
<1>2. /\ job \in Jobs /\ job.kind = "swap" /\ job.blk = logBlk /\ logBlk # None /\ dataBlk \in Phys
      /\ flash[dataBlk][0].info /\ flash[logBlk][0].info
  BY <1>1, MergeBlocks, MergeApart DEF DataInv, SwapHalf
<1>3. job'.kind = "swap" /\ job'.toErase = <<dataBlk>>
  BY <1>1, <1>2 DEF Jobs
<1>4. Follows(logBlk, 1, dataBlk)
  BY <1>1, <1>2 DEF CutInv, Ages
<1>5. Erasing'
  BY <1>1, <1>2, <1>3, <1>4 DEF Erasing, SwapWaits, Follows
<1>6. Unnamed' /\ Plain'
  BY <1>1, <1>3 DEF CutInv, Unnamed, Plain, Merges
<1> QED BY <1>1, <1>3, <1>5, <1>6 DEF CutInv, LogLines, TableLast, LogWaits, Ages, InLastLine, MoveLines

\* The block that the other merges fill takes a page.
LEMMA CutCopied ==
    ASSUME TypeInv, AccInv, UseInv, CutInv, pc \in {"simple", "move"}, pc' = pc,
           UNCHANGED <<saved, dataBlk, logBlk, lastUsed>>, job'.blk = job.blk,
           NEW t \in Pages, NEW page, Takes(job.blk, t, page),
           page.lp = None => page.val = Junk, t # 0 => ~IsMapPage(page),
           t = 0 => page.status = (flash[dataBlk][0].status + (IF pc = "simple" THEN 2 ELSE 1)) % 256,
           MoveLines'
    PROVE  CutInv'
<1>1. /\ logBlk \in Phys /\ logBlk # None /\ dataBlk \in Phys /\ job.blk \in Phys
      /\ job.blk # logBlk /\ job.blk # dataBlk /\ pc \in Merges
  BY MergeBlocks, MergeApart DEF Merges
<1>2. flash'[dataBlk] = flash[dataBlk] /\ flash'[logBlk] = flash[logBlk]
  BY <1>1 DEF Takes
<1>3. Unnamed'
  BY <1>1, TakesUnnamed DEF CutInv
<1>4. LogLines' /\ TableLast'
  BY <1>1, <1>2, LogKept DEF LogWaits
<1>5. Plain'
  BY <1>1, <1>2 DEF CutInv, Plain, NoTables, Takes
<1>6. Ages'
  <2>1. flash'[job.blk][0].info => Follows(job.blk, IF pc = "simple" THEN 2 ELSE 1, dataBlk)'
    <3>1. CASE t = 0
      BY <1>2, <3>1 DEF Takes, Follows
    <3>2. CASE t # 0
      <4>1. flash'[job.blk][0] = flash[job.blk][0]
        BY <3>2, Geometry DEF Takes
      <4> QED BY <1>2, <4>1 DEF CutInv, Ages, Follows
    <3> QED BY <3>1, <3>2
  <2> QED BY <1>1, <1>2, <2>1 DEF CutInv, Ages, Follows
<1>7. Erasing' /\ InLastLine'
  BY DEF CutInv, Erasing, InLastLine, LastLine
<1> QED BY <1>3, <1>4, <1>5, <1>6, <1>7 DEF CutInv

LEMMA CutSimpleCopy ==
    ASSUME TypeInv, AccInv, UseInv, DataInv, CutInv, SimpleCopy, Sound' PROVE CutInv'
<1> DEFINE t == job.p
           inData == pmap[t] = None
           b == IF inData THEN dataBlk ELSE logBlk
           p == IF inData THEN t ELSE pmap[t]
           page == IF t = 0 THEN CopiedPage0(b, p, SeqPlus(inData)) ELSE flash[b][p]
<1>1. /\ pc = "simple" /\ pc \in Merges /\ pc' = pc /\ t < PAGES /\ UNCHANGED <<saved, dataBlk, logBlk, lastUsed>>
      /\ flash' = Programmed(job.blk, t, page) /\ job' = [job EXCEPT !.p = @ + 1]
  BY FailsCount, Zenon DEF SimpleCopy, CopyFails, Program, Merges
<1>2. /\ logBlk \in Phys /\ logBlk # None /\ dataBlk \in Phys /\ dataBlk # None /\ flash \in Blocks /\ pmap \in Maps
      /\ job \in Jobs /\ job.blk \in Phys /\ cached /\ flash[logBlk][0].info
  BY <1>1, MergeBlocks, MergeApart, Typed DEF TypeInv, DataInv, MapAtHand
<1>3. t \in Pages /\ t \in Nat /\ t # None
  <2>1. t \in Nat
    BY <1>1 DEF TypeInv, PagesNamed, Mode
  <2> HIDE DEF t
  <2> QED BY <1>1, <2>1, Geometry, NotNone DEF Pages
<1>4. job'.blk = job.blk
  BY <1>1, <1>2 DEF Jobs
<1>5. flash[job.blk][t] = Erased
  BY <1>1, <1>3 DEF DataInv, SimpleHalf
<1> HIDE DEF t
<1>6. LastNamed(flash[logBlk], t, pmap[t]) /\ pmap[t] \in Places
  BY <1>1, <1>2, <1>3 DEF DataInv, MapCached, Mapped, Maps, Places
<1>7. b \in Phys /\ p \in Pages /\ flash[b][p] \in Page
  <2>1. b \in Phys /\ p \in Pages
    BY <1>2, <1>3, <1>6 DEF Places
  <2> HIDE DEF b, p
  <2> QED BY <1>2, <2>1 DEF Blocks
<1>8. page.lp = None => page.val = Junk
  <2> HIDE DEF b, p, inData
  <2>1. page.lp = flash[b][p].lp /\ page.val = flash[b][p].val
    BY <1>7 DEF CopiedPage0, Page
  <2> HIDE DEF page
  <2> QED BY <1>7, <2>1 DEF CutInv, Unnamed
<1>9. t # 0 => ~IsMapPage(page)
  <2>1. inData => NoTables(flash[dataBlk])
    BY DEF CutInv, Plain
  <2>2. ~inData => flash[logBlk][pmap[t]].lp # None
    BY <1>3, <1>6 DEF LastNamed, Named
  <2> QED BY <1>3, <2>1, <2>2 DEF NoTables, IsMapPage
<1>10. t = 0 => page.status = (flash[dataBlk][0].status + 2) % 256
  <2> SUFFICES ASSUME t = 0 PROVE CopiedPage0(b, p, SeqPlus(inData)).status = (flash[dataBlk][0].status + 2) % 256
    OBVIOUS
  <2>1. CopiedPage0(b, p, SeqPlus(inData)).status = (flash[b][0].status + SeqPlus(inData)) % 256
    <3> HIDE DEF b, p, inData
    <3> QED BY <1>7 DEF CopiedPage0, Page
  <2>2. Follows(logBlk, 1, dataBlk)
    BY <1>1, <1>2 DEF CutInv, Ages
  <2>3. CASE inData
    BY <2>1, <2>3 DEF SeqPlus
  <2>4. CASE ~inData
    <3>1. (flash[logBlk][0].status + 1) % 256 = (flash[dataBlk][0].status + 2) % 256
      <4>1. flash[dataBlk][0].status \in 0 .. 255
        BY <1>2, AgeByte
      <4> QED BY <2>2, <4>1, AgesApart DEF Follows
    <3>2. CopiedPage0(b, p, SeqPlus(inData)).status = (flash[logBlk][0].status + 1) % 256
      BY <2>1, <2>4 DEF SeqPlus
    <3> QED BY <3>1, <3>2
  <2> QED BY <2>3, <2>4
<1> HIDE DEF inData, b, p, page
<1>11. Takes(job.blk, t, page)
  BY <1>1, <1>2, <1>3, <1>5, ErasedTakes DEF Takes
<1>12. MoveLines'
  BY <1>1 DEF MoveLines
<1> QED BY <1>1, <1>3, <1>4, <1>8, <1>9, <1>10, <1>11, <1>12, CutCopied

LEMMA CutSimpleDone ==
    ASSUME TypeInv, AccInv, UseInv, DataInv, CutInv, SimpleDone PROVE CutInv'
<1>1. /\ pc = "simple" /\ pc \in Merges /\ pc' = "erase" /\ job.p = PAGES /\ dataBlk' = job.blk
      /\ job' = [job EXCEPT !.toErase = <<dataBlk, logBlk>>] /\ UNCHANGED <<flash, saved, logBlk, lastUsed, want>>
  BY DEF SimpleDone, Merges
<1>2. /\ job \in Jobs /\ job.kind = "simple" /\ logBlk # None /\ lastUsed # None /\ dataBlk \in Phys
      /\ flash[dataBlk][0].info /\ flash[logBlk][0].info
  BY <1>1, MergeBlocks, MergeApart
<1>3. job'.kind = "simple" /\ job'.toErase = <<dataBlk, logBlk>>
  BY <1>1, <1>2 DEF Jobs
<1>4. flash[job.blk][0].info
  BY <1>1, MergeBlocks, Geometry DEF UseInv, MergeInfo, Begun
<1>5. Follows(logBlk, 1, dataBlk) /\ Follows(job.blk, 2, dataBlk)
  BY <1>1, <1>2, <1>4 DEF CutInv, Ages
<1>6. StandsIn(flash[logBlk], flash[dataBlk])
  <2>1. LogPages = flash[logBlk]
    BY <1>1, <1>2 DEF LogPages
  <2> QED BY <2>1 DEF StandsIn, DataInv, WantKept
<1>7. Erasing'
  BY <1>1, <1>2, <1>3, <1>5, <1>6 DEF Erasing, BothWait, StandsIn, Follows
<1>8. LogLines' /\ TableLast'
  BY <1>1, <1>2, LogKept DEF LogWaits
<1>9. Unnamed' /\ Plain'
  BY <1>1, <1>3 DEF CutInv, Unnamed, Plain, Merges
<1> QED BY <1>1, <1>3, <1>7, <1>8, <1>9 DEF CutInv, Ages, InLastLine, MoveLines

\* Two pages of a bank that are less than a page line apart.
LEMMA SameBank ==
    ASSUME NEW p \in Nat, NEW q \in Nat, q % BANKS = p % BANKS, q < p + BANKS
    PROVE  q <= p
<1> DEFINE m == Line(p)
           n == Line(q)
<1>1. /\ m \in Nat /\ n \in Nat /\ BANKS \in Nat /\ BANKS > 0 /\ BANKS * m \in Nat /\ BANKS * n \in Nat
      /\ p - BANKS * m = q - BANKS * n
  BY LineOf, Geometry
<1> HIDE DEF m, n
<1> SUFFICES ASSUME p < q PROVE FALSE
  OBVIOUS
<1>2. BANKS * n > BANKS * m
  BY <1>1
<1>3. CASE n <= m
  <2>1. BANKS * m = BANKS * n + BANKS * (m - n) /\ BANKS * (m - n) \in Nat
    BY <1>1, <1>3
  <2> QED BY <1>1, <1>2, <2>1
<1>4. CASE m < n
  <2>1. n - m - 1 \in Nat
    BY <1>1, <1>4
  <2>2. BANKS * n = BANKS * m + BANKS + BANKS * (n - m - 1) /\ BANKS * (n - m - 1) \in Nat
    BY <1>1, <2>1
  <2> QED BY <1>1, <2>2
<1> QED BY <1>1, <1>3, <1>4

\* A bank that is used up to a page has a page in every line before it.
LEMMA BankLines ==
    ASSUME NEW f, NEW b, NEW t \in Pages, \A q \in Pages : q % BANKS = t % BANKS /\ q <= t => f[b][q].lp # None
    PROVE  \A n \in 0 .. Line(t) - 1 : LineUsed(f, b, n)
<1> SUFFICES ASSUME NEW n \in 0 .. Line(t) - 1 PROVE LineUsed(f, b, n)
  OBVIOUS
<1> DEFINE l == Line(t)
           r == t % BANKS
           q == BANKS * n + r
<1>1. /\ t \in Nat /\ t < PAGES /\ l \in Nat /\ BANKS \in Nat /\ BANKS > 0 /\ BANKS * l \in Nat /\ t = BANKS * l + r
      /\ r \in 0 .. BANKS - 1 /\ n \in Nat /\ n < l /\ l \in 0 .. Lines - 1 /\ Lines \in Nat
  <2>1. t \in Nat /\ t < PAGES
    BY Geometry DEF Pages
  <2>2. l \in Nat /\ BANKS * l \in Nat /\ t - BANKS * l = r /\ r \in 0 .. BANKS - 1
    BY <2>1, LineOf, Remainder
  <2>3. l \in 0 .. Lines - 1
    BY LinePagesIn
  <2> HIDE DEF r
  <2> QED BY <2>1, <2>2, <2>3, Geometry
<1>2. q % BANKS = r
  <2>1. \A k \in Nat, x \in 0 .. BANKS - 1 : (BANKS * k + x) % BANKS = x
    BY <1>1
  <2> HIDE DEF r
  <2> QED BY <1>1, <2>1
<1> HIDE DEF l, r
<1>3. q < t /\ q \in Nat
  <2>1. l - n - 1 \in Nat
    BY <1>1
  <2>2. BANKS * l = BANKS * n + BANKS + BANKS * (l - n - 1) /\ BANKS * (l - n - 1) \in Nat /\ BANKS * n \in Nat
    BY <1>1, <2>1
  <2> QED BY <1>1, <2>2
<1>4. q \in Pages /\ q <= t
  BY <1>1, <1>3, Geometry DEF Pages
<1>5. q \in LinePages(n)
  <2>1. q = n * BANKS + r
    BY <1>1
  <2> HIDE DEF q
  <2> QED BY <1>1, <2>1 DEF LinePages
<1>6. q \in UsedPages(f, b)
  <2> HIDE DEF q
  <2> QED BY <1>2, <1>4 DEF UsedPages, r
<1>7. n \in 0 .. Lines - 1
  BY <1>1
<1> QED BY <1>5, <1>6, <1>7 DEF LineUsed

\* Page 0 of the new log block has the age of the old one.
LEMMA MovedAge ==
    ASSUME TypeInv, AccInv, UseInv, CutInv, pc = "move", NEW from \in Pages
    PROVE  LET page == CopiedPage0(logBlk, from, 0) IN
           /\ page.lp = flash[logBlk][from].lp /\ page.val = flash[logBlk][from].val
           /\ page.status = (flash[dataBlk][0].status + 1) % 256
<1>1. logBlk \in Phys /\ logBlk # None /\ dataBlk \in Phys /\ flash \in Blocks /\ flash[logBlk][0].info
  BY MergeBlocks, MergeApart DEF Merges
<1>2. flash[logBlk][from] \in Page
  BY <1>1 DEF Blocks
<1>3. flash[logBlk][0].status = (flash[dataBlk][0].status + 1) % 256
  BY <1>1 DEF CutInv, Ages, Follows
<1>4. (flash[logBlk][0].status + 0) % 256 = flash[logBlk][0].status
  <2>1. \A x \in 0 .. 255 : (x + 0) % 256 = x
    OBVIOUS
  <2> QED BY <1>1, <2>1, AgeByte
<1> QED BY <1>2, <1>3, <1>4 DEF CopiedPage0, Page

LEMMA CutMovePage0 ==
    ASSUME TypeInv, AccInv, UseInv, DataInv, CutInv, MovePage0, Sound' PROVE CutInv'
<1> DEFINE page == CopiedPage0(logBlk, 0, 0)
<1>1. /\ pc = "move" /\ pc' = pc /\ job.dst = None /\ UNCHANGED <<saved, dataBlk, logBlk, lastUsed>>
      /\ flash' = Programmed(job.blk, 0, page) /\ job' = [job EXCEPT !.dst = 0]
  BY FailsCount DEF MovePage0, NeedsPage0, CopyFails, Program
<1>2. flash \in Blocks /\ job \in Jobs /\ job.blk \in Phys /\ logBlk \in Phys
  BY <1>1, MoveThere
<1>3. job.p = -1 /\ flash[job.blk] = ErasedBlock
  <2>1. Mode = "move"
    BY <1>1 DEF Mode
  <2> QED BY <1>1, <2>1 DEF UseInv, MergeInfo, Begun
<1>4. job'.p = -1 /\ job'.blk = job.blk /\ 0 \in Pages /\ flash[job.blk][0] = Erased
  BY <1>1, <1>2, <1>3, ErasedKnown, Geometry DEF Jobs
<1>5. (page.lp = None => page.val = Junk) /\ page.status = (flash[dataBlk][0].status + 1) % 256
  <2>1. /\ page.lp = flash[logBlk][0].lp /\ page.val = flash[logBlk][0].val
        /\ page.status = (flash[dataBlk][0].status + 1) % 256
    BY <1>1, <1>4, MovedAge
  <2> HIDE DEF page
  <2> QED BY <1>2, <1>4, <2>1 DEF CutInv, Unnamed
<1> HIDE DEF page
<1>6. Takes(job.blk, 0, page)
  BY <1>1, <1>2, <1>4, ErasedTakes DEF Takes
<1>7. MoveLines'
  BY <1>1, <1>4 DEF MoveLines
<1> QED BY <1>1, <1>4, <1>5, <1>6, <1>7, CutCopied

LEMMA CutMoveCopy ==
    ASSUME TypeInv, AccInv, UseInv, DataInv, CutInv, MoveCopy, Sound' PROVE CutInv'
<1>0. PICK m, to, from, page : /\ m = MoveNext /\ to = MoveTo(m) /\ from = pmap[m]
                               /\ page = IF to = 0 THEN CopiedPage0(logBlk, from, 0) ELSE flash[logBlk][from]
  OBVIOUS
<1>1. /\ pc = "move" /\ pc' = pc /\ MoveNext # None /\ ~NeedsPage0
      /\ UNCHANGED <<saved, dataBlk, logBlk, lastUsed>>
      /\ flash' = Programmed(job.blk, to, page)
      /\ job' = [job EXCEPT !.p = m, !.dst = to, !.last = IF to > @ THEN to ELSE @]
  BY <1>0, FailsCount, Zenon DEF MoveCopy, CopyFails, Program
<1>2. /\ logBlk \in Phys /\ flash \in Blocks /\ job \in Jobs /\ job.blk \in Phys
      /\ (job.p # -1 => job.p \in Pages /\ job.dst \in Nat) /\ job.last \in Nat
      /\ (\A i \in Pages : MovedPage(i)) /\ (\A q \in Pages : MovedTo(q)) /\ MovedLast
  BY <1>1, MoveThere
<1>3. /\ m \in Pages /\ m # None /\ from \in Pages /\ ~Moved(m)
      /\ to \in Pages /\ to % BANKS = m % BANKS /\ ~Reached(to)
  BY <1>0, <1>1, <1>2, MoveNextThere DEF MovedLast
<1>4. flash[job.blk][to] = Erased
  BY <1>2, <1>3 DEF MovedTo
<1>5. job'.p = m /\ job'.dst = to /\ job'.blk = job.blk /\ job'.last = IF to > job.last THEN to ELSE job.last
  BY <1>1, <1>2, <1>3 DEF Jobs
<1>6. /\ page.lp = m
      /\ to = 0 => page.status = (flash[dataBlk][0].status + 1) % 256
  <2>1. flash[logBlk][from].lp = m
    <3>1. LastNamed(flash[logBlk], m, from)
      BY <1>0, <1>2, <1>3 DEF MovedPage
    <3> QED BY <1>3, <3>1, NotNone DEF LastNamed, Named
  <2> QED BY <1>0, <1>1, <1>3, <2>1, MovedAge
<1>7. Takes(job.blk, to, page)
  BY <1>1, <1>2, <1>3, <1>4, ErasedTakes DEF Takes
<1>8. \A q \in Pages : q % BANKS = to % BANKS /\ q <= to => flash'[job.blk][q].lp # None
  <2> SUFFICES ASSUME NEW q \in Pages, q % BANKS = to % BANKS, q <= to, q # to
               PROVE  flash'[job.blk][q].lp # None
    BY <1>3, <1>6, <1>7 DEF Takes
  <2>1. q \in Nat /\ to \in Nat /\ BANKS \in Nat /\ BANKS > 0
    BY <1>3, Geometry DEF Pages
  <2>2. q < to
    BY <2>1
  <2>3. PICK same \in BOOLEAN : same = (job.dst # None /\ job.p # -1 /\ job.p % BANKS = m % BANKS)
    OBVIOUS
  <2>4. to = IF same THEN job.dst + BANKS ELSE m % BANKS
    BY <1>0, <2>3 DEF MoveTo
  <2>5. CASE same
    <3>1. job.dst \in Nat /\ job.p # -1 /\ job.dst % BANKS = job.p % BANKS /\ job.p % BANKS = m % BANKS
      BY <1>2, <2>3, <2>5 DEF MovedLast
    <3>2. q % BANKS = job.dst % BANKS /\ q < job.dst + BANKS
      BY <1>3, <2>2, <2>4, <2>5, <3>1
    <3>3. q <= job.dst
      BY <2>1, <3>1, <3>2, SameBank
    <3>4. flash[job.blk][q].lp # None
      BY <1>1, <3>1, <3>2, <3>3 DEF CutInv, MoveLines
    <3> QED BY <1>7, <3>4 DEF Takes
  <2>6. CASE ~same
    <3>1. to < BANKS
      <4>1. m % BANKS \in 0 .. BANKS - 1
        BY <1>3, Remainder DEF Pages
      <4> QED BY <2>1, <2>4, <2>6, <4>1
    <3>2. \A x \in 0 .. BANKS - 1 : x % BANKS = x
      BY <2>1
    <3>3. q \in 0 .. BANKS - 1 /\ to \in 0 .. BANKS - 1
      BY <2>1, <2>2, <3>1
    <3> QED BY <2>2, <3>2, <3>3
  <2> QED BY <2>5, <2>6
<1>9. \A n \in 0 .. Line(job'.last) - 1 : LineUsed(flash', job.blk, n)
  <2>1. CASE job'.last = to
    BY <1>3, <1>8, <2>1, BankLines
  <2>2. CASE job'.last # to
    <3>1. job'.last = job.last
      BY <1>5, <2>2
    <3>2. job.p # -1
      <4> SUFFICES ASSUME job.p = -1
                   PROVE  FALSE
        OBVIOUS
      <4>1. job.last = 0 /\ to \in Nat
        BY <1>2, <1>3 DEF MovedLast, Pages
      <4> QED BY <1>5, <2>2, <3>1, <4>1
    <3>3. LinesUsed(job.blk, job.last)
      BY <1>1, <3>2 DEF CutInv, MoveLines
    <3> QED BY <1>2, <1>3, <1>7, <3>1, <3>3, TakesLines DEF LinesUsed
  <2> QED BY <2>1, <2>2
<1>10. MoveLines'
  <2>1. \A q \in Pages : q % BANKS = m % BANKS /\ q <= to => flash'[job.blk][q].lp # None
    BY <1>3, <1>8
  <2> QED BY <1>1, <1>5, <1>9, <2>1 DEF MoveLines, LinesUsed, Line
<1>11. page.lp # None /\ ~IsMapPage(page)
  BY <1>3, <1>6 DEF IsMapPage
<1> QED BY <1>1, <1>3, <1>5, <1>6, <1>7, <1>10, <1>11, CutCopied

LEMMA CutMoveDone ==
    ASSUME TypeInv, AccInv, UseInv, DataInv, CutInv, MoveDone PROVE CutInv'
<1>1. /\ pc = "move" /\ pc \in Merges /\ pc' = "erase" /\ MoveNext = None /\ ~NeedsPage0
      /\ job' = [job EXCEPT !.toErase = <<logBlk>>] /\ UNCHANGED <<flash, saved, dataBlk, logBlk, lastUsed, want>>
  BY DEF MoveDone, tables, Merges
<1>2. /\ logBlk # None /\ job \in Jobs /\ (job.p # -1 => job.p \in Pages) /\ (\E i \in Pages : pmap[i] # None)
  BY <1>1, MoveThere
<1>3. job.kind = "move" /\ flash[logBlk][0].info /\ Mode = "move"
  BY <1>1, MergeBlocks
<1>4. job'.kind = "move" /\ job'.blk = job.blk /\ job'.last = job.last /\ job'.toErase = <<logBlk>>
  BY <1>1, <1>2, <1>3 DEF Jobs
<1>5. job.p # -1
  <2> SUFFICES ASSUME job.p = -1 PROVE FALSE
    OBVIOUS
  <2>1. PICK i \in Pages : pmap[i] # None
    BY <1>2
  <2>2. i \in ValidPages /\ ~Moved(i)
    BY <2>1 DEF ValidPages, Moved
  <2> QED BY <1>1, <2>2, MoveNextLeast
<1>6. flash[job.blk][0].info
  BY <1>1, <1>3 DEF UseInv, MergeInfo, Begun, NeedsPage0
<1>7. Follows(logBlk, 1, dataBlk) /\ Follows(job.blk, 1, dataBlk)
  BY <1>1, <1>2, <1>3, <1>6 DEF CutInv, Ages
<1>8. StandsIn(flash[logBlk], flash[dataBlk])
  <2>1. LogPages = flash[logBlk]
    BY <1>1, <1>2 DEF LogPages
  <2> QED BY <2>1 DEF StandsIn, DataInv, WantKept
<1>9. Erasing'
  <2>1. LastLine
    BY <1>1 DEF CutInv, InLastLine
  <2> QED BY <1>1, <1>2, <1>4, <1>7, <1>8, <2>1 DEF Erasing, MoveWaits, StandsIn, Follows, LastLine
<1>10. LogLines' /\ TableLast'
  BY <1>1, <1>2, LogKept DEF LogWaits
<1>11. Unnamed' /\ Plain'
  BY <1>1, <1>4 DEF CutInv, Unnamed, Plain, Merges
<1>12. Ages'
  BY <1>1, <1>4, <1>7 DEF Ages, Follows
<1>13. MoveLines'
  BY <1>1, <1>4, <1>5 DEF CutInv, MoveLines, LinesUsed, LineUsed, UsedPages
<1> QED BY <1>1, <1>9, <1>10, <1>11, <1>12, <1>13 DEF CutInv, InLastLine

\* An erase leaves one block less to wait for, oldest first.
LEMMA CutEraseBlk == ASSUME TypeInv, AccInv, UseInv, DataInv, CutInv, MaxEraseFails = 0, EraseBlk PROVE CutInv'
<1>0. PICK b : b = job.toErase[1]
  OBVIOUS
<1>1. /\ pc = "erase" /\ pc' = "erase" /\ job.toErase # <<>> /\ flash' = [flash EXCEPT ![b] = ErasedBlock]
      /\ job' = [job EXCEPT !.toErase = Tail(@)]
      /\ UNCHANGED <<saved, dataBlk, logBlk, lastUsed, want>>
  BY <1>0, NoEraseFails, Zenon DEF EraseBlk
<1>2. job \in Jobs /\ job.toErase \in Seq(Phys) /\ flash \in Blocks
  BY Typed DEF TypeInv, RecordsOK, Jobs
<1>3. job'.kind = job.kind /\ job'.blk = job.blk /\ job'.last = job.last /\ job'.toErase = Tail(job.toErase)
  BY <1>1, <1>2 DEF Jobs
<1>4. b \in Phys /\ b \in Old
  <2>1. 1 \in 1 .. Len(job.toErase)
    BY <1>1, <1>2
  <2> QED BY <1>0, <1>1, <1>2, <2>1 DEF Old
<1>5. \A c \in Phys : flash'[c] = IF c = b THEN ErasedBlock ELSE flash[c]
  BY <1>1, <1>2, <1>4 DEF Blocks
<1>6. dataBlk \in Phys /\ dataBlk # b /\ (job.kind = "move" => job.blk \in Phys /\ job.blk # b)
  <2>1. (job.kind = "move" => Work = job.blk) /\ Accounted
    BY <1>1 DEF Work, Mode, AccInv
  <2>2. dataBlk # None /\ (job.kind = "move" => job.blk # None)
    BY <1>1 DEF TypeInv, BlocksNamed
  <2>3. dataBlk \in Phys \union {None} /\ job.blk \in Phys \union {None}
    BY <1>2, Typed DEF TypeInv, Jobs
  <2> QED BY <1>4, <2>1, <2>2, <2>3 DEF Accounted, Split
<1>7. flash'[dataBlk] = flash[dataBlk] /\ (job.kind = "move" => flash'[job.blk] = flash[job.blk])
  BY <1>5, <1>6
<1>8. Unnamed'
  BY <1>5, ErasedKnown DEF CutInv, Unnamed
<1>9. Plain' /\ Ages' /\ InLastLine'
  BY <1>1, <1>3, <1>7 DEF CutInv, Plain, NoTables, Ages, Follows, InLastLine, Merges
<1>10. MoveLines'
  BY <1>1, <1>3, <1>7 DEF CutInv, MoveLines, LinesUsed, LineUsed, UsedPages
<1>11. CASE \E o : job.toErase = <<o>>
  <2>1. job'.toErase = <<>>
    BY <1>3, <1>11
  <2>2. LogLines' /\ TableLast' /\ Erasing'
    BY <1>1, <2>1 DEF LogLines, TableLast, LogWaits, Erasing
  <2> QED BY <1>8, <1>9, <1>10, <2>2 DEF CutInv
<1>12. CASE BothWait
  <2>1. PICK o \in Phys : /\ job.toErase = <<o, logBlk>> /\ flash[o][0].info
                          /\ Follows(logBlk, 1, o) /\ Follows(dataBlk, 2, o)
    BY <1>12 DEF BothWait
  <2>2. b = o /\ job'.toErase = <<logBlk>>
    BY <1>0, <1>3, <2>1
  <2>3. o # logBlk /\ logBlk \in Phys
    <3>1. 1 \in 1 .. Len(job.toErase) /\ 2 \in 1 .. Len(job.toErase) /\ job.toErase[1] = o /\ job.toErase[2] = logBlk
      BY <2>1
    <3> QED BY <1>1, <1>2, <3>1 DEF AccInv, Accounted
  <2>4. flash'[logBlk] = flash[logBlk]
    BY <1>5, <2>2, <2>3
  <2>5. LogLines' /\ TableLast'
    BY <1>1, <2>1, <2>4, LogKept DEF LogWaits
  <2>6. Follows(dataBlk, 1, logBlk)
    <3>1. flash[o][0].status \in 0 .. 255
      BY <2>1, AgeByte
    <3> QED BY <2>1, <3>1, AgesApart DEF Follows
  <2>7. Erasing'
    BY <1>1, <1>3, <1>7, <1>12, <2>1, <2>2, <2>4, <2>6 DEF Erasing, BothWait, SimpleWaits, Follows
  <2> QED BY <1>8, <1>9, <1>10, <2>5, <2>7 DEF CutInv
<1>13. (\E o : job.toErase = <<o>>) \/ BothWait
  BY <1>1 DEF CutInv, Erasing, SwapWaits, SimpleWaits, MoveWaits
<1> QED BY <1>11, <1>12, <1>13

\* The last block of a move merge becomes the log block.
LEMMA CutMergeDone == ASSUME TypeInv, DataInv, CutInv, MergeDone PROVE CutInv'
<1>1. /\ pc = "erase" /\ pc' \in {"getlog", "table", "idle"} /\ UNCHANGED <<flash, saved, dataBlk>>
      /\ (job.kind = "move" => logBlk' = job.blk /\ lastUsed' = job.last)
      /\ (job.kind # "move" => logBlk' = None)
  BY DEF MergeDone, AfterMerge
<1>2. Unnamed' /\ Plain'
  BY <1>1 DEF CutInv, Unnamed, Plain, Merges
<1>3. Erasing' /\ InLastLine' /\ MoveLines'
  BY <1>1 DEF Erasing, InLastLine, MoveLines
<1>4. CASE job.kind = "move"
  <2>1. /\ LinesUsed(job.blk, job.last) /\ NoTables(flash[job.blk]) /\ Follows(job.blk, 1, dataBlk)
    BY <1>1, <1>4 DEF CutInv, MoveLines, Plain, Ages
  <2>2. /\ \A q \in Pages : q <= job.last \/ flash[job.blk][q] = Erased
        /\ job.last \in Pages /\ flash[job.blk][job.last].lp # None
    BY <1>1, <1>4 DEF DataInv, MoveWhole
  <2>3. LogLines'
    <3>1. \A q \in Pages : q > job.last => flash[job.blk][q] = Erased
      BY <2>2 DEF Pages
    <3>2. job.last \in UsedPages(flash, job.blk)
      BY <2>2 DEF UsedPages
    <3>3. LinesUsed(logBlk, lastUsed)'
      BY <1>1, <1>4, <2>1 DEF LinesUsed, LineUsed, UsedPages
    <3> QED BY <1>1, <1>4, <3>1, <3>2, <3>3 DEF LogLines, UsedPages
  <2>4. TableLast'
    BY <1>1, <1>4, <2>1 DEF TableLast, NoTables
  <2>5. Ages'
    BY <1>1, <1>4, <2>1 DEF Ages, Follows
  <2> QED BY <1>2, <1>3, <2>3, <2>4, <2>5 DEF CutInv
<1>5. CASE job.kind # "move"
  BY <1>1, <1>2, <1>3, <1>5 DEF CutInv, LogLines, TableLast, LogWaits, Ages
<1> QED BY <1>4, <1>5

LEMMA CutNext ==
    ASSUME TypeInv, AccInv, UseInv, DataInv, CutInv, EnoughSpares, MaxEraseFails = 0, [Next]_vars, Sound'
    PROVE  CutInv'
<1>1. TypeInv' /\ AccInv' /\ DataInv'
  BY TypesNext, AccNext, DataNext
<1>2. CASE UNCHANGED vars
  <2>1. UNCHANGED <<flash, saved, dataBlk, logBlk, lastUsed, pc, req, job, want>>
    BY <1>2 DEF vars, tables
  <2>2. LogLines' /\ TableLast'
    BY <2>1, LogKept DEF LogWaits
  <2>3. Unnamed' /\ Plain' /\ Ages'
    BY <2>1 DEF CutInv, Unnamed, Plain, Ages, Follows
  <2>4. Erasing' /\ InLastLine'
    BY <2>1 DEF CutInv, Erasing, SwapWaits, BothWait, SimpleWaits, MoveWaits, Follows, StandsIn, LastLine, InLastLine
  <2>5. MoveLines'
    BY <2>1 DEF CutInv, MoveLines, LinesUsed, LineUsed, UsedPages
  <2> QED BY <2>2, <2>3, <2>4, <2>5 DEF CutInv
<1>3. CASE Call
  <2>1. LML_PageRead => CutInv'
    BY CutSwitch DEF LML_PageRead
  <2> QED BY <1>3, <2>1, CutPageWrite, CutCloseWritePage, CutEvictPageMap, CutMergeOldest, CutWriteBackMapTbl DEF Call
<1>4. CASE Step
  <2>1. SwitchForWrite => CutInv'
    BY CutSwitch DEF SwitchForWrite
  <2>2. ~WriteFails /\ ~NoFreeBlk
    BY <1>1 DEF AccInv, WriteFails, NoFreeBlk, GiveUp
  <2>3. ~SyncFails /\ ~RestoreFails
    BY FailsCount DEF SyncFails, RestoreFails
  <2>4. ~RestorePageData /\ ~MarkBadBlk /\ ~LoadTables /\ ~StartScan /\ ~ScanBlk /\ ~ScanDone
    BY DEF DataInv, RestorePageData, MarkBadBlk, Replaced, LoadTables, StartScan, ScanBlk, ScanDone
  <2> QED BY <1>1, <1>4, <2>1, <2>2, <2>3, <2>4, CutCreateNewLogBlk, CutWriteDataInfo, CutGetLogPage, CutWriteLogInfo,
             CutProgramPage, CutWritePageMapTbl, CutMergeLogBlk, CutSwapCopy, CutSwapDone, CutMovePage0,
             CutMoveCopy, CutMoveDone, CutSimpleCopy, CutSimpleDone, CutEraseBlk, CutMergeDone DEF Step
<1>5. ~PowerCut
  BY SoundBefore
<1> QED BY <1>2, <1>3, <1>4, <1>5 DEF Next

\* At every step up to the first power cut, in the middle of a write, of one of the
\* three merges or of its erases too, the tables that FMT_FormatNand would load from the
\* flash, or rebuild, give every page whose program had ended its content back, as long
\* as no program has failed and no log age in a page 0 looks like the mark of a page map.
THEOREM FirstCutSurvived ==
    ASSUME EnoughSpares, MaxEraseFails = 0 PROVE Spec => [](Sound /\ Heads => SurvivesPowerCut)
<1> DEFINE Inv == TypeInv /\ AccInv /\ (Sound => UseInv /\ DataInv /\ CutInv)
<1>1. ASSUME Inv, [Next]_vars PROVE Inv'
  <2>1. TypeInv' /\ AccInv'
    BY <1>1, TypesNext, AccNext
  <2>2. ASSUME Sound' PROVE UseInv' /\ DataInv' /\ CutInv'
    <3>1. Sound /\ ~PowerCut
      BY <1>1, <2>2, SoundBefore
    <3> QED BY <1>1, <2>2, <3>1, UseKept, DataNext, CutNext
  <2> QED BY <2>1, <2>2
<1>2. Init => Inv
  BY TypesInit, AccInit, UseInit, DataInit, CutInit
<1>3. Inv => (Sound /\ Heads => SurvivesPowerCut)
  BY CutReads
<1> QED BY <1>1, <1>2, <1>3, PTL DEF Spec

=============================================================================
