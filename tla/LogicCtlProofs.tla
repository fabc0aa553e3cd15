--------------------------- MODULE LogicCtlProofs ---------------------------
(***************************************************************************)
(* Proofs about LogicCtl, for every page size, volume size, data and       *)
(* sequence of calls.  The arithmetic of _CalculateSectPar comes first:    *)
(* the page loop visits exactly the sectors of the request, at their place *)
(* in the caller's buffer.                                                 *)
(***************************************************************************)
EXTENDS LogicCtl, TLAPS

\* A request under way: what LML_Read and LML_Write know in each pass.
InLoop(r) == /\ r.n \in Nat /\ r.c \in Nat \ {0} /\ r.i \in Nat
             /\ r.i < PageCnt(r)

-----------------------------------------------------------------------------
\* Division by the page size.
LEMMA DivMod ==
    ASSUME NEW n \in Nat
    PROVE  /\ n \div SPP \in Nat
           /\ n % SPP \in Sects
           /\ n = (n \div SPP) * SPP + (n % SPP)
BY GeometryAssumption, SMT DEF Sects

\* Pages do not overlap: the sectors of a page precede those of a later one.
LEMMA PagesInOrder ==
    ASSUME NEW a \in Nat, NEW b \in Nat, a < b
    PROVE  a * SPP + SPP <= b * SPP
BY GeometryAssumption, SMT

LEMMA Distribute ==
    ASSUME NEW a \in Nat, NEW b \in Nat
    PROVE  /\ (a + b) * SPP = a * SPP + b * SPP
           /\ (a + 1) * SPP = a * SPP + SPP
           /\ a * SPP \in Nat
BY GeometryAssumption, SMT

\* The head bitmap starts at the offset of the first sector: the loop that moves
\* the buffer pointer back stops there.
LEMMA HeadGap ==
    ASSUME NEW r, r.n \in Nat, r.c \in Nat \ {0}
    PROVE  /\ r.n % SPP \in HeadBitmap(r)
           /\ AlignGap(r) = r.n % SPP
<1>1. r.n % SPP \in HeadBitmap(r)
  BY DivMod, GeometryAssumption, SMT DEF HeadBitmap, SpanCnt, Sects
<1>2. \A s \in HeadBitmap(r) : r.n % SPP <= s
  BY DivMod, GeometryAssumption, SMT DEF HeadBitmap, Sects
<1>3. \A k \in HeadBitmap(r) : (\A s \in HeadBitmap(r) : k <= s) => k = r.n % SPP
  BY <1>1, <1>2, DivMod, GeometryAssumption, SMT DEF HeadBitmap, Sects
<1> QED
  BY <1>1, <1>2, <1>3 DEF AlignGap

\* How far the page loop reaches: the request, from the start of its head page
\* on, ends in the last page the loop visits.
LEMMA PageCount ==
    ASSUME NEW r, r.n \in Nat, r.c \in Nat \ {0}
    PROVE  /\ PageCnt(r) \in Nat \ {0}
           /\ (PageCnt(r) - 1) * SPP < SpanCnt(r)
           /\ SpanCnt(r) <= PageCnt(r) * SPP
           /\ SpanCnt(r) \in Nat
           /\ TailBitmap(r) # {} =>
                 /\ SpanCnt(r) > SPP
                 /\ PageCnt(r) > 1
                 /\ (PageCnt(r) - 1) * SPP + ((SpanCnt(r) - SPP) % SPP) = SpanCnt(r)
           /\ TailBitmap(r) = {} /\ PageCnt(r) > 1 => PageCnt(r) * SPP = SpanCnt(r)
<1> DEFINE t == SpanCnt(r)
           k == t - SPP
<1>1. t \in Nat \ {0}
  BY DivMod, GeometryAssumption, SMT DEF SpanCnt, Sects
<1>2. CASE t <= SPP
  <2>1. PageCnt(r) = 1 /\ TailBitmap(r) = {}
    BY <1>1, <1>2, GeometryAssumption, SMT DEF PageCnt, MidPageCnt, TailBitmap
  <2> QED
    BY <2>1, <1>1, <1>2, GeometryAssumption, SMT
<1>3. CASE t > SPP
  <2>1. k \in Nat \ {0}
    BY <1>1, <1>3, GeometryAssumption, SMT
  <2>2. /\ k \div SPP \in Nat
        /\ k % SPP \in Sects
        /\ k = (k \div SPP) * SPP + (k % SPP)
    <3> HIDE DEF k
    <3> QED BY <2>1, DivMod
  <2>3. MidPageCnt(r) = k \div SPP
    BY <1>3 DEF MidPageCnt
  <2>4. TailBitmap(r) = {s \in Sects : s < k % SPP}
    BY <1>3 DEF TailBitmap
  <2>5. TailBitmap(r) = {} <=> k % SPP = 0
    <3> HIDE DEF k
    <3>1. k % SPP # 0 => 0 \in TailBitmap(r)
      BY <2>2, <2>4, GeometryAssumption, SMT DEF Sects
    <3>2. k % SPP = 0 => \A s \in Sects : ~(s < k % SPP)
      BY GeometryAssumption, SMT DEF Sects
    <3> QED BY <2>4, <3>1, <3>2
  <2>6. t = k + SPP
    BY <1>1, <2>1, GeometryAssumption, SMT
  <2>7. ASSUME k % SPP = 0
        PROVE  PageCnt(r) = 1 + (k \div SPP) /\ PageCnt(r) * SPP = t
    <3> HIDE DEF k, t
    <3>1. PageCnt(r) = 1 + (k \div SPP)
      BY <2>2, <2>3, <2>5, <2>7, SMT DEF PageCnt
    <3> QED
      BY <2>1, <2>2, <2>6, <2>7, <3>1, Distribute, GeometryAssumption, SMT
  <2>8. ASSUME k % SPP # 0
        PROVE  PageCnt(r) = 2 + (k \div SPP) /\ (PageCnt(r) - 1) * SPP + (k % SPP) = t
    <3> HIDE DEF k, t
    <3>1. PageCnt(r) = 2 + (k \div SPP)
      BY <2>2, <2>3, <2>5, <2>8, SMT DEF PageCnt
    <3> QED
      BY <2>1, <2>2, <2>6, <2>8, <3>1, GeometryAssumption, SMT
  <2>9. PageCnt(r) \in Nat \ {0} /\ PageCnt(r) * SPP = (PageCnt(r) - 1) * SPP + SPP
    <3> HIDE DEF k, t
    <3> QED BY <2>2, <2>7, <2>8, GeometryAssumption, SMT
  <2> QED
    <3>1. k % SPP \in 0 .. SPP - 1 /\ k = SpanCnt(r) - SPP
      BY <2>2 DEF Sects
    <3>2. k \div SPP >= 1 \/ k % SPP # 0
      <4> HIDE DEF k
      <4> QED BY <2>1, <2>2, GeometryAssumption, SMT
    <3> HIDE DEF k
    <3>3. CASE k % SPP = 0
      <4>1. PageCnt(r) * SPP = SpanCnt(r) /\ TailBitmap(r) = {}
        BY <2>5, <2>7, <3>3
      <4> QED BY <1>1, <2>9, <4>1, GeometryAssumption, SMT
    <3>4. CASE k % SPP # 0
      <4>1. /\ PageCnt(r) = 2 + (k \div SPP)
            /\ (PageCnt(r) - 1) * SPP + (k % SPP) = SpanCnt(r)
            /\ TailBitmap(r) # {}
        BY <2>5, <2>8, <3>4
      <4>2. PageCnt(r) > 1
        BY <2>2, <4>1, SMT
      <4>3. (PageCnt(r) - 1) * SPP + ((SpanCnt(r) - SPP) % SPP) = SpanCnt(r)
        BY <3>1, <4>1
      <4>4. (PageCnt(r) - 1) * SPP \in Int
        BY <2>9, GeometryAssumption, SMT
      <4>5. (PageCnt(r) - 1) * SPP < SpanCnt(r) /\ SpanCnt(r) <= PageCnt(r) * SPP
        BY <3>1, <3>4, <2>9, <4>1, <4>4, GeometryAssumption, SMT
      <4> QED BY <1>1, <1>3, <2>9, <4>1, <4>2, <4>3, <4>5
    <3> QED BY <3>3, <3>4
<1> QED BY <1>1, <1>2, <1>3, GeometryAssumption, SMT

\* What each pass of the page loop handles: the sectors of its page that belong
\* to the request, each at its place in the caller's buffer, and the pass is the
\* last one exactly when the request ends in its page.
LEMMA Passes ==
    ASSUME NEW r, InLoop(r)
    PROVE  /\ PageAt(r) \in Nat
           /\ BitmapAt(r) = {s \in Sects : /\ r.n <= PageAt(r) * SPP + s
                                           /\ PageAt(r) * SPP + s < r.n + r.c}
           /\ \A s \in Sects : BufIdx(r, s) = PageAt(r) * SPP + s - r.n
           /\ r.i + 1 = PageCnt(r) <=> (PageAt(r) + 1) * SPP >= r.n + r.c
           /\ AlignGap(r) \in Sects
<1> DEFINE h == r.n \div SPP
           o == r.n % SPP
           span == SpanCnt(r)
           from == r.i * SPP
           base == h * SPP
<1>1. r.n \in Nat /\ r.c \in Nat \ {0} /\ r.i \in Nat /\ r.i < PageCnt(r)
  BY DEF InLoop
<1>2. h \in Nat /\ o \in Sects /\ r.n = base + o
  BY <1>1, DivMod
<1>3. AlignGap(r) = o /\ span = r.c + o
  BY <1>1, HeadGap DEF SpanCnt
<1>4. PageAt(r) \in Nat /\ PageAt(r) * SPP = base + from /\ base \in Nat /\ from \in Nat
  <2>1. PageAt(r) = h + r.i
    BY DEF PageAt, HeadPage
  <2> HIDE DEF h
  <2> QED BY <1>1, <1>2, <2>1, Distribute, GeometryAssumption, SMT
<1>5. (r.i + 1) * SPP = from + SPP /\ (PageAt(r) + 1) * SPP = base + from + SPP
  <2>1. (r.i + 1) * SPP = from + SPP
    BY <1>1, Distribute
  <2>2. (PageAt(r) + 1) * SPP = PageAt(r) * SPP + SPP
    BY <1>4, Distribute
  <2> QED BY <1>4, <2>1, <2>2
<1>6. \A s \in Sects : s \in Nat /\ s < SPP
  BY GeometryAssumption, SMT DEF Sects
<1>7. \A s \in Sects : BufIdx(r, s) = PageAt(r) * SPP + s - r.n
  <2> HIDE DEF base, o, from
  <2>1. \A s \in Sects : BufIdx(r, s) = from + s - o
    BY <1>3 DEF BufIdx, from
  <2> QED BY <2>1, <1>2, <1>4, <1>6, SMT
<1>8. \A s \in Sects : /\ r.n <= PageAt(r) * SPP + s <=> o <= from + s
                       /\ PageAt(r) * SPP + s < r.n + r.c <=> from + s < span
  <2> HIDE DEF base, o, from, span
  <2> QED BY <1>1, <1>2, <1>3, <1>4, <1>6, SMT
<1>9. /\ PageCnt(r) \in Nat \ {0} /\ span \in Nat
      /\ (PageCnt(r) - 1) * SPP < span /\ span <= PageCnt(r) * SPP
  BY <1>1, PageCount
<1>10. r.i + 1 < PageCnt(r) => from + SPP < span
  <2> HIDE DEF from, span
  <2>1. r.i + 1 < PageCnt(r) => r.i + 1 = PageCnt(r) - 1 \/ (r.i + 1) * SPP + SPP <= (PageCnt(r) - 1) * SPP
    BY <1>1, <1>9, PagesInOrder, SMT
  <2> QED BY <1>1, <1>4, <1>5, <1>9, <2>1, GeometryAssumption, SMT
<1>11. r.i + 1 = PageCnt(r) => from + SPP >= span
  BY <1>5, <1>9
<1>12. r.i + 1 = PageCnt(r) <=> (PageAt(r) + 1) * SPP >= r.n + r.c
  <2> HIDE DEF base, o, from, span
  <2> QED BY <1>1, <1>2, <1>3, <1>4, <1>5, <1>6, <1>9, <1>10, <1>11, GeometryAssumption, SMT
<1>13. \A s \in Sects : s \in BitmapAt(r) <=> o <= from + s /\ from + s < span
  <2>1. CASE r.i = 0
    <3>1. from = 0
      BY <2>1, GeometryAssumption, SMT
    <3>2. BitmapAt(r) = HeadBitmap(r)
      BY <2>1 DEF BitmapAt
    <3> HIDE DEF o, from, span
    <3>3. HeadBitmap(r) = {s \in Sects : s >= o /\ (span <= SPP => s < span)}
      BY DEF HeadBitmap, o, span
    <3> QED BY <3>1, <3>2, <3>3, <1>2, <1>6, <1>9, GeometryAssumption, SMT
  <2>2. ASSUME r.i # 0 PROVE from >= SPP
    BY <1>1, <2>2, GeometryAssumption, SMT
  <2>3. CASE r.i # 0 /\ TailBitmap(r) # {} /\ r.i = PageCnt(r) - 1
    <3>1. BitmapAt(r) = TailBitmap(r)
      BY <2>3 DEF BitmapAt
    <3>2. span > SPP /\ from + ((span - SPP) % SPP) = span
      BY <1>1, <2>3, PageCount
    <3>3. TailBitmap(r) = {s \in Sects : s < (span - SPP) % SPP}
      BY <3>2 DEF TailBitmap
    <3>4. (span - SPP) % SPP = span - from
      <4>1. (span - SPP) % SPP \in Int
        <5> HIDE DEF span
        <5>1. span - SPP \in Nat
          BY <1>9, <3>2, GeometryAssumption, SMT
        <5> QED BY <5>1, DivMod DEF Sects
      <4> DEFINE rest == (span - SPP) % SPP
      <4> HIDE DEF span, from, rest
      <4>2. from + rest = span /\ rest \in Int
        BY <3>2, <4>1 DEF rest
      <4>3. rest = span - from
        BY <4>2, <1>4, <1>9, SMT
      <4> QED BY <4>3 DEF rest
    <3> HIDE DEF o, from, span
    <3> QED BY <2>2, <2>3, <3>1, <3>3, <3>4, <1>2, <1>4, <1>6, <1>9, GeometryAssumption, SMT
  <2>4. CASE r.i # 0 /\ ~(TailBitmap(r) # {} /\ r.i = PageCnt(r) - 1)
    <3>1. BitmapAt(r) = Sects
      BY <2>4 DEF BitmapAt
    <3>2. from + SPP <= span
      <4>1. CASE r.i + 1 < PageCnt(r)
        <5> HIDE DEF from, span
        <5> QED BY <4>1, <1>10, <1>4, <1>9, GeometryAssumption, SMT
      <4>2. CASE r.i + 1 = PageCnt(r)
        <5>1. TailBitmap(r) = {} /\ PageCnt(r) > 1
          BY <1>1, <1>9, <2>4, <4>2, SMT
        <5>2. PageCnt(r) * SPP = span
          BY <1>1, <5>1, PageCount
        <5> QED BY <1>5, <4>2, <5>2, <1>4, <1>9, GeometryAssumption, SMT
      <4> QED BY <1>1, <1>9, <4>1, <4>2, SMT
    <3> HIDE DEF o, from, span
    <3> QED BY <2>2, <2>4, <3>1, <3>2, <1>2, <1>4, <1>6, <1>9, GeometryAssumption, SMT
  <2> QED BY <2>1, <2>3, <2>4
<1>14. BitmapAt(r) \subseteq Sects
  BY DEF BitmapAt, HeadBitmap, TailBitmap
<1> QED
  <2> HIDE DEF base, o, from, span
  <2> QED BY <1>2, <1>3, <1>4, <1>7, <1>8, <1>12, <1>13, <1>14

\* No pass reaches outside the caller's buffer.
LEMMA PassInBuffer ==
    ASSUME NEW r, InLoop(r)
    PROVE  \A s \in BitmapAt(r) : s \in Sects /\ BufIdx(r, s) \in 0 .. r.c - 1
<1> TAKE s \in BitmapAt(r)
<1> DEFINE first == PageAt(r) * SPP
<1>1. r.n \in Nat /\ r.c \in Nat /\ first \in Nat
  BY Passes, Distribute DEF InLoop
<1>2. s \in Sects /\ r.n <= first + s /\ first + s < r.n + r.c
  BY Passes
<1>3. BufIdx(r, s) = first + s - r.n /\ s \in Nat
  BY <1>2, Passes, GeometryAssumption DEF Sects
<1> HIDE DEF first
<1> QED BY <1>1, <1>2, <1>3, SMT

-----------------------------------------------------------------------------
\* The inductive invariant.
Inv == TypeOK /\ Consistent

LEMMA WriteLoop == ASSUME Inv, wr.status = "busy" PROVE InLoop(wr)
BY SMT DEF Inv, TypeOK, Consistent, InLoop

LEMMA ReadLoop == ASSUME Inv, rd.status = "busy" PROVE InLoop(rd)
BY SMT DEF Inv, TypeOK, Consistent, InLoop

\* The page a pass of LML_Write takes from the caller's buffer has its type.
LEMMA WritePassTypes ==
    ASSUME Inv, wr.status = "busy"
    PROVE  /\ BitmapAt(wr) \subseteq Sects
           /\ \A s \in BitmapAt(wr) : BufIdx(wr, s) \in 0 .. wr.c - 1 /\ wbuf[BufIdx(wr, s)] \in Val
           /\ PageAt(wr) \in Nat
<1>1. InLoop(wr) BY WriteLoop
<1>2. wr.n \in Nat /\ wr.c \in Nat /\ PageAt(wr) \in Nat /\ wbuf \in [0 .. wr.c - 1 -> Val]
  BY <1>1, Passes DEF InLoop, Inv, TypeOK
<1>4. \A s \in BitmapAt(wr) : s \in Sects /\ BufIdx(wr, s) \in 0 .. wr.c - 1
  BY <1>1, PassInBuffer
<1> QED BY <1>2, <1>4

LEMMA ReadPassTypes ==
    ASSUME Inv, rd.status = "busy"
    PROVE  /\ BitmapAt(rd) \subseteq Sects
           /\ \A s \in BitmapAt(rd) : BufIdx(rd, s) \in 0 .. rd.c - 1
           /\ PageAt(rd) \in Nat
           /\ Fetched \in Content
           /\ \A page \in Content : Delivered(page) \in [0 .. rd.c - 1 -> Val \union {Junk}]
<1>1. InLoop(rd) BY ReadLoop
<1>2. rd.n \in Nat /\ rd.c \in Nat /\ PageAt(rd) \in Nat /\ rbuf \in [0 .. rd.c - 1 -> Val \union {Junk}]
  BY <1>1, Passes DEF InLoop, Inv, TypeOK
<1>4. \A s \in BitmapAt(rd) : s \in Sects /\ BufIdx(rd, s) \in 0 .. rd.c - 1
  BY <1>1, PassInBuffer
<1>5. Fetched \in Content
  BY <1>2, <1>4 DEF Fetched, Content
<1>6. ASSUME NEW page \in Content
      PROVE  Delivered(page) \in [0 .. rd.c - 1 -> Val \union {Junk}]
  BY <1>2, <1>4 DEF Delivered, Content
<1> QED BY <1>2, <1>4, <1>5, <1>6

\* The type invariant's part about the page layer, and what keeps it.
NandOK == /\ flash \in [Pages -> Content]
          /\ DOMAIN flight \subseteq Pages /\ flight \in [DOMAIN flight -> Content]
          /\ open \in Pages \union {None}
CacheOK == /\ CachePage \in [LogicPageNum : Nat \union {None}, SectorBitmap : SUBSET Sects]
           /\ cacheBuf \in Content
           /\ Cached(None) => CachePage.SectorBitmap = {}

LEMMA SettleOK == ASSUME NandOK, NEW done, Settle(done)
                  PROVE  DOMAIN flight' \subseteq Pages /\ flight' \in [DOMAIN flight' -> Content]
<1>1. PICK keep \in SUBSET (DOMAIN flight \ done) : flight' = [q \in keep |-> flight[q]]
  BY DEF Settle, Restricted
<1> QED BY <1>1 DEF NandOK

LEMMA CloseOK == ASSUME NandOK, CloseWritePage \/ CloseFails PROVE NandOK'
<1>1. CASE CloseWritePage
  BY <1>1, SettleOK DEF CloseWritePage, NandOK
<1>2. CASE CloseFails
  BY <1>2 DEF CloseFails, nand, NandOK
<1> QED BY <1>1, <1>2

LEMMA JunkContent == JunkPage \in Content
BY DEF JunkPage, Content

LEMMA PageWriteOK ==
    ASSUME NandOK, NEW p, NEW data, data \in Content, NEW done, PageWrite(p, data, done)
    PROVE  NandOK'
<1>1. CASE /\ p \in Pages
           /\ \E page \in {data, JunkPage} : flash' = [flash EXCEPT ![p] = page]
           /\ \E keep \in SUBSET (DOMAIN flight \ {p}) :
                flight' = [q \in keep \union {p} |-> IF q = p THEN flash[p] ELSE flight[q]]
           /\ open' = p
  <2>1. PICK page \in {data, JunkPage} : flash' = [flash EXCEPT ![p] = page]
    BY <1>1
  <2>2. PICK keep \in SUBSET (DOMAIN flight \ {p}) :
                flight' = [q \in keep \union {p} |-> IF q = p THEN flash[p] ELSE flight[q]]
    BY <1>1
  <2>3. flash' \in [Pages -> Content]
    BY <2>1, JunkContent DEF NandOK
  <2>4. DOMAIN flight' \subseteq Pages /\ flight' \in [DOMAIN flight' -> Content]
    BY <1>1, <2>2 DEF NandOK
  <2> QED BY <1>1, <2>3, <2>4 DEF NandOK
<1>2. CASE /\ open' \in {open, None}
           /\ Settle({})
           /\ UNCHANGED flash \/ (p \in Pages /\ flash' = [flash EXCEPT ![p] = JunkPage])
  BY <1>2, SettleOK, JunkContent DEF NandOK
<1> QED BY <1>1, <1>2 DEF PageWrite

LEMMA CacheOverOK == ASSUME CacheOK, NEW page \in Content PROVE CacheOver(page) \in Content
BY DEF CacheOver, CacheOK, Content

LEMMA WriteBackOK ==
    ASSUME NandOK, CacheOK, NEW done \in BOOLEAN, WritePageCacheToNand(done)
    PROVE  NandOK' /\ CacheOK' /\ (done => CachePage'.LogicPageNum = None)
<1> DEFINE p == CachePage.LogicPageNum
<1>1. CASE Cached(None) /\ done /\ UNCHANGED <<nand, cache>>
  BY <1>1 DEF nand, cache, NandOK, CacheOK, Cached
<1>2. CASE ~done /\ PageReadFails /\ UNCHANGED cache
  BY <1>2, CloseOK DEF PageReadFails, cache, CacheOK, Cached
<1>3. CASE /\ ~Cached(None)
           /\ p \in Pages \/ CachePage.SectorBitmap = Sects
           /\ cacheBuf' = CacheOver(IF p \in Pages THEN flash[p] ELSE cacheBuf)
           /\ PageWrite(p, cacheBuf', done)
           /\ CachePage' = IF done THEN Empty ELSE CachePage
  <2>1. (IF p \in Pages THEN flash[p] ELSE cacheBuf) \in Content
    BY DEF NandOK, CacheOK
  <2>2. cacheBuf' \in Content
    BY <1>3, <2>1, CacheOverOK
  <2>3. NandOK'
    BY <1>3, <2>2, PageWriteOK
  <2>4. Empty \in [LogicPageNum : Nat \union {None}, SectorBitmap : SUBSET Sects]
    BY DEF Empty
  <2> QED BY <1>3, <2>2, <2>3, <2>4 DEF CacheOK, Cached, Empty
<1> QED BY <1>1, <1>2, <1>3 DEF WritePageCacheToNand

-----------------------------------------------------------------------------
\* The next pass of a loop.
LEMMA SameCount ==
    ASSUME NEW q, NEW r, q.n = r.n, q.c = r.c
    PROVE  PageCnt(q) = PageCnt(r) /\ HeadPage(q) = HeadPage(r)
BY DEF PageCnt, MidPageCnt, TailBitmap, SpanCnt, HeadPage

LEMMA NextWrite ==
    ASSUME Inv, wr.status = "busy", NextWritePage
    PROVE  /\ wr' \in [n : Nat, c : Nat, i : Nat, status : {"none", "busy", "ok", "failed"}]
           /\ wr'.c = wr.c
           /\ \/ pc' = "idle" /\ wr'.status = "ok"
              \/ pc' = "write" /\ wr'.status = "busy" /\ wr'.c # 0 /\ wr'.i < PageCnt(wr')
<1>1. InLoop(wr) BY WriteLoop
<1>2. PageCnt(wr) \in Nat
  BY <1>1, PageCount DEF InLoop
<1>3. /\ wr' = [wr EXCEPT !.i = wr.i + 1, !.status = IF wr.i + 1 = PageCnt(wr) THEN "ok" ELSE "busy"]
      /\ pc' = IF wr.i + 1 = PageCnt(wr) THEN "idle" ELSE "write"
  BY DEF NextWritePage
<1>4. wr \in [n : Nat, c : Nat, i : Nat, status : {"none", "busy", "ok", "failed"}]
  BY DEF Inv, TypeOK
<1>5. wr'.n = wr.n /\ wr'.c = wr.c /\ wr'.i = wr.i + 1
  BY <1>3, <1>4
<1>6. PageCnt(wr') = PageCnt(wr)
  BY <1>5, SameCount
<1>7. wr' \in [n : Nat, c : Nat, i : Nat, status : {"none", "busy", "ok", "failed"}]
  <2>1. wr.i + 1 \in Nat BY <1>4
  <2>2. PICK st \in {"ok", "busy"} : wr' = [wr EXCEPT !.i = wr.i + 1, !.status = st]
    BY <1>3
  <2> QED BY <1>4, <2>1, <2>2
<1>8. \/ pc' = "idle" /\ wr'.status = "ok"
      \/ pc' = "write" /\ wr'.status = "busy" /\ wr'.c # 0 /\ wr'.i < PageCnt(wr')
  BY <1>1, <1>2, <1>3, <1>4, <1>5, <1>6, SMT DEF InLoop
<1> QED BY <1>5, <1>7, <1>8

LEMMA NextRead ==
    ASSUME Inv, rd.status = "busy", NEW page \in Content, CacheOK, NextReadPage(page)
    PROVE  /\ rd' \in [n : Nat, c : Nat, i : Nat, status : {"none", "busy", "ok", "failed", "beyond"}]
           /\ rbuf' \in [0 .. rd'.c - 1 -> Val \union {Junk}]
           /\ \/ pc' = "idle" /\ rd'.status = "ok"
              \/ pc' = "read" /\ rd'.status = "busy" /\ rd'.c # 0 /\ rd'.i < PageCnt(rd')
<1>1. InLoop(rd) BY ReadLoop
<1>2. PageCnt(rd) \in Nat
  BY <1>1, PageCount DEF InLoop
<1>3. /\ rd' = [rd EXCEPT !.i = rd.i + 1, !.status = IF rd.i + 1 = PageCnt(rd) THEN "ok" ELSE "busy"]
      /\ pc' = IF rd.i + 1 = PageCnt(rd) THEN "idle" ELSE "read"
      /\ rbuf' = Delivered(IF CachePage'.LogicPageNum = PageAt(rd) THEN CacheOver(page) ELSE page)
  BY DEF NextReadPage
<1>4. rd \in [n : Nat, c : Nat, i : Nat, status : {"none", "busy", "ok", "failed", "beyond"}]
  BY DEF Inv, TypeOK
<1>5. rd'.n = rd.n /\ rd'.c = rd.c /\ rd'.i = rd.i + 1
  BY <1>3, <1>4
<1>6. PageCnt(rd') = PageCnt(rd)
  BY <1>5, SameCount
<1>7. rbuf' \in [0 .. rd.c - 1 -> Val \union {Junk}]
  <2>1. CacheOver(page) \in Content BY CacheOverOK
  <2> QED BY <1>3, <2>1, ReadPassTypes
<1>8. rbuf' \in [0 .. rd'.c - 1 -> Val \union {Junk}]
  BY <1>5, <1>7
<1>9. rd' \in [n : Nat, c : Nat, i : Nat, status : {"none", "busy", "ok", "failed", "beyond"}]
  <2>1. rd.i + 1 \in Nat BY <1>4
  <2>2. PICK st \in {"ok", "busy"} : rd' = [rd EXCEPT !.i = rd.i + 1, !.status = st]
    BY <1>3
  <2> QED BY <1>4, <2>1, <2>2
<1>10. \/ pc' = "idle" /\ rd'.status = "ok"
       \/ pc' = "read" /\ rd'.status = "busy" /\ rd'.c # 0 /\ rd'.i < PageCnt(rd')
  BY <1>1, <1>2, <1>3, <1>4, <1>5, <1>6, SMT DEF InLoop
<1> QED BY <1>8, <1>9, <1>10

LEMMA MergeOK ==
    ASSUME Inv, wr.status = "busy", MergeCachePageData
    PROVE  CacheOK'
<1>1. PageAt(wr) \in Nat /\ BitmapAt(wr) \subseteq Sects
  BY WritePassTypes
<1>2. cacheBuf' \in Content
  BY WritePassTypes DEF MergeCachePageData, Inv, TypeOK, Content
<1>3. CachePage' = [LogicPageNum |-> PageAt(wr),
                    SectorBitmap |-> CachePage.SectorBitmap \union BitmapAt(wr)]
  BY DEF MergeCachePageData
<1>4. CachePage.SectorBitmap \subseteq Sects
  BY DEF Inv, TypeOK
<1> QED BY <1>1, <1>2, <1>3, <1>4, NoneAssumption DEF CacheOK, Cached

WrOK == /\ wr \in [n : Nat, c : Nat, i : Nat, status : {"none", "busy", "ok", "failed"}]
        /\ wbuf \in [0 .. wr.c - 1 -> Val]
RdOK == /\ rd \in [n : Nat, c : Nat, i : Nat, status : {"none", "busy", "ok", "failed", "beyond"}]
        /\ rbuf \in [0 .. rd.c - 1 -> Val \union {Junk}]
CtlOK == /\ pc \in {"off", "idle", "write", "read", "flush", "close", "reclaim", "exit"}
         /\ onBehalf \in {"flush", "exit", "reclaim"}
         /\ flushed \in {"none", "ok", "failed"}
         /\ calls \in Nat

LEMMA InvParts == Inv <=> NandOK /\ CacheOK /\ WrOK /\ RdOK /\ CtlOK /\ Consistent
BY DEF Inv, TypeOK, NandOK, CacheOK, WrOK, RdOK, CtlOK, Consistent

LEMMA InitInv == Init => Inv
<1> SUFFICES ASSUME Init PROVE Inv OBVIOUS
<1> USE DEF Init
<1>1. NandOK
  BY FlashAssumption DEF NandOK
<1>2. CacheOK
  BY JunkContent DEF CacheOK, Empty, Cached
<1>3. 0 .. 0 - 1 = {} BY SMT
<1>4. WrOK /\ RdOK
  BY <1>3 DEF WrOK, RdOK
<1>5. CtlOK /\ Consistent
  BY DEF CtlOK, Consistent, Reclaiming, Empty, Cached
<1> QED BY <1>1, <1>2, <1>4, <1>5, InvParts

\* One step per action.
LEMMA StepInv == Inv /\ [Next]_vars => Inv'
<1> SUFFICES ASSUME Inv, [Next]_vars PROVE Inv' OBVIOUS
<1>0. NandOK /\ CacheOK /\ WrOK /\ RdOK /\ CtlOK /\ Consistent
  BY InvParts
<1> SUFFICES (NandOK /\ CacheOK /\ WrOK /\ RdOK /\ CtlOK /\ Consistent)'
  BY DEF Inv, TypeOK, NandOK, CacheOK, WrOK, RdOK, CtlOK, Consistent
<1>1. ASSUME NEW r \in Calls, NEW buf \in UserData(calls, r.c), LML_Write(r, buf)
      PROVE  (NandOK /\ CacheOK /\ WrOK /\ RdOK /\ CtlOK /\ Consistent)'
  <2> USE DEF LML_Write, StartCall
  <2>1. r \in [n : Nat, c : Nat] /\ buf \in [0 .. r.c - 1 -> Val]
    <3>1. calls \in 0 .. MaxCalls - 1
      BY <1>0, <1>1, CallsAssumption, SMT DEF CtlOK
    <3> QED BY <3>1, CallsAssumption
  <2>2. (NandOK /\ CacheOK /\ RdOK)'
    BY <1>0, <1>1 DEF NandOK, CacheOK, RdOK, Cached, nand, cache, reading
  <2>3. WrOK'
    BY <1>1, <2>1 DEF WrOK
  <2>4. CtlOK'
    BY <1>0, <1>1, SMT DEF CtlOK
  <2>5. r.c # 0 => 0 < PageCnt(wr')
    <3>1. wr'.n = r.n /\ wr'.c = r.c BY <1>1
    <3>2. r.c # 0 => PageCnt(r) \in Nat \ {0} BY <2>1, PageCount
    <3>3. PageCnt(wr') = PageCnt(r) BY <3>1, SameCount
    <3> QED BY <3>2, <3>3, SMT
  <2>6. Consistent'
    BY <1>0, <1>1, <2>5 DEF Consistent, Reclaiming, Cached, cache, reading
  <2> QED BY <2>2, <2>3, <2>4, <2>6
<1>2. ASSUME NEW r \in Calls, LML_Read(r)
      PROVE  (NandOK /\ CacheOK /\ WrOK /\ RdOK /\ CtlOK /\ Consistent)'
  <2> USE DEF LML_Read, StartCall
  <2>1. r \in [n : Nat, c : Nat]
    BY CallsAssumption
  <2>2. (NandOK /\ CacheOK /\ WrOK)'
    BY <1>0, <1>2 DEF NandOK, CacheOK, WrOK, Cached, nand, cache
  <2>3. PICK verdict \in {"beyond", "ok", "busy"} :
           /\ rd' = [n |-> r.n, c |-> r.c, i |-> 0, status |-> verdict]
           /\ pc' = IF verdict = "busy" THEN "read" ELSE "idle"
           /\ verdict = "busy" => r.c # 0
    BY <1>2
  <2>4. RdOK'
    BY <1>2, <2>1, <2>3 DEF RdOK
  <2>5. CtlOK'
    BY <1>0, <1>2, <2>3, SMT DEF CtlOK
  <2>6. r.c # 0 => 0 < PageCnt(rd')
    <3>1. rd'.n = r.n /\ rd'.c = r.c BY <2>3
    <3>2. r.c # 0 => PageCnt(r) \in Nat \ {0} BY <2>1, PageCount
    <3>3. PageCnt(rd') = PageCnt(r) BY <3>1, SameCount
    <3> QED BY <3>2, <3>3, SMT
  <2>7. Consistent'
    BY <1>0, <1>2, <2>3, <2>6 DEF Consistent, Reclaiming, Cached, cache
  <2> QED BY <2>2, <2>4, <2>5, <2>7
<1>3. CASE LML_FlushPageCache \/ LML_Exit
  <2> USE DEF LML_FlushPageCache, LML_Exit, StartCall
  <2>1. (NandOK /\ CacheOK /\ WrOK /\ RdOK)'
    BY <1>0, <1>3 DEF NandOK, CacheOK, WrOK, RdOK, Cached, nand, cache, reading
  <2>2. CtlOK'
    BY <1>0, <1>3, SMT DEF CtlOK
  <2>3. Consistent'
    BY <1>0, <1>3 DEF Consistent, Reclaiming, Cached, cache, reading
  <2> QED BY <2>1, <2>2, <2>3
<1>4. CASE WriteHit \/ WritePart
  <2> USE DEF WriteHit, WritePart
  <2>1. wr.status = "busy"
    BY <1>0, <1>4 DEF Consistent
  <2>2. CacheOK'
    BY <1>4, <2>1, MergeOK
  <2>3. (NandOK /\ RdOK)'
    BY <1>0, <1>4 DEF NandOK, RdOK, nand, reading
  <2>4. (WrOK /\ CtlOK)'
    BY <1>0, <1>4, <2>1, NextWrite DEF WrOK, CtlOK
  <2>5. Consistent'
    BY <1>0, <1>4, <2>1, <2>2, NextWrite DEF Consistent, Reclaiming, CacheOK, reading
  <2> QED BY <2>2, <2>3, <2>4, <2>5
<1>5. CASE WriteEvict
  <2> USE DEF WriteEvict, WriteFails
  <2>1. (NandOK /\ CacheOK)'
    BY <1>0, <1>5, WriteBackOK
  <2>2. (WrOK /\ RdOK /\ CtlOK)'
    BY <1>0, <1>5 DEF WrOK, RdOK, CtlOK, reading
  <2>3. Consistent'
    BY <1>0, <1>5, <2>1, <2>2 DEF Consistent, Reclaiming, CacheOK, WrOK, reading
  <2> QED BY <2>1, <2>2, <2>3
<1>6. CASE WriteFull
  <2> USE DEF WriteFull, WriteFails
  <2>1. wr.status = "busy"
    BY <1>0, <1>6 DEF Consistent
  <2>2. [s \in Sects |-> wbuf[BufIdx(wr, s)]] \in Content
    BY <1>6, <2>1, WritePassTypes DEF Content
  <2>3. PICK done \in BOOLEAN :
           /\ PageWrite(PageAt(wr), [s \in Sects |-> wbuf[BufIdx(wr, s)]], done)
           /\ IF done THEN NextWritePage ELSE WriteFails
    BY <1>6
  <2>4. NandOK'
    BY <1>0, <2>2, <2>3, PageWriteOK
  <2>5. (CacheOK /\ RdOK)'
    BY <1>0, <1>6 DEF CacheOK, RdOK, Cached, cache, reading
  <2>6. CASE done
    BY <1>0, <1>6, <2>1, <2>3, <2>4, <2>5, <2>6, NextWrite
       DEF WrOK, CtlOK, Consistent, Reclaiming, Cached, cache, reading
  <2>7. CASE ~done
    <3>1. (WrOK /\ CtlOK)'
      BY <1>0, <1>6, <2>3, <2>7 DEF WrOK, CtlOK
    <3>2. wr'.status = "failed"
      BY <1>0, <2>3, <2>7 DEF WrOK
    <3> QED
      BY <1>0, <1>6, <2>3, <2>4, <2>5, <2>7, <3>1, <3>2 DEF Consistent, Reclaiming, Cached, cache, reading
  <2> QED BY <2>6, <2>7
<1>7. CASE ReadPage
  <2> USE DEF ReadPage
  <2>1. rd.status = "busy"
    BY <1>0, <1>7 DEF Consistent
  <2>2. NandOK'
    BY <1>0, <1>7, CloseOK DEF PageRead
  <2>3. (CacheOK /\ WrOK)'
    BY <1>0, <1>7 DEF CacheOK, WrOK, Cached, cache
  <2>4. flash[PageAt(rd)] \in Content
    BY <1>0, <1>7 DEF NandOK, PageRead
  <2>5. (RdOK /\ CtlOK)'
    BY <1>0, <1>7, <2>1, <2>4, NextRead DEF RdOK, CtlOK
  <2>6. Consistent'
    BY <1>0, <1>7, <2>1, <2>4, NextRead DEF Consistent, Reclaiming, Cached, cache
  <2> QED BY <2>2, <2>3, <2>5, <2>6
<1>8. CASE ReadFails
  <2> USE DEF ReadFails
  <2>1. NandOK'
    BY <1>0, <1>8, CloseOK DEF PageReadFails
  <2>2. (CacheOK /\ WrOK /\ RdOK /\ CtlOK)'
    BY <1>0, <1>8 DEF CacheOK, WrOK, RdOK, CtlOK, Cached, cache
  <2>3. Consistent'
    BY <1>0, <1>8 DEF Consistent, Reclaiming, Cached, cache, RdOK
  <2> QED BY <2>1, <2>2, <2>3
<1>9. CASE ReadAtLimit
  <2> USE DEF ReadAtLimit
  <2>1. rd.status = "busy"
    BY <1>0, <1>9 DEF Consistent
  <2>2. NandOK' /\ flash[PageAt(rd)] \in Content /\ PageAt(rd) \in Pages
    BY <1>0, <1>9, CloseOK DEF NandOK, PageRead
  <2>3. (CacheOK /\ WrOK /\ RdOK /\ CtlOK)'
    BY <1>0, <1>9, <2>1, <2>2, ReadPassTypes DEF CacheOK, WrOK, RdOK, CtlOK, Cached, cache
  <2>4. Consistent'
    BY <1>0, <1>9, <2>1, <2>2 DEF Consistent, Reclaiming, Cached, cache
  <2> QED BY <2>2, <2>3, <2>4
<1>10. CASE Reclaim
  <2> USE DEF Reclaim
  <2>1. rd.status = "busy" /\ PageAt(rd) \in Pages
    BY <1>0, <1>10 DEF Consistent, Reclaiming
  <2>2. (NandOK /\ CacheOK)'
    <3>1. CASE PageReadFails /\ UNCHANGED cacheBuf
      BY <1>0, <1>10, <3>1, CloseOK DEF PageReadFails, CacheOK, Cached
    <3>2. CASE /\ cacheBuf' = flash[PageAt(rd)]
               /\ \E done \in BOOLEAN : PageWrite(PageAt(rd), cacheBuf', done)
      <4>1. cacheBuf' \in Content
        BY <1>0, <2>1, <3>2 DEF NandOK
      <4> QED BY <1>0, <1>10, <3>2, <4>1, PageWriteOK DEF CacheOK, Cached
    <3> QED BY <1>10, <3>1, <3>2
  <2>3. WrOK'
    BY <1>0, <1>10 DEF WrOK
  <2>4. (RdOK /\ CtlOK)'
    BY <1>0, <1>10, <2>1, NextRead, ReadPassTypes DEF RdOK, CtlOK
  <2>5. Consistent'
    BY <1>0, <1>10, <2>1, NextRead, ReadPassTypes DEF Consistent, Reclaiming, Cached
  <2> QED BY <2>2, <2>3, <2>4, <2>5
<1>11. ASSUME NEW done \in BOOLEAN, pc \in {"flush", "close"}, FlushReturns(done),
              (NandOK /\ CacheOK)', UNCHANGED <<wr, wbuf, onBehalf, calls>>,
              done => CachePage'.LogicPageNum = None /\ open' = None
       PROVE  (NandOK /\ CacheOK /\ WrOK /\ RdOK /\ CtlOK /\ Consistent)'
  <2>1. WrOK'
    BY <1>0, <1>11 DEF WrOK
  <2>2. CASE onBehalf = "flush"
    BY <1>0, <1>11, <2>1, <2>2 DEF FlushReturns, RdOK, CtlOK, Consistent, Reclaiming, CacheOK, Cached, reading
  <2>3. CASE onBehalf = "exit"
    BY <1>0, <1>11, <2>1, <2>3 DEF FlushReturns, RdOK, CtlOK, Consistent, Reclaiming, CacheOK, Cached, reading
  <2>4. CASE onBehalf = "reclaim" /\ done
    BY <1>0, <1>11, <2>1, <2>4 DEF FlushReturns, RdOK, CtlOK, Consistent, Reclaiming, CacheOK, Cached, reading
  <2>5. CASE onBehalf = "reclaim" /\ ~done
    <3>1. rd.status = "busy"
      BY <1>0, <1>11, <2>5 DEF Consistent, Reclaiming
    <3>2. NextReadPage(Fetched) /\ UNCHANGED flushed
      BY <1>11, <2>5 DEF FlushReturns
    <3>3. (RdOK /\ CtlOK)'
      BY <1>0, <1>11, <3>1, <3>2, NextRead, ReadPassTypes DEF RdOK, CtlOK
    <3>4. Consistent'
      BY <1>0, <1>11, <2>5, <3>1, <3>2, NextRead, ReadPassTypes DEF Consistent, Reclaiming, CacheOK, Cached
    <3> QED BY <1>11, <2>1, <3>3, <3>4
  <2> QED BY <1>0, <1>11, <2>2, <2>3, <2>4, <2>5 DEF CtlOK
<1>12. CASE FlushWrite
  <2> USE DEF FlushWrite
  <2>1. CASE WritePageCacheToNand(TRUE) /\ pc' = "close" /\ UNCHANGED <<reading, flushed>>
    <3>1. NandOK' /\ CacheOK' /\ CachePage'.LogicPageNum = None
      BY <1>0, <2>1, WriteBackOK
    <3> QED
      BY <1>0, <1>12, <2>1, <3>1 DEF WrOK, RdOK, CtlOK, Consistent, Reclaiming, CacheOK, Cached, reading
  <2>2. CASE WritePageCacheToNand(FALSE) /\ FlushReturns(FALSE)
    <3>1. NandOK' /\ CacheOK'
      BY <1>0, <2>2, WriteBackOK
    <3> QED BY <1>11, <1>12, <2>2, <3>1
  <2> QED BY <1>12, <2>1, <2>2
<1>13. CASE FlushClose
  <2> USE DEF FlushClose
  <2>1. NandOK' /\ CacheOK'
    BY <1>0, <1>13, CloseOK DEF cache, CacheOK, Cached
  <2>2. CachePage'.LogicPageNum = None
    BY <1>0, <1>13 DEF Consistent, Cached, cache
  <2>3. CASE CloseWritePage /\ FlushReturns(TRUE)
    BY <1>11, <1>13, <2>1, <2>2, <2>3 DEF CloseWritePage
  <2>4. CASE CloseFails /\ FlushReturns(FALSE)
    BY <1>11, <1>13, <2>1, <2>4
  <2> QED BY <1>13, <2>3, <2>4
<1>14. CASE Exit
  <2> USE DEF Exit
  <2>1. DOMAIN <<>> = {} OBVIOUS
  <2>2. (NandOK /\ CacheOK)'
    BY <1>0, <1>14, <2>1 DEF NandOK, CacheOK, Empty, Cached
  <2>3. (WrOK /\ RdOK /\ CtlOK)'
    BY <1>0, <1>14 DEF WrOK, RdOK, CtlOK, reading
  <2>4. Consistent'
    BY <1>0, <1>14 DEF WrOK, Consistent, Reclaiming, Empty, Cached, reading
  <2> QED BY <2>2, <2>3, <2>4
<1>15. CASE LML_Init
  <2> USE DEF LML_Init
  <2>1. (NandOK /\ CacheOK /\ WrOK /\ RdOK /\ CtlOK)'
    BY <1>0, <1>15 DEF NandOK, CacheOK, WrOK, RdOK, CtlOK, nand, cache, Cached, reading
  <2>2. Consistent'
    BY <1>0, <1>15 DEF Consistent, Reclaiming, cache, Cached, reading
  <2> QED BY <2>1, <2>2
<1>16. CASE PowerCut
  <2> USE DEF PowerCut
  <2>1. flash' \in [Pages -> Content]
    <3>1. PICK new \in SUBSET DOMAIN flight, torn \in SUBSET DOMAIN flight :
            flash' = [p \in Pages |-> CASE p \in torn -> JunkPage
                                        [] p \in DOMAIN flight \ (new \union torn) -> flight[p]
                                        [] OTHER -> flash[p]]
      BY <1>16
    <3> QED BY <1>0, <3>1, JunkContent DEF NandOK
  <2>2. (NandOK /\ CacheOK)'
    BY <1>0, <1>16, <2>1 DEF NandOK, CacheOK, Empty, Cached
  <2>3. (WrOK /\ RdOK /\ CtlOK)'
    BY <1>0, <1>16 DEF WrOK, RdOK, CtlOK
  <2>4. Consistent'
    BY <1>0, <1>16 DEF WrOK, RdOK, Consistent, Reclaiming, Empty, Cached
  <2> QED BY <2>2, <2>3, <2>4
<1>17. CASE UNCHANGED vars
  BY <1>0, <1>17 DEF vars, NandOK, CacheOK, WrOK, RdOK, CtlOK, Consistent, Reclaiming, Cached
<1> QED
  BY <1>1, <1>2, <1>3, <1>4, <1>5, <1>6, <1>7, <1>8, <1>9, <1>10, <1>12, <1>13, <1>14, <1>15, <1>16, <1>17
     DEF Next, Call, Step

\* The invariant holds throughout, whatever the page size, the volume, the data
\* and the calls.
THEOREM Invariance == Spec => []Inv
BY InitInv, StepInv, PTL DEF Spec

\* Every variable of the page cache keeps its type.
THEOREM TypeCorrect == Spec => []TypeOK
<1>1. Inv => TypeOK BY DEF Inv
<1> QED BY Invariance, <1>1, PTL

\* LML_Read and LML_Write stay inside the caller's buffer.
THEOREM BuffersRespected == Spec => []BufferInBounds
<1>1. Inv => BufferInBounds
  BY WritePassTypes, ReadPassTypes DEF BufferInBounds, Inv, Consistent
<1> QED BY Invariance, <1>1, PTL

\* A flush that returned 0 leaves nothing behind in memory.
THEOREM FlushDurable == Spec => []FlushIsDurable
<1>1. Inv => FlushIsDurable
  BY NoneAssumption, SMT DEF FlushIsDurable, Inv, Consistent, View, Cached, Pages
<1> QED BY Invariance, <1>1, PTL

\* Read reclaim never overwrites a page that waits in the write cache.
THEOREM ReclaimSafe == Spec => []ReclaimOwnsBuffer
<1>1. Inv => ReclaimOwnsBuffer
  BY DEF ReclaimOwnsBuffer, Inv, Consistent
<1> QED BY Invariance, <1>1, PTL

-----------------------------------------------------------------------------
(* LML_Read.  What the passes so far delivered is what a read sees, as long  *)
(* as nothing but the read itself runs: read reclaim empties the write cache. *)

PageOf(k) == (rd.n + k) \div SPP
SectorOf(k) == (rd.n + k) % SPP
Delivering == pc = "read" /\ onBehalf # "reclaim"
Fresh == /\ pc = "reclaim" => onBehalf = "reclaim"
         /\ Delivering => \A k \in 0 .. rd.c - 1 :
                             PageOf(k) < PageAt(rd) => rbuf[k] = View(PageOf(k))[SectorOf(k)]

\* A pass fills the sectors of its page in the caller's buffer and no others.
LEMMA DeliveredIs ==
    ASSUME Inv, rd.status = "busy", NEW page, NEW k \in 0 .. rd.c - 1
    PROVE  Delivered(page)[k] = IF PageOf(k) = PageAt(rd) THEN page[SectorOf(k)] ELSE rbuf[k]
<1> DEFINE P == PageAt(rd)
           d == PageOf(k)
           m == SectorOf(k)
           s == k + AlignGap(rd) - rd.i * SPP
<1>1. InLoop(rd)
  BY ReadLoop
<1>2. rd.n \in Nat /\ rd.c \in Nat /\ rd.i \in Nat /\ k \in Nat /\ k < rd.c /\ P \in Nat /\ rd.n + k \in Nat
  BY <1>1, Passes DEF InLoop
<1>3. d \in Nat /\ m \in Sects /\ rd.n + k = d * SPP + m
  BY <1>2, DivMod DEF PageOf, SectorOf
<1>4. P * SPP \in Nat /\ d * SPP \in Nat /\ rd.i * SPP \in Nat
  BY <1>2, <1>3, Distribute
<1>5. SPP \in Nat \ {0} /\ 0 \in Sects
  BY GeometryAssumption DEF Sects
<1>6. rd.i * SPP + 0 - AlignGap(rd) = P * SPP + 0 - rd.n /\ AlignGap(rd) \in Sects
  BY <1>1, <1>5, Passes DEF BufIdx
<1>7. BitmapAt(rd) = {t \in Sects : rd.n <= P * SPP + t /\ P * SPP + t < rd.n + rd.c}
  BY <1>1, Passes
<1>8. DOMAIN rbuf = 0 .. rd.c - 1
  BY DEF Inv, TypeOK
<1>9. Delivered(page)[k] = IF s \in BitmapAt(rd) THEN page[s] ELSE rbuf[k]
  BY <1>8 DEF Delivered
<1> HIDE DEF P, d, m, s
<1>10. s = rd.n + k - P * SPP
  BY <1>2, <1>4, <1>6 DEF Sects, s
<1>11. CASE d = P
  <2>1. s = m
    <3> DEFINE a == P * SPP
    <3>1. a \in Nat /\ rd.n + k = a + m /\ s = rd.n + k - a /\ m \in Nat /\ rd.n + k \in Nat
      BY <1>2, <1>3, <1>4, <1>5, <1>10, <1>11 DEF Sects
    <3> HIDE DEF a
    <3> QED BY <3>1, <1>2
  <2>2. s \in BitmapAt(rd)
    BY <2>1, <1>2, <1>3, <1>4, <1>7, <1>11 DEF Sects
  <2> QED BY <2>1, <2>2, <1>9, <1>11 DEF d, m, P
<1>12. CASE d # P
  <2>1. d * SPP + SPP <= P * SPP \/ P * SPP + SPP <= d * SPP
    BY <1>2, <1>3, <1>12, PagesInOrder
  <2>2. s \notin Sects
    BY <2>1, <1>2, <1>3, <1>4, <1>5, <1>10 DEF Sects
  <2> QED BY <2>2, <1>7, <1>9, <1>12 DEF d, P
<1> QED BY <1>11, <1>12

\* The first sector lies on the first page of the loop, and none before it.
LEMMA StartsAtHead ==
    ASSUME NEW r, r.n \in Nat, r.i = 0, NEW k \in Nat
    PROVE  ~((r.n + k) \div SPP < PageAt(r))
<1> DEFINE d == (r.n + k) \div SPP
           h == r.n \div SPP
<1>0. r.n + k \in Nat
  OBVIOUS
<1>1. d \in Nat /\ r.n + k = d * SPP + ((r.n + k) % SPP) /\ (r.n + k) % SPP \in Sects
  BY <1>0, DivMod
<1>2. h \in Nat /\ r.n = h * SPP + (r.n % SPP) /\ r.n % SPP \in Sects
  BY DivMod
<1>3. PageAt(r) = h
  BY <1>2 DEF PageAt, HeadPage
<1>4. d * SPP \in Nat /\ h * SPP \in Nat /\ SPP \in Nat
  BY <1>1, <1>2, Distribute, GeometryAssumption
<1>5. ~(d < h)
  <2> HIDE DEF d, h
  <2> SUFFICES ASSUME d < h PROVE FALSE
    OBVIOUS
  <2> DEFINE a == d * SPP
             b == h * SPP
             x == (r.n + k) % SPP
             y == r.n % SPP
  <2>1. a + SPP <= b
    BY <1>1, <1>2, PagesInOrder
  <2>2. a \in Nat /\ b \in Nat /\ r.n + k = a + x /\ x \in 0 .. SPP - 1 /\ r.n = b + y /\ y \in 0 .. SPP - 1
    BY <1>1, <1>2, <1>4 DEF Sects
  <2> HIDE DEF a, b, x, y
  <2> QED BY <2>1, <2>2, <1>4
<1> QED BY <1>3, <1>5

\* A pass on an unchanged cache delivers what a read sees, up to the end of its page.
LEMMA PassFresh ==
    ASSUME Inv, Fresh, Delivering, ReadPage
    PROVE  /\ \A k \in 0 .. rd.c - 1 : PageOf(k) <= PageAt(rd) => rbuf'[k] = View(PageOf(k))[SectorOf(k)]
           /\ rd'.status = "ok" => \A k \in 0 .. rd.c - 1 : PageOf(k) <= PageAt(rd)
           /\ rd'.n = rd.n /\ rd'.c = rd.c /\ PageAt(rd') = PageAt(rd) + 1
           /\ UNCHANGED <<flash, CachePage, cacheBuf>>
<1>1. rd.status = "busy"
  BY DEF Delivering, Inv, Consistent
<1>2. InLoop(rd)
  BY <1>1, ReadLoop
<1>3. /\ PageAt(rd) \in Nat /\ (rd.i + 1 = PageCnt(rd) <=> (PageAt(rd) + 1) * SPP >= rd.n + rd.c)
      /\ rd.n \in Nat /\ rd.c \in Nat /\ rd.i \in Nat
  BY <1>2, Passes DEF InLoop
<1>4. UNCHANGED <<flash, CachePage, cacheBuf>>
  BY DEF ReadPage, PageRead, CloseWritePage, cache
<1>5. rbuf' = Delivered(View(PageAt(rd)))
  BY <1>4 DEF ReadPage, NextReadPage, View, Cached, CacheOver
<1>6. rd' = [rd EXCEPT !.i = @ + 1, !.status = IF rd.i + 1 = PageCnt(rd) THEN "ok" ELSE "busy"]
  BY DEF ReadPage, NextReadPage
<1>7. rd'.n = rd.n /\ rd'.c = rd.c /\ rd'.i = rd.i + 1 /\ (rd'.status = "ok" => rd.i + 1 = PageCnt(rd))
  BY <1>6 DEF Inv, TypeOK
<1>8. HeadPage(rd) \in Nat
  BY <1>3, DivMod DEF HeadPage
<1>9. PageAt(rd') = PageAt(rd) + 1
  BY <1>3, <1>7, <1>8 DEF PageAt, HeadPage
<1>10. ASSUME NEW k \in 0 .. rd.c - 1, PageOf(k) <= PageAt(rd)
       PROVE  rbuf'[k] = View(PageOf(k))[SectorOf(k)]
  <2>1. CASE PageOf(k) = PageAt(rd)
    BY <2>1, <1>1, <1>5, DeliveredIs
  <2>2. CASE PageOf(k) # PageAt(rd)
    <3>1. PageOf(k) \in Nat
      BY <1>3, DivMod DEF PageOf
    <3>2. PageOf(k) < PageAt(rd)
      BY <3>1, <2>2, <1>3, <1>10
    <3> QED BY <3>2, <2>2, <1>1, <1>5, DeliveredIs DEF Fresh
  <2> QED BY <2>1, <2>2
<1>11. ASSUME rd'.status = "ok", NEW k \in 0 .. rd.c - 1
       PROVE  PageOf(k) <= PageAt(rd)
  <2> DEFINE P == PageAt(rd)
             d == PageOf(k)
  <2>1. (P + 1) * SPP >= rd.n + rd.c
    BY <1>3, <1>7, <1>11
  <2>2. d \in Nat /\ rd.n + k = d * SPP + SectorOf(k) /\ SectorOf(k) \in Sects /\ rd.n + k \in Nat
    BY <1>3, DivMod DEF PageOf, SectorOf
  <2>3. d * SPP \in Nat /\ P \in Nat /\ (P + 1) * SPP = P * SPP + SPP /\ P * SPP \in Nat /\ SPP \in Nat
    BY <2>2, <1>3, Distribute, GeometryAssumption
  <2> HIDE DEF P, d
  <2>4. ~(P < d)
    <3> SUFFICES ASSUME P < d PROVE FALSE
      OBVIOUS
    <3>1. P * SPP + SPP <= d * SPP
      BY <2>2, <2>3, PagesInOrder
    <3> QED BY <3>1, <2>1, <2>2, <2>3, <1>3 DEF Sects
  <2>5. d <= P
    BY <2>2, <2>3, <2>4
  <2> QED BY <2>5 DEF P, d
<1> QED BY <1>4, <1>7, <1>9, <1>10, <1>11

LEMMA InitFresh == Init => Fresh
BY DEF Init, Fresh, Delivering

LEMMA StepFresh == Inv /\ Fresh /\ [Next]_vars => Fresh'
<1> SUFFICES ASSUME Inv, Fresh, [Next]_vars PROVE Fresh'
  OBVIOUS
<1>1. ASSUME NEW r \in Calls, LML_Read(r)
      PROVE  Fresh'
  <2>1. rd'.n = r.n /\ rd'.i = 0 /\ r.n \in Nat /\ pc' \in {"read", "idle"}
    BY <1>1, CallsAssumption DEF LML_Read
  <2>2. \A k \in 0 .. rd'.c - 1 : ~((rd'.n + k) \div SPP < PageAt(rd'))
    <3> TAKE k \in 0 .. rd'.c - 1
    <3>1. k \in Nat /\ rd'.n \in Nat
      BY <2>1, <1>1, CallsAssumption DEF LML_Read
    <3> QED BY <3>1, <2>1, StartsAtHead
  <2> QED BY <2>1, <2>2 DEF Fresh, PageOf
<1>2. CASE ReadPage
  <2>1. CASE Delivering
    <3>1. UNCHANGED onBehalf /\ pc' \in {"read", "idle"}
      BY <1>2 DEF ReadPage, NextReadPage
    <3>2. \A k \in 0 .. rd'.c - 1 : PageOf(k)' = PageOf(k) /\ SectorOf(k)' = SectorOf(k) /\ View(PageOf(k))' = View(PageOf(k))
      BY <1>2, <2>1, PassFresh DEF PageOf, SectorOf, View, Cached, CacheOver
    <3>3. ASSUME NEW k \in 0 .. rd'.c - 1, PageOf(k)' < PageAt(rd')
          PROVE  rbuf'[k] = View(PageOf(k))'[SectorOf(k)']
      <4>1. rd.n \in Nat /\ rd'.c = rd.c /\ k \in 0 .. rd.c - 1 /\ PageAt(rd') = PageAt(rd) + 1 /\ PageOf(k)' = PageOf(k)
        BY <1>2, <2>1, <3>2, PassFresh DEF Inv, TypeOK
      <4>2. k \in Nat /\ PageOf(k) \in Nat /\ PageAt(rd) \in Nat
        <5>1. k \in Nat /\ rd.n \in Nat /\ rd.i \in Nat
          BY <4>1 DEF Inv, TypeOK
        <5>2. rd.n + k \in Nat
          BY <5>1
        <5>3. (rd.n + k) \div SPP \in Nat /\ rd.n \div SPP \in Nat
          BY <5>1, <5>2, DivMod
        <5>4. QED BY <5>1, <5>3 DEF PageOf, PageAt, HeadPage
      <4>3. PageOf(k) <= PageAt(rd)
        BY <4>1, <4>2, <3>3
      <4> QED BY <4>1, <4>3, <3>2, <1>2, <2>1, PassFresh
    <3> QED BY <3>1, <3>3 DEF Fresh
  <2>2. CASE ~Delivering
    BY <1>2, <2>2 DEF ReadPage, NextReadPage, Delivering, Fresh
  <2> QED BY <2>1, <2>2
<1>3. ASSUME Call \/ WriteHit \/ WriteEvict \/ WriteFull \/ WritePart, ~\E r \in Calls : LML_Read(r)
      PROVE  Fresh'
  BY <1>3 DEF Call, LML_Write, LML_FlushPageCache, LML_Exit, WriteHit, WriteEvict, WriteFull, WritePart,
              NextWritePage, WriteFails, Fresh, Delivering
<1>4. CASE ReadFails \/ ReadAtLimit
  BY <1>4 DEF ReadFails, ReadAtLimit, Fresh, Delivering
<1>5. CASE Reclaim
  BY <1>5 DEF Reclaim, NextReadPage, Fresh, Delivering
<1>6. CASE FlushWrite \/ FlushClose
  BY <1>6 DEF FlushWrite, FlushClose, FlushReturns, NextReadPage, Fresh, Delivering
<1>7. CASE Exit \/ LML_Init \/ PowerCut
  BY <1>7 DEF Exit, LML_Init, PowerCut, Fresh, Delivering
<1>8. CASE UNCHANGED vars
  BY <1>8 DEF vars, Fresh, Delivering, PageOf, SectorOf, PageAt, HeadPage, View, Cached, CacheOver
<1> QED BY <1>1, <1>2, <1>3, <1>4, <1>5, <1>6, <1>7, <1>8 DEF Next, Step, Call

\* A read that returns 0 has read the latest content of every sector, the write cache
\* included, as long as LML_ReadReclaim has not emptied the cache.
THEOREM ReadsHold == Spec => ReadsLatestIfSound
<1>1. ASSUME Inv, Fresh, [Next]_vars, onBehalf # "reclaim"
      PROVE  ReadIsLatest
  <2> SUFFICES ASSUME rd.status = "busy", rd'.status = "ok",
                      NEW k \in 0 .. rd.c - 1
               PROVE  View(PageOf(k))[SectorOf(k)] = rbuf'[k]
    BY DEF ReadIsLatest, PageOf, SectorOf
  <2>1. Delivering
    BY <1>1 DEF Inv, Consistent, Reclaiming, Fresh, Delivering
  <2>2. ReadPage
    BY <1>1, <2>1 DEF Next, Step, Call, StartCall, LML_Read, LML_Write, LML_FlushPageCache, LML_Exit, WriteHit, WriteEvict,
       WriteFull, WritePart, ReadFails, ReadAtLimit, Reclaim, FlushWrite, FlushClose, Exit, LML_Init, PowerCut, Delivering,
       reading, vars, Inv, TypeOK
  <2> QED BY <1>1, <2>1, <2>2, PassFresh
<1>2. ASSUME Inv, Fresh, [Next]_vars
      PROVE  [onBehalf # "reclaim" => ReadIsLatest]_vars
  BY <1>1, <1>2
<1>3. Spec => []Fresh
  BY Invariance, InitFresh, StepFresh, PTL DEF Spec
<1> QED BY <1>2, <1>3, Invariance, PTL DEF Spec, ReadsLatestIfSound

-----------------------------------------------------------------------------
(***************************************************************************)
(* LogicCtl implements SectorDisk: every step of the driver is a step of   *)
(* the disk it promises, or leaves that disk alone.                        *)
(***************************************************************************)

\* The disk that callers see, and the last two parts of the mapping.
Seen == [p \in Pages |-> View(p)]
CallSeen == [n |-> wr.n, c |-> wr.c, buf |-> wbuf]

LEMMA SameSets == /\ Disk!Pages = Pages /\ Disk!Sects = Sects /\ Disk!Content = Content
BY DEF Disk!Pages, Disk!Sects, Disk!Content, Pages, Sects, Content

LEMMA SpoiltIs ==
    ASSUME NEW page, NEW q
    PROVE  q \in Disk!Spoilt(page) <=>
              \E lost \in SUBSET Sects : q = [s \in Sects |-> IF s \in lost THEN Junk ELSE page[s]]
BY DEF Disk!Spoilt, Disk!Sects, Sects

LEMMA SpoiltOK ==
    ASSUME NEW page \in Content
    PROVE  page \in Disk!Spoilt(page) /\ JunkPage \in Disk!Spoilt(page)
<1>1. page = [s \in Sects |-> IF s \in {} THEN Junk ELSE page[s]]
  BY DEF Content
<1>2. JunkPage = [s \in Sects |-> IF s \in Sects THEN Junk ELSE page[s]]
  BY DEF JunkPage
<1>3. page \in Disk!Spoilt(page)
  <2>1. {} \in SUBSET Sects OBVIOUS
  <2> QED BY <1>1, <2>1, SpoiltIs, Zenon
<1>4. JunkPage \in Disk!Spoilt(page)
  <2>1. Sects \in SUBSET Sects OBVIOUS
  <2> QED BY <1>2, <2>1, SpoiltIs, Zenon
<1> QED BY <1>3, <1>4

LEMMA ViewOK == ASSUME Inv, NEW p \in Pages PROVE View(p) \in Content
<1>1. flash[p] \in Content /\ CacheOK
  BY InvParts DEF NandOK
<1> QED BY <1>1, CacheOverOK DEF View

\* A step that changes what is seen of one page only.
LEMMA OnePageSeen ==
    ASSUME NEW p \in Pages, NEW page, View(p)' = page,
           \A q \in Pages : q # p => View(q)' = View(q)
    PROVE  Seen' = [Seen EXCEPT ![p] = page]
BY DEF Seen

LEMMA AllSeen ==
    ASSUME \A q \in Pages : View(q)' = View(q)
    PROVE  Seen' = Seen
BY DEF Seen

LEMMA SettleDisk == ASSUME NEW done, Settle(done) PROVE Disk!Settle
<1>1. PICK keep \in SUBSET (DOMAIN flight \ done) : flight' = [q \in keep |-> flight[q]]
  BY DEF Settle, Restricted
<1>2. keep \in SUBSET DOMAIN flight
  OBVIOUS
<1> QED BY <1>1, <1>2 DEF Disk!Settle

LEMMA StayDisk == ASSUME Inv, UNCHANGED flight PROVE Disk!Settle
<1>1. flight' = [q \in DOMAIN flight |-> flight[q]]
  BY DEF Inv, TypeOK
<1> QED BY <1>1 DEF Disk!Settle

\* The disk goes on with its call, or gives it up.
Proceeds == /\ UNCHANGED <<wbuf>> /\ wr'.n = wr.n /\ wr'.c = wr.c /\ wr'.i = wr.i
            /\ \/ wr'.status = wr.status
               \/ wr.status = "busy" /\ wr'.status = "failed"

LEMMA GoOnDisk == ASSUME Proceeds PROVE Disk!GoOn
<1>1. PageAt(wr)' = PageAt(wr)
  BY DEF Proceeds, PageAt, HeadPage
<1>2. CallSeen' = CallSeen
  BY DEF Proceeds, CallSeen
<1> QED BY <1>1, <1>2 DEF Proceeds, Disk!GoOn, CallSeen

\* The page layer at rest.
LEMMA CloseDisk ==
    ASSUME Inv, CloseWritePage \/ CloseFails, UNCHANGED <<CachePage, cacheBuf>>, Proceeds
    PROVE  Disk!Quiesce
<1>1. UNCHANGED flash /\ Disk!Settle
  BY SettleDisk, StayDisk DEF CloseWritePage, CloseFails, nand
<1>2. \A q \in Pages : View(q)' = View(q)
  BY <1>1 DEF View, CacheOver, Cached
<1>3. Seen' = Seen
  BY <1>2, AllSeen
<1> QED BY <1>1, <1>3, GoOnDisk DEF Disk!Quiesce, Seen

\* LML_PageWrite of what is seen of page p, which leaves the cache or keeps it.
LEMMA ProgramDisk ==
    ASSUME Inv, NEW p, NEW done \in BOOLEAN, NEW data, p \in Pages => data = View(p),
           PageWrite(p, data, done), Proceeds,
           done => \A q \in Pages : View(q)' = flash'[q],
           done => \A q \in Pages : q # p => View(q) = flash[q],
           ~done => \A q \in Pages : q # p /\ flash'[q] = flash[q] => View(q)' = View(q),
           ~done => (p \in Pages /\ flash' = flash => View(p)' = View(p)),
           ~done /\ p \in Pages => View(p)' \in Disk!Spoilt(View(p))
    PROVE  Disk!Quiesce \/ \E q \in Pages : Disk!Destage(q) \/ Disk!Ruin(q)
<1>0. flash \in [Pages -> Content] BY DEF Inv, TypeOK
<1>1. CASE done
  <2>1. /\ p \in Pages
        /\ \E page \in {data, JunkPage} : flash' = [flash EXCEPT ![p] = page]
        /\ \E keep \in SUBSET (DOMAIN flight \ {p}) :
              flight' = [q \in keep \union {p} |-> IF q = p THEN flash[p] ELSE flight[q]]
    BY <1>1 DEF PageWrite
  <2>2. PICK page \in {data, JunkPage} : flash' = [flash EXCEPT ![p] = page]
    BY <2>1
  <2>3. View(p) \in Content
    BY <2>1, ViewOK
  <2>4. page \in Disk!Spoilt(View(p))
    BY <2>1, <2>3, SpoiltOK
  <2>5. View(p)' = page /\ \A q \in Pages : q # p => View(q)' = View(q)
    BY <1>0, <1>1, <2>1, <2>2
  <2>6. Seen' = [Seen EXCEPT ![p] = page] /\ Seen[p] = View(p)
    BY <2>1, <2>5, OnePageSeen DEF Seen
  <2>7. Disk!Launch(p)
    BY <2>1 DEF Disk!Launch
  <2> QED BY <2>1, <2>2, <2>4, <2>6, <2>7, GoOnDisk DEF Disk!Destage, Seen
<1>2. CASE ~done /\ UNCHANGED flash
  <2>1. Disk!Settle
    BY <1>2, SettleDisk DEF PageWrite
  <2>2. \A q \in Pages : View(q)' = View(q)
    BY <1>2
  <2> QED BY <1>2, <2>1, <2>2, AllSeen, GoOnDisk DEF Disk!Quiesce, Seen
<1>3. CASE ~done /\ p \in Pages /\ flash' = [flash EXCEPT ![p] = JunkPage]
  <2>1. Disk!Settle
    BY <1>3, SettleDisk DEF PageWrite
  <2>2. \A q \in Pages : q # p => flash'[q] = flash[q] /\ View(q)' = View(q)
    BY <1>0, <1>3
  <2>3. Seen' = [Seen EXCEPT ![p] = View(p)'] /\ Seen[p] = View(p)
    BY <1>3, <2>2, OnePageSeen DEF Seen
  <2>4. flash[p] \in Content /\ JunkPage \in Disk!Spoilt(flash[p])
    BY <1>0, <1>3, SpoiltOK
  <2> QED BY <1>3, <2>1, <2>3, <2>4, GoOnDisk DEF Disk!Ruin, Seen
<1> QED BY <1>1, <1>2, <1>3 DEF PageWrite

\* _WritePageCacheToNand, in a write call or in a flush.
LEMMA WriteBackDisk ==
    ASSUME Inv, NEW done \in BOOLEAN, WritePageCacheToNand(done), Proceeds, ~Cached(None)
    PROVE  Disk!Quiesce \/ \E q \in Pages : Disk!Destage(q) \/ Disk!Ruin(q)
<1> DEFINE p == CachePage.LogicPageNum
<1>0. /\ flash \in [Pages -> Content] /\ cacheBuf \in Content /\ None \notin Pages
      /\ CachePage.SectorBitmap \subseteq Sects
  BY NoneAssumption DEF Inv, TypeOK, Pages
<1>1. CASE ~done /\ PageReadFails /\ UNCHANGED cache
  BY <1>1, CloseDisk DEF PageReadFails, cache
<1>2. CASE /\ p \in Pages \/ CachePage.SectorBitmap = Sects
           /\ cacheBuf' = CacheOver(IF p \in Pages THEN flash[p] ELSE cacheBuf)
           /\ PageWrite(p, cacheBuf', done)
           /\ CachePage' = IF done THEN Empty ELSE CachePage
  <2>1. p \in Pages => cacheBuf' = View(p)
    BY <1>2 DEF View, Cached
  <2>2. \A q \in Pages : q # p => View(q) = flash[q]
    BY DEF View, Cached
  <2>3. done => \A q \in Pages : View(q)' = flash'[q]
    BY <1>0, <1>2 DEF View, Cached, Empty
  <2>4. ~done => \A q \in Pages : q # p => View(q)' = flash'[q]
    BY <1>2 DEF View, Cached
  <2>5. ASSUME ~done, p \in Pages PROVE View(p)' = CacheOver(flash'[p])
    <3>1. View(p)' = [s \in Sects |-> IF s \in CachePage.SectorBitmap THEN cacheBuf'[s] ELSE flash'[p][s]]
      BY <1>2, <2>5 DEF View, Cached, CacheOver
    <3>2. \A s \in CachePage.SectorBitmap : cacheBuf'[s] = cacheBuf[s]
      BY <1>0, <1>2, <2>5 DEF CacheOver
    <3> QED BY <3>1, <3>2 DEF CacheOver
  <2>6. ~done => (p \in Pages /\ flash' = flash => View(p)' = View(p))
    BY <2>5 DEF View, Cached
  <2>7. ASSUME ~done, p \in Pages PROVE View(p)' \in Disk!Spoilt(View(p))
    <3>1. CASE flash' = flash
      BY <2>6, <2>7, <3>1, SpoiltOK, ViewOK
    <3>2. CASE flash' = [flash EXCEPT ![p] = JunkPage]
      <4> DEFINE lost == Sects \ CachePage.SectorBitmap
      <4>1. View(p)' = [s \in Sects |-> IF s \in CachePage.SectorBitmap THEN cacheBuf[s] ELSE Junk]
        BY <1>0, <2>5, <2>7, <3>2 DEF CacheOver, JunkPage
      <4>2. View(p) = [s \in Sects |-> IF s \in CachePage.SectorBitmap THEN cacheBuf[s] ELSE flash[p][s]]
        BY DEF View, Cached, CacheOver
      <4>3. View(p)' = [s \in Sects |-> IF s \in lost THEN Junk ELSE View(p)[s]]
        BY <4>1, <4>2
      <4>4. lost \in SUBSET Sects OBVIOUS
      <4> HIDE DEF lost
      <4> QED BY <4>3, <4>4, SpoiltIs
    <3> QED BY <1>2, <2>7, <3>1, <3>2 DEF PageWrite
  <2> QED BY <1>2, <2>1, <2>2, <2>3, <2>4, <2>6, <2>7, ProgramDisk
<1> QED BY <1>1, <1>2 DEF WritePageCacheToNand

\* A pass of LML_Write ends: the disk's call advances.
LEMMA AdvanceDisk ==
    ASSUME Inv, wr.status = "busy", NextWritePage, UNCHANGED wbuf
    PROVE  Disk!Advance
<1>1. InLoop(wr) BY WriteLoop
<1>2. /\ wr' = [wr EXCEPT !.i = wr.i + 1, !.status = IF wr.i + 1 = PageCnt(wr) THEN "ok" ELSE "busy"]
      /\ wr \in [n : Nat, c : Nat, i : Nat, status : {"none", "busy", "ok", "failed"}]
  BY DEF NextWritePage, Inv, TypeOK
<1>3. wr'.n = wr.n /\ wr'.c = wr.c /\ wr'.i = wr.i + 1 /\ wr.i \in Nat
  BY <1>2
<1>4. wr'.status = IF wr.i + 1 = PageCnt(wr) THEN "ok" ELSE "busy"
  BY <1>2
<1>5. HeadPage(wr) \in Nat
  BY <1>1, DivMod DEF HeadPage, InLoop
<1>6. PageAt(wr)' = PageAt(wr) + 1
  BY <1>3, <1>5, SameCount, SMT DEF PageAt
<1>7. wr'.status = IF (PageAt(wr) + 1) * SPP >= wr.n + wr.c THEN "ok" ELSE "busy"
  BY <1>1, <1>4, Passes
<1>8. CallSeen' = CallSeen
  BY <1>3 DEF CallSeen
<1> QED BY <1>6, <1>7, <1>8 DEF Disk!Advance, CallSeen

\* What the disk holds of the page of this pass once it is written.
LEMMA WrittenIs ==
    ASSUME Inv, wr.status = "busy", PageAt(wr) \in Pages
    PROVE  Disk!Written(PageAt(wr)) =
              [s \in Sects |-> IF s \in BitmapAt(wr) THEN wbuf[BufIdx(wr, s)] ELSE View(PageAt(wr))[s]]
<1> DEFINE p == PageAt(wr)
<1>1. InLoop(wr) BY WriteLoop
<1>2. Disk!Covered(p) = BitmapAt(wr)
  BY <1>1, Passes, SameSets DEF Disk!Covered, CallSeen
<1>3. \A s \in Sects : BufIdx(wr, s) = p * SPP + s - wr.n
  BY <1>1, Passes
<1>4. Disk!Written(p) =
         [s \in Sects |-> IF s \in Disk!Covered(p) THEN wbuf[p * SPP + s - wr.n] ELSE View(p)[s]]
  BY SameSets DEF Disk!Written
<1> HIDE DEF p
<1>5. Disk!Written(p) = [s \in Sects |-> IF s \in BitmapAt(wr) THEN wbuf[BufIdx(wr, s)] ELSE View(p)[s]]
  BY <1>2, <1>3, <1>4
<1> QED BY <1>5 DEF p

LEMMA InitDisk == Init => Disk!Init
<1> SUFFICES ASSUME Init PROVE Disk!Init OBVIOUS
<1>1. Inv BY InitInv
<1>2. flash \in [Pages -> Content] BY <1>1 DEF Inv, TypeOK
<1>3. \A p \in Pages : View(p) = flash[p]
  BY NoneAssumption DEF Init, View, Cached, Empty, Pages
<1>4. Seen = flash BY <1>2, <1>3 DEF Seen
<1>5. PageAt(wr) = 0
  BY GeometryAssumption, SMT DEF Init, PageAt, HeadPage
<1> QED BY <1>2, <1>4, <1>5, SameSets DEF Init, Disk!Init, Seen

\* One step per action of the driver.
LEMMA StepDisk == Inv /\ [Next]_vars => [Disk!Next]_Disk!vars
<1> SUFFICES ASSUME Inv, [Next]_vars PROVE [Disk!Next]_Disk!vars OBVIOUS
<1>0. /\ flash \in [Pages -> Content] /\ cacheBuf \in Content /\ None \notin Pages
      /\ wr \in [n : Nat, c : Nat, i : Nat, status : {"none", "busy", "ok", "failed"}]
      /\ CachePage \in [LogicPageNum : Nat \union {None}, SectorBitmap : SUBSET Sects]
  BY NoneAssumption DEF Inv, TypeOK, Pages
<1>1. ASSUME Disk!Quiesce \/ \E q \in Pages : Disk!Destage(q) \/ Disk!Ruin(q)
      PROVE  Disk!Next
  BY <1>1, SameSets DEF Disk!Next
<1>2. ASSUME UNCHANGED <<flash, flight, CachePage, cacheBuf, wr, wbuf>>
      PROVE  UNCHANGED Disk!vars
  <2>1. \A q \in Pages : View(q)' = View(q)
    BY <1>2 DEF View, CacheOver, Cached
  <2>2. PageAt(wr)' = PageAt(wr)
    BY <1>2 DEF PageAt, HeadPage
  <2> QED BY <1>2, <2>1, <2>2, AllSeen DEF Disk!vars, Seen
<1>3. ASSUME UNCHANGED <<wr, wbuf>> PROVE Proceeds
  BY <1>3 DEF Proceeds
<1>4. ASSUME wr.status = "busy", WriteFails, UNCHANGED wbuf PROVE Proceeds
  BY <1>0, <1>4 DEF Proceeds, WriteFails
<1>5. ASSUME NEW r \in Calls, NEW buf \in UserData(calls, r.c), LML_Write(r, buf)
      PROVE  Disk!Begin
  <2> USE DEF LML_Write, StartCall
  <2>1. r \in [n : Nat, c : Nat] /\ buf \in [0 .. r.c - 1 -> Val]
    <3>1. calls \in 0 .. MaxCalls - 1
      BY <1>5, CallsAssumption, SMT DEF Inv, TypeOK
    <3> QED BY <3>1, CallsAssumption
  <2>2. wr.status # "busy"
    BY <1>5 DEF Inv, Consistent
  <2>3. wr'.n = r.n /\ wr'.c = r.c /\ wr'.i = 0 /\ wbuf' = buf /\ wr'.status = IF r.c = 0 THEN "ok" ELSE "busy"
    BY <1>5
  <2>4. PageAt(wr)' = r.n \div SPP
    BY <2>1, <2>3, DivMod, SMT DEF PageAt, HeadPage
  <2>5. \A q \in Pages : View(q)' = View(q)
    BY <1>5 DEF View, CacheOver, Cached, cache, nand
  <2>6. Seen' = Seen
    BY <2>5, AllSeen
  <2> QED BY <1>5, <2>1, <2>2, <2>3, <2>4, <2>6 DEF Disk!Begin, Seen, nand
<1>6. CASE WriteHit \/ WritePart
  <2> USE DEF WriteHit, WritePart
  <2>0. PICK p : p = PageAt(wr) OBVIOUS
  <2>1. wr.status = "busy" BY <1>6 DEF Inv, Consistent
  <2>2. Disk!Advance BY <1>6, <2>1, AdvanceDisk
  <2>3. CachePage'.LogicPageNum = p /\ p # None
    BY <2>0, <1>6, <2>1, WritePassTypes, NoneAssumption DEF MergeCachePageData
  <2>4. UNCHANGED <<flash, flight>> BY <1>6 DEF nand
  <2>5. Cached(p) \/ (Cached(None) /\ CachePage.SectorBitmap = {})
    BY <2>0, <1>6 DEF Inv, Consistent
  <2>6. \A q \in Pages : q # p => View(q)' = View(q)
    BY <1>0, <2>3, <2>4, <2>5 DEF View, Cached
  <2>7. ASSUME p \in Pages PROVE View(p)' = Disk!Written(p)
    <3>1. View(p)' = [s \in Sects |-> IF s \in CachePage'.SectorBitmap THEN cacheBuf'[s] ELSE flash'[p][s]]
      BY <2>3, <2>7 DEF View, Cached, CacheOver
    <3>2. /\ CachePage'.SectorBitmap = CachePage.SectorBitmap \union BitmapAt(wr)
          /\ cacheBuf' = [s \in Sects |-> IF s \in BitmapAt(wr) THEN wbuf[BufIdx(wr, s)] ELSE cacheBuf[s]]
      BY <1>6 DEF MergeCachePageData
    <3>3. View(p) = [s \in Sects |-> IF s \in CachePage.SectorBitmap THEN cacheBuf[s] ELSE flash[p][s]]
      BY <1>0, <2>3, <2>5, <2>7 DEF View, Cached, CacheOver, Content
    <3>4. View(p)' = [s \in Sects |-> IF s \in BitmapAt(wr) THEN wbuf[BufIdx(wr, s)] ELSE View(p)[s]]
      BY <2>4, <3>1, <3>2, <3>3
    <3> QED BY <2>0, <2>1, <2>7, <3>4, WrittenIs
  <2>8. Seen' = IF p \in Pages THEN [Seen EXCEPT ![p] = Disk!Written(p)] ELSE Seen
    BY <2>6, <2>7, OnePageSeen, AllSeen
  <2>9. Disk!Put
    BY <2>0, <2>2, <2>4, <2>8, SameSets DEF Disk!Put, Seen
  <2> QED BY <2>9 DEF Disk!Next
<1>7. CASE WriteEvict
  <2> USE DEF WriteEvict
  <2>1. wr.status = "busy" BY <1>7 DEF Inv, Consistent
  <2>2. Proceeds BY <1>3, <1>4, <1>7, <2>1
  <2> QED BY <1>1, <1>7, <2>2, WriteBackDisk
<1>8. CASE WriteFull
  <2> USE DEF WriteFull
  <2>0. PICK p : p = PageAt(wr) OBVIOUS
  <2> DEFINE data == [s \in Sects |-> wbuf[BufIdx(wr, s)]]
  <2>1. wr.status = "busy" BY <1>8 DEF Inv, Consistent
  <2>2. PICK done \in BOOLEAN : PageWrite(p, data, done) /\ IF done THEN NextWritePage ELSE WriteFails
    BY <2>0, <1>8
  <2>3. \A q \in Pages : View(q) = flash[q] /\ View(q)' = flash'[q]
    BY <1>0, <1>8 DEF View, Cached, cache
  <2>4. CASE done
    <3>1. /\ p \in Pages
          /\ \E page \in {data, JunkPage} : flash' = [flash EXCEPT ![p] = page]
          /\ \E keep \in SUBSET (DOMAIN flight \ {p}) :
                flight' = [q \in keep \union {p} |-> IF q = p THEN flash[p] ELSE flight[q]]
      BY <2>2, <2>4 DEF PageWrite
    <3>2. PICK page \in {data, JunkPage} : flash' = [flash EXCEPT ![p] = page]
      BY <3>1
    <3>3. Disk!Written(p) = data
      BY <2>0, <1>8, <2>1, <3>1, WrittenIs
    <3>4. data \in Content
      BY <1>8, <2>1, WritePassTypes DEF Content
    <3>5. page \in Disk!Spoilt(Disk!Written(p))
      BY <3>2, <3>3, <3>4, SpoiltOK
    <3>6. View(p)' = page /\ \A q \in Pages : q # p => View(q)' = View(q)
      BY <1>0, <2>3, <3>1, <3>2
    <3>7. Seen' = [Seen EXCEPT ![p] = page]
      BY <3>1, <3>6, OnePageSeen
    <3>8. Disk!Launch(p)
      BY <3>1 DEF Disk!Launch
    <3>9. Disk!Advance
      BY <1>8, <2>1, <2>2, <2>4, AdvanceDisk
    <3>10. Disk!PutThrough
      BY <2>0, <3>1, <3>2, <3>5, <3>7, <3>8, <3>9, SameSets DEF Disk!PutThrough, Seen
    <3> QED BY <3>10 DEF Disk!Next
  <2>5. CASE ~done
    <3>1. Proceeds BY <1>4, <1>8, <2>1, <2>2, <2>5
    <3>2. Disk!Settle
      BY <2>2, <2>5, SettleDisk DEF PageWrite
    <3>3. CASE UNCHANGED flash
      <4>1. Seen' = Seen BY <2>3, <3>3, AllSeen
      <4> QED BY <1>1, <3>1, <3>2, <3>3, <4>1, GoOnDisk DEF Disk!Quiesce, Seen
    <3>4. CASE p \in Pages /\ flash' = [flash EXCEPT ![p] = JunkPage]
      <4>1. View(p)' = JunkPage /\ \A q \in Pages : q # p => View(q)' = View(q)
        BY <1>0, <2>3, <3>4
      <4>2. Seen' = [Seen EXCEPT ![p] = JunkPage] /\ Seen[p] = flash[p]
        BY <2>3, <3>4, <4>1, OnePageSeen DEF Seen
      <4>3. JunkPage \in Disk!Spoilt(flash[p])
        BY <1>0, <3>4, SpoiltOK
      <4>4. Disk!Ruin(p)
        BY <3>1, <3>2, <3>4, <4>2, <4>3, GoOnDisk DEF Disk!Ruin, Seen
      <4> QED BY <1>1, <3>4, <4>4
    <3> QED BY <2>2, <2>5, <3>3, <3>4 DEF PageWrite
  <2> QED BY <2>4, <2>5
<1>9. CASE ReadPage \/ ReadFails \/ ReadAtLimit
  <2>1. /\ CloseWritePage \/ CloseFails
        /\ UNCHANGED <<CachePage, cacheBuf, wr, wbuf>>
    BY <1>9 DEF ReadPage, ReadFails, ReadAtLimit, PageRead, PageReadFails, cache
  <2> QED BY <1>1, <1>3, <2>1, CloseDisk
<1>10. CASE Reclaim
  <2> USE DEF Reclaim
  <2>1. PageAt(rd) \in Pages /\ Cached(None) /\ CachePage' = CachePage
    BY <1>10 DEF Inv, Consistent, Reclaiming
  <2>2. Proceeds BY <1>3, <1>10
  <2>3. \A q \in Pages : View(q) = flash[q] /\ View(q)' = flash'[q]
    BY <1>0, <2>1 DEF View, Cached
  <2>4. CASE PageReadFails /\ UNCHANGED cacheBuf
    BY <1>1, <2>1, <2>2, <2>4, CloseDisk DEF PageReadFails
  <2>5. CASE \E done \in BOOLEAN : PageWrite(PageAt(rd), flash[PageAt(rd)], done)
    <3>0. PICK p : p = PageAt(rd) OBVIOUS
    <3>1. PICK done \in BOOLEAN : PageWrite(p, flash[p], done)
      BY <2>5, <3>0
    <3>2. flash[p] = View(p)
      BY <2>1, <2>3, <3>0
    <3>3. ~done => View(p)' \in Disk!Spoilt(View(p))
      <4>1. p \in Pages /\ flash[p] \in Content BY <1>0, <2>1, <3>0
      <4>2. ~done => flash'[p] \in {flash[p], JunkPage} BY <1>0, <3>1, <4>1 DEF PageWrite
      <4> QED BY <2>3, <4>1, <4>2, SpoiltOK
    <3>4. PageWrite(p, View(p), done)
      BY <3>1, <3>2
    <3>5. p \in Pages BY <2>1, <3>0
    <3> QED BY <1>1, <2>2, <2>3, <3>3, <3>4, <3>5, ProgramDisk
  <2> QED BY <2>1, <1>10, <2>4, <2>5
<1>11. CASE FlushWrite
  <2> USE DEF FlushWrite
  <2>1. Proceeds BY <1>3, <1>11
  <2>2. CASE Cached(None)
    <3>1. UNCHANGED <<flash, flight, CachePage, cacheBuf, wr, wbuf>>
      BY <1>11, <2>2 DEF WritePageCacheToNand, nand, cache
    <3> QED BY <1>2, <3>1
  <2>3. CASE ~Cached(None)
    BY <1>1, <1>11, <2>1, <2>3, WriteBackDisk
  <2> QED BY <2>2, <2>3
<1>12. CASE FlushClose
  <2>1. /\ CloseWritePage \/ CloseFails
        /\ UNCHANGED <<CachePage, cacheBuf, wr, wbuf>>
    BY <1>12 DEF FlushClose, cache
  <2> QED BY <1>1, <1>3, <2>1, CloseDisk
<1>13. ASSUME flash' \in [Pages -> Content], \A p \in Pages : flash'[p] \in Disk!AfterCut(p),
              CachePage' = Empty, flight' = <<>>, wr' = [wr EXCEPT !.status = "none"], wbuf' = wbuf
       PROVE  Disk!PowerCut
  <2>1. \A p \in Pages : View(p)' = flash'[p]
    BY <1>0, <1>13 DEF View, Cached, Empty
  <2>2. Seen' = flash' BY <1>13, <2>1 DEF Seen
  <2>3. wr'.n = wr.n /\ wr'.c = wr.c /\ wr'.i = wr.i /\ wr'.status = "none"
    BY <1>0, <1>13
  <2>4. PageAt(wr)' = PageAt(wr) BY <2>3 DEF PageAt, HeadPage
  <2> QED BY <1>13, <2>2, <2>3, <2>4, SameSets DEF Disk!PowerCut, Seen
<1>14. CASE Exit
  <2>1. \A p \in Pages : flash[p] \in Disk!AfterCut(p)
    BY <1>0, SpoiltOK DEF Disk!AfterCut
  <2>2. Disk!PowerCut BY <1>0, <1>13, <1>14, <2>1 DEF Exit
  <2> QED BY <2>2 DEF Disk!Next
<1>15. CASE PowerCut
  <2>1. PICK new \in SUBSET DOMAIN flight, torn \in SUBSET DOMAIN flight :
            flash' = [p \in Pages |-> CASE p \in torn -> JunkPage
                                        [] p \in DOMAIN flight \ (new \union torn) -> flight[p]
                                        [] OTHER -> flash[p]]
    BY <1>15 DEF PowerCut
  <2>2. ASSUME NEW p \in Pages PROVE flash'[p] \in Disk!AfterCut(p)
    <3>1. flash'[p] \in {flash[p], JunkPage, flight[p]} /\ (p \notin DOMAIN flight => flash'[p] = flash[p])
      BY <2>1
    <3> QED BY <1>0, <3>1, SpoiltOK DEF Disk!AfterCut
  <2>3. flash' \in [Pages -> Content]
    BY StepInv DEF Inv, TypeOK
  <2>4. Disk!PowerCut BY <1>13, <1>15, <2>2, <2>3 DEF PowerCut
  <2> QED BY <2>4 DEF Disk!Next
<1>16. CASE (\E r \in Calls : LML_Read(r)) \/ LML_FlushPageCache \/ LML_Exit \/ LML_Init \/ UNCHANGED vars
  <2>1. UNCHANGED <<flash, flight, CachePage, cacheBuf, wr, wbuf>>
    BY <1>16 DEF LML_Read, LML_FlushPageCache, LML_Exit, LML_Init, vars, nand, cache
  <2> QED BY <1>2, <2>1
<1>17. CASE \E r \in Calls : \E buf \in UserData(calls, r.c) : LML_Write(r, buf)
  BY <1>5, <1>17 DEF Disk!Next
<1> QED
  BY <1>6, <1>7, <1>8, <1>9, <1>10, <1>11, <1>12, <1>14, <1>15, <1>16, <1>17 DEF Next, Call, Step

\* The driver implements the disk: callers see every sector written exactly once
\* and in order, a power cut loses at most the cached page and the pages being
\* programmed, and a failed program ruins no page but its own.
THEOREM DriverImplementsDisk == Spec => ImplementsDisk
<1>1. Init /\ [][Next]_vars /\ []Inv => Disk!Init /\ [][Disk!Next]_Disk!vars
  BY InitDisk, StepDisk, PTL
<1> QED BY <1>1, Invariance, PTL DEF Spec, ImplementsDisk, Disk!Spec
=============================================================================
