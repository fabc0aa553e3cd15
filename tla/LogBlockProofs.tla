--------------------------- MODULE LogBlockProofs ---------------------------
(***************************************************************************)
(* Proofs about LogBlock, for every geometry, every load and every bound:   *)
(* types, the binary search of the rebuild, and the room a merge leaves.    *)
(***************************************************************************)
EXTENDS LogBlock, FiniteSetTheorems, TLAPS

Lines == PAGES \div BANKS

-----------------------------------------------------------------------------
(* Numbers.                                                                 *)

LEMMA Smallest ==
    ASSUME NEW T \in SUBSET Nat, T # {}
    PROVE  \E m \in T : \A k \in T : m <= k
<1> DEFINE U == {0 .. k : k \in T}
           R == StrictSubsetOrdering(Nat)
<1>1. U \subseteq FiniteSubsetsOf(Nat)
  <2>1. \A k \in T : IsFiniteSet(0 .. k) /\ 0 .. k \in SUBSET Nat
    BY FS_Interval
  <2> QED BY <2>1 DEF FiniteSubsetsOf
<1>2. IsWellFoundedOn(R, FiniteSubsetsOf(Nat))
  BY FS_StrictSubsetOrderingWellFounded
<1>3. U # {}
  OBVIOUS
<1> HIDE DEF R
<1>4. PICK x \in U : \A y \in U : ~(<<y, x>> \in R)
  <2> HIDE DEF U
  <2> QED BY <1>1, <1>2, <1>3, WFMin
<1>5. PICK m \in T : x = 0 .. m
  BY <1>4
<1>6. ASSUME NEW k \in T, k < m
      PROVE  FALSE
  <2>1. m \in 0 .. m /\ m \notin 0 .. k /\ 0 .. k \subseteq 0 .. m
    BY <1>6
  <2>2. 0 .. k \in U /\ 0 .. k \in SUBSET Nat /\ 0 .. m \in SUBSET Nat /\ 0 .. k # 0 .. m
    BY <2>1
  <2>3. <<0 .. k, 0 .. m>> \in R
    BY <2>1, <2>2 DEF R, StrictSubsetOrdering
  <2> QED BY <1>4, <1>5, <2>2, <2>3
<1> QED BY <1>6

LEMMA Largest ==
    ASSUME NEW n \in Nat, NEW S \in SUBSET (0 .. n), S # {}
    PROVE  \E m \in S : \A k \in S : k <= m
<1> DEFINE T == {n - k : k \in S}
<1>1. T \in SUBSET Nat /\ T # {}
  <2>1. \A k \in 0 .. n : n - k \in Nat
    OBVIOUS
  <2> QED BY <2>1
<1>2. PICK t \in T : \A u \in T : t <= u
  <2> HIDE DEF T
  <2> QED BY <1>1, Smallest
<1>3. PICK m \in S : t = n - m
  OBVIOUS
<1>4. ASSUME NEW k \in S
      PROVE  k <= m
  <2>1. n - k \in T /\ k \in Nat /\ m \in Nat
    OBVIOUS
  <2>2. n - m <= n - k
    BY <1>2, <1>3, <2>1
  <2> QED BY <2>1, <2>2
<1> QED BY <1>4

LEMMA Geometry ==
    /\ BANKS \in Nat /\ BANKS > 0 /\ PAGES \in Nat /\ BANKS <= PAGES
    /\ Lines \in Nat /\ Lines > 0 /\ PAGES = BANKS * Lines
    /\ 0 \in Pages /\ 0 \in Phys
<1>1. BANKS \in Nat /\ BANKS > 0 /\ PAGES \in Nat /\ PAGES > 0
  BY GeometryAssumption
<1>2. Lines \in Nat /\ PAGES = BANKS * Lines
  <2> DEFINE d == PAGES \div BANKS
             r == PAGES % BANKS
  <2>1. d \in Nat /\ PAGES = BANKS * d + r
    BY <1>1
  <2>2. r = 0
    BY GeometryAssumption
  <2> HIDE DEF d, r
  <2>3. PAGES = BANKS * d
    BY <1>1, <2>1, <2>2
  <2> QED BY <2>1, <2>3 DEF Lines, d
<1>3. Lines > 0
  BY <1>1, <1>2
<1>4. BANKS <= PAGES
  <2>1. BANKS * Lines = BANKS + BANKS * (Lines - 1) /\ BANKS * (Lines - 1) \in Nat
    BY <1>1, <1>2, <1>3
  <2> QED BY <1>1, <1>2, <2>1
<1>5. 0 \in Pages /\ 0 \in Phys
  BY <1>1, BlocksAssumption DEF Pages, Phys
<1> QED BY <1>1, <1>2, <1>3, <1>4, <1>5

LEMMA LinePagesOK ==
    ASSUME NEW n \in 0 .. Lines - 1
    PROVE  LinePages(n) \subseteq Pages
<1> SUFFICES ASSUME NEW k \in 0 .. BANKS - 1
             PROVE  n * BANKS + k \in Pages
  BY DEF LinePages
<1>1. BANKS \in Nat /\ Lines \in Nat /\ PAGES = BANKS * Lines /\ n \in Nat /\ k \in Nat /\ k < BANKS
  BY Geometry
<1>2. BANKS * Lines = n * BANKS + (Lines - n) * BANKS /\ n * BANKS \in Nat
  BY <1>1
<1>3. (Lines - n) * BANKS = BANKS + (Lines - n - 1) * BANKS /\ (Lines - n - 1) * BANKS \in Nat
  BY <1>1
<1> QED BY <1>1, <1>2, <1>3 DEF Pages

-----------------------------------------------------------------------------
(* The binary search of _GetLastUsedPage ends, at a page of the block.      *)

\* The recursion of the search, and the page of the line it ends at.
Intervals == (0 .. Lines) \X (-1 .. Lines - 1)
Searches(f, b, g) ==
    [r \in Intervals |->
        LET lo == r[1]
            hi == r[2]
            mid == (lo + hi) \div 2
        IN  IF lo > hi THEN hi
            ELSE IF LinePages(mid) \intersect UsedPages(f, b) = {}
                 THEN g[<<lo, mid - 1>>] ELSE g[<<mid + 1, hi>>]]
Search(f, b) == CHOOSE g : g = Searches(f, b, g)
LastUsedOf(f, b, line) ==
    IF line = -1 THEN 0
    ELSE CHOOSE p \in LinePages(line) \intersect UsedPages(f, b) :
            \A q \in LinePages(line) \intersect UsedPages(f, b) : q <= p

LEMMA SearchUnfold ==
    ASSUME NEW f, NEW b
    PROVE  GetLastUsedPage(f, b) = LastUsedOf(f, b, Search(f, b)[<<0, Lines - 1>>])
BY DEF GetLastUsedPage, Search, Searches, Intervals, Lines, LastUsedOf

LEMMA Middle ==
    ASSUME NEW lo \in Nat, NEW hi \in Nat, lo <= hi
    PROVE  (lo + hi) \div 2 \in lo .. hi
<1> DEFINE d == (lo + hi) \div 2
           r == (lo + hi) % 2
<1>1. d \in Nat /\ r \in 0 .. 1 /\ lo + hi = 2 * d + r
  OBVIOUS
<1> HIDE DEF d, r
<1>2. d \in lo .. hi
  BY <1>1
<1> QED BY <1>2 DEF d

\* What a value of the search depends on.
Mid(lo, hi) == (lo + hi) \div 2

Halves(f, b, g, lo, hi) ==
    IF LinePages(Mid(lo, hi)) \intersect UsedPages(f, b) = {}
    THEN g[<<lo, Mid(lo, hi) - 1>>] ELSE g[<<Mid(lo, hi) + 1, hi>>]

LEMMA SearchAt ==
    ASSUME NEW f, NEW b, NEW g, NEW lo \in 0 .. Lines, NEW hi \in -1 .. Lines - 1
    PROVE  Searches(f, b, g)[<<lo, hi>>] = IF lo > hi THEN hi ELSE Halves(f, b, g, lo, hi)
<1> DEFINE e(x) == LET mid == (x[1] + x[2]) \div 2
                   IN  IF x[1] > x[2] THEN x[2]
                       ELSE IF LinePages(mid) \intersect UsedPages(f, b) = {}
                            THEN g[<<x[1], mid - 1>>] ELSE g[<<mid + 1, x[2]>>]
<1>1. Searches(f, b, g)[<<lo, hi>>] = e(<<lo, hi>>)
  <2>1. Searches(f, b, g) = [x \in Intervals |-> e(x)]
    BY DEF Searches
  <2>2. <<lo, hi>> \in Intervals
    BY DEF Intervals
  <2> HIDE DEF e
  <2> QED BY <2>1, <2>2
<1>2. e(<<lo, hi>>) = IF lo > hi THEN hi ELSE Halves(f, b, g, lo, hi)
  BY DEF Mid, Halves
<1> HIDE DEF e
<1> QED BY <1>1, <1>2

LEMMA SearchEnd ==
    ASSUME NEW f, NEW b, NEW g, NEW lo \in 0 .. Lines, NEW hi \in -1 .. Lines - 1, lo > hi
    PROVE  Searches(f, b, g)[<<lo, hi>>] = hi
BY SearchAt

LEMMA SearchStep ==
    ASSUME NEW f, NEW b, NEW g, NEW lo \in 0 .. Lines, NEW hi \in -1 .. Lines - 1, lo <= hi
    PROVE  /\ Mid(lo, hi) \in lo .. hi /\ Mid(lo, hi) \in 0 .. Lines - 1
           /\ Mid(lo, hi) - 1 \in -1 .. Lines - 1 /\ Mid(lo, hi) + 1 \in 0 .. Lines
           /\ Searches(f, b, g)[<<lo, hi>>]
                = IF LinePages(Mid(lo, hi)) \intersect UsedPages(f, b) = {}
                  THEN g[<<lo, Mid(lo, hi) - 1>>] ELSE g[<<Mid(lo, hi) + 1, hi>>]
<1>1. Lines \in Nat /\ lo \in Nat /\ hi \in Nat /\ ~(lo > hi)
  BY Geometry
<1>2. Mid(lo, hi) \in lo .. hi
  BY <1>1, Middle DEF Mid
<1>3. Mid(lo, hi) \in 0 .. Lines - 1 /\ Mid(lo, hi) - 1 \in -1 .. Lines - 1 /\ Mid(lo, hi) + 1 \in 0 .. Lines
  BY <1>1, <1>2
<1>4. Searches(f, b, g)[<<lo, hi>>] = Halves(f, b, g, lo, hi)
  BY <1>1, SearchAt
<1> QED BY <1>2, <1>3, <1>4 DEF Halves

GoodTo(f, b, n, g) ==
    \A lo \in 0 .. Lines, hi \in -1 .. Lines - 1 : hi - lo < n => g[<<lo, hi>>] = Searches(f, b, g)[<<lo, hi>>]

\* A search that is right for every interval shorter than n can be made right for
\* those of length n: the recursion is well founded.
LEMMA SearchGrows ==
    ASSUME NEW f, NEW b, NEW n \in Nat, NEW g, GoodTo(f, b, n, g)
    PROVE  GoodTo(f, b, n + 1, Searches(f, b, g))
<1> DEFINE h == Searches(f, b, g)
<1> HIDE DEF h
<1> SUFFICES ASSUME NEW lo \in 0 .. Lines, NEW hi \in -1 .. Lines - 1, hi - lo < n + 1
             PROVE  h[<<lo, hi>>] = Searches(f, b, h)[<<lo, hi>>]
  BY DEF GoodTo, h
<1>0. lo \in Nat /\ hi \in Int /\ Lines \in Nat
  BY Geometry
<1>1. CASE lo > hi
  <2>1. \A u : Searches(f, b, u)[<<lo, hi>>] = hi
    BY <1>1, SearchEnd
  <2> QED BY <2>1 DEF h
<1>2. CASE lo <= hi
  <2> DEFINE m == Mid(lo, hi)
             empty == LinePages(m) \intersect UsedPages(f, b) = {}
  <2>1. /\ m \in lo .. hi /\ m - 1 \in -1 .. Lines - 1 /\ m + 1 \in 0 .. Lines
        /\ h[<<lo, hi>>] = IF empty THEN g[<<lo, m - 1>>] ELSE g[<<m + 1, hi>>]
    BY <1>2, SearchStep DEF h
  <2>2. Searches(f, b, h)[<<lo, hi>>] = IF empty THEN h[<<lo, m - 1>>] ELSE h[<<m + 1, hi>>]
    BY <1>2, SearchStep
  <2> HIDE DEF m, empty
  <2>3. m - 1 - lo < n /\ hi - (m + 1) < n
    BY <1>0, <2>1
  <2>4. h[<<lo, m - 1>>] = g[<<lo, m - 1>>] /\ h[<<m + 1, hi>>] = g[<<m + 1, hi>>]
    BY <2>1, <2>3 DEF GoodTo, h
  <2> QED BY <2>1, <2>2, <2>4
<1> QED BY <1>0, <1>1, <1>2

LEMMA SearchExists ==
    ASSUME NEW f, NEW b
    PROVE  Search(f, b) = Searches(f, b, Search(f, b))
<1> DEFINE T == {n \in Nat : ~ \E g : GoodTo(f, b, n, g)}
<1>1. ASSUME NEW n \in Nat
      PROVE  \E g : GoodTo(f, b, n, g)
  <2> SUFFICES ASSUME T # {}
               PROVE  FALSE
    OBVIOUS
  <2>1. PICK m \in T : \A k \in T : m <= k
    <3> HIDE DEF T
    <3>1. ASSUME T \in SUBSET Nat PROVE \E m \in T : \A k \in T : m <= k
      BY <3>1, Smallest
    <3> QED BY <3>1 DEF T
  <2>2. CASE m = 0
    <3> DEFINE g == Searches(f, b, 0)
    <3> HIDE DEF g
    <3>1. ASSUME NEW lo \in 0 .. Lines, NEW hi \in -1 .. Lines - 1, hi - lo < 0
          PROVE  g[<<lo, hi>>] = Searches(f, b, g)[<<lo, hi>>]
      <4>1. lo > hi
        BY <3>1, Geometry
      <4>2. \A u : Searches(f, b, u)[<<lo, hi>>] = hi
        BY <4>1, SearchEnd
      <4> QED BY <4>2 DEF g
    <3>2. GoodTo(f, b, 0, g)
      BY <3>1 DEF GoodTo
    <3> QED BY <2>2, <3>2
  <2>3. CASE m # 0
    <3>1. m \in Nat /\ m - 1 \in Nat /\ m - 1 + 1 = m /\ ~(m <= m - 1)
      BY <2>3
    <3>2. m - 1 \notin T
      BY <2>1, <3>1
    <3>3. PICK g : GoodTo(f, b, m - 1, g)
      BY <3>1, <3>2
    <3>4. GoodTo(f, b, m, Searches(f, b, g))
      BY <3>1, <3>3, SearchGrows
    <3> QED BY <2>1, <3>4
  <2> QED BY <2>2, <2>3
<1>2. PICK g : GoodTo(f, b, Lines, g)
  BY <1>1, Geometry
<1> DEFINE h == Searches(f, b, g)
<1>3. GoodTo(f, b, Lines + 1, h)
  BY <1>2, Geometry, SearchGrows
<1>4. ASSUME NEW lo \in 0 .. Lines, NEW hi \in -1 .. Lines - 1
      PROVE  h[<<lo, hi>>] = Searches(f, b, h)[<<lo, hi>>]
  <2> HIDE DEF h
  <2>1. hi - lo < Lines + 1
    BY Geometry
  <2> QED BY <1>3, <2>1 DEF GoodTo
<1>5. h = Searches(f, b, h)
  <2> DEFINE D == Intervals
             k == Searches(f, b, h)
  <2>1. h = [x \in D |-> h[x]] /\ k = [x \in D |-> k[x]]
    <3>1. ASSUME NEW u
          PROVE  Searches(f, b, u) = [x \in D |-> Searches(f, b, u)[x]]
      <4> DEFINE e(x) == LET mm == (x[1] + x[2]) \div 2
                         IN  IF x[1] > x[2] THEN x[2]
                             ELSE IF LinePages(mm) \intersect UsedPages(f, b) = {}
                                  THEN u[<<x[1], mm - 1>>] ELSE u[<<mm + 1, x[2]>>]
      <4>1. Searches(f, b, u) = [x \in D |-> e(x)]
        BY DEF Searches
      <4> HIDE DEF e, D
      <4> QED BY <4>1
    <3> QED BY <3>1
  <2> HIDE DEF h, k
  <2>2. \A x \in D : h[x] = k[x]
    BY <1>4 DEF k, Intervals
  <2> HIDE DEF D
  <2>3. h = k
    BY <2>1, <2>2
  <2> QED BY <2>3 DEF k
<1> HIDE DEF h
<1> QED BY <1>5 DEF Search

\* The search ends at a line in use, or before the first one.
LineUsed(f, b, n) == n \in 0 .. Lines - 1 /\ LinePages(n) \intersect UsedPages(f, b) # {}

LEMMA SearchResult ==
    ASSUME NEW f, NEW b, NEW n \in Nat,
           NEW lo \in 0 .. Lines, NEW hi \in -1 .. Lines - 1, hi - lo < n, lo <= hi + 1,
           lo = 0 \/ LineUsed(f, b, lo - 1)
    PROVE  Search(f, b)[<<lo, hi>>] = -1 \/ LineUsed(f, b, Search(f, b)[<<lo, hi>>])
<1> DEFINE g == Search(f, b)
           Ends(x, y) == g[<<x, y>>] = -1 \/ LineUsed(f, b, g[<<x, y>>])
           Right(k) == \A x \in 0 .. Lines, y \in -1 .. Lines - 1 :
                          y - x < k /\ x <= y + 1 /\ (x = 0 \/ LineUsed(f, b, x - 1)) => Ends(x, y)
           T == {k \in Nat : ~ Right(k)}
<1>1. g = Searches(f, b, g)
  BY SearchExists
<1> HIDE DEF g
<1>2. ASSUME NEW k \in Nat, \A i \in Nat : i < k => Right(i)
      PROVE  Right(k)
  <2> SUFFICES ASSUME NEW x \in 0 .. Lines, NEW y \in -1 .. Lines - 1,
                      y - x < k, x <= y + 1, x = 0 \/ LineUsed(f, b, x - 1)
               PROVE  Ends(x, y)
    OBVIOUS
  <2>0. x \in Nat /\ y \in Int /\ Lines \in Nat
    BY Geometry
  <2>1. CASE x > y
    <3>1. g[<<x, y>>] = y
      <4>1. Searches(f, b, g)[<<x, y>>] = y
        BY <2>1, SearchEnd
      <4> QED BY <1>1, <4>1
    <3>2. y = x - 1
      BY <2>0, <2>1
    <3> QED BY <2>0, <3>1, <3>2
  <2>2. CASE x <= y
    <3> DEFINE m == Mid(x, y)
               empty == LinePages(m) \intersect UsedPages(f, b) = {}
    <3>1. /\ m \in x .. y /\ m \in 0 .. Lines - 1 /\ m - 1 \in -1 .. Lines - 1 /\ m + 1 \in 0 .. Lines
          /\ Searches(f, b, g)[<<x, y>>] = IF empty THEN g[<<x, m - 1>>] ELSE g[<<m + 1, y>>]
      BY <2>2, SearchStep
    <3>2. ~empty => LineUsed(f, b, m)
      BY <3>1 DEF LineUsed
    <3> HIDE DEF m, empty
    <3>3. g[<<x, y>>] = IF empty THEN g[<<x, m - 1>>] ELSE g[<<m + 1, y>>]
      BY <1>1, <3>1
    <3>4. /\ k - 1 \in Nat /\ k - 1 < k
          /\ m - 1 - x < k - 1 /\ x <= m - 1 + 1 /\ y - (m + 1) < k - 1 /\ m + 1 <= y + 1 /\ m + 1 - 1 = m
      BY <2>0, <2>2, <3>1
    <3>5. Right(k - 1)
      BY <1>2, <3>4
    <3>6. Ends(x, m - 1)
      BY <3>1, <3>4, <3>5
    <3>7. ~empty => Ends(m + 1, y)
      BY <3>1, <3>2, <3>4, <3>5
    <3> QED BY <3>3, <3>6, <3>7
  <2> QED BY <2>0, <2>1, <2>2
<1>3. T = {}
  <2> HIDE DEF Right
  <2> SUFFICES ASSUME T # {}
               PROVE  FALSE
    OBVIOUS
  <2>1. T \in SUBSET Nat
    OBVIOUS
  <2>2. PICK k \in T : \A i \in T : k <= i
    <3> HIDE DEF T
    <3> QED BY <2>1, Smallest
  <2>3. \A i \in Nat : i < k => i \notin T
    BY <2>1, <2>2
  <2> QED BY <1>2, <2>2, <2>3
<1>4. Right(n)
  <2> HIDE DEF Right
  <2> QED BY <1>3
<1> QED BY <1>4 DEF g

LEMMA LastUsedPageOK ==
    ASSUME NEW f, NEW b
    PROVE  GetLastUsedPage(f, b) \in Pages
<1> DEFINE line == Search(f, b)[<<0, Lines - 1>>]
           S == LinePages(line) \intersect UsedPages(f, b)
<1>1. line = -1 \/ LineUsed(f, b, line)
  <2>1. Lines \in Nat /\ 0 \in 0 .. Lines /\ Lines - 1 \in -1 .. Lines - 1 /\ Lines - 1 - 0 < Lines /\ 0 <= Lines - 1 + 1
    BY Geometry
  <2> QED BY <2>1, SearchResult
<1>2. GetLastUsedPage(f, b) = LastUsedOf(f, b, line)
  BY SearchUnfold
<1>3. CASE line = -1
  BY <1>2, <1>3, Geometry DEF LastUsedOf
<1>4. CASE line # -1
  <2> HIDE DEF line
  <2>1. S \subseteq Pages /\ S # {}
    BY <1>1, <1>4, LinePagesOK DEF LineUsed
  <2>2. \E p \in S : \A q \in S : q <= p
    <3>1. PAGES - 1 \in Nat
      BY Geometry
    <3> HIDE DEF S
    <3> QED BY <2>1, <3>1, Largest DEF Pages
  <2>3. LastUsedOf(f, b, line) = CHOOSE p \in S : \A q \in S : q <= p
    BY <1>4 DEF LastUsedOf
  <2> HIDE DEF S
  <2> QED BY <1>2, <2>1, <2>2, <2>3
<1> QED BY <1>3, <1>4

-----------------------------------------------------------------------------
(* The inductive invariant for the types.  The range of a page number that  *)
(* the code does not check again (the log page taken after _GetLogPageForWrite, *)
(* the page map page after a merge) is a fact about where control stands.   *)

\* What the driver is doing, or will go on with once a bad block is replaced.
Mode == IF pc = "restore" THEN bm.ret ELSE pc
Returned == {"datainfo", "loginfo", "program", "idle", "table", "swap", "simple", "move"}
Merges == {"swap", "simple", "move"}

Counts == [load : Loads, writes : Nat, cuts : Nat, fails : Nat, eraseFails : Nat, evictions : Nat]
Requests == [lp : Pages \union {None}, val : 0 .. count.load.writes, again : BOOLEAN, special : BOOLEAN]
Jobs == [kind : Merges \union {"none"}, p : Int, dst : Nat \union {None}, blk : Phys \union {None},
         last : Nat, toErase : Seq(Phys)]
BadJobs == [bad : Phys \union {None}, n : 0 .. PAGES, new : Phys \union {None}, p : Nat, ret : Returned]
RecordsOK ==
    /\ count \in Counts /\ count.writes <= count.load.writes
    /\ req \in Requests /\ job \in Jobs /\ bm \in BadJobs

\* The pages a move merge has moved are as many as its place in each bank says.
MovedPages == {q \in ValidPages : MoveRank(q) <= MoveRank(job.p)}
Moving ==
    /\ job.last = 0 \/ job.last < BANKS * Cardinality(ValidPages)
    /\ job.p # -1 => /\ job.p \in Pages /\ job.dst \in Nat
                     /\ job.dst < BANKS * Cardinality(MovedPages)

BlocksNamed ==
    /\ pc = "scan" => ~clean
    /\ dataBlk = None => pc \in {"scan", "off"} /\ ~clean
    /\ Mode \in {"loginfo", "program", "table", "merge", "swap", "move", "simple"} => logBlk # None
    /\ pc = "restore" => bm.bad # None /\ bm.new # None
    /\ Mode \in Merges => job.kind = Mode /\ job.blk # None
    /\ pc = "erase" /\ job.kind = "move" => job.blk # None
PagesNamed ==
    /\ mapDirty => lastUsed # None
    /\ Mode \in {"swap", "simple"} \/ pc = "scan" => job.p \in Nat
    /\ Mode \in {"getlog", "datainfo", "loginfo", "program"} => req.lp # None
    /\ Mode = "program" => lastUsed # None
    /\ Mode = "table" => lastUsed # None /\ lastUsed + 1 < PAGES
    /\ Mode = "loginfo" => NextLogPage(lastUsed, req.lp) < PAGES
    /\ Mode = "datainfo" => lastUsed = None
    /\ pc = "getlog" /\ req.again => lastUsed = None \/ lastUsed + BANKS < PAGES
    /\ Mode = "move" => FewValid
    /\ pc = "move" => Moving
    /\ pc = "erase" /\ job.kind = "move" => job.last + BANKS < PAGES

TypeInv == TypeOK /\ RecordsOK /\ BlocksNamed /\ PagesNamed

-----------------------------------------------------------------------------
(* The operators the steps are built from.                                  *)

LEMMA Remainder ==
    ASSUME NEW i \in Int
    PROVE  i % BANKS \in 0 .. BANKS - 1
<1>1. BANKS \in Nat /\ BANKS > 0
  BY Geometry
<1> QED BY <1>1

\* The next log page is at most one page line ahead.
LEMMA NextLogPageRange ==
    ASSUME NEW last \in Pages \union {None}, NEW i \in Pages
    PROVE  /\ NextLogPage(last, i) \in Nat
           /\ last = None => NextLogPage(last, i) < BANKS
           /\ last # None => NextLogPage(last, i) <= last + BANKS
<1> DEFINE a == i % BANKS
           c == last % BANKS
<1>1. a \in 0 .. BANKS - 1 /\ (last # None => c \in 0 .. BANKS - 1)
  BY Remainder DEF Pages
<1>2. NextLogPage(last, i) = IF last = None THEN a
                             ELSE IF a > c THEN last + (a - c) ELSE last + a + (BANKS - c)
  BY DEF NextLogPage
<1>3. last # None => last \in Nat
  BY DEF Pages
<1> HIDE DEF a, c
<1>4. BANKS \in Nat
  BY Geometry
<1>5. CASE last = None
  BY <1>1, <1>2, <1>4, <1>5
<1>6. CASE last # None
  BY <1>1, <1>2, <1>3, <1>4, <1>6
<1> QED BY <1>5, <1>6

LEMMA NotNone == \A x \in Pages \union Phys \union Nat : x # None
BY NoneAssumption DEF Pages, Phys

LEMMA NextLogPageInBlock ==
    ASSUME NEW last \in Pages \union {None}, NEW i \in Pages, NextLogPage(last, i) < PAGES
    PROVE  NextLogPage(last, i) \in Pages
BY NextLogPageRange, Geometry DEF Pages

\* A move merge that FewValid allows leaves more than a page line free.
LEMMA FewRoom ==
    ASSUME NEW v \in Nat, v < PAGES \div (BANKS + 1)
    PROVE  BANKS * v + BANKS < PAGES
<1> DEFINE d == PAGES \div (BANKS + 1)
           r == PAGES % (BANKS + 1)
<1>1. BANKS \in Nat /\ BANKS + 1 \in Nat /\ BANKS + 1 > 0 /\ PAGES \in Nat
  BY Geometry
<1>2. d \in Nat /\ r \in Nat /\ PAGES = (BANKS + 1) * d + r
  BY <1>1
<1>3. v < d
  OBVIOUS
<1> HIDE DEF d, r
<1>4. (BANKS + 1) * d = BANKS * d + d
  BY <1>1, <1>2
<1>5. PICK e \in Nat : d = v + 1 + e
  <2>1. d - v - 1 \in Nat /\ d = v + 1 + (d - v - 1)
    BY <1>2, <1>3
  <2> QED BY <2>1
<1>6. BANKS * d = BANKS * v + BANKS + BANKS * e /\ BANKS * e \in Nat /\ BANKS * v \in Nat
  BY <1>1, <1>5
<1> QED BY <1>1, <1>2, <1>4, <1>5, <1>6

Blocks == [Phys -> [Pages -> Page]]

LEMMA ConstantPages ==
    ASSUME count.load.writes \in Nat
    PROVE  /\ Erased \in Page /\ ErasedBlock \in [Pages -> Page] /\ MarkedBad \in [Pages -> Page]
           /\ \A mark \in {FreeMark, DataMark, TableMark}, i \in BOOLEAN :
                 [info |-> i, status |-> mark, lp |-> None, val |-> Junk] \in Page
           /\ NoMap \in [Pages -> Pages \union {None}]
<1>1. 0 \in Pages
  BY Geometry
<1> QED BY <1>1 DEF Erased, ErasedBlock, MarkedBad, FreeMark, DataMark, TableMark, Page, NoMap

LEMMA ProgrammedOK ==
    ASSUME flash \in Blocks, NEW b \in Phys, NEW p \in Pages, NEW content \in Page
    PROVE  Programmed(b, p, content) \in Blocks
<1>1. [content EXCEPT !.val = Junk] \in Page
  BY DEF Page
<1> DEFINE q == IF flash[b][p] = Erased THEN content ELSE [content EXCEPT !.val = Junk]
<1>2. q \in Page
  BY <1>1
<1>3. Programmed(b, p, content) = [flash EXCEPT ![b][p] = q]
  BY DEF Programmed, Blocks
<1> HIDE DEF q
<1> QED BY <1>2, <1>3 DEF Blocks

\* A program of a page of the block in hand.
LEMMA ProgramOK ==
    ASSUME flash \in Blocks, flight \subseteq [b : Phys, p : Pages, user : BOOLEAN],
           NEW b \in Phys, NEW p \in Pages, NEW content \in Page, Program(b, p, content)
    PROVE  flash' \in Blocks /\ flight' \subseteq [b : Phys, p : Pages, user : BOOLEAN]
<1>1. flash' = Programmed(b, p, content) /\ flight' = OtherBanks(p) \union {[b |-> b, p |-> p, user |-> FALSE]}
  BY DEF Program
<1>2. OtherBanks(p) \subseteq flight
  BY DEF OtherBanks
<1>3. flash' \in Blocks
  BY <1>1, ProgrammedOK
<1>4. [b |-> b, p |-> p, user |-> FALSE] \in [b : Phys, p : Pages, user : BOOLEAN]
  OBVIOUS
<1> QED BY <1>1, <1>2, <1>3, <1>4

LEMMA Byte ==
    ASSUME NEW n \in Nat
    PROVE  n % 256 \in 0 .. 255
OBVIOUS

LEMMA CopiedPageOK ==
    ASSUME flash \in Blocks, NEW b \in Phys, NEW p \in Pages, NEW plus \in Nat
    PROVE  CopiedPage0(b, p, plus) \in Page
<1>1. flash[b][p] \in Page /\ flash[b][0] \in Page
  BY Geometry DEF Blocks
<1>2. flash[b][0].info \in BOOLEAN /\ flash[b][0].status \in 0 .. 255
  BY <1>1 DEF Page
<1>3. (flash[b][0].status + plus) % 256 \in 0 .. 255
  <2>1. \A st \in 0 .. 255 : st + plus \in Nat
    OBVIOUS
  <2> QED BY <1>2, <2>1, Byte
<1> QED BY <1>1, <1>2, <1>3 DEF CopiedPage0, Page

LEMMA LogAgeOK ==
    ASSUME flash \in Blocks, dataBlk \in Phys
    PROVE  LogAge \in 0 .. 255
<1>1. flash[dataBlk][0] \in Page
  BY Geometry DEF Blocks
<1>2. flash[dataBlk][0].status \in 0 .. 255
  BY <1>1 DEF Page
<1> QED BY <1>2 DEF LogAge

LEMMA SavedOrRebuilt ==
    ASSUME saved \in [Phys -> [Pages -> Pages \union {None}]], NEW f, NEW b \in Phys \union {None}, NEW last
    PROVE  ReadPageMapTbl(f, b, last) \in [Pages -> Pages \union {None}]
<1> DEFINE Found(i) == LET at == {p \in Pages : f[b][p].lp = i}
                       IN  IF at = {} THEN None ELSE CHOOSE p \in at : \A q \in at : q <= p
<1>1. \A i \in Pages : Found(i) \in Pages \union {None}
  <2> SUFFICES ASSUME NEW i \in Pages
               PROVE  Found(i) \in Pages \union {None}
    OBVIOUS
  <2> DEFINE at == {p \in Pages : f[b][p].lp = i}
  <2>1. at \in SUBSET (0 .. PAGES - 1) /\ PAGES - 1 \in Nat
    BY Geometry DEF Pages
  <2>2. at # {} => \E p \in at : \A q \in at : q <= p
    <3> HIDE DEF at
    <3> QED BY <2>1, Largest
  <2> HIDE DEF at
  <2>3. at # {} => (CHOOSE p \in at : \A q \in at : q <= p) \in at
    BY <2>2
  <2> QED BY <2>1, <2>3 DEF at, Pages
<1> HIDE DEF Found
<1>2. [i \in Pages |-> Found(i)] \in [Pages -> Pages \union {None}]
  BY <1>1
<1>3. CASE b = None \/ last = None
  BY <1>3 DEF ReadPageMapTbl, NoMap
<1>4. CASE b # None /\ last # None /\ IsMapPage(f[b][last])
  <2>1. ReadPageMapTbl(f, b, last) = saved[b]
    BY <1>4 DEF ReadPageMapTbl
  <2> QED BY <1>4, <2>1
<1>5. CASE ~(b = None \/ last = None) /\ ~IsMapPage(f[b][last])
  <2>1. ReadPageMapTbl(f, b, last) = [i \in Pages |-> Found(i)]
    BY <1>5 DEF ReadPageMapTbl, Found
  <2> QED BY <1>2, <2>1
<1> QED BY <1>3, <1>4, <1>5

-----------------------------------------------------------------------------
(* Every action keeps the types.                                            *)

Flights == SUBSET [b : Phys, p : Pages, user : BOOLEAN]
Maps == [Pages -> Pages \union {None}]
Wants == [Pages -> 0 .. count.load.writes \union {Any}]
Controls == {"idle", "getlog", "datainfo", "loginfo", "program", "table", "merge", "swap", "move",
             "simple", "erase", "restore", "fail", "off", "scan"}

LEMMA SameLoad ==
    ASSUME count'.load = count.load
    PROVE  Page' = Page /\ Blocks' = Blocks /\ Requests' = Requests /\ Wants' = Wants
BY DEF Page, Blocks, Requests, Wants

LEMMA Typed ==
    TypeOK <=> /\ flash \in Blocks /\ bad \subseteq Phys /\ free \subseteq Phys
               /\ saved \in [Phys -> Maps] /\ pmap \in Maps
               /\ dataBlk \in Phys \union {None} /\ logBlk \in Phys \union {None}
               /\ lastUsed \in Pages \union {None}
               /\ cached \in BOOLEAN /\ mapDirty \in BOOLEAN /\ clean \in BOOLEAN
               /\ pc \in Controls /\ flight \in Flights /\ want \in Wants
BY DEF TypeOK, Blocks, Maps, Wants, Flights, Controls

LEMMA TypedNext ==
    TypeOK' <=> /\ flash' \in Blocks' /\ bad' \subseteq Phys /\ free' \subseteq Phys
                /\ saved' \in [Phys -> Maps] /\ pmap' \in Maps
                /\ dataBlk' \in Phys \union {None} /\ logBlk' \in Phys \union {None}
                /\ lastUsed' \in Pages \union {None}
                /\ cached' \in BOOLEAN /\ mapDirty' \in BOOLEAN /\ clean' \in BOOLEAN
                /\ pc' \in Controls /\ flight' \in Flights /\ want' \in Wants'
BY DEF TypeOK, Blocks, Maps, Wants, Flights, Controls

LEMMA LoadOK ==
    ASSUME RecordsOK
    PROVE  /\ count.load \in Loads /\ count.load.writes \in Nat /\ count.load.pages \subseteq Pages
           /\ count.writes \in Nat /\ NoJob \in Jobs /\ NoBad \in BadJobs /\ NoReq \in Requests
<1>1. count.load \in Loads /\ count.writes \in Nat
  BY DEF RecordsOK, Counts
<1>2. count.load.writes \in Nat /\ count.load.pages \subseteq Pages
  BY <1>1, LoadsAssumption DEF Pages
<1>3. NoJob \in Jobs
  BY DEF NoJob, Jobs, Merges
<1>4. NoBad \in BadJobs
  BY Geometry DEF NoBad, BadJobs, Returned
<1>5. NoReq \in Requests
  BY <1>2 DEF NoReq, Requests
<1> QED BY <1>1, <1>2, <1>3, <1>4, <1>5

LEMMA TypesInit == ASSUME Init PROVE TypeInv
<1>1. PICK load \in Loads :
         /\ count = [load |-> load, writes |-> 0, cuts |-> 0, fails |-> 0, eraseFails |-> 0, evictions |-> 0]
         /\ bad = load.bad
  BY DEF Init
<1>2. count.load = load /\ load.writes \in Nat /\ load.bad \subseteq 1 .. BLOCKS - 1 /\ count.writes = 0
  BY <1>1, LoadsAssumption
<1>3. RecordsOK
  <2>1. count \in Counts /\ count.writes <= count.load.writes
    BY <1>1, <1>2 DEF Counts
  <2>2. NoReq \in Requests
    BY <1>2 DEF NoReq, Requests
  <2>3. NoJob \in Jobs /\ NoBad \in BadJobs
    BY Geometry DEF NoJob, Jobs, Merges, NoBad, BadJobs, Returned
  <2> QED BY <2>1, <2>2, <2>3 DEF Init, RecordsOK
<1>4. flash \in Blocks
  <2>1. ErasedBlock \in [Pages -> Page] /\ MarkedBad \in [Pages -> Page]
    BY <1>2, ConstantPages
  <2> QED BY <2>1 DEF Init, Blocks
<1>5. saved \in [Phys -> Maps] /\ pmap \in Maps /\ want \in Wants
  BY DEF Init, NoMap, Maps, Wants
<1>6. bad \subseteq Phys /\ free \subseteq Phys /\ dataBlk \in Phys
  BY <1>1, <1>2, Geometry, BlocksAssumption DEF Init, Phys
<1>7. TypeOK
  BY <1>4, <1>5, <1>6, Typed DEF Init, Flights, Controls
<1>8. dataBlk # None
  BY NoneAssumption DEF Init
<1> QED BY <1>3, <1>7, <1>8 DEF Init, TypeInv, BlocksNamed, PagesNamed, Mode, NoReq, Merges

\* A free block is taken for the bad one, or the operation gives up.
LEMMA TakesSpare ==
    ASSUME TypeInv, NEW b \in Phys, NEW n \in 0 .. PAGES, Mode \in Returned, LML_BadBlkManage(b, n, Mode),
           UNCHANGED <<dataBlk, logBlk, lastUsed, pmap, mapDirty, clean, req>>
    PROVE  /\ free' \subseteq Phys /\ job' \in Jobs /\ bm' \in BadJobs /\ pc' \in {"fail", "restore"}
           /\ BlocksNamed' /\ PagesNamed'
<1>1. /\ free \subseteq Phys /\ job \in Jobs /\ NoJob \in Jobs /\ NoBad \in BadJobs
      /\ BlocksNamed /\ PagesNamed
  BY LoadOK DEF TypeInv, TypeOK, RecordsOK
<1>2. CASE free = {} /\ GiveUp /\ UNCHANGED free
  <2>1. pc' = "fail" /\ Mode' = "fail" /\ job' = NoJob /\ bm' = NoBad /\ free' = free
    BY <1>2 DEF GiveUp, Mode
  <2>2. BlocksNamed'
    BY <1>1, <2>1 DEF BlocksNamed, Merges, Mode, Returned
  <2>3. PagesNamed'
    BY <1>1, <2>1 DEF PagesNamed
  <2> QED BY <1>1, <2>1, <2>2, <2>3
<1>3. ASSUME NEW new \in free, free' = free \ {new},
             bm' = [bad |-> b, n |-> n, new |-> new, p |-> 0, ret |-> Mode], pc' = "restore", job' = job
      PROVE  /\ free' \subseteq Phys /\ job' \in Jobs /\ bm' \in BadJobs /\ pc' \in {"fail", "restore"}
             /\ BlocksNamed' /\ PagesNamed'
  <2>1. Mode' = Mode /\ bm'.bad = b /\ bm'.new = new /\ pc' = "restore" /\ bm' \in BadJobs /\ b # None /\ new # None
    BY <1>1, <1>3, NoneAssumption DEF Mode, BadJobs, Phys
  <2>2. BlocksNamed'
    BY <1>1, <1>3, <2>1 DEF BlocksNamed, Returned, Mode
  <2>3. FewValid' = FewValid
    BY DEF FewValid, ValidPages
  <2>4. PagesNamed'
    BY <1>1, <1>3, <2>1, <2>3 DEF PagesNamed
  <2> QED BY <1>1, <1>3, <2>1, <2>2, <2>4
<1> QED BY <1>2, <1>3 DEF LML_BadBlkManage

LEMMA TypesPageWrite == ASSUME TypeInv, NEW i \in count.load.pages, LML_PageWrite(i) PROVE TypeInv'
<1>1. /\ pc = "idle" /\ pc' = "getlog" /\ clean' = FALSE /\ count.writes < count.load.writes
      /\ count' = [count EXCEPT !.writes = @ + 1]
      /\ req' = [lp |-> i, val |-> count'.writes, again |-> FALSE, special |-> TRUE]
      /\ UNCHANGED <<flash, bad, saved, dataBlk, logBlk, lastUsed, pmap, cached, mapDirty, free, job, bm, flight, want>>
  BY DEF LML_PageWrite, tables
<1>2. count \in Counts /\ count.writes \in Nat /\ count.load.writes \in Nat /\ i \in Pages /\ RecordsOK
  BY LoadOK DEF TypeInv, RecordsOK
<1>3. count' \in Counts /\ count'.writes = count.writes + 1 /\ count'.load = count.load
  BY <1>1, <1>2 DEF Counts
<1>4. req' \in Requests /\ req'.lp = i /\ req'.again = FALSE /\ i # None
  BY <1>1, <1>2, <1>3, NoneAssumption DEF Requests, Pages
<1>5. RecordsOK'
  BY <1>1, <1>2, <1>3, <1>4, SameLoad DEF RecordsOK
<1>6. TypeOK'
  BY <1>1, <1>3, SameLoad, Typed, TypedNext DEF TypeInv, Controls
<1>7. BlocksNamed' /\ PagesNamed'
  BY <1>1, <1>4 DEF TypeInv, BlocksNamed, PagesNamed, Mode, Merges
<1> QED BY <1>5, <1>6, <1>7 DEF TypeInv

LEMMA TypesSwitch == ASSUME TypeInv, pc \in {"idle", "getlog", "merge"}, PMM_SwitchMapTbl PROVE TypeInv'
<1>1. /\ logBlk # None /\ pmap' = ReadPageMapTbl(flash, logBlk, lastUsed) /\ cached' = TRUE
      /\ mapDirty' = (lastUsed # None /\ ~IsMapPage(flash[logBlk][lastUsed]))
      /\ clean' = (clean /\ ~mapDirty')
      /\ UNCHANGED <<flash, bad, saved, dataBlk, logBlk, lastUsed, free, pc, req, job, bm, flight, want, count>>
  BY DEF PMM_SwitchMapTbl
<1>2. pmap' \in Maps
  BY <1>1, SavedOrRebuilt, Typed DEF TypeInv, Maps
<1>3. mapDirty' \in BOOLEAN /\ clean' \in BOOLEAN /\ (mapDirty' => lastUsed # None) /\ (clean' => clean)
  BY <1>1 DEF IsMapPage
<1>4. RecordsOK' /\ TypeOK'
  BY <1>1, <1>2, <1>3, SameLoad, Typed, TypedNext DEF TypeInv, RecordsOK
<1>5. BlocksNamed' /\ PagesNamed'
  BY <1>1, <1>3 DEF TypeInv, BlocksNamed, PagesNamed, Mode, Merges
<1> QED BY <1>4, <1>5 DEF TypeInv

LEMMA TypesCreateNewLogBlk == ASSUME TypeInv, CreateNewLogBlk PROVE TypeInv'
<1>1. /\ pc = "getlog" /\ logBlk = None /\ lastUsed' = None /\ pmap' = NoMap /\ cached' = TRUE /\ mapDirty' = FALSE
      /\ pc' = "datainfo" /\ logBlk' \in free /\ free' \subseteq free
      /\ UNCHANGED <<flash, bad, saved, dataBlk, clean, req, job, bm, flight, want, count>>
  BY DEF CreateNewLogBlk
<1>2. NoMap \in Maps
  BY DEF NoMap, Maps
<1>3. logBlk' \in Phys /\ logBlk' # None
  BY <1>1, NoneAssumption DEF TypeInv, TypeOK, Phys
<1>4. RecordsOK' /\ TypeOK'
  BY <1>1, <1>2, <1>3, SameLoad, Typed, TypedNext DEF TypeInv, RecordsOK, Controls
<1>5. BlocksNamed' /\ PagesNamed'
  BY <1>1, <1>3 DEF TypeInv, BlocksNamed, PagesNamed, Mode, Merges
<1> QED BY <1>4, <1>5 DEF TypeInv

LEMMA TypesNoFreeBlk == ASSUME TypeInv, NoFreeBlk PROVE TypeInv'
<1>1. /\ pc = "getlog" /\ pc' = "fail" /\ job' = NoJob /\ bm' = NoBad
      /\ UNCHANGED <<flash, bad, saved, dataBlk, logBlk, lastUsed, pmap, cached, mapDirty, free, clean, req, flight, want, count>>
  BY DEF NoFreeBlk, GiveUp, tables
<1>2. RecordsOK' /\ TypeOK'
  BY <1>1, SameLoad, Typed, TypedNext, LoadOK DEF TypeInv, RecordsOK, Controls
<1>3. BlocksNamed' /\ PagesNamed'
  BY <1>1 DEF TypeInv, BlocksNamed, PagesNamed, Mode, Merges
<1> QED BY <1>2, <1>3 DEF TypeInv

\* What is left to show of an action that may take a spare block for a bad one.
LEMMA TypesSpare ==
    ASSUME TypeInv, NEW b \in Phys, NEW n \in 0 .. PAGES, Mode \in Returned, LML_BadBlkManage(b, n, Mode), Failed,
           UNCHANGED <<saved, dataBlk, logBlk, lastUsed, pmap, cached, mapDirty, clean, req>>,
           flash' \in Blocks, bad' \subseteq Phys, flight' \in Flights, want' \in Wants
    PROVE  TypeInv'
<1>1. /\ free' \subseteq Phys /\ job' \in Jobs /\ bm' \in BadJobs /\ pc' \in {"fail", "restore"}
      /\ BlocksNamed' /\ PagesNamed'
  BY TakesSpare
<1>2. count' \in Counts /\ count'.load = count.load /\ count'.writes = count.writes
  BY DEF Failed, TypeInv, RecordsOK, Counts
<1>3. RecordsOK'
  BY <1>1, <1>2, SameLoad DEF TypeInv, RecordsOK
<1>4. TypeOK'
  BY <1>1, <1>2, SameLoad, Typed, TypedNext DEF TypeInv, Controls
<1> QED BY <1>1, <1>3, <1>4 DEF TypeInv

LEMMA TypesWriteDataInfo == ASSUME TypeInv, WriteDataInfo PROVE TypeInv'
<1>1. /\ pc = "datainfo"
      /\ UNCHANGED <<bad, saved, dataBlk, logBlk, lastUsed, pmap, cached, mapDirty, clean, req, want>>
  BY DEF WriteDataInfo
<1>2. Mode = "datainfo" /\ dataBlk \in Phys /\ lastUsed = None /\ 0 \in Pages
  BY <1>1, Geometry, Typed DEF TypeInv, BlocksNamed, PagesNamed, Mode
<1>3. ASSUME pc' = "getlog", UNCHANGED <<free, job, bm, count>>, flash' \in Blocks, flight' \in Flights
      PROVE  TypeInv'
  <2>1. RecordsOK' /\ TypeOK'
    BY <1>1, <1>3, SameLoad, Typed, TypedNext DEF TypeInv, RecordsOK, Controls
  <2>2. BlocksNamed' /\ PagesNamed'
    BY <1>1, <1>2, <1>3 DEF TypeInv, BlocksNamed, PagesNamed, Mode, Merges
  <2> QED BY <2>1, <2>2 DEF TypeInv
<1>4. CASE pc' = "getlog" /\ UNCHANGED <<flash, flight, free, job, bm, count>>
  BY <1>3, <1>4, Typed DEF TypeInv
<1>5. CASE /\ Program(dataBlk, 0, [info |-> TRUE, status |-> FreeMark, lp |-> None, val |-> Junk])
           /\ pc' = "getlog" /\ UNCHANGED <<free, job, bm, count>>
  <2>1. [info |-> TRUE, status |-> FreeMark, lp |-> None, val |-> Junk] \in Page
    BY ConstantPages, LoadOK DEF TypeInv
  <2>2. flash' \in Blocks /\ flight' \in Flights
    BY <1>2, <1>5, <2>1, ProgramOK, Typed DEF TypeInv, Flights
  <2> QED BY <1>3, <1>5, <2>2
<1>6. CASE Failed /\ LML_BadBlkManage(dataBlk, 0, "datainfo") /\ UNCHANGED <<flash, flight>>
  <2>1. 0 \in 0 .. PAGES /\ Mode \in Returned
    BY <1>2, Geometry DEF Returned
  <2> QED BY <1>1, <1>2, <1>6, <2>1, TypesSpare, Typed DEF TypeInv
<1> QED BY <1>4, <1>5, <1>6 DEF WriteDataInfo

LEMMA TypesGetLogPage == ASSUME TypeInv, GetLogPage PROVE TypeInv'
<1> DEFINE t == NextLogPage(lastUsed, req.lp)
<1>1. /\ pc = "getlog" /\ logBlk # None
      /\ UNCHANGED <<flash, bad, saved, dataBlk, logBlk, cached, free, clean, bm, flight, want, count>>
  BY DEF GetLogPage
<1>2. req.lp \in Pages /\ req \in Requests /\ count \in Counts /\ count'.load = count.load
  BY <1>1 DEF TypeInv, PagesNamed, Mode, RecordsOK, Requests
<1>3. t < PAGES => t \in Pages /\ t # None
  <2>1. lastUsed \in Pages \union {None}
    BY Typed DEF TypeInv
  <2>2. t < PAGES => t \in Pages
    BY <1>2, <2>1, NextLogPageInBlock
  <2> HIDE DEF t
  <2> QED BY <2>2, NotNone
<1>4. CASE t < PAGES /\ TakeLogPage /\ UNCHANGED <<req, job>>
  <2>1. /\ lastUsed' = t /\ pmap' = [pmap EXCEPT ![req.lp] = t] /\ mapDirty' = TRUE /\ pc' = "program"
        /\ t \in Pages /\ t # None
    BY <1>3, <1>4 DEF TakeLogPage
  <2> HIDE DEF t
  <2>2. pmap' \in Maps
    BY <2>1, Typed DEF TypeInv, Maps
  <2>3. RecordsOK' /\ TypeOK'
    BY <1>1, <1>2, <1>4, <2>1, <2>2, SameLoad, Typed, TypedNext DEF TypeInv, RecordsOK, Controls
  <2>4. BlocksNamed' /\ PagesNamed'
    BY <1>1, <1>2, <1>4, <2>1 DEF TypeInv, BlocksNamed, PagesNamed, Mode, Merges
  <2> QED BY <2>3, <2>4 DEF TypeInv
<1>5. CASE t < PAGES /\ pc' = "loginfo" /\ UNCHANGED <<req, job, lastUsed, pmap, mapDirty>>
  <2>1. NextLogPage(lastUsed', req'.lp) < PAGES
    BY <1>5
  <2> HIDE DEF t
  <2>2. RecordsOK' /\ TypeOK'
    BY <1>1, <1>2, <1>5, SameLoad, Typed, TypedNext DEF TypeInv, RecordsOK, Controls
  <2>3. BlocksNamed'
    BY <1>1, <1>5 DEF TypeInv, BlocksNamed, Mode, Merges
  <2>4. PagesNamed'
    BY <1>1, <1>5, <2>1 DEF TypeInv, PagesNamed, Mode, Merges
  <2> QED BY <2>2, <2>3, <2>4 DEF TypeInv
<1>6. CASE pc' = "fail" /\ UNCHANGED <<req, job, lastUsed, pmap, mapDirty>>
  <2>1. RecordsOK' /\ TypeOK'
    BY <1>1, <1>2, <1>6, SameLoad, Typed, TypedNext DEF TypeInv, RecordsOK, Controls
  <2>2. BlocksNamed' /\ PagesNamed'
    BY <1>1, <1>6 DEF TypeInv, BlocksNamed, PagesNamed, Mode, Merges
  <2> QED BY <2>1, <2>2 DEF TypeInv
<1>7. CASE pc' = "merge" /\ req' = [req EXCEPT !.again = TRUE] /\ job' = NoJob /\ UNCHANGED <<lastUsed, pmap, mapDirty>>
  <2>1. req' \in Requests
    BY <1>2, <1>7 DEF Requests
  <2>2. RecordsOK' /\ TypeOK'
    BY <1>1, <1>2, <1>7, <2>1, SameLoad, Typed, TypedNext, LoadOK DEF TypeInv, RecordsOK, Controls
  <2>3. BlocksNamed' /\ PagesNamed'
    BY <1>1, <1>7 DEF TypeInv, BlocksNamed, PagesNamed, Mode, Merges
  <2> QED BY <2>2, <2>3 DEF TypeInv
<1> QED BY <1>4, <1>5, <1>6, <1>7 DEF GetLogPage, HasRoom

LEMMA TypesWriteLogInfo == ASSUME TypeInv, WriteLogInfo PROVE TypeInv'
<1>1. pc = "loginfo" /\ UNCHANGED <<bad, saved, dataBlk, logBlk, cached, clean, req, want>>
  BY DEF WriteLogInfo
<1>2. /\ Mode = "loginfo" /\ logBlk \in Phys /\ dataBlk \in Phys /\ 0 \in Pages /\ req.lp \in Pages
      /\ NextLogPage(lastUsed, req.lp) \in Pages
  <2>1. Mode = "loginfo" /\ logBlk \in Phys /\ dataBlk \in Phys /\ 0 \in Pages
    BY <1>1, Geometry, Typed DEF TypeInv, BlocksNamed, Mode
  <2>2. req.lp \in Pages /\ NextLogPage(lastUsed, req.lp) < PAGES
    BY <1>1, <2>1 DEF TypeInv, PagesNamed, RecordsOK, Requests
  <2> QED BY <2>1, <2>2, NextLogPageInBlock, Typed DEF TypeInv
<1>3. CASE /\ Program(logBlk, 0, [info |-> TRUE, status |-> LogAge, lp |-> None, val |-> Junk])
           /\ TakeLogPage /\ UNCHANGED <<free, job, bm, count>>
  <2>1. [info |-> TRUE, status |-> LogAge, lp |-> None, val |-> Junk] \in Page
    BY <1>2, LogAgeOK, Typed DEF TypeInv, Page
  <2>2. flash' \in Blocks /\ flight' \in Flights
    BY <1>2, <1>3, <2>1, ProgramOK, Typed DEF TypeInv, Flights
  <2> DEFINE t == NextLogPage(lastUsed, req.lp)
  <2>3. /\ lastUsed' = t /\ pmap' = [pmap EXCEPT ![req.lp] = t] /\ mapDirty' = TRUE /\ pc' = "program" /\ t \in Pages
    BY <1>2, <1>3 DEF TakeLogPage
  <2> HIDE DEF t
  <2>4. pmap' \in Maps /\ lastUsed' # None
    BY <2>3, Typed, NotNone DEF TypeInv, Maps
  <2>5. RecordsOK' /\ TypeOK'
    BY <1>1, <1>3, <2>2, <2>3, <2>4, SameLoad, Typed, TypedNext DEF TypeInv, RecordsOK, Controls
  <2>6. BlocksNamed' /\ PagesNamed'
    BY <1>1, <1>2, <1>3, <2>3, <2>4, NoneAssumption DEF TypeInv, BlocksNamed, PagesNamed, Mode, Merges, Phys, Pages
  <2> QED BY <2>5, <2>6 DEF TypeInv
<1>4. CASE /\ Failed /\ LML_BadBlkManage(logBlk, 0, "loginfo")
           /\ UNCHANGED <<flash, flight, lastUsed, pmap, mapDirty>>
  <2>1. 0 \in 0 .. PAGES /\ Mode \in Returned
    BY <1>2, Geometry DEF Returned
  <2> QED BY <1>1, <1>2, <1>4, <2>1, TypesSpare, Typed DEF TypeInv
<1> QED BY <1>3, <1>4 DEF WriteLogInfo

LEMMA TypesProgramPage == ASSUME TypeInv, ProgramPage PROVE TypeInv'
<1> DEFINE page == [info |-> TRUE, status |-> IF lastUsed = 0 THEN LogAge ELSE DataMark,
                    lp |-> req.lp, val |-> req.val]
<1>1. /\ pc = "program" /\ pc' = "idle"
      /\ flash' = Programmed(logBlk, lastUsed, page)
      /\ flight' = OtherBanks(lastUsed) \union {[b |-> logBlk, p |-> lastUsed, user |-> TRUE]}
      /\ want' = [want EXCEPT ![req.lp] = req.val]
      /\ UNCHANGED <<bad, saved, dataBlk, logBlk, lastUsed, pmap, cached, mapDirty, free, clean, req, job, bm, count>>
  BY DEF ProgramPage, tables
<1>2. /\ Mode = "program" /\ logBlk \in Phys /\ dataBlk \in Phys /\ lastUsed \in Pages
      /\ req.lp \in Pages /\ req.val \in 0 .. count.load.writes
  BY <1>1, Typed DEF TypeInv, BlocksNamed, PagesNamed, Mode, RecordsOK, Requests
<1>3. page \in Page
  BY <1>2, LogAgeOK, Typed DEF TypeInv, Page, DataMark
<1> HIDE DEF page
<1>4. flash' \in Blocks
  BY <1>1, <1>2, <1>3, ProgrammedOK, Typed DEF TypeInv
<1>5. flight' \in Flights
  <2>1. OtherBanks(lastUsed) \subseteq flight
    BY DEF OtherBanks
  <2>2. [b |-> logBlk, p |-> lastUsed, user |-> TRUE] \in [b : Phys, p : Pages, user : BOOLEAN]
    BY <1>2
  <2> QED BY <1>1, <2>1, <2>2, Typed DEF TypeInv, Flights
<1>6. want' \in Wants
  BY <1>1, <1>2, Typed DEF TypeInv, Wants
<1>7. RecordsOK' /\ TypeOK'
  BY <1>1, <1>4, <1>5, <1>6, SameLoad, Typed, TypedNext DEF TypeInv, RecordsOK, Controls
<1>8. BlocksNamed' /\ PagesNamed'
  BY <1>1, <1>2 DEF TypeInv, BlocksNamed, PagesNamed, Mode, Merges
<1> QED BY <1>7, <1>8 DEF TypeInv

LEMMA RuinOK ==
    ASSUME TypeOK, NEW f \in flight, Ruin(f)
    PROVE  flash' \in Blocks /\ want' \in Wants /\ flight' \in Flights
<1>1. f.b \in Phys /\ f.p \in Pages
  BY DEF TypeOK
<1>2. flash \in Blocks /\ want \in Wants /\ flight \in Flights
  BY Typed
<1>3. [flash[f.b][f.p] EXCEPT !.val = Junk] \in Page
  BY <1>1, <1>2 DEF Blocks, Page
<1>4. flash' = [flash EXCEPT ![f.b][f.p] = [flash[f.b][f.p] EXCEPT !.val = Junk]]
  BY <1>1, <1>2 DEF Ruin, Blocks
<1>5. flash' \in Blocks
  BY <1>1, <1>2, <1>3, <1>4 DEF Blocks
<1>6. want' \in Wants
  <2> DEFINE i == flash[f.b][f.p].lp
  <2>1. want' = [want EXCEPT ![i] = Any]
    BY DEF Ruin
  <2> HIDE DEF i
  <2> QED BY <1>2, <2>1 DEF Wants
<1>7. flight' \in Flights
  BY <1>2 DEF Ruin, Flights
<1> QED BY <1>5, <1>6, <1>7

LEMMA TypesSyncFails == ASSUME TypeInv, SyncFails PROVE TypeInv'
<1>1. /\ pc = "program" /\ Failed /\ LML_BadBlkManage(logBlk, lastUsed, "program")
      /\ \E f \in flight : Ruin(f)
      /\ UNCHANGED <<bad, saved, dataBlk, logBlk, lastUsed, pmap, cached, mapDirty, clean, req>>
  BY DEF SyncFails
<1>2. Mode = "program" /\ logBlk \in Phys /\ lastUsed \in Pages
  BY <1>1, Typed DEF TypeInv, BlocksNamed, PagesNamed, Mode
<1>3. lastUsed \in 0 .. PAGES /\ Mode \in Returned
  BY <1>2, Geometry DEF Returned, Pages
<1>4. flash' \in Blocks /\ want' \in Wants /\ flight' \in Flights
  BY <1>1, RuinOK DEF TypeInv
<1> QED BY <1>1, <1>2, <1>3, <1>4, TypesSpare, Typed DEF TypeInv

LEMMA TypesWriteFails == ASSUME TypeInv, WriteFails PROVE TypeInv'
<1>1. /\ pc = "fail" /\ pc' = "idle" /\ want' = [i \in Pages |-> IF i = req.lp THEN Any ELSE want[i]]
      /\ UNCHANGED <<flash, bad, saved, dataBlk, logBlk, lastUsed, pmap, cached, mapDirty, free, clean, req, job, bm, flight, count>>
  BY DEF WriteFails, tables
<1>2. want' \in Wants
  BY <1>1, Typed DEF TypeInv, Wants
<1>3. RecordsOK' /\ TypeOK'
  BY <1>1, <1>2, SameLoad, Typed, TypedNext DEF TypeInv, RecordsOK, Controls
<1>4. BlocksNamed' /\ PagesNamed'
  BY <1>1 DEF TypeInv, BlocksNamed, PagesNamed, Mode, Merges
<1> QED BY <1>3, <1>4 DEF TypeInv

LEMMA TypesCloseWritePage == ASSUME TypeInv, CloseWritePage PROVE TypeInv'
<1>1. /\ pc = "idle" /\ Mode = "idle"
      /\ UNCHANGED <<bad, saved, dataBlk, logBlk, lastUsed, pmap, cached, mapDirty, clean, req>>
  BY DEF CloseWritePage, Mode
<1>2. CASE flight' = {} /\ UNCHANGED <<flash, want, pc, job, bm, free, count>>
  <2>1. RecordsOK' /\ TypeOK'
    BY <1>1, <1>2, SameLoad, Typed, TypedNext DEF TypeInv, RecordsOK, Flights
  <2>2. BlocksNamed' /\ PagesNamed'
    BY <1>1, <1>2 DEF TypeInv, BlocksNamed, PagesNamed, Mode, Merges
  <2> QED BY <2>1, <2>2 DEF TypeInv
<1>3. ASSUME NEW f \in flight, f.b = logBlk, f.p = lastUsed, Ruin(f), Failed, LML_BadBlkManage(logBlk, lastUsed + 1, "idle")
      PROVE  TypeInv'
  <2>1. logBlk \in Phys /\ lastUsed \in Pages
    BY <1>3 DEF TypeInv, TypeOK
  <2>2. lastUsed + 1 \in 0 .. PAGES /\ Mode \in Returned
    BY <1>1, <2>1, Geometry DEF Returned, Pages
  <2>3. flash' \in Blocks /\ want' \in Wants /\ flight' \in Flights
    BY <1>3, RuinOK DEF TypeInv
  <2> QED BY <1>1, <1>3, <2>1, <2>2, <2>3, TypesSpare, Typed DEF TypeInv
<1> QED BY <1>2, <1>3 DEF CloseWritePage

LEMMA TypesEvictPageMap == ASSUME TypeInv, EvictPageMap PROVE TypeInv'
<1>1. /\ pc = "idle" /\ logBlk # None
      /\ count' = [count EXCEPT !.evictions = @ + 1]
      /\ UNCHANGED <<flash, bad, saved, dataBlk, logBlk, lastUsed, pmap, mapDirty, free, clean, bm, flight, want>>
  BY DEF EvictPageMap, Closed
<1>2. count' \in Counts /\ count'.load = count.load /\ count'.writes = count.writes
  BY <1>1 DEF TypeInv, RecordsOK, Counts
<1>3. CASE cached' = FALSE /\ UNCHANGED <<req, job, pc>>
  <2>1. RecordsOK' /\ TypeOK'
    BY <1>1, <1>2, <1>3, SameLoad, Typed, TypedNext DEF TypeInv, RecordsOK
  <2>2. BlocksNamed' /\ PagesNamed'
    BY <1>1, <1>3 DEF TypeInv, BlocksNamed, PagesNamed, Mode, Merges
  <2> QED BY <2>1, <2>2 DEF TypeInv
<1>4. CASE /\ mapDirty /\ req' = NoReq /\ job' = NoJob /\ UNCHANGED cached
           /\ pc' = IF lastUsed + 1 = PAGES THEN "merge" ELSE "table"
  <2>1. lastUsed \in Pages /\ lastUsed # None
    BY <1>4, Typed, NoneAssumption DEF TypeInv, PagesNamed
  <2>2. pc' \in {"merge", "table"} /\ (pc' = "table" => lastUsed + 1 < PAGES)
    BY <1>4, <2>1, Geometry DEF Pages
  <2>3. NoReq \in Requests /\ NoJob \in Jobs /\ NoReq.lp = None
    BY LoadOK DEF TypeInv, NoReq
  <2>4. RecordsOK' /\ TypeOK'
    BY <1>1, <1>2, <1>4, <2>2, <2>3, SameLoad, Typed, TypedNext DEF TypeInv, RecordsOK, Controls
  <2>5. BlocksNamed' /\ PagesNamed'
    BY <1>1, <1>4, <2>1, <2>2, <2>3 DEF TypeInv, BlocksNamed, PagesNamed, Mode, Merges
  <2> QED BY <2>4, <2>5 DEF TypeInv
<1> QED BY <1>3, <1>4 DEF EvictPageMap

LEMMA TypesWritePageMapTbl == ASSUME TypeInv, WritePageMapTbl PROVE TypeInv'
<1>1. pc = "table" /\ UNCHANGED <<bad, dataBlk, logBlk, pmap, clean, req, want>>
  BY DEF WritePageMapTbl
<1>2. Mode = "table" /\ logBlk \in Phys /\ lastUsed \in Pages /\ lastUsed + 1 < PAGES
  BY <1>1, Typed DEF TypeInv, BlocksNamed, PagesNamed, Mode
<1>3. lastUsed + 1 \in Pages /\ lastUsed + 1 # None /\ lastUsed + 1 \in 0 .. PAGES
  BY <1>2, NotNone, Geometry DEF Pages
<1>4. CASE /\ Program(logBlk, lastUsed + 1, [info |-> FALSE, status |-> TableMark, lp |-> None, val |-> Junk])
           /\ saved' = [saved EXCEPT ![logBlk] = pmap]
           /\ lastUsed' = lastUsed + 1 /\ cached' = FALSE /\ mapDirty' = FALSE /\ pc' = "idle"
           /\ UNCHANGED <<free, job, bm, count>>
  <2>1. [info |-> FALSE, status |-> TableMark, lp |-> None, val |-> Junk] \in Page
    BY ConstantPages, LoadOK DEF TypeInv
  <2>2. flash' \in Blocks /\ flight' \in Flights
    BY <1>2, <1>3, <1>4, <2>1, ProgramOK, Typed DEF TypeInv, Flights
  <2>3. saved' \in [Phys -> Maps]
    BY <1>2, <1>4, Typed DEF TypeInv
  <2>4. RecordsOK' /\ TypeOK'
    BY <1>1, <1>3, <1>4, <2>2, <2>3, SameLoad, Typed, TypedNext DEF TypeInv, RecordsOK, Controls
  <2>5. BlocksNamed' /\ PagesNamed'
    BY <1>1, <1>4 DEF TypeInv, BlocksNamed, PagesNamed, Mode, Merges
  <2> QED BY <2>4, <2>5 DEF TypeInv
<1>5. CASE /\ Failed /\ LML_BadBlkManage(logBlk, lastUsed + 1, "table")
           /\ UNCHANGED <<flash, flight, saved, lastUsed, cached, mapDirty>>
  <2>1. Mode \in Returned
    BY <1>2 DEF Returned
  <2> QED BY <1>1, <1>2, <1>3, <1>5, <2>1, TypesSpare, Typed DEF TypeInv
<1> QED BY <1>4, <1>5 DEF WritePageMapTbl

LEMMA TypesWriteBackMapTbl == ASSUME TypeInv, WriteBackMapTbl PROVE TypeInv'
<1>1. /\ pc = "idle" /\ clean' = TRUE
      /\ UNCHANGED <<flash, bad, saved, dataBlk, logBlk, lastUsed, pmap, cached, mapDirty, free, pc, req, job, bm, flight, want, count>>
  BY DEF WriteBackMapTbl, Closed, tables
<1>2. RecordsOK' /\ TypeOK'
  BY <1>1, SameLoad, Typed, TypedNext DEF TypeInv, RecordsOK
<1>3. BlocksNamed' /\ PagesNamed'
  BY <1>1 DEF TypeInv, BlocksNamed, PagesNamed, Mode, Merges
<1> QED BY <1>2, <1>3 DEF TypeInv

LEMMA TypesMergeOldest == ASSUME TypeInv, MergeOldest PROVE TypeInv'
<1>1. /\ pc = "idle" /\ pc' = "merge" /\ logBlk # None /\ clean' = FALSE
      /\ count' = [count EXCEPT !.evictions = @ + 1] /\ req' = [NoReq EXCEPT !.special = FALSE] /\ job' = NoJob
      /\ UNCHANGED <<flash, bad, saved, dataBlk, logBlk, lastUsed, pmap, cached, mapDirty, free, bm, flight, want>>
  BY DEF MergeOldest, Closed, tables
<1>2. count' \in Counts /\ count'.load = count.load /\ count'.writes = count.writes
  BY <1>1 DEF TypeInv, RecordsOK, Counts
<1>3. req' \in Requests
  BY <1>1, LoadOK DEF TypeInv, Requests
<1>4. RecordsOK' /\ TypeOK'
  BY <1>1, <1>2, <1>3, SameLoad, Typed, TypedNext, LoadOK DEF TypeInv, RecordsOK, Controls
<1>5. BlocksNamed' /\ PagesNamed'
  BY <1>1 DEF TypeInv, BlocksNamed, PagesNamed, Mode, Merges
<1> QED BY <1>4, <1>5 DEF TypeInv

\* A merge begins, and what it leaves to be erased.
Started(kind, p, b) == [NoJob EXCEPT !.kind = kind, !.p = p, !.blk = b]

LEMMA StartedOK ==
    ASSUME NEW kind \in Merges, NEW p \in Int, NEW b \in Phys
    PROVE  LET j == Started(kind, p, b)
           IN  /\ j \in Jobs /\ j.kind = kind /\ j.p = p /\ j.blk = b
               /\ j.last = 0 /\ j.dst = None /\ j.toErase = <<>>
<1>1. NoJob \in Jobs /\ NoJob.last = 0 /\ NoJob.dst = None /\ NoJob.toErase = <<>>
  BY DEF NoJob, Jobs, Merges
<1>3. PICK n \in Jobs : n = NoJob
  BY <1>1
<1>4. Started(kind, p, b) = [n EXCEPT !.kind = kind, !.p = p, !.blk = b]
  BY <1>3 DEF Started
<1>5. n.last = 0 /\ n.dst = None /\ n.toErase = <<>>
  BY <1>1, <1>3
<1>6. LET j == [n EXCEPT !.kind = kind, !.p = p, !.blk = b]
      IN  /\ j \in Jobs /\ j.kind = kind /\ j.p = p /\ j.blk = b
          /\ j.last = n.last /\ j.dst = n.dst /\ j.toErase = n.toErase
  BY DEF Jobs
<1> QED BY <1>4, <1>5, <1>6

LEMMA ToEraseOK ==
    ASSUME NEW j \in Jobs, NEW s \in Seq(Phys)
    PROVE  LET k == [j EXCEPT !.toErase = s]
           IN  /\ k \in Jobs /\ k.kind = j.kind /\ k.p = j.p /\ k.blk = j.blk
               /\ k.last = j.last /\ k.dst = j.dst /\ k.toErase = s
BY DEF Jobs

LEMMA TypesMergeLogBlk == ASSUME TypeInv, LML_MergeLogBlk PROVE TypeInv'
<1>1. /\ pc = "merge"
      /\ UNCHANGED <<flash, bad, saved, dataBlk, logBlk, lastUsed, pmap, cached, mapDirty, clean, req, flight, want, count>>
  BY Zenon DEF LML_MergeLogBlk
<1>2. Mode = "merge" /\ logBlk \in Phys /\ free \subseteq Phys /\ NoJob \in Jobs /\ NoBad \in BadJobs
  BY <1>1, Typed, LoadOK DEF TypeInv, BlocksNamed, Mode
<1>3. ASSUME job' \in Jobs, bm' \in BadJobs, free' \subseteq free, pc' \in Controls
      PROVE  RecordsOK' /\ TypeOK'
  BY <1>1, <1>2, <1>3, SameLoad, Typed, TypedNext DEF TypeInv, RecordsOK
<1>4. CASE /\ InOrder /\ job' = [NoJob EXCEPT !.kind = "swap", !.p = lastUsed + 1, !.blk = logBlk]
           /\ pc' = "swap" /\ UNCHANGED <<free, bm>>
  <2>1. lastUsed \in Pages
    BY <1>4, Typed DEF TypeInv, InOrder
  <2>2. lastUsed + 1 \in Nat
    BY <2>1 DEF Pages
  <2>3. job' \in Jobs /\ job'.kind = "swap" /\ job'.p = lastUsed + 1 /\ job'.blk = logBlk
    <3>1. job' = Started("swap", lastUsed + 1, logBlk) /\ lastUsed + 1 \in Int /\ "swap" \in Merges
      BY <1>4, <2>2 DEF Started, Merges
    <3> QED BY <1>2, <3>1, StartedOK
  <2>4. RecordsOK' /\ TypeOK'
    BY <1>3, <1>4, <2>3 DEF TypeInv, RecordsOK, Controls
  <2>5. BlocksNamed' /\ PagesNamed'
    BY <1>1, <1>2, <1>4, <2>2, <2>3 DEF TypeInv, BlocksNamed, PagesNamed, Mode, Merges
  <2> QED BY <2>4, <2>5 DEF TypeInv
<1>5. CASE GiveUp /\ UNCHANGED free
  <2>1. pc' = "fail" /\ job' = NoJob /\ bm' = NoBad
    BY <1>5 DEF GiveUp
  <2>2. RecordsOK' /\ TypeOK'
    BY <1>2, <1>3, <1>5, <2>1 DEF Controls
  <2>3. BlocksNamed' /\ PagesNamed'
    BY <1>1, <2>1 DEF TypeInv, BlocksNamed, PagesNamed, Mode, Merges
  <2> QED BY <2>2, <2>3 DEF TypeInv
<1>6. ASSUME NEW b \in free, free' = free \ {b}, UNCHANGED bm, pc' = job'.kind,
             job' = IF req.special /\ FewValid THEN [NoJob EXCEPT !.kind = "move", !.p = -1, !.blk = b]
                                               ELSE [NoJob EXCEPT !.kind = "simple", !.blk = b]
      PROVE  TypeInv'
  <2>0. b \in Phys /\ b # None
    BY <1>2, <1>6, NotNone
  <2>1. CASE req.special /\ FewValid
    <3>1. /\ pc' = "move" /\ job' \in Jobs /\ job'.kind = "move" /\ job'.blk = b /\ job'.p = -1 /\ job'.last = 0
      <4>1. job' = Started("move", -1, b) /\ -1 \in Int /\ "move" \in Merges
        BY <1>6, <2>1 DEF Started, Merges
      <4>2. b \in Phys
        BY <2>0
      <4>3. pc' = "move"
        <5>1. job'.kind = "move"
          BY <4>1, <4>2, StartedOK
        <5> QED BY <1>6, <5>1
      <4> QED BY <4>1, <4>2, <4>3, StartedOK
    <3>2. FewValid'
      BY <1>1, <2>1 DEF FewValid, ValidPages
    <3>3. RecordsOK' /\ TypeOK'
      BY <1>3, <1>6, <3>1 DEF TypeInv, RecordsOK, Controls
    <3>4. BlocksNamed' /\ PagesNamed'
      BY <1>1, <1>2, <1>6, <2>0, <3>1, <3>2 DEF TypeInv, BlocksNamed, PagesNamed, Moving, Mode, Merges
    <3> QED BY <3>3, <3>4 DEF TypeInv
  <2>2. CASE ~(req.special /\ FewValid)
    <3>1. /\ pc' = "simple" /\ job' \in Jobs /\ job'.kind = "simple" /\ job'.blk = b /\ job'.p = 0
      <4>1. job' = Started("simple", 0, b) /\ 0 \in Int /\ "simple" \in Merges
        <5>1. NoJob.p = 0 /\ NoJob \in Jobs
          BY LoadOK DEF NoJob, TypeInv
        <5>3. Started("simple", 0, b) = [NoJob EXCEPT !.kind = "simple", !.blk = b]
          <6>1. PICK n \in Jobs : n = NoJob /\ n.p = 0
            BY <5>1
          <6>2. [n EXCEPT !.kind = "simple", !.p = 0, !.blk = b] = [n EXCEPT !.kind = "simple", !.blk = b]
            BY <6>1 DEF Jobs
          <6> QED BY <6>1, <6>2 DEF Started
        <5> QED BY <1>6, <2>2, <5>3 DEF Merges
      <4>2. b \in Phys
        BY <2>0
      <4>3. pc' = "simple"
        <5>1. job'.kind = "simple"
          BY <4>1, <4>2, StartedOK
        <5> QED BY <1>6, <5>1
      <4> QED BY <4>1, <4>2, <4>3, StartedOK
    <3>2. RecordsOK' /\ TypeOK'
      BY <1>3, <1>6, <3>1 DEF TypeInv, RecordsOK, Controls
    <3>3. BlocksNamed' /\ PagesNamed'
      BY <1>1, <1>2, <1>6, <2>0, <3>1 DEF TypeInv, BlocksNamed, PagesNamed, Mode, Merges
    <3> QED BY <3>2, <3>3 DEF TypeInv
  <2> QED BY <2>1, <2>2
<1> QED BY <1>4, <1>5, <1>6, Zenon DEF LML_MergeLogBlk

\* A copy of a merge that fails.
LEMMA TypesCopyFails ==
    ASSUME TypeInv, NEW n \in 0 .. PAGES, CopyFails(n), Mode \in Merges,
           UNCHANGED <<bad, saved, dataBlk, logBlk, lastUsed, pmap, cached, mapDirty, clean, req, want>>
    PROVE  TypeInv'
<1>1. job.kind = Mode /\ job.blk \in Phys
  BY DEF TypeInv, BlocksNamed, RecordsOK, Jobs
<1>2. Failed /\ LML_BadBlkManage(job.blk, n, Mode) /\ UNCHANGED <<flash, flight>>
  BY <1>1 DEF CopyFails
<1>3. Mode \in Returned
  BY DEF Merges, Returned
<1> QED BY <1>1, <1>2, <1>3, TypesSpare, Typed DEF TypeInv

LEMMA TypesSwapCopy == ASSUME TypeInv, SwapCopy PROVE TypeInv'
<1>1. /\ pc = "swap" /\ job.p < PAGES
      /\ UNCHANGED <<bad, saved, dataBlk, logBlk, lastUsed, pmap, cached, mapDirty, clean, req, want>>
  BY DEF SwapCopy
<1>2. Mode = "swap" /\ job.blk \in Phys /\ job.p \in Nat /\ dataBlk \in Phys /\ job.kind = "swap" /\ job \in Jobs
  BY <1>1, Typed DEF TypeInv, BlocksNamed, PagesNamed, Mode, Merges, RecordsOK, Jobs
<1>3. job.p \in Pages /\ job.p \in 0 .. PAGES
  BY <1>1, <1>2, Geometry DEF Pages
<1>4. CASE /\ Program(job.blk, job.p, flash[dataBlk][job.p]) /\ job' = [job EXCEPT !.p = @ + 1]
           /\ UNCHANGED <<pc, bm, free, count>>
  <2>1. flash[dataBlk][job.p] \in Page
    BY <1>2, <1>3, Typed DEF TypeInv, Blocks
  <2>2. flash' \in Blocks /\ flight' \in Flights
    BY <1>2, <1>3, <1>4, <2>1, ProgramOK, Typed DEF TypeInv, Flights
  <2>3. job' \in Jobs /\ job'.p \in Nat /\ job'.kind = job.kind /\ job'.blk = job.blk
    BY <1>2, <1>4 DEF Jobs
  <2>4. RecordsOK' /\ TypeOK'
    BY <1>1, <1>4, <2>2, <2>3, SameLoad, Typed, TypedNext DEF TypeInv, RecordsOK
  <2>5. BlocksNamed' /\ PagesNamed'
    BY <1>1, <1>2, <1>4, <2>3 DEF TypeInv, BlocksNamed, PagesNamed, Mode, Merges
  <2> QED BY <2>4, <2>5 DEF TypeInv
<1>5. CASE CopyFails(job.p)
  <2>1. Mode \in Merges
    BY <1>2 DEF Merges
  <2> QED BY <1>1, <1>3, <1>5, <2>1, TypesCopyFails
<1> QED BY <1>4, <1>5 DEF SwapCopy

LEMMA TypesSwapDone == ASSUME TypeInv, SwapDone PROVE TypeInv'
<1>1. /\ pc = "swap" /\ pc' = "erase" /\ dataBlk' = job.blk /\ logBlk' = None /\ lastUsed' = None /\ pmap' = NoMap
      /\ cached' = FALSE /\ mapDirty' = FALSE /\ job' = [job EXCEPT !.toErase = <<dataBlk>>]
      /\ UNCHANGED <<flash, bad, saved, free, clean, req, bm, flight, want, count>>
  BY DEF SwapDone
<1>2. job.kind = "swap" /\ job.blk \in Phys /\ dataBlk \in Phys /\ job \in Jobs /\ job.blk # None
  BY <1>1, Typed DEF TypeInv, BlocksNamed, Mode, Merges, RecordsOK, Jobs
<1>3. job' \in Jobs /\ job'.kind = "swap"
  <2>1. <<dataBlk>> \in Seq(Phys)
    BY <1>2
  <2> QED BY <1>1, <1>2, <2>1, ToEraseOK
<1>4. NoMap \in Maps
  BY DEF NoMap, Maps
<1>5. RecordsOK' /\ TypeOK'
  BY <1>1, <1>2, <1>3, <1>4, SameLoad, Typed, TypedNext DEF TypeInv, RecordsOK, Controls
<1>6. BlocksNamed' /\ PagesNamed'
  BY <1>1, <1>2, <1>3 DEF TypeInv, BlocksNamed, PagesNamed, Mode, Merges
<1> QED BY <1>5, <1>6 DEF TypeInv

LEMMA RankOK ==
    ASSUME NEW p \in Pages
    PROVE  MoveRank(p) \in Nat
<1>1. p \in Nat /\ p % BANKS \in Nat /\ PAGES \in Nat
  BY Remainder, Geometry DEF Pages
<1> DEFINE a == p % BANKS
<1>2. a * PAGES \in Nat
  <2> HIDE DEF a
  <2>1. a \in Nat
    BY <1>1 DEF a
  <2> QED BY <1>1, <2>1
<1>3. MoveRank(p) = a * PAGES + p
  BY DEF MoveRank
<1> HIDE DEF a
<1> QED BY <1>1, <1>2, <1>3

\* The next page of a move merge is a valid page that has not been moved.
LEMMA MoveNextOK ==
    ASSUME MoveNext # None
    PROVE  /\ MoveNext \in ValidPages
           /\ job.p = -1 \/ MoveRank(MoveNext) > MoveRank(job.p)
<1> DEFINE left == {p \in ValidPages : job.p = -1 \/ MoveRank(p) > MoveRank(job.p)}
           Ranks == {MoveRank(p) : p \in left}
<1>1. MoveNext = IF left = {} THEN None ELSE CHOOSE p \in left : \A q \in left : MoveRank(p) <= MoveRank(q)
  BY DEF MoveNext
<1>2. left \subseteq Pages
  BY DEF ValidPages
<1>3. left # {}
  BY <1>1
<1>4. \E p \in left : \A q \in left : MoveRank(p) <= MoveRank(q)
  <2> HIDE DEF left
  <2>1. Ranks \in SUBSET Nat /\ Ranks # {}
    BY <1>2, <1>3, RankOK
  <2>2. PICK m \in Ranks : \A r \in Ranks : m <= r
    <3> HIDE DEF Ranks
    <3> QED BY <2>1, Smallest
  <2> QED BY <2>2
<1>5. MoveNext \in left
  <2> HIDE DEF left
  <2> QED BY <1>1, <1>3, <1>4
<1> QED BY <1>5

LEMMA ValidCount ==
    /\ IsFiniteSet(ValidPages) /\ Cardinality(ValidPages) \in Nat
    /\ \A S \in SUBSET ValidPages : /\ IsFiniteSet(S) /\ Cardinality(S) \in Nat
                                    /\ Cardinality(S) <= Cardinality(ValidPages)
<1>1. IsFiniteSet(Pages)
  BY Geometry, FS_Interval DEF Pages
<1>2. IsFiniteSet(ValidPages)
  BY <1>1, FS_Subset DEF ValidPages
<1> QED BY <1>2, FS_Subset, FS_CardinalityType

\* The place a moved page gets lies below as many page lines as pages were moved.
LEMMA MoveCounts ==
    ASSUME TypeInv, pc = "move", MoveNext # None
    PROVE  LET p == MoveNext
               moved == {q \in ValidPages : MoveRank(q) <= MoveRank(p)}
           IN  /\ MoveTo(p) \in Nat /\ MoveTo(p) < BANKS * Cardinality(moved)
               /\ MoveTo(p) < BANKS * Cardinality(ValidPages)
<1> DEFINE p == MoveNext
           moved == {q \in ValidPages : MoveRank(q) <= MoveRank(p)}
           n == Cardinality(moved)
           v == Cardinality(ValidPages)
<1>1. p \in ValidPages /\ p \in Pages /\ (job.p = -1 \/ MoveRank(p) > MoveRank(job.p)) /\ p \in moved
  <2>1. p \in ValidPages /\ p \in Pages /\ (job.p = -1 \/ MoveRank(p) > MoveRank(job.p))
    BY MoveNextOK DEF ValidPages
  <2> HIDE DEF p
  <2>2. MoveRank(p) <= MoveRank(p)
    BY <2>1, RankOK
  <2> QED BY <2>1, <2>2
<1>2. moved \in SUBSET ValidPages /\ n \in Nat /\ v \in Nat /\ n <= v /\ IsFiniteSet(moved)
  <2>1. moved \in SUBSET ValidPages
    OBVIOUS
  <2> HIDE DEF moved
  <2> QED BY <2>1, ValidCount
<1>3. p % BANKS \in Nat /\ p % BANKS < BANKS /\ BANKS \in Nat /\ BANKS > 0
  BY <1>1, Remainder, Geometry DEF Pages
<1> HIDE DEF p
<1>4. MoveTo(p) \in Nat /\ MoveTo(p) < BANKS * n
  <2>1. CASE job.dst # None /\ job.p # -1 /\ job.p % BANKS = p % BANKS
    <3> DEFINE done == MovedPages
               m == Cardinality(done)
    <3>1. job.p \in Pages /\ job.dst \in Nat /\ job.dst < BANKS * m
      BY <2>1 DEF TypeInv, PagesNamed, Moving
    <3>2. done \in SUBSET ValidPages /\ done \subseteq moved /\ p \notin done
      <4>1. MoveRank(p) \in Nat /\ MoveRank(job.p) \in Nat /\ MoveRank(p) > MoveRank(job.p)
        BY <1>1, <2>1, <3>1, RankOK
      <4>2. \A q \in done : MoveRank(q) \in Nat /\ q \in ValidPages
        BY RankOK DEF MovedPages, ValidPages
      <4>3. \A q \in done : MoveRank(q) <= MoveRank(job.p)
        BY DEF MovedPages
      <4> HIDE DEF done
      <4> QED BY <4>1, <4>2, <4>3
    <3>3. IsFiniteSet(done) /\ m \in Nat
      BY <3>2, ValidCount
    <3> HIDE DEF done
    <3>4. IsFiniteSet(done \union {p}) /\ Cardinality(done \union {p}) = m + 1
      BY <3>2, <3>3, FS_AddElement
    <3>5. done \union {p} \subseteq moved
      BY <1>1, <3>2
    <3>6. m + 1 <= n
      <4> HIDE DEF moved
      <4> QED BY <1>2, <3>4, <3>5, FS_Subset
    <3> HIDE DEF m, n
    <3>7. BANKS * n >= BANKS * (m + 1)
      <4>1. PICK e \in Nat : n = m + 1 + e
        <5>1. n - (m + 1) \in Nat /\ n = m + 1 + (n - (m + 1))
          BY <1>2, <3>3, <3>6
        <5> QED BY <5>1
      <4>2. BANKS * n = BANKS * (m + 1) + BANKS * e /\ BANKS * e \in Nat /\ BANKS * (m + 1) \in Nat
        BY <1>3, <3>3, <4>1
      <4> QED BY <4>2
    <3>8. BANKS * (m + 1) = BANKS * m + BANKS /\ BANKS * m \in Nat /\ BANKS * n \in Nat
      BY <1>2, <1>3, <3>3
    <3>9. MoveTo(p) = job.dst + BANKS
      BY <2>1 DEF MoveTo
    <3> QED BY <1>3, <3>1, <3>7, <3>8, <3>9
  <2>2. CASE ~(job.dst # None /\ job.p # -1 /\ job.p % BANKS = p % BANKS)
    <3>1. MoveTo(p) = p % BANKS
      BY <2>2 DEF MoveTo
    <3>2. n # 0
      BY <1>1, <1>2, FS_EmptySet
    <3> HIDE DEF n
    <3>3. n - 1 \in Nat /\ BANKS * n = BANKS + BANKS * (n - 1) /\ BANKS * (n - 1) \in Nat
      BY <1>2, <1>3, <3>2
    <3> QED BY <1>3, <3>1, <3>3
  <2> QED BY <2>1, <2>2
<1>5. MoveTo(p) < BANKS * v
  <2> HIDE DEF n, v
  <2>1. PICK e \in Nat : v = n + e
    <3>1. v - n \in Nat /\ v = n + (v - n)
      BY <1>2
    <3> QED BY <3>1
  <2>2. BANKS * v = BANKS * n + BANKS * e /\ BANKS * e \in Nat /\ BANKS * n \in Nat
    BY <1>2, <1>3, <2>1
  <2> QED BY <1>4, <2>2
<1> QED BY <1>4, <1>5 DEF p

\* A move merge that is done leaves more than a page line free.
LEMMA MoveRoom ==
    ASSUME TypeInv, pc = "move", NEW n \in Nat, n < BANKS * Cardinality(ValidPages) \/ n = 0
    PROVE  n + BANKS < PAGES
<1> DEFINE v == Cardinality(ValidPages)
<1>1. v \in Nat /\ BANKS \in Nat /\ PAGES \in Nat
  BY ValidCount, Geometry
<1>2. v < PAGES \div (BANKS + 1)
  BY DEF TypeInv, PagesNamed, Mode, FewValid
<1> HIDE DEF v
<1>3. BANKS * v + BANKS < PAGES /\ BANKS * v \in Nat
  BY <1>1, <1>2, FewRoom
<1> QED BY <1>1, <1>3 DEF v

LEMMA TypesMovePage0 == ASSUME TypeInv, MovePage0 PROVE TypeInv'
<1>1. /\ pc = "move" /\ job.dst = None
      /\ UNCHANGED <<bad, saved, dataBlk, logBlk, lastUsed, pmap, cached, mapDirty, clean, req, want>>
  BY DEF MovePage0, NeedsPage0
<1>2. Mode = "move" /\ job.blk \in Phys /\ logBlk \in Phys /\ job.kind = "move" /\ job \in Jobs /\ 0 \in Pages /\ 0 \in 0 .. PAGES
  BY <1>1, Geometry, Typed DEF TypeInv, BlocksNamed, Mode, Merges, RecordsOK, Jobs
<1>3. CASE Program(job.blk, 0, CopiedPage0(logBlk, 0, 0)) /\ job' = [job EXCEPT !.dst = 0] /\ UNCHANGED <<pc, bm, free, count>>
  <2>1. CopiedPage0(logBlk, 0, 0) \in Page
    BY <1>2, CopiedPageOK, Typed DEF TypeInv
  <2>2. flash' \in Blocks /\ flight' \in Flights
    BY <1>2, <1>3, <2>1, ProgramOK, Typed DEF TypeInv, Flights
  <2>3. job' \in Jobs /\ job'.kind = job.kind /\ job'.blk = job.blk /\ job'.p = job.p /\ job'.last = job.last
    BY <1>2, <1>3 DEF Jobs
  <2>4. RecordsOK' /\ TypeOK'
    BY <1>1, <1>3, <2>2, <2>3, SameLoad, Typed, TypedNext DEF TypeInv, RecordsOK
  <2>5. job.p = -1
    <3>1. Moving
      BY <1>1 DEF TypeInv, PagesNamed
    <3>2. ASSUME job.p # -1 PROVE job.dst # None
      BY <3>1, <3>2, NotNone DEF Moving
    <3> QED BY <1>1, <3>2
  <2>6. FewValid' = FewValid /\ (Moving => Moving')
    BY <1>1, <2>3, <2>5 DEF FewValid, ValidPages, Moving
  <2>7. BlocksNamed' /\ PagesNamed'
    BY <1>1, <1>2, <1>3, <2>3, <2>6 DEF TypeInv, BlocksNamed, PagesNamed, Mode, Merges
  <2> QED BY <2>4, <2>7 DEF TypeInv
<1>4. CASE CopyFails(0)
  <2>1. Mode \in Merges
    BY <1>2 DEF Merges
  <2> QED BY <1>1, <1>2, <1>4, <2>1, TypesCopyFails
<1> QED BY <1>3, <1>4 DEF MovePage0

LEMMA TypesMoveCopy == ASSUME TypeInv, MoveCopy PROVE TypeInv'
<1> DEFINE p == MoveNext
           to == MoveTo(p)
           page == IF to = 0 THEN CopiedPage0(logBlk, pmap[p], 0) ELSE flash[logBlk][pmap[p]]
           moved == {q \in ValidPages : MoveRank(q) <= MoveRank(p)}
<1>1. /\ pc = "move" /\ MoveNext # None
      /\ UNCHANGED <<bad, saved, dataBlk, logBlk, lastUsed, cached, mapDirty, clean, req, want>>
      /\ \/ /\ Program(job.blk, to, page)
            /\ pmap' = [pmap EXCEPT ![p] = to]
            /\ job' = [job EXCEPT !.p = p, !.dst = to, !.last = IF to > @ THEN to ELSE @]
            /\ UNCHANGED <<pc, bm, free, count>>
         \/ CopyFails(0) /\ UNCHANGED pmap
  BY Zenon DEF MoveCopy
<1>2. Mode = "move" /\ job.blk \in Phys /\ logBlk \in Phys /\ job.kind = "move" /\ job \in Jobs
  BY <1>1, Typed DEF TypeInv, BlocksNamed, Mode, Merges, RecordsOK, Jobs
<1>3. /\ p \in ValidPages /\ p \in Pages /\ pmap[p] \in Pages
      /\ to \in Nat /\ to < BANKS * Cardinality(moved) /\ to < BANKS * Cardinality(ValidPages)
  <2>1. p \in ValidPages
    BY <1>1, MoveNextOK
  <2>2. p \in Pages /\ pmap[p] \in Pages
    BY <2>1, Typed DEF TypeInv, ValidPages, Maps
  <2> QED BY <1>1, <2>1, <2>2, MoveCounts
<1> HIDE DEF p, to, page
<1>4. to \in Pages /\ 0 \in 0 .. PAGES /\ to # None
  <2>1. to + BANKS < PAGES
    BY <1>1, <1>3, MoveRoom
  <2> QED BY <1>3, <2>1, Geometry, NotNone DEF Pages
<1>5. CASE /\ Program(job.blk, to, page)
           /\ pmap' = [pmap EXCEPT ![p] = to]
           /\ job' = [job EXCEPT !.p = p, !.dst = to, !.last = IF to > @ THEN to ELSE @]
           /\ UNCHANGED <<pc, bm, free, count>>
  <2>1. page \in Page
    <3>1. CopiedPage0(logBlk, pmap[p], 0) \in Page
      BY <1>2, <1>3, CopiedPageOK, Typed DEF TypeInv
    <3>2. flash[logBlk][pmap[p]] \in Page
      BY <1>2, <1>3, Typed DEF TypeInv, Blocks
    <3> QED BY <3>1, <3>2 DEF page
  <2>2. flash' \in Blocks /\ flight' \in Flights
    BY <1>2, <1>4, <1>5, <2>1, ProgramOK, Typed DEF TypeInv, Flights
  <2>3. /\ job' \in Jobs /\ job'.kind = "move" /\ job'.blk = job.blk /\ job'.p = p /\ job'.dst = to
        /\ job'.last = to \/ job'.last = job.last
    <3>1. PICK l \in Nat : l = (IF to > job.last THEN to ELSE job.last)
      BY <1>2, <1>3 DEF Jobs
    <3>2. job' = [job EXCEPT !.p = p, !.dst = to, !.last = l]
      BY <1>2, <1>5, <3>1 DEF Jobs
    <3>3. p \in Int
      BY <1>3 DEF Pages
    <3> QED BY <1>2, <1>3, <3>1, <3>2, <3>3 DEF Jobs
  <2>4. pmap' \in Maps /\ ValidPages' = ValidPages
    BY <1>3, <1>4, <1>5, Typed DEF TypeInv, Maps, ValidPages
  <2>5. RecordsOK' /\ TypeOK'
    BY <1>1, <1>5, <2>2, <2>3, <2>4, SameLoad, Typed, TypedNext DEF TypeInv, RecordsOK
  <2>6. FewValid'
    BY <1>2, <2>4 DEF TypeInv, PagesNamed, FewValid
  <2>7. MovedPages' = moved
    BY <2>3, <2>4 DEF MovedPages, MoveRank
  <2>8. Moving'
    <3>1. Moving
      BY <1>1 DEF TypeInv, PagesNamed
    <3>2. job'.last = 0 \/ job'.last < BANKS * Cardinality(ValidPages')
      BY <1>3, <2>3, <2>4, <3>1 DEF Moving
    <3> QED BY <1>3, <2>3, <2>7, <3>2 DEF Moving
  <2>9. BlocksNamed'
    BY <1>1, <1>2, <1>5, <2>3 DEF TypeInv, BlocksNamed, Mode, Merges
  <2>10. PagesNamed'
    BY <1>1, <1>2, <1>5, <2>3, <2>6, <2>8 DEF TypeInv, PagesNamed, Mode, Merges
  <2> QED BY <2>5, <2>9, <2>10 DEF TypeInv
<1>6. CASE CopyFails(0) /\ UNCHANGED pmap
  <2>1. Mode \in Merges
    BY <1>2 DEF Merges
  <2> QED BY <1>1, <1>4, <1>6, <2>1, TypesCopyFails
<1> QED BY <1>1, <1>5, <1>6

LEMMA TypesMoveDone == ASSUME TypeInv, MoveDone PROVE TypeInv'
<1>1. /\ pc = "move" /\ pc' = "erase" /\ job' = [job EXCEPT !.toErase = <<logBlk>>]
      /\ UNCHANGED <<flash, bad, saved, dataBlk, logBlk, lastUsed, pmap, cached, mapDirty, free, clean, req, bm, flight, want, count>>
  BY DEF MoveDone, tables
<1>2. Mode = "move" /\ job.blk # None /\ logBlk \in Phys /\ job.kind = "move" /\ job \in Jobs
  BY <1>1, Typed DEF TypeInv, BlocksNamed, Mode, Merges, RecordsOK
<1>3. job' \in Jobs /\ job'.kind = "move" /\ job'.blk = job.blk /\ job'.last = job.last
  <2>1. <<logBlk>> \in Seq(Phys)
    BY <1>2
  <2> QED BY <1>1, <1>2, <2>1, ToEraseOK
<1>4. job.last + BANKS < PAGES
  <2>1. Moving /\ job.last \in Nat
    BY <1>1, <1>2 DEF TypeInv, PagesNamed, Jobs
  <2> QED BY <1>1, <2>1, MoveRoom DEF Moving
<1>5. RecordsOK' /\ TypeOK'
  BY <1>1, <1>3, SameLoad, Typed, TypedNext DEF TypeInv, RecordsOK, Controls
<1>6. BlocksNamed' /\ PagesNamed'
  BY <1>1, <1>2, <1>3, <1>4 DEF TypeInv, BlocksNamed, PagesNamed, Mode, Merges
<1> QED BY <1>5, <1>6 DEF TypeInv

LEMMA TypesSimpleCopy == ASSUME TypeInv, SimpleCopy PROVE TypeInv'
<1> DEFINE inData == pmap[job.p] = None
           b == IF inData THEN dataBlk ELSE logBlk
           p == IF inData THEN job.p ELSE pmap[job.p]
           page == IF job.p = 0 THEN CopiedPage0(b, p, SeqPlus(inData)) ELSE flash[b][p]
<1>1. /\ pc = "simple" /\ job.p < PAGES
      /\ UNCHANGED <<bad, saved, dataBlk, logBlk, lastUsed, pmap, cached, mapDirty, clean, req, want>>
      /\ \/ /\ Program(job.blk, job.p, page) /\ job' = [job EXCEPT !.p = @ + 1]
            /\ UNCHANGED <<pc, bm, free, count>>
         \/ CopyFails(job.p)
  BY Zenon DEF SimpleCopy
<1>2. /\ Mode = "simple" /\ job.blk \in Phys /\ job.p \in Nat /\ dataBlk \in Phys /\ logBlk \in Phys
      /\ job.kind = "simple" /\ job \in Jobs
  BY <1>1, Typed DEF TypeInv, BlocksNamed, PagesNamed, Mode, Merges, RecordsOK, Jobs
<1>3. job.p \in Pages /\ job.p \in 0 .. PAGES
  BY <1>1, <1>2, Geometry DEF Pages
<1>4. b \in Phys /\ p \in Pages
  BY <1>2, <1>3, Typed DEF TypeInv, Maps
<1>5. page \in Page
  <2>1. SeqPlus(inData) \in Nat
    BY DEF SeqPlus
  <2> HIDE DEF b, p, inData
  <2>2. CopiedPage0(b, p, SeqPlus(inData)) \in Page
    BY <1>4, <2>1, CopiedPageOK, Typed DEF TypeInv
  <2>3. flash[b][p] \in Page
    BY <1>4, Typed DEF TypeInv, Blocks
  <2> QED BY <2>2, <2>3
<1> HIDE DEF page
<1>6. CASE Program(job.blk, job.p, page) /\ job' = [job EXCEPT !.p = @ + 1] /\ UNCHANGED <<pc, bm, free, count>>
  <2>1. flash' \in Blocks /\ flight' \in Flights
    BY <1>2, <1>3, <1>5, <1>6, ProgramOK, Typed DEF TypeInv, Flights
  <2>2. job' \in Jobs /\ job'.p \in Nat /\ job'.kind = job.kind /\ job'.blk = job.blk
    BY <1>2, <1>6 DEF Jobs
  <2>3. RecordsOK' /\ TypeOK'
    BY <1>1, <1>6, <2>1, <2>2, SameLoad, Typed, TypedNext DEF TypeInv, RecordsOK
  <2>4. BlocksNamed' /\ PagesNamed'
    BY <1>1, <1>2, <1>6, <2>2 DEF TypeInv, BlocksNamed, PagesNamed, Mode, Merges
  <2> QED BY <2>3, <2>4 DEF TypeInv
<1>7. CASE CopyFails(job.p)
  <2>1. Mode \in Merges
    BY <1>2 DEF Merges
  <2> QED BY <1>1, <1>3, <1>7, <2>1, TypesCopyFails
<1> QED BY <1>1, <1>6, <1>7

LEMMA TypesSimpleDone == ASSUME TypeInv, SimpleDone PROVE TypeInv'
<1>1. /\ pc = "simple" /\ pc' = "erase" /\ dataBlk' = job.blk /\ job' = [job EXCEPT !.toErase = <<dataBlk, logBlk>>]
      /\ UNCHANGED <<flash, bad, saved, logBlk, lastUsed, pmap, cached, mapDirty, free, clean, req, bm, flight, want, count>>
  BY DEF SimpleDone
<1>2. job.blk \in Phys /\ dataBlk \in Phys /\ logBlk \in Phys /\ job.kind = "simple" /\ job \in Jobs
  BY <1>1, Typed DEF TypeInv, BlocksNamed, Mode, Merges, RecordsOK, Jobs
<1>3. job' \in Jobs /\ job'.kind = "simple"
  <2>1. <<dataBlk, logBlk>> \in Seq(Phys)
    BY <1>2
  <2> QED BY <1>1, <1>2, <2>1, ToEraseOK
<1>4. RecordsOK' /\ TypeOK'
  BY <1>1, <1>2, <1>3, SameLoad, Typed, TypedNext DEF TypeInv, RecordsOK, Controls
<1>5. BlocksNamed' /\ PagesNamed'
  BY <1>1, <1>2, <1>3, NotNone DEF TypeInv, BlocksNamed, PagesNamed, Mode, Merges
<1> QED BY <1>4, <1>5 DEF TypeInv

LEMMA TypesEraseBlk == ASSUME TypeInv, EraseBlk PROVE TypeInv'
<1> DEFINE b == job.toErase[1]
<1>1. /\ pc = "erase" /\ job.toErase # <<>> /\ free' = free \union {b} /\ flight' = {}
      /\ job' = [job EXCEPT !.toErase = Tail(@)]
      /\ UNCHANGED <<saved, dataBlk, logBlk, lastUsed, pmap, cached, mapDirty, clean, pc, req, bm, want>>
      /\ \/ flash' = [flash EXCEPT ![b] = ErasedBlock] /\ UNCHANGED <<bad, count>>
         \/ EraseFailed /\ flash' = [flash EXCEPT ![b] = MarkedBad] /\ bad' = bad \union {b}
  BY Zenon DEF EraseBlk
<1>2. job \in Jobs /\ job.toErase \in Seq(Phys)
  BY DEF TypeInv, RecordsOK, Jobs
<1>3. b \in Phys /\ Tail(job.toErase) \in Seq(Phys)
  BY <1>1, <1>2
<1>4. job' \in Jobs /\ job'.kind = job.kind /\ job'.p = job.p /\ job'.blk = job.blk /\ job'.last = job.last
  <2>1. job' = [job EXCEPT !.toErase = Tail(job.toErase)]
    BY <1>1, <1>2 DEF Jobs
  <2> QED BY <1>2, <1>3, <2>1, ToEraseOK
<1>5. count' \in Counts /\ count'.load = count.load /\ count'.writes = count.writes
  BY <1>1 DEF EraseFailed, TypeInv, RecordsOK, Counts
<1> HIDE DEF b
<1>6. flash' \in Blocks /\ bad' \subseteq Phys
  BY <1>1, <1>3, ConstantPages, LoadOK, Typed DEF TypeInv, Blocks
<1>7. RecordsOK' /\ TypeOK'
  BY <1>1, <1>3, <1>4, <1>5, <1>6, SameLoad, Typed, TypedNext DEF TypeInv, RecordsOK, Flights
<1>8. BlocksNamed' /\ PagesNamed'
  BY <1>1, <1>4 DEF TypeInv, BlocksNamed, PagesNamed, Mode, Merges
<1> QED BY <1>7, <1>8 DEF TypeInv

LEMMA TypesMergeDone == ASSUME TypeInv, MergeDone PROVE TypeInv'
<1>1. /\ pc = "erase" /\ pc' = AfterMerge /\ job' = NoJob
      /\ UNCHANGED <<flash, bad, saved, dataBlk, free, clean, req, bm, flight, want, count>>
  BY DEF MergeDone
<1>2. /\ pc' \in {"getlog", "table", "idle"}
      /\ pc' = "getlog" => req.lp # None
      /\ pc' = "table" => job.kind = "move"
  BY <1>1 DEF AfterMerge
<1>3. job \in Jobs /\ NoJob \in Jobs /\ NoMap \in Maps
  BY LoadOK DEF TypeInv, RecordsOK, NoMap, Maps
<1>4. CASE job.kind = "move" /\ logBlk' = job.blk /\ lastUsed' = job.last /\ UNCHANGED <<pmap, cached, mapDirty>>
  <2>1. job.blk \in Phys /\ job.last \in Nat /\ job.last + BANKS < PAGES /\ job.blk # None
    BY <1>1, <1>3, <1>4 DEF TypeInv, BlocksNamed, PagesNamed, Jobs
  <2>2. job.last \in Pages /\ job.last + 1 < PAGES /\ job.last # None
    BY <2>1, Geometry, NotNone DEF Pages
  <2>3. RecordsOK' /\ TypeOK'
    BY <1>1, <1>2, <1>3, <1>4, <2>1, <2>2, SameLoad, Typed, TypedNext DEF TypeInv, RecordsOK, Controls
  <2>4. BlocksNamed' /\ PagesNamed'
    BY <1>1, <1>2, <1>4, <2>1, <2>2 DEF TypeInv, BlocksNamed, PagesNamed, Mode, Merges
  <2> QED BY <2>3, <2>4 DEF TypeInv
<1>5. CASE /\ job.kind # "move" /\ logBlk' = None /\ lastUsed' = None /\ pmap' = NoMap /\ cached' = FALSE /\ mapDirty' = FALSE
  <2>1. RecordsOK' /\ TypeOK'
    BY <1>1, <1>2, <1>3, <1>5, SameLoad, Typed, TypedNext DEF TypeInv, RecordsOK, Controls
  <2>2. BlocksNamed' /\ PagesNamed'
    BY <1>1, <1>2, <1>5 DEF TypeInv, BlocksNamed, PagesNamed, Mode, Merges
  <2> QED BY <2>1, <2>2 DEF TypeInv
<1> QED BY <1>4, <1>5 DEF MergeDone

LEMMA TypesRestorePageData == ASSUME TypeInv, RestorePageData PROVE TypeInv'
<1>1. /\ pc = "restore" /\ bm.p < bm.n /\ Program(bm.new, bm.p, flash[bm.bad][bm.p]) /\ bm' = [bm EXCEPT !.p = @ + 1]
      /\ UNCHANGED <<bad, saved, dataBlk, logBlk, lastUsed, pmap, cached, mapDirty, free, clean, pc, req, job, want, count>>
  BY DEF RestorePageData, tables
<1>2. bm \in BadJobs /\ bm.bad \in Phys /\ bm.new \in Phys
  BY <1>1 DEF TypeInv, BlocksNamed, RecordsOK, BadJobs
<1>3. bm.p \in Pages
  <2>1. bm.p \in Nat /\ bm.n \in 0 .. PAGES
    BY <1>2 DEF BadJobs
  <2> QED BY <1>1, <2>1, Geometry DEF Pages
<1>4. flash[bm.bad][bm.p] \in Page
  BY <1>2, <1>3, Typed DEF TypeInv, Blocks
<1>5. flash' \in Blocks /\ flight' \in Flights
  BY <1>1, <1>2, <1>3, <1>4, ProgramOK, Typed DEF TypeInv, Flights
<1>6. bm' \in BadJobs /\ bm'.bad = bm.bad /\ bm'.new = bm.new /\ bm'.ret = bm.ret
  BY <1>1, <1>2 DEF BadJobs
<1>7. RecordsOK' /\ TypeOK'
  BY <1>1, <1>5, <1>6, SameLoad, Typed, TypedNext DEF TypeInv, RecordsOK
<1>8. BlocksNamed' /\ PagesNamed'
  <2>1. FewValid' = FewValid /\ Mode' = Mode
    BY <1>1, <1>6 DEF FewValid, ValidPages, Mode
  <2> QED BY <1>1, <1>6, <2>1 DEF TypeInv, BlocksNamed, PagesNamed
<1> QED BY <1>7, <1>8 DEF TypeInv

LEMMA TypesRestoreFails == ASSUME TypeInv, RestoreFails PROVE TypeInv'
<1>1. /\ pc = "restore" /\ Failed /\ LML_BadBlkManage(bm.bad, bm.n, bm.ret)
      /\ flash' = [flash EXCEPT ![bm.new] = MarkedBad] /\ bad' = bad \union {bm.new} /\ flight' = {}
      /\ UNCHANGED <<saved, dataBlk, logBlk, lastUsed, pmap, cached, mapDirty, clean, req, want>>
  BY DEF RestoreFails
<1>2. bm.bad \in Phys /\ bm.new \in Phys /\ bm.n \in 0 .. PAGES /\ bm.ret \in Returned /\ Mode = bm.ret
  BY <1>1 DEF TypeInv, BlocksNamed, RecordsOK, BadJobs, Mode
<1>3. flash' \in Blocks /\ bad' \subseteq Phys /\ flight' \in Flights /\ want' \in Wants
  BY <1>1, <1>2, ConstantPages, LoadOK, Typed DEF TypeInv, Blocks, Flights
<1> QED BY <1>1, <1>2, <1>3, TypesSpare

\* A move merge starts over.
Redone(j, b) == [j EXCEPT !.blk = b, !.p = -1, !.dst = None, !.last = 0]

LEMMA RedoOK ==
    ASSUME NEW j \in Jobs, NEW b \in Phys
    PROVE  /\ Redone(j, b) \in Jobs /\ Redone(j, b).kind = j.kind /\ Redone(j, b).p = -1
           /\ Redone(j, b).blk = b /\ Redone(j, b).last = 0 /\ Redone(j, b).toErase = j.toErase
<1> PICK m \in Int : m = -1
  OBVIOUS
<1>1. LET k == [j EXCEPT !.blk = b, !.p = m, !.dst = None, !.last = 0]
      IN  /\ k \in Jobs /\ k.kind = j.kind /\ k.p = m /\ k.blk = b
          /\ k.last = 0 /\ k.toErase = j.toErase
  BY DEF Jobs
<1> QED BY <1>1 DEF Redone

LEMMA TypesMarkBadBlk == ASSUME TypeInv, MarkBadBlk PROVE TypeInv'
<1>1. /\ pc = "restore" /\ pc' = bm.ret /\ bm' = NoBad /\ flight' = {}
      /\ flash' = [flash EXCEPT ![bm.bad] = MarkedBad] /\ bad' = bad \union {bm.bad}
      /\ saved' = [saved EXCEPT ![bm.new] = saved[bm.bad]]
      /\ dataBlk' = IF bm.ret = "datainfo" THEN bm.new ELSE dataBlk
      /\ logBlk' = IF bm.ret \in {"loginfo", "program", "idle", "table"} THEN bm.new ELSE logBlk
      /\ UNCHANGED <<lastUsed, pmap, cached, mapDirty, free, clean, req, want, count>>
  BY DEF MarkBadBlk, Replaced
<1>2. job' = CASE bm.ret \in {"swap", "simple"} -> [job EXCEPT !.blk = bm.new]
               [] bm.ret = "move" -> [job EXCEPT !.blk = bm.new, !.p = -1, !.dst = None, !.last = 0]
               [] OTHER -> job
  BY DEF MarkBadBlk
<1>3. /\ bm.bad \in Phys /\ bm.new \in Phys /\ bm.ret \in Returned /\ Mode = bm.ret /\ job \in Jobs
      /\ bm.bad # None /\ bm.new # None
  BY <1>1 DEF TypeInv, BlocksNamed, RecordsOK, BadJobs, Mode
<1>4. /\ job' \in Jobs /\ job'.kind = job.kind
      /\ bm.ret \in Merges => job'.blk = bm.new
      /\ bm.ret \in {"swap", "simple"} => job'.p = job.p
      /\ bm.ret = "move" => job'.p = -1 /\ job'.last = 0
  <2>1. CASE bm.ret \in {"swap", "simple"}
    <3>1. job' = [job EXCEPT !.blk = bm.new]
      BY <1>2, <2>1
    <3> QED BY <1>3, <2>1, <3>1 DEF Jobs
  <2>2. CASE bm.ret = "move"
    <3>1. job' = Redone(job, bm.new)
      BY <1>2, <2>2 DEF Redone
    <3>2. bm.new \in Phys /\ job \in Jobs
      BY <1>3
    <3>3. job' \in Jobs /\ job'.kind = job.kind /\ job'.p = -1 /\ job'.blk = bm.new /\ job'.last = 0
      BY <3>1, <3>2, RedoOK
    <3> QED BY <2>2, <3>3
  <2>3. CASE bm.ret \notin Merges
    <3>1. job' = job
      BY <1>2, <2>3 DEF Merges
    <3> QED BY <1>3, <2>3, <3>1 DEF Merges
  <2> QED BY <2>1, <2>2, <2>3 DEF Merges
<1>5. flash' \in Blocks /\ bad' \subseteq Phys /\ saved' \in [Phys -> Maps]
  BY <1>1, <1>3, ConstantPages, LoadOK, Typed DEF TypeInv, Blocks
<1>6. dataBlk' \in Phys \union {None} /\ logBlk' \in Phys \union {None} /\ pc' \in Controls
  BY <1>1, <1>3, Typed DEF TypeInv, Returned, Controls
<1>7. RecordsOK'
  BY <1>1, <1>4, SameLoad, LoadOK DEF TypeInv, RecordsOK
<1>8. TypeOK'
  BY <1>1, <1>5, <1>6, SameLoad, Typed, TypedNext DEF TypeInv, Flights
<1>9. Mode' = Mode /\ pc' = Mode
  BY <1>1, <1>3 DEF Mode, Returned
<1>10. BlocksNamed'
  BY <1>1, <1>3, <1>4, <1>9 DEF TypeInv, BlocksNamed, Merges, Returned
<1>11. PagesNamed'
  <2>1. FewValid' = FewValid
    BY <1>1 DEF FewValid, ValidPages
  <2>2. bm.ret = "move" => Moving'
    BY <1>4 DEF Moving
  <2> QED BY <1>1, <1>3, <1>4, <1>9, <2>1, <2>2 DEF TypeInv, PagesNamed, Returned
<1> QED BY <1>7, <1>8, <1>10, <1>11 DEF TypeInv

LEMMA TypesPowerCut == ASSUME TypeInv, PowerCut PROVE TypeInv'
<1>1. /\ pc' = "off" /\ flight' = {} /\ job' = NoJob /\ bm' = NoBad /\ count' = [count EXCEPT !.cuts = @ + 1]
      /\ pc # "off"
      /\ UNCHANGED <<bad, saved, dataBlk, logBlk, lastUsed, pmap, cached, mapDirty, free, clean, req>>
  BY DEF PowerCut, tables
<1>2. flash \in Blocks /\ want \in Wants
  BY Typed DEF TypeInv
<1>3. flash' \in Blocks /\ want' \in Wants
  <2>1. PICK gone \in SUBSET flight, ruined \in SUBSET {f \in flight : TearsAs(f) \in Torn} :
          LET at(b, p, s) == \E f \in s : f.b = b /\ f.p = p
              whole == [b \in Phys |-> [p \in Pages |->
                           CASE at(b, p, gone) -> Erased
                             [] ~at(b, p, gone) /\ at(b, p, ruined) -> [flash[b][p] EXCEPT !.val = Junk]
                             [] OTHER -> flash[b][p]]]
              torn(b, banks) == [p \in Pages |-> IF p % BANKS \in banks THEN Erased ELSE flash[b][p]]
          IN  /\ \/ flash' = whole
                 \/ \E banks \in SUBSET (0 .. BANKS - 1) :
                          flash' = [flash EXCEPT ![job.toErase[1]] = torn(job.toErase[1], banks)]
              /\ want' = [i \in Pages |->
                             IF \E f \in gone \union ruined : f.user /\ flash[f.b][f.p].lp = i
                             THEN Any ELSE want[i]]
    BY DEF PowerCut
  <2>2. want' \in Wants
    BY <1>2, <2>1 DEF Wants
  <2>3. Erased \in Page
    BY ConstantPages, LoadOK DEF TypeInv
  <2>4. ASSUME NEW banks, flash' = [flash EXCEPT ![job.toErase[1]] =
                    [p \in Pages |-> IF p % BANKS \in banks THEN Erased ELSE flash[job.toErase[1]][p]]]
        PROVE  flash' \in Blocks
    <3> DEFINE b == job.toErase[1]
               t == [p \in Pages |-> IF p % BANKS \in banks THEN Erased ELSE flash[b][p]]
    <3>1. b \in Phys => t \in [Pages -> Page]
      BY <1>2, <2>3 DEF Blocks
    <3>2. flash' = [flash EXCEPT ![b] = t]
      BY <2>4
    <3> HIDE DEF b, t
    <3> QED BY <1>2, <3>1, <3>2 DEF Blocks
  <2>5. ASSUME flash' = [b \in Phys |-> [p \in Pages |->
                           CASE \E f \in gone : f.b = b /\ f.p = p -> Erased
                             [] /\ ~\E f \in gone : f.b = b /\ f.p = p
                                /\ \E f \in ruined : f.b = b /\ f.p = p -> [flash[b][p] EXCEPT !.val = Junk]
                             [] OTHER -> flash[b][p]]]
        PROVE  flash' \in Blocks
    <3> DEFINE c(b, p) == CASE \E f \in gone : f.b = b /\ f.p = p -> Erased
                            [] /\ ~\E f \in gone : f.b = b /\ f.p = p
                               /\ \E f \in ruined : f.b = b /\ f.p = p -> [flash[b][p] EXCEPT !.val = Junk]
                            [] OTHER -> flash[b][p]
    <3>1. ASSUME NEW b \in Phys, NEW p \in Pages
          PROVE  c(b, p) \in Page
      <4>1. flash[b][p] \in Page
        BY <1>2 DEF Blocks
      <4>2. [flash[b][p] EXCEPT !.val = Junk] \in Page
        BY <4>1 DEF Page
      <4>3. c(b, p) \in {Erased, [flash[b][p] EXCEPT !.val = Junk], flash[b][p]}
        <5> PICK x : x = [flash[b][p] EXCEPT !.val = Junk]
          OBVIOUS
        <5> PICK y : y = flash[b][p]
          OBVIOUS
        <5> PICK A \in BOOLEAN : A <=> \E f \in gone : f.b = b /\ f.p = p
          OBVIOUS
        <5> PICK B \in BOOLEAN : B <=> \E f \in ruined : f.b = b /\ f.p = p
          OBVIOUS
        <5>1. c(b, p) = CASE A -> Erased [] ~A /\ B -> x [] OTHER -> y
          OBVIOUS
        <5> HIDE DEF c
        <5> QED BY <5>1
      <4> HIDE DEF c
      <4> QED BY <2>3, <4>1, <4>2, <4>3
    <3>2. flash' = [b \in Phys |-> [p \in Pages |-> c(b, p)]]
      BY <2>5
    <3> HIDE DEF c
    <3> QED BY <3>1, <3>2 DEF Blocks
  <2>6. flash' \in Blocks
    BY <2>1, <2>4, <2>5, Zenon
  <2> QED BY <2>2, <2>6
<1>4. count' \in Counts /\ count'.load = count.load /\ count'.writes = count.writes
  BY <1>1 DEF TypeInv, RecordsOK, Counts
<1>5. RecordsOK' /\ TypeOK'
  BY <1>1, <1>3, <1>4, SameLoad, Typed, TypedNext, LoadOK DEF TypeInv, RecordsOK, Flights, Controls
<1>6. BlocksNamed' /\ PagesNamed'
  BY <1>1 DEF TypeInv, BlocksNamed, PagesNamed, Mode, Merges
<1> QED BY <1>5, <1>6 DEF TypeInv

LEMMA TypesLoadTables == ASSUME TypeInv, LoadTables PROVE TypeInv'
<1>1. /\ pc = "off" /\ clean /\ pmap' = NoMap /\ cached' = FALSE /\ mapDirty' = FALSE /\ pc' = "idle"
      /\ UNCHANGED <<flash, bad, saved, dataBlk, logBlk, lastUsed, free, clean, req, job, bm, flight, want, count>>
  BY DEF LoadTables
<1>2. NoMap \in Maps
  BY DEF NoMap, Maps
<1>3. RecordsOK' /\ TypeOK'
  BY <1>1, <1>2, SameLoad, Typed, TypedNext DEF TypeInv, RecordsOK, Controls
<1>4. BlocksNamed' /\ PagesNamed'
  BY <1>1 DEF TypeInv, BlocksNamed, PagesNamed, Mode, Merges
<1> QED BY <1>3, <1>4 DEF TypeInv

LEMMA TypesStartScan == ASSUME TypeInv, StartScan PROVE TypeInv'
<1>1. /\ pc = "off" /\ ~clean /\ pc' = "scan" /\ dataBlk' = None /\ logBlk' = None /\ job' = NoJob
      /\ UNCHANGED <<flash, bad, saved, lastUsed, pmap, cached, mapDirty, free, clean, req, bm, flight, want, count>>
  BY DEF StartScan
<1>2. NoJob \in Jobs /\ NoJob.p = 0
  BY LoadOK DEF TypeInv, NoJob
<1>3. RecordsOK' /\ TypeOK'
  BY <1>1, <1>2, SameLoad, Typed, TypedNext DEF TypeInv, RecordsOK, Controls
<1>4. BlocksNamed' /\ PagesNamed'
  BY <1>1, <1>2 DEF TypeInv, BlocksNamed, PagesNamed, Mode, Merges
<1> QED BY <1>3, <1>4 DEF TypeInv

\* What the scan makes of a block names that block or one it had found before.
LEMMA FillOK ==
    ASSUME NEW f, NEW d, NEW l, NEW b
    PROVE  LET r == FillBlkToZoneTbl(f, [data |-> d, log |-> l], b)
           IN  \/ d = None /\ r = [data |-> b, log |-> None, loser |-> None]
               \/ /\ d # None
                  /\ r \in {[data |-> b, log |-> l, loser |-> d], [data |-> d, log |-> l, loser |-> b],
                            [data |-> d, log |-> b, loser |-> l], [data |-> b, log |-> d, loser |-> l]}
               \/ d # None /\ l = None /\ r = [data |-> d, log |-> b, loser |-> None]
<1> DEFINE t == [data |-> d, log |-> l]
<1>1. t.data = d /\ t.log = l
  OBVIOUS
<1> HIDE DEF t
<1> DEFINE ageData == f[d][0].status
           ageNew == f[b][0].status
           older == CompareAge(ageNew, ageData) > 0
           next == ageNew # (ageData + 1) % 256
           prev == ageData = (ageNew + 1) % 256
           full1 == GetLastUsedPage(f, b) > GetLastUsedPage(f, d)
           full2 == GetLastUsedPage(f, b) > GetLastUsedPage(f, l)
           same == ageNew = ageData
           r == FillBlkToZoneTbl(f, t, b)
<1>2. r = CASE d = None -> [data |-> b, log |-> None, loser |-> None]
            [] d # None /\ same ->
                  IF full1 THEN [data |-> b, log |-> l, loser |-> d] ELSE [data |-> d, log |-> l, loser |-> b]
            [] d # None /\ ageNew # ageData /\ older ->
                  CASE next -> [data |-> d, log |-> l, loser |-> b]
                    [] ageNew = (ageData + 1) % 256 /\ l = None -> [data |-> d, log |-> b, loser |-> None]
                    [] OTHER -> IF full2 THEN [data |-> d, log |-> b, loser |-> l]
                                         ELSE [data |-> d, log |-> l, loser |-> b]
            [] OTHER -> IF prev THEN [data |-> b, log |-> d, loser |-> l] ELSE [data |-> b, log |-> l, loser |-> d]
  BY <1>1, Zenon DEF FillBlkToZoneTbl
<1>3. (ageNew # ageData) <=> ~same
  OBVIOUS
<1> HIDE DEF ageData, ageNew, older, next, prev, full1, full2, same, r
<1>4. CASE d = None
  <2>1. r = [data |-> b, log |-> None, loser |-> None]
    BY <1>2, <1>4
  <2> QED BY <1>4, <2>1 DEF r, t
<1>5. CASE d # None /\ same
  <2>1. r = [data |-> b, log |-> l, loser |-> d] \/ r = [data |-> d, log |-> l, loser |-> b]
    BY <1>2, <1>3, <1>5
  <2> QED BY <1>5, <2>1 DEF r, t
<1>6. CASE d # None /\ ~same /\ older
  <2>1. \/ r = [data |-> d, log |-> l, loser |-> b]
        \/ l = None /\ r = [data |-> d, log |-> b, loser |-> None]
        \/ r = [data |-> d, log |-> b, loser |-> l]
    BY <1>2, <1>3, <1>6
  <2> QED BY <1>6, <2>1 DEF r, t
<1>7. CASE d # None /\ ~same /\ ~older
  <2>1. r = [data |-> b, log |-> d, loser |-> l] \/ r = [data |-> b, log |-> l, loser |-> d]
    BY <1>2, <1>3, <1>7
  <2> QED BY <1>7, <2>1 DEF r, t
<1> QED BY <1>4, <1>5, <1>6, <1>7

LEMMA TypesScanBlk == ASSUME TypeInv, ScanBlk PROVE TypeInv'
<1>1. /\ pc = "scan" /\ job.p < BLOCKS /\ job' = [job EXCEPT !.p = @ + 1]
      /\ UNCHANGED <<saved, lastUsed, pmap, cached, mapDirty, free, clean, pc, req, bm, flight, want>>
  BY DEF ScanBlk
<1>2. job \in Jobs /\ job.p \in Nat /\ job.p \in Phys /\ ~clean
  BY <1>1, BlocksAssumption DEF TypeInv, RecordsOK, BlocksNamed, PagesNamed, Phys
<1>3. job' \in Jobs /\ job'.p \in Nat
  BY <1>1, <1>2 DEF Jobs
<1>4. /\ dataBlk' \in Phys \union {None} /\ logBlk' \in Phys \union {None}
      /\ flash' \in Blocks /\ bad' \subseteq Phys
      /\ count' \in Counts /\ count'.load = count.load /\ count'.writes = count.writes
  <2>1. CASE Scanned(flash, job.p)
    <3> DEFINE r == FillBlkToZoneTbl(flash, [data |-> dataBlk, log |-> logBlk], job.p)
    <3>1. /\ dataBlk' = r.data /\ logBlk' = r.log
          /\ \/ flash' = (IF r.loser = None THEN flash ELSE [flash EXCEPT ![r.loser] = ErasedBlock]) /\ UNCHANGED <<bad, count>>
             \/ r.loser # None /\ EraseFailed /\ flash' = [flash EXCEPT ![r.loser] = MarkedBad] /\ bad' = bad \union {r.loser}
      BY <2>1, Zenon DEF ScanBlk
    <3>2. r.data \in Phys \union {None} /\ r.log \in Phys \union {None} /\ r.loser \in Phys \union {None}
      <4>1. dataBlk \in Phys \union {None} /\ logBlk \in Phys \union {None}
        BY Typed DEF TypeInv
      <4>2. \/ dataBlk = None /\ r = [data |-> job.p, log |-> None, loser |-> None]
            \/ /\ dataBlk # None
               /\ r \in {[data |-> job.p, log |-> logBlk, loser |-> dataBlk], [data |-> dataBlk, log |-> logBlk, loser |-> job.p],
                         [data |-> dataBlk, log |-> job.p, loser |-> logBlk], [data |-> job.p, log |-> dataBlk, loser |-> logBlk]}
            \/ dataBlk # None /\ logBlk = None /\ r = [data |-> dataBlk, log |-> job.p, loser |-> None]
        BY FillOK
      <4> HIDE DEF r
      <4> QED BY <1>2, <4>1, <4>2
    <3> HIDE DEF r
    <3>3. flash \in Blocks /\ ErasedBlock \in [Pages -> Page] /\ MarkedBad \in [Pages -> Page] /\ bad \subseteq Phys /\ count \in Counts
      BY ConstantPages, LoadOK, Typed DEF TypeInv, RecordsOK
    <3>4. flash' \in Blocks /\ bad' \subseteq Phys
      BY <3>1, <3>2, <3>3 DEF Blocks
    <3>5. count' \in Counts /\ count'.load = count.load /\ count'.writes = count.writes
      BY <3>1, <3>3 DEF EraseFailed, Counts
    <3> QED BY <3>1, <3>2, <3>4, <3>5
  <2>2. CASE ~Scanned(flash, job.p)
    BY <2>2, Typed DEF ScanBlk, TypeInv, RecordsOK
  <2> QED BY <2>1, <2>2
<1>5. RecordsOK' /\ TypeOK'
  BY <1>1, <1>3, <1>4, SameLoad, Typed, TypedNext DEF TypeInv, RecordsOK
<1>6. BlocksNamed' /\ PagesNamed'
  BY <1>1, <1>2, <1>3 DEF TypeInv, BlocksNamed, PagesNamed, Mode, Merges
<1> QED BY <1>5, <1>6 DEF TypeInv

LEMMA TypesScanDone == ASSUME TypeInv, ScanDone PROVE TypeInv'
<1>1. /\ pc = "scan" /\ pc' = "idle" /\ pmap' = NoMap /\ cached' = FALSE /\ mapDirty' = FALSE /\ clean' = TRUE /\ job' = NoJob
      /\ lastUsed' = IF logBlk = None THEN None ELSE GetLastUsedPage(flash, logBlk)
      /\ UNCHANGED <<flash, bad, saved, logBlk, req, bm, flight, want, count>>
  BY DEF ScanDone
<1>2. dataBlk' \in Phys /\ free' \subseteq Phys
  <2> DEFINE blank == {b \in Phys : b \notin bad /\ ~flash[b][0].info}
  <2>1. PICK d \in IF dataBlk = None THEN blank ELSE {dataBlk} : dataBlk' = d /\ free' = blank \ {d}
    BY DEF ScanDone
  <2>2. dataBlk # None => dataBlk \in Phys
    BY Typed DEF TypeInv
  <2> QED BY <2>1, <2>2
<1>3. lastUsed' \in Pages \union {None}
  BY <1>1, LastUsedPageOK
<1>4. NoMap \in Maps /\ NoJob \in Jobs /\ dataBlk' # None
  BY <1>2, LoadOK, NotNone DEF TypeInv, NoMap, Maps
<1>5. RecordsOK' /\ TypeOK'
  BY <1>1, <1>2, <1>3, <1>4, SameLoad, Typed, TypedNext DEF TypeInv, RecordsOK, Controls
<1>6. BlocksNamed' /\ PagesNamed'
  BY <1>1, <1>4 DEF TypeInv, BlocksNamed, PagesNamed, Mode, Merges
<1> QED BY <1>5, <1>6 DEF TypeInv

LEMMA TypesNext == ASSUME TypeInv, [Next]_vars PROVE TypeInv'
<1>1. CASE UNCHANGED vars
  <2>1. UNCHANGED <<flash, bad, saved, dataBlk, logBlk, lastUsed, pmap, cached, mapDirty, free,
                    clean, pc, req, job, bm, flight, want, count>>
    BY <1>1 DEF vars, tables
  <2>2. RecordsOK' /\ TypeOK'
    BY <2>1, SameLoad, Typed, TypedNext DEF TypeInv, RecordsOK
  <2>3. Mode' = Mode /\ FewValid' = FewValid /\ (Moving => Moving')
    BY <2>1 DEF Mode, FewValid, Moving, ValidPages, MovedPages
  <2>4. BlocksNamed' /\ PagesNamed'
    BY <2>1, <2>3 DEF TypeInv, BlocksNamed, PagesNamed
  <2> QED BY <2>2, <2>4 DEF TypeInv
<1>2. CASE Call
  <2>1. LML_PageRead => TypeInv'
    BY TypesSwitch DEF LML_PageRead
  <2> QED BY <1>2, <2>1, TypesPageWrite, TypesCloseWritePage, TypesEvictPageMap, TypesMergeOldest, TypesWriteBackMapTbl DEF Call
<1>3. CASE Step
  <2>1. SwitchForWrite => TypeInv'
    BY TypesSwitch DEF SwitchForWrite
  <2> QED BY <1>3, <2>1, TypesCreateNewLogBlk, TypesNoFreeBlk, TypesWriteDataInfo, TypesGetLogPage, TypesWriteLogInfo,
             TypesProgramPage, TypesSyncFails, TypesWriteFails, TypesWritePageMapTbl, TypesMergeLogBlk,
             TypesSwapCopy, TypesSwapDone, TypesMovePage0, TypesMoveCopy, TypesMoveDone, TypesSimpleCopy,
             TypesSimpleDone, TypesEraseBlk, TypesMergeDone, TypesRestorePageData, TypesRestoreFails,
             TypesMarkBadBlk, TypesLoadTables, TypesStartScan, TypesScanBlk, TypesScanDone DEF Step
<1> QED BY <1>1, <1>2, <1>3, TypesPowerCut DEF Next

\* Every state the driver and the flash can reach has its type, whatever is written,
\* whatever fails and wherever the power is cut: every log page and page map page that
\* is programmed lies in the block (PMM_GetLogPage, _write_back_page_map_tbl), and the
\* scan of a rebuild names blocks that exist (_FillBlkToZoneTbl, _GetLastUsedPage).
THEOREM Types == Spec => []TypeOK
<1>1. TypeInv => TypeOK
  BY DEF TypeInv
<1> QED BY <1>1, TypesInit, TypesNext, PTL DEF Spec

\* After a merge the log block has a page for the write.
LEMMA WriteHasRoom ==
    ASSUME TypeInv, pc = "getlog", req.again, logBlk # None
    PROVE  NextLogPage(lastUsed, req.lp) < PAGES
<1>1. req.lp \in Pages /\ lastUsed \in Pages \union {None}
  BY Typed DEF TypeInv, PagesNamed, Mode, RecordsOK, Requests
<1>2. lastUsed = None \/ lastUsed + BANKS < PAGES
  BY DEF TypeInv, PagesNamed
<1>3. lastUsed # None => lastUsed \in Nat
  BY <1>1 DEF Pages
<1> QED BY <1>1, <1>2, <1>3, NextLogPageRange, Geometry

\* "this mode should return a value page number except there is no enough valid
\* blocks" (LML_MergeLogBlk): a merge that a page write asked for always leaves a log
\* page for that write, also when the move merge is started over in another block.
THEOREM RoomForTheWrite == Spec => []RoomAfterMerge
<1>1. TypeInv => RoomAfterMerge
  BY WriteHasRoom DEF RoomAfterMerge
<1> QED BY <1>1, TypesInit, TypesNext, PTL DEF Spec
=============================================================================
