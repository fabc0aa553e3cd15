--------------------------- MODULE MapCacheProofs ---------------------------
(***************************************************************************)
(* Proofs about MapCache: the slots hold what the flash holds, and saved    *)
(* tables that the next start would accept are those of the blocks, for     *)
(* every number of zones, slots, log blocks and groups.                     *)
(***************************************************************************)
EXTENDS MapCache, FiniteSetTheorems, TLAPS

-----------------------------------------------------------------------------
(* The inductive invariant: types, where control stands, and the slots.     *)

PcNames == {"idle", "zone", "save", "table1", "table2", "table3", "load", "flag", "log", "page", "pflag", "pwrite",
            "pload", "merge", "write", "failed", "close", "leave", "off"}
SlotIds == 1 .. BLK_SLOTS
PageSlotIds == 1 .. PAGE_SLOTS
Positions == 1 .. LOGS
GroupIds == 1 .. GROUPS

Slots == [SlotIds -> [zone : Zones \union {None}, ver : Int, dirty : BOOLEAN, cnt : Nat]]
PageSlots == [PageSlotIds -> [zone : Zones \union {None}, log : Positions \union {None}, ver : Int, dirty : BOOLEAN, cnt : Nat]]
Log == [blk : Blocks \union {None}, len : 0 .. PAGES, last : {"none", "data", "table"}, tv : Int, ver : Int]
Group == [half1 : Int, half2 : Int, sum : Int, log : Int, flag : BOOLEAN]
Table == [area : BOOLEAN, groups : [GroupIds -> Group]]
Jobs == [pc : PcNames, why : {"zone", "page", "close"}, z : Zones \union {None}, b : Blocks \union {None}, w : BOOLEAN,
         p : Positions \union {None}, merge : BOOLEAN, back : 0 .. BLK_SLOTS, g : 0 .. GROUPS, sum : Int]
Losses == [failed : BOOLEAN, noZone : BOOLEAN, closed : BOOLEAN, flags : SUBSET Zones, sums : SUBSET Zones]

Typed ==
    /\ ver \in [Zones -> Nat] /\ spare \in [Zones -> 0 .. SPARES]
    /\ logs \in [Zones -> [Positions -> Log]] /\ tables \in [Zones -> Table]
    /\ slots \in Slots /\ pslots \in PageSlots
    /\ cur \in 0 .. BLK_SLOTS /\ pcur \in 0 .. PAGE_SLOTS /\ ctl \in Zones \union {None}
    /\ pst \in [Zones -> 0 .. GROUPS]
    /\ job \in Jobs /\ count \in [accesses : Nat, cuts : Nat, fails : Nat] /\ lost \in Losses

\* A slot or a log block without a name holds nothing that counts, and no table is twice
\* in a slot; a page map that must be written back has its zone's dirty block table.
SlotsNamed ==
    /\ \A i \in SlotIds : slots[i].dirty => slots[i].zone \in Zones
    /\ \A i \in PageSlotIds : pslots[i].dirty => pslots[i].zone \in Zones
    /\ \A i \in PageSlotIds : pslots[i].zone \in Zones =>
           pslots[i].log \in Positions /\ logs[pslots[i].zone][pslots[i].log].blk \in Blocks
    /\ \A z \in Zones, p \in Positions : logs[z][p].last = "table" => logs[z][p].blk \in Blocks
    /\ \A i, j \in SlotIds : slots[i].zone \in Zones /\ slots[i].zone = slots[j].zone => i = j
    /\ \A i, j \in PageSlotIds : pslots[i].zone \in Zones /\ pslots[i].zone = pslots[j].zone /\ pslots[i].log = pslots[j].log => i = j
    /\ \A i \in PageSlotIds : pslots[i].dirty => \E j \in SlotIds : slots[j].zone = pslots[i].zone /\ slots[j].dirty

Inside == {"flag", "log", "page", "pflag", "pwrite", "pload", "merge", "write"}
Saving == {"save"} \union TablePages

\* The slot of the zone that is accessed, while its page maps are looked for.
Home == IF job.pc \in {"pflag", "pwrite"} THEN job.back ELSE cur

AccessAt ==
    /\ job.pc = "idle" /\ ctl # None => cur \in SlotIds /\ CurZone = ctl
    /\ job.pc \in Inside => /\ Home \in SlotIds /\ job.z \in Zones /\ job.b \in Blocks
                            /\ ctl = job.z /\ slots[Home].zone = job.z
                            /\ job.pc # "flag" /\ job.w => slots[Home].dirty
    /\ job.pc = "zone" => job.z \in Zones /\ job.b \in Blocks /\ job.why = "zone"
PageAt ==
    /\ job.pc \in {"page", "pflag", "pwrite", "pload", "merge", "write"} =>
           job.p \in Positions /\ logs[job.z][job.p].blk \in Blocks /\ (job.merge => job.w)
    /\ job.pc \in {"pflag", "pwrite", "pload"} => /\ pcur \in PageSlotIds
                                                  /\ \A i \in PageSlotIds : ~(pslots[i].zone = job.z /\ pslots[i].log = job.p)
    /\ job.pc \in {"pflag", "pwrite"} => /\ cur \in SlotIds /\ CurZone = pslots[pcur].zone /\ pslots[pcur].dirty
                                         /\ job.pc = "pwrite" => slots[cur].dirty
    /\ job.pc \in {"merge", "write"} => /\ pcur \in PageSlotIds /\ job.w
                                        /\ pslots[pcur].zone = job.z /\ pslots[pcur].log = job.p
SaveAt ==
    job.pc \in Saving \union {"load"} =>
        /\ cur \in SlotIds /\ job.why \in {"zone", "close"}
        /\ job.why = "zone" => job.z \in Zones /\ job.b \in Blocks /\ \A i \in SlotIds : slots[i].zone # job.z
        /\ IF job.pc = "load" THEN job.why = "zone" ELSE slots[cur].dirty
        /\ job.pc # "save" => \A i \in PageSlotIds : pslots[i].dirty => pslots[i].zone # CurZone
        /\ job.pc \in TablePages => job.g \in GroupIds
Stopped ==
    /\ job.pc = "close" => job.why = "close"
    /\ job.pc = "off" => slots = NoSlots /\ pslots = NoPageSlots /\ cur = 0 /\ pcur = 0 /\ ctl = None

Placed == job.pc # "off" => pst \in [Zones -> GroupIds]

CtlInv == Typed /\ SlotsNamed /\ AccessAt /\ PageAt /\ SaveAt /\ Stopped /\ Placed

-----------------------------------------------------------------------------
(* The inductive invariant: what the slots and the tables hold, as long as  *)
(* no access failed.  `Sure` are the zones whose dirty flags were stored.   *)

Sure == Zones \ lost.flags

VersHold ==
    /\ \A i \in SlotIds : slots[i].zone \in Zones => slots[i].ver \in Nat
    /\ \A i \in SlotIds : slots[i].zone \in Sure => slots[i].ver = ver[slots[i].zone]
PagesHold == \A i \in PageSlotIds : pslots[i].zone \in Sure => pslots[i].ver = logs[pslots[i].zone][pslots[i].log].ver
EntriesHold == \A z \in Sure, p \in Positions : logs[z][p].last = "table" => logs[z][p].tv = logs[z][p].ver

\* The groups of a table block are written one after the other.
UsedTo(t, n) == \A g \in GroupIds : IF g <= n THEN t.groups[g].half1 # Blank ELSE t.groups[g] = NewGroup
Versions == Nat \union {Blank, Torn}

Writing(z) == job.pc \in TablePages /\ CurZone = z

\* A group before its page pc is programmed.
Halfway(pc, v, sum) == [half1 |-> IF pc = "table1" THEN Blank ELSE v, half2 |-> IF pc = "table3" THEN v ELSE Blank,
                        sum |-> IF pc = "table3" THEN sum ELSE Blank, log |-> Blank, flag |-> FALSE]

\* The group that is being written, and the one before it.
GroupWritten ==
    LET t == tables[CurZone]
        v == slots[cur].ver
    IN  job.pc \in TablePages =>
            /\ UsedTo(t, IF job.pc = "table1" THEN job.g - 1 ELSE job.g)
            /\ t.groups[job.g] = Halfway(job.pc, v, job.sum)
            /\ job.g > 1 => job.g = pst[CurZone] + 1 /\ (CurZone \in Sure => t.groups[job.g - 1].flag)
            /\ CurZone \notin lost.sums => job.sum = v

\* The tables of z on flash are up to date: its block table is not dirty in a slot, or it
\* has been saved and its slot is to be filled with another one.
Settled(z) == \A i \in SlotIds : slots[i].zone = z /\ slots[i].dirty => job.pc = "load" /\ i = cur

TableHolds(z) ==
    /\ pst[z] \in GroupIds /\ UsedTo(tables[z], pst[z])
    /\ LET g == tables[z].groups[pst[z]]
       IN  IF Settled(z) THEN /\ ~g.flag
                              /\ z \in Sure => g.half1 = ver[z]
                              /\ z \notin lost.sums => Valid(g)
           ELSE z \in Sure => g.flag
TablesHold == \A z \in Zones : ~Writing(z) => TableHolds(z)

\* After a power cut or an exit.
LeftAt(z, n) ==
    /\ UsedTo(tables[z], n)
    /\ z \in Sure /\ n > 0 /\ Valid(tables[z].groups[n]) => tables[z].groups[n].half1 = ver[z]
    /\ lost.closed /\ z \notin lost.sums => n > 0 /\ Valid(tables[z].groups[n])
TablesLeft == \A z \in Zones : \E n \in 0 .. GROUPS : LeftAt(z, n)

VersionsHold == \A z \in Zones, g \in GroupIds : tables[z].groups[g].half1 \in Versions

HoldInv ==
    ~lost.failed =>
        /\ VersHold /\ PagesHold /\ EntriesHold /\ VersionsHold
        /\ IF job.pc = "off" THEN TablesLeft ELSE TablesHold /\ GroupWritten

-----------------------------------------------------------------------------
(* Numbers and slots.                                                       *)

LEMMA Constants ==
    /\ BLK_SLOTS \in Nat /\ BLK_SLOTS > 0 /\ PAGE_SLOTS \in Nat /\ PAGE_SLOTS > 0 /\ LOGS \in Nat /\ LOGS > 0
    /\ PAGES \in Nat /\ PAGES > 1 /\ GROUPS \in Nat /\ GROUPS > 0 /\ SPARES \in Nat
    /\ None \notin Zones /\ None \notin Blocks /\ None \notin Positions /\ 1 \in SlotIds /\ 1 \in GroupIds
BY CacheAssumption, FlashAssumption, NamesAssumption DEF None, Positions, SlotIds, GroupIds

LEMMA Smallest ==
    ASSUME NEW T \in SUBSET Nat, T # {}
    PROVE  \E m \in T : \A k \in T : m <= k
<1> DEFINE U == {0 .. k : k \in T}
           R == StrictSubsetOrdering(Nat)
<1>1. U \subseteq FiniteSubsetsOf(Nat)
  <2>1. \A k \in T : IsFiniteSet(0 .. k) /\ 0 .. k \in SUBSET Nat
    BY FS_Interval
  <2> QED BY <2>1 DEF FiniteSubsetsOf
<1>2. IsWellFoundedOn(R, FiniteSubsetsOf(Nat))
  BY FS_StrictSubsetOrderingWellFounded
<1>3. U # {}
  OBVIOUS
<1> HIDE DEF R
<1>4. PICK x \in U : \A y \in U : ~(<<y, x>> \in R)
  <2> HIDE DEF U
  <2> QED BY <1>1, <1>2, <1>3, WFMin
<1>5. PICK m \in T : x = 0 .. m
  BY <1>4
<1>6. ASSUME NEW k \in T, k < m
      PROVE  FALSE
  <2>1. m \in 0 .. m /\ m \notin 0 .. k /\ 0 .. k \subseteq 0 .. m
    BY <1>6
  <2>2. 0 .. k \in U /\ 0 .. k \in SUBSET Nat /\ 0 .. m \in SUBSET Nat /\ 0 .. k # 0 .. m
    BY <2>1
  <2>3. <<0 .. k, 0 .. m>> \in R
    BY <2>1, <2>2 DEF R, StrictSubsetOrdering
  <2> QED BY <1>4, <1>5, <2>2, <2>3
<1> QED BY <1>6

LEMMA LowestOK ==
    ASSUME NEW n \in Nat, NEW S \in SUBSET (1 .. n), S # {}
    PROVE  Lowest(S) \in S
<1>1. S \in SUBSET Nat
  OBVIOUS
<1>2. \E i \in S : \A j \in S : i <= j
  BY <1>1, Smallest
<1> QED BY <1>2 DEF Lowest

\* Some slot has the highest count, and one of these is the first.
LEMMA FirstOK ==
    ASSUME NEW n \in Nat, n > 0, NEW pool, DOMAIN pool = 1 .. n, \A i \in 1 .. n : pool[i].cnt \in Nat
    PROVE  First(pool) \in 1 .. n
<1> DEFINE D == 1 .. n
           Above(i) == {j \in D : pool[j].cnt > pool[i].cnt}
           U == {Above(i) : i \in D}
           R == StrictSubsetOrdering(D)
<1>1. U # {} /\ U \subseteq FiniteSubsetsOf(D)
  <2>1. 1 \in D
    OBVIOUS
  <2>2. IsFiniteSet(D)
    <3>1. 1 \in Int /\ n \in Int
      OBVIOUS
    <3> QED BY <3>1, FS_Interval DEF D
  <2>3. \A i \in D : Above(i) \in SUBSET D /\ IsFiniteSet(Above(i))
    BY <2>2, FS_Subset
  <2> HIDE DEF D, Above
  <2> QED BY <2>1, <2>3 DEF FiniteSubsetsOf
<1>2. IsWellFoundedOn(R, FiniteSubsetsOf(D))
  <2> HIDE DEF D
  <2> QED BY FS_StrictSubsetOrderingWellFounded
<1> HIDE DEF R
<1>3. PICK x \in U : \A y \in U : ~(<<y, x>> \in R)
  <2> HIDE DEF U, D
  <2> QED BY <1>1, <1>2, WFMin
<1>4. PICK i \in D : x = Above(i)
  BY <1>3
<1>5. Above(i) = {}
  <2> SUFFICES ASSUME NEW j \in Above(i)
               PROVE  FALSE
    OBVIOUS
  <2>1. j \in D /\ pool[j].cnt > pool[i].cnt /\ pool[i].cnt \in Nat /\ pool[j].cnt \in Nat
    OBVIOUS
  <2>2. Above(j) \subseteq Above(i) /\ j \notin Above(j)
    BY <2>1
  <2>3. Above(j) \in U /\ Above(j) \in SUBSET D /\ Above(i) \in SUBSET D /\ Above(j) # Above(i)
    BY <2>1, <2>2
  <2>4. <<Above(j), Above(i)>> \in R
    <3> HIDE DEF Above, D
    <3> QED BY <2>2, <2>3 DEF R, StrictSubsetOrdering
  <2> QED BY <1>3, <1>4, <2>3, <2>4
<1>6. \A j \in D : pool[j].cnt <= pool[i].cnt
  BY <1>5
<1> DEFINE T == {k \in D : pool[k].cnt = pool[i].cnt}
<1>7. T # {} /\ T \in SUBSET Nat
  OBVIOUS
<1>8. PICK m \in T : \A k \in T : m <= k
  <2> HIDE DEF T
  <2> QED BY <1>7, Smallest
<1>9. \A j \in D : pool[j].cnt <= pool[m].cnt
  BY <1>6, <1>8
<1>10. \A j \in 1 .. m - 1 : pool[j].cnt < pool[m].cnt
  <2> SUFFICES ASSUME NEW j \in 1 .. m - 1
               PROVE  pool[j].cnt < pool[m].cnt
    OBVIOUS
  <2>1. j \in D /\ j \notin T /\ m \in D
    BY <1>8
  <2>2. pool[j].cnt # pool[m].cnt /\ pool[j].cnt <= pool[m].cnt /\ pool[j].cnt \in Nat /\ pool[m].cnt \in Nat
    BY <1>6, <1>8, <2>1
  <2> QED BY <2>2
<1> HIDE DEF Above, U
<1>11. \E k \in DOMAIN pool : /\ \A j \in DOMAIN pool : pool[j].cnt <= pool[k].cnt
                              /\ \A j \in 1 .. k - 1 : pool[j].cnt < pool[k].cnt
  BY <1>8, <1>9, <1>10
<1>12. First(pool) \in DOMAIN pool
  BY <1>11 DEF First
<1> QED BY <1>12

LEMMA PostLocationOK ==
    ASSUME NEW n \in Nat, n > 0, NEW pool, DOMAIN pool = 1 .. n, \A i \in 1 .. n : pool[i].cnt \in Nat
    PROVE  PostLocation(pool) \in 1 .. n
<1>1. CASE Empties(pool) # {}
  <2>1. Empties(pool) \in SUBSET (1 .. n)
    BY DEF Empties
  <2>2. Lowest(Empties(pool)) \in Empties(pool)
    BY <1>1, <2>1, LowestOK
  <2> QED BY <1>1, <2>1, <2>2 DEF PostLocation
<1>2. CASE Empties(pool) = {}
  BY <1>2, FirstOK DEF PostLocation
<1> QED BY <1>1, <1>2

-----------------------------------------------------------------------------
(* The bisection of _SearchBlkTblPst ends at the last group that is used.   *)

Bounds == (1 .. GROUPS + 1) \X (0 .. GROUPS)
Mid(lo, hi) == (lo + hi) \div 2
Halves(t, f, lo, hi) == IF Used(t, Mid(lo, hi)) THEN f[<<Mid(lo, hi) + 1, hi>>] ELSE f[<<lo, Mid(lo, hi) - 1>>]
Steps1(t, f) ==
    [r \in Bounds |->
        LET mid == ((r[1] + r[2]) \div 2)
        IN  IF r[1] > r[2] THEN (IF r[2] = 0 THEN 1 ELSE r[2])
            ELSE IF Used(t, mid) THEN f[<<mid + 1, r[2]>>] ELSE f[<<r[1], mid - 1>>]]
Search(t) == CHOOSE f : f = Steps1(t, f)

LEMMA SearchUnfold == ASSUME NEW t PROVE SearchBlkTblPst(t) = Search(t)[<<1, GROUPS>>]
BY DEF SearchBlkTblPst, Search, Steps1, Bounds

LEMMA SearchAt ==
    ASSUME NEW t, NEW f, NEW lo \in 1 .. GROUPS + 1, NEW hi \in 0 .. GROUPS
    PROVE  Steps1(t, f)[<<lo, hi>>] = IF lo > hi THEN (IF hi = 0 THEN 1 ELSE hi) ELSE Halves(t, f, lo, hi)
<1> DEFINE e(x) == LET mid == ((x[1] + x[2]) \div 2)
                   IN  IF x[1] > x[2] THEN (IF x[2] = 0 THEN 1 ELSE x[2])
                       ELSE IF Used(t, mid) THEN f[<<mid + 1, x[2]>>] ELSE f[<<x[1], mid - 1>>]
<1>1. Steps1(t, f)[<<lo, hi>>] = e(<<lo, hi>>)
  <2>1. Steps1(t, f) = [x \in Bounds |-> e(x)]
    BY DEF Steps1
  <2>2. <<lo, hi>> \in Bounds
    BY DEF Bounds
  <2> HIDE DEF e
  <2> QED BY <2>1, <2>2
<1>2. e(<<lo, hi>>) = IF lo > hi THEN (IF hi = 0 THEN 1 ELSE hi) ELSE Halves(t, f, lo, hi)
  BY DEF Mid, Halves
<1> HIDE DEF e
<1> QED BY <1>1, <1>2

LEMMA SearchEnd ==
    ASSUME NEW t, NEW f, NEW lo \in 1 .. GROUPS + 1, NEW hi \in 0 .. GROUPS, lo > hi
    PROVE  Steps1(t, f)[<<lo, hi>>] = IF hi = 0 THEN 1 ELSE hi
BY SearchAt

LEMMA SearchStep ==
    ASSUME NEW t, NEW f, NEW lo \in 1 .. GROUPS + 1, NEW hi \in 0 .. GROUPS, lo <= hi
    PROVE  /\ Mid(lo, hi) \in lo .. hi /\ Mid(lo, hi) \in GroupIds
           /\ Mid(lo, hi) - 1 \in 0 .. GROUPS /\ Mid(lo, hi) + 1 \in 1 .. GROUPS + 1
           /\ Steps1(t, f)[<<lo, hi>>]
                = IF Used(t, Mid(lo, hi)) THEN f[<<Mid(lo, hi) + 1, hi>>] ELSE f[<<lo, Mid(lo, hi) - 1>>]
<1>1. GROUPS \in Nat /\ lo \in Nat /\ hi \in Nat /\ ~(lo > hi)
  BY Constants
<1>2. Mid(lo, hi) \in lo .. hi
  <2> DEFINE d == (lo + hi) \div 2
             r == (lo + hi) % 2
  <2>1. d \in Nat /\ r \in 0 .. 1 /\ lo + hi = 2 * d + r
    BY <1>1
  <2> HIDE DEF d, r
  <2>2. d \in lo .. hi
    BY <1>1, <2>1
  <2> QED BY <2>2 DEF d, Mid
<1>3. Mid(lo, hi) \in GroupIds /\ Mid(lo, hi) - 1 \in 0 .. GROUPS /\ Mid(lo, hi) + 1 \in 1 .. GROUPS + 1
  BY <1>1, <1>2 DEF GroupIds
<1>4. Steps1(t, f)[<<lo, hi>>] = Halves(t, f, lo, hi)
  BY <1>1, SearchAt
<1> QED BY <1>2, <1>3, <1>4 DEF Halves

GoodTo(t, n, f) ==
    \A lo \in 1 .. GROUPS + 1, hi \in 0 .. GROUPS : hi - lo < n => f[<<lo, hi>>] = Steps1(t, f)[<<lo, hi>>]

\* A search that is right for every interval shorter than n can be made right for
\* those of length n: the recursion is well founded.
LEMMA SearchGrows ==
    ASSUME NEW t, NEW n \in Int, NEW f, GoodTo(t, n, f)
    PROVE  GoodTo(t, n + 1, Steps1(t, f))
<1> DEFINE h == Steps1(t, f)
<1> HIDE DEF h
<1> SUFFICES ASSUME NEW lo \in 1 .. GROUPS + 1, NEW hi \in 0 .. GROUPS, hi - lo < n + 1
             PROVE  h[<<lo, hi>>] = Steps1(t, h)[<<lo, hi>>]
  BY DEF GoodTo, h
<1>0. lo \in Nat /\ hi \in Nat /\ GROUPS \in Nat
  BY Constants
<1>1. CASE lo > hi
  <2>1. \A u : Steps1(t, u)[<<lo, hi>>] = IF hi = 0 THEN 1 ELSE hi
    BY <1>1, SearchEnd
  <2> QED BY <2>1 DEF h
<1>2. CASE lo <= hi
  <2> DEFINE m == Mid(lo, hi)
             used == Used(t, m)
  <2>1. /\ m \in lo .. hi /\ m - 1 \in 0 .. GROUPS /\ m + 1 \in 1 .. GROUPS + 1
        /\ h[<<lo, hi>>] = IF used THEN f[<<m + 1, hi>>] ELSE f[<<lo, m - 1>>]
    BY <1>2, SearchStep DEF h
  <2>2. Steps1(t, h)[<<lo, hi>>] = IF used THEN h[<<m + 1, hi>>] ELSE h[<<lo, m - 1>>]
    BY <1>2, SearchStep
  <2> HIDE DEF m, used
  <2>3. m - 1 - lo < n /\ hi - (m + 1) < n
    BY <1>0, <2>1
  <2>4. h[<<lo, m - 1>>] = f[<<lo, m - 1>>] /\ h[<<m + 1, hi>>] = f[<<m + 1, hi>>]
    BY <2>1, <2>3 DEF GoodTo, h
  <2> QED BY <2>1, <2>2, <2>4
<1> QED BY <1>0, <1>1, <1>2

LEMMA SearchExists ==
    ASSUME NEW t
    PROVE  Search(t) = Steps1(t, Search(t))
<1> DEFINE T == {n \in Nat : ~ \E f : GoodTo(t, n, f)}
<1>1. ASSUME NEW n \in Nat
      PROVE  \E f : GoodTo(t, n, f)
  <2> SUFFICES ASSUME T # {}
               PROVE  FALSE
    OBVIOUS
  <2>1. PICK m \in T : \A k \in T : m <= k
    <3> HIDE DEF T
    <3>1. ASSUME T \in SUBSET Nat PROVE \E m \in T : \A k \in T : m <= k
      BY <3>1, Smallest
    <3> QED BY <3>1 DEF T
  <2>2. CASE m = 0
    <3> DEFINE f == Steps1(t, 0)
    <3> HIDE DEF f
    <3>1. ASSUME NEW lo \in 1 .. GROUPS + 1, NEW hi \in 0 .. GROUPS, hi - lo < 0
          PROVE  f[<<lo, hi>>] = Steps1(t, f)[<<lo, hi>>]
      <4>1. lo > hi
        BY <3>1, Constants
      <4>2. \A u : Steps1(t, u)[<<lo, hi>>] = IF hi = 0 THEN 1 ELSE hi
        BY <4>1, SearchEnd
      <4> QED BY <4>2 DEF f
    <3>2. GoodTo(t, 0, f)
      BY <3>1 DEF GoodTo
    <3> QED BY <2>2, <3>2
  <2>3. CASE m # 0
    <3>1. m \in Nat /\ m - 1 \in Nat /\ m - 1 + 1 = m /\ ~(m <= m - 1)
      BY <2>3
    <3>2. m - 1 \notin T
      BY <2>1, <3>1
    <3>3. PICK f : GoodTo(t, m - 1, f)
      BY <3>1, <3>2
    <3>4. GoodTo(t, m, Steps1(t, f))
      BY <3>1, <3>3, SearchGrows
    <3> QED BY <2>1, <3>4
  <2> QED BY <2>2, <2>3
<1>2. PICK f : GoodTo(t, GROUPS, f)
  BY <1>1, Constants
<1> DEFINE h == Steps1(t, f)
<1>3. GoodTo(t, GROUPS + 1, h)
  BY <1>2, Constants, SearchGrows
<1>4. ASSUME NEW lo \in 1 .. GROUPS + 1, NEW hi \in 0 .. GROUPS
      PROVE  h[<<lo, hi>>] = Steps1(t, h)[<<lo, hi>>]
  <2> HIDE DEF h
  <2>1. hi - lo < GROUPS + 1
    BY Constants
  <2> QED BY <1>3, <2>1 DEF GoodTo
<1>5. h = Steps1(t, h)
  <2> DEFINE D == Bounds
             k == Steps1(t, h)
  <2>1. h = [x \in D |-> h[x]] /\ k = [x \in D |-> k[x]]
    <3>1. ASSUME NEW u
          PROVE  Steps1(t, u) = [x \in D |-> Steps1(t, u)[x]]
      <4> DEFINE e(x) == LET mid == ((x[1] + x[2]) \div 2)
                         IN  IF x[1] > x[2] THEN (IF x[2] = 0 THEN 1 ELSE x[2])
                             ELSE IF Used(t, mid) THEN u[<<mid + 1, x[2]>>] ELSE u[<<x[1], mid - 1>>]
      <4>1. Steps1(t, u) = [x \in D |-> e(x)]
        BY DEF Steps1
      <4> HIDE DEF e, D
      <4> QED BY <4>1
    <3> QED BY <3>1
  <2> HIDE DEF h, k
  <2>2. \A x \in D : h[x] = k[x]
    BY <1>4 DEF k, Bounds
  <2> HIDE DEF D
  <2>3. h = k
    BY <2>1, <2>2
  <2> QED BY <2>3 DEF k
<1> HIDE DEF h
<1> QED BY <1>5 DEF Search

\* The group is used, and the one after it is not; the first one when none is used.
Ends(t, r) == r \in GroupIds /\ IF Used(t, r) THEN r = GROUPS \/ ~Used(t, r + 1) ELSE r = 1
Narrow(t, lo, hi) == /\ lo <= hi + 1
                     /\ lo = 1 \/ (lo - 1 \in GroupIds /\ Used(t, lo - 1))
                     /\ hi = GROUPS \/ ~Used(t, hi + 1)

LEMMA SearchResult ==
    ASSUME NEW t, NEW n \in Nat, NEW lo \in 1 .. GROUPS + 1, NEW hi \in 0 .. GROUPS, hi - lo < n, Narrow(t, lo, hi)
    PROVE  Ends(t, Search(t)[<<lo, hi>>])
<1> DEFINE f == Search(t)
           Right(k) == \A x \in 1 .. GROUPS + 1, y \in 0 .. GROUPS :
                          y - x < k /\ Narrow(t, x, y) => Ends(t, f[<<x, y>>])
           T == {k \in Nat : ~ Right(k)}
<1>1. f = Steps1(t, f)
  BY SearchExists
<1> HIDE DEF f
<1>2. ASSUME NEW k \in Nat, \A i \in Nat : i < k => Right(i)
      PROVE  Right(k)
  <2> SUFFICES ASSUME NEW x \in 1 .. GROUPS + 1, NEW y \in 0 .. GROUPS, y - x < k, Narrow(t, x, y)
               PROVE  Ends(t, f[<<x, y>>])
    OBVIOUS
  <2>0. x \in Nat /\ y \in Nat /\ GROUPS \in Nat /\ GROUPS > 0 /\ x >= 1 /\ x <= y + 1
    BY Constants DEF Narrow
  <2>1. CASE x > y
    <3>1. f[<<x, y>>] = IF y = 0 THEN 1 ELSE y
      <4>1. Steps1(t, f)[<<x, y>>] = IF y = 0 THEN 1 ELSE y
        BY <2>1, SearchEnd
      <4> QED BY <1>1, <4>1
    <3>2. y = x - 1
      BY <2>0, <2>1
    <3>3. CASE y = 0
      <4>1. ~Used(t, 1)
        BY <2>0, <3>2, <3>3 DEF Narrow
      <4> QED BY <3>1, <3>3, <4>1, Constants DEF Ends
    <3>4. CASE y # 0
      <4>1. x # 1
        BY <2>0, <3>2, <3>4
      <4>2. y \in GroupIds /\ Used(t, y) /\ (y = GROUPS \/ ~Used(t, y + 1))
        BY <3>2, <4>1 DEF Narrow
      <4> QED BY <3>1, <3>4, <4>2 DEF Ends
    <3> QED BY <3>3, <3>4
  <2>2. CASE x <= y
    <3> DEFINE m == Mid(x, y)
    <3>1. /\ m \in x .. y /\ m \in GroupIds /\ m - 1 \in 0 .. GROUPS /\ m + 1 \in 1 .. GROUPS + 1
          /\ Steps1(t, f)[<<x, y>>] = IF Used(t, m) THEN f[<<m + 1, y>>] ELSE f[<<x, m - 1>>]
      BY <2>2, SearchStep
    <3> HIDE DEF m
    <3>2. f[<<x, y>>] = IF Used(t, m) THEN f[<<m + 1, y>>] ELSE f[<<x, m - 1>>]
      BY <1>1, <3>1
    <3>3. /\ k - 1 \in Nat /\ k - 1 < k
          /\ m - 1 - x < k - 1 /\ x <= m - 1 + 1 /\ y - (m + 1) < k - 1 /\ m + 1 <= y + 1 /\ m + 1 - 1 = m /\ m - 1 + 1 = m
      BY <2>0, <2>2, <3>1
    <3>4. Right(k - 1)
      BY <1>2, <3>3
    <3>5. CASE Used(t, m)
      <4>1. Narrow(t, m + 1, y)
        BY <3>1, <3>3, <3>5 DEF Narrow
      <4> QED BY <3>1, <3>2, <3>3, <3>4, <3>5, <4>1
    <3>6. CASE ~Used(t, m)
      <4>1. Narrow(t, x, m - 1)
        BY <3>1, <3>3, <3>6 DEF Narrow
      <4> QED BY <3>1, <3>2, <3>3, <3>4, <3>6, <4>1
    <3> QED BY <3>5, <3>6
  <2> QED BY <2>0, <2>1, <2>2
<1>3. T = {}
  <2> HIDE DEF Right
  <2> SUFFICES ASSUME T # {}
               PROVE  FALSE
    OBVIOUS
  <2>1. T \in SUBSET Nat
    OBVIOUS
  <2>2. PICK k \in T : \A i \in T : k <= i
    <3> HIDE DEF T
    <3> QED BY <2>1, Smallest
  <2>3. \A i \in Nat : i < k => i \notin T
    BY <2>1, <2>2
  <2> QED BY <1>2, <2>2, <2>3
<1>4. Right(n)
  <2> HIDE DEF Right
  <2> QED BY <1>3
<1> QED BY <1>4 DEF f

LEMMA SearchEnds == ASSUME NEW t PROVE Ends(t, SearchBlkTblPst(t))
<1>1. GROUPS \in Nat /\ GROUPS > 0 /\ 1 \in 1 .. GROUPS + 1 /\ GROUPS \in 0 .. GROUPS /\ GROUPS - 1 < GROUPS /\ 1 <= GROUPS + 1
  BY Constants
<1>2. Narrow(t, 1, GROUPS)
  BY <1>1 DEF Narrow
<1> QED BY <1>1, <1>2, SearchResult, SearchUnfold

\* The search finds the last of the groups that were written one after the other.
LEMMA SearchLast ==
    ASSUME NEW t, NEW n \in 0 .. GROUPS, UsedTo(t, n)
    PROVE  SearchBlkTblPst(t) = IF n = 0 THEN 1 ELSE n
<1> DEFINE r == SearchBlkTblPst(t)
<1>1. Ends(t, r)
  BY SearchEnds
<1> HIDE DEF r
<1>2. \A g \in GroupIds : Used(t, g) <=> g <= n
  BY DEF UsedTo, Used, NewGroup
<1>3. r \in Nat /\ r >= 1 /\ r <= GROUPS /\ n \in Nat /\ n <= GROUPS /\ GROUPS \in Nat
  BY <1>1, Constants DEF Ends, GroupIds
<1>4. CASE n = 0
  <2>1. ~Used(t, r)
    BY <1>1, <1>2, <1>3, <1>4 DEF Ends
  <2> QED BY <1>1, <1>4, <2>1 DEF Ends, r
<1>5. CASE n # 0
  <2>1. Used(t, 1)
    BY <1>2, <1>3, <1>5 DEF GroupIds
  <2>2. Used(t, r)
    BY <1>1, <2>1 DEF Ends
  <2>3. r <= n
    BY <1>1, <1>2, <2>2 DEF Ends
  <2>4. r = GROUPS \/ ~Used(t, r + 1)
    BY <1>1, <2>2 DEF Ends
  <2>5. r = n
    <3> SUFFICES ASSUME r < n
                 PROVE  FALSE
      BY <1>3, <2>3
    <3>1. r + 1 \in GroupIds /\ r + 1 <= n
      BY <1>3 DEF GroupIds
    <3> QED BY <1>2, <1>3, <2>4, <3>1
  <2> QED BY <1>5, <2>5 DEF r
<1> QED BY <1>4, <1>5

-----------------------------------------------------------------------------
(* What the steps have in common.                                           *)

\* Slots that hold the same tables.
SlotsSame(s, t) == \A i \in SlotIds : s[i].zone = t[i].zone /\ s[i].dirty = t[i].dirty
PagesSame(s, t) == \A i \in PageSlotIds : s[i].zone = t[i].zone /\ s[i].log = t[i].log /\ s[i].dirty = t[i].dirty
VersSame(s, t, D) == \A i \in D : s[i].ver = t[i].ver

LEMMA CountedSlots ==
    ASSUME NEW s \in Slots, NEW c
    PROVE  Counted(s, c) \in Slots /\ SlotsSame(Counted(s, c), s) /\ VersSame(Counted(s, c), s, SlotIds)
<1>1. DOMAIN s = SlotIds /\ \A i \in SlotIds : s[i] \in [zone : Zones \union {None}, ver : Int, dirty : BOOLEAN, cnt : Nat]
  BY DEF Slots
<1>2. Counted(s, c) = [i \in SlotIds |-> [s[i] EXCEPT !.cnt = IF i = c THEN 0 ELSE @ + 1]]
  BY <1>1 DEF Counted
<1> QED BY <1>1, <1>2 DEF Slots, SlotsSame, VersSame

LEMMA ClearedSlots ==
    ASSUME NEW s \in Slots
    PROVE  Cleared(s) \in Slots /\ SlotsSame(Cleared(s), s) /\ VersSame(Cleared(s), s, SlotIds)
<1>1. DOMAIN s = SlotIds /\ \A i \in SlotIds : s[i] \in [zone : Zones \union {None}, ver : Int, dirty : BOOLEAN, cnt : Nat]
  BY DEF Slots
<1>2. Cleared(s) = s \/ Cleared(s) = [i \in SlotIds |-> [s[i] EXCEPT !.cnt = 0]]
  BY <1>1 DEF Cleared
<1> QED BY <1>1, <1>2 DEF Slots, SlotsSame, VersSame

LEMMA CountedPages ==
    ASSUME NEW s \in PageSlots, NEW c
    PROVE  Counted(s, c) \in PageSlots /\ PagesSame(Counted(s, c), s) /\ VersSame(Counted(s, c), s, PageSlotIds)
<1>1. /\ DOMAIN s = PageSlotIds
      /\ \A i \in PageSlotIds : s[i] \in [zone : Zones \union {None}, log : Positions \union {None}, ver : Int, dirty : BOOLEAN, cnt : Nat]
  BY DEF PageSlots
<1>2. Counted(s, c) = [i \in PageSlotIds |-> [s[i] EXCEPT !.cnt = IF i = c THEN 0 ELSE @ + 1]]
  BY <1>1 DEF Counted
<1> QED BY <1>1, <1>2 DEF PageSlots, PagesSame, VersSame

LEMMA ClearedPages ==
    ASSUME NEW s \in PageSlots
    PROVE  Cleared(s) \in PageSlots /\ PagesSame(Cleared(s), s) /\ VersSame(Cleared(s), s, PageSlotIds)
<1>1. /\ DOMAIN s = PageSlotIds
      /\ \A i \in PageSlotIds : s[i] \in [zone : Zones \union {None}, log : Positions \union {None}, ver : Int, dirty : BOOLEAN, cnt : Nat]
  BY DEF PageSlots
<1>2. Cleared(s) = s \/ Cleared(s) = [i \in PageSlotIds |-> [s[i] EXCEPT !.cnt = 0]]
  BY <1>1 DEF Cleared
<1> QED BY <1>1, <1>2 DEF PageSlots, PagesSame, VersSame

\* The slots are found by their zone, and by their zone and log block.
LEMMA HitsAre ==
    ASSUME Typed, NEW z, NEW p
    PROVE  /\ Hits(z) = {i \in SlotIds : slots[i].zone = z}
           /\ PageHits(z, p) = {i \in PageSlotIds : pslots[i].zone = z /\ pslots[i].log = p}
           /\ Hits(z) # {} => Lowest(Hits(z)) \in SlotIds /\ slots[Lowest(Hits(z))].zone = z
           /\ PageHits(z, p) # {} => /\ Lowest(PageHits(z, p)) \in PageSlotIds
                                     /\ pslots[Lowest(PageHits(z, p))].zone = z /\ pslots[Lowest(PageHits(z, p))].log = p
           /\ PostLocation(slots) \in SlotIds /\ PostLocation(pslots) \in PageSlotIds
<1>1. DOMAIN slots = SlotIds /\ DOMAIN pslots = PageSlotIds
  BY DEF Typed, Slots, PageSlots
<1>2. Hits(z) = {i \in SlotIds : slots[i].zone = z}
  BY <1>1 DEF Hits
<1>3. PageHits(z, p) = {i \in PageSlotIds : pslots[i].zone = z /\ pslots[i].log = p}
  BY <1>1 DEF PageHits
<1>4. Hits(z) # {} => Lowest(Hits(z)) \in Hits(z)
  BY <1>2, Constants, LowestOK DEF SlotIds
<1>5. PageHits(z, p) # {} => Lowest(PageHits(z, p)) \in PageHits(z, p)
  BY <1>3, Constants, LowestOK DEF PageSlotIds
<1>6. PostLocation(slots) \in SlotIds
  <2>1. \A i \in SlotIds : slots[i].cnt \in Nat
    BY DEF Typed, Slots
  <2> QED BY <1>1, <2>1, Constants, PostLocationOK DEF SlotIds
<1>7. PostLocation(pslots) \in PageSlotIds
  <2>1. \A i \in PageSlotIds : pslots[i].cnt \in Nat
    BY DEF Typed, PageSlots
  <2> QED BY <1>1, <2>1, Constants, PostLocationOK DEF PageSlotIds
<1> QED BY <1>2, <1>3, <1>4, <1>5, <1>6, <1>7

LEMMA GotoOK ==
    ASSUME job \in Jobs, NEW w \in PcNames, Goto(w)
    PROVE  /\ job' \in Jobs /\ job'.pc = w
           /\ job'.why = job.why /\ job'.z = job.z /\ job'.b = job.b /\ job'.w = job.w /\ job'.p = job.p
           /\ job'.merge = job.merge /\ job'.back = job.back /\ job'.g = job.g /\ job'.sum = job.sum
BY DEF Goto, Jobs

LEMMA IdleOK == Idle \in Jobs /\ Idle.pc = "idle" /\ Idle.why = "zone"
<1>1. 0 \in 0 .. BLK_SLOTS /\ 0 \in 0 .. GROUPS
  BY Constants
<1> QED BY <1>1 DEF Idle, Jobs, PcNames

\* An access that failed.
LEMMA FailOK ==
    ASSUME Typed, NEW w, Fail(w)
    PROVE  /\ job' \in Jobs /\ job'.pc \in {"leave", "failed"}
           /\ lost' \in Losses /\ lost'.failed = TRUE
           /\ pslots' \in PageSlots /\ PagesSame(pslots', pslots)
<1>1. job' \in Jobs /\ job'.pc \in {"leave", "failed"}
  BY IdleOK DEF Fail, Jobs, PcNames
<1>2. lost' \in Losses /\ lost'.failed = TRUE
  BY DEF Typed, Fail, Losses
<1>3. pslots' \in PageSlots /\ PagesSame(pslots', pslots)
  BY CountedPages DEF Typed, Fail, PagesSame
<1> QED BY <1>1, <1>2, <1>3

LEMMA NamedKeep ==
    ASSUME SlotsNamed, SlotsSame(slots', slots), PagesSame(pslots', pslots), UNCHANGED logs
    PROVE  SlotsNamed'
BY DEF SlotsNamed, SlotsSame, PagesSame

LEMMA QuietAt ==
    ASSUME job'.pc \in {"failed", "leave"} \/ (job'.pc = "close" /\ job'.why = "close")
    PROVE  AccessAt' /\ PageAt' /\ SaveAt' /\ Stopped'
BY DEF AccessAt, PageAt, SaveAt, Stopped, Inside, Saving, TablePages

-----------------------------------------------------------------------------
(* Every action keeps the types and the control: the switch of the zone.    *)

LEMMA CtlInit == Init => CtlInv
<1> SUFFICES ASSUME Init PROVE CtlInv
  OBVIOUS
<1>1. NewGroup \in Group /\ NoLog \in Log
  BY Constants DEF NewGroup, Blank, Group, NoLog, Log
<1>2. NoSlots \in Slots /\ NoPageSlots \in PageSlots
  BY DEF NoSlots, EmptySlot, Slots, SlotIds, NoPageSlots, EmptyPageSlot, PageSlots, PageSlotIds, None
<1>3. [half1 |-> 1, half2 |-> 1, sum |-> 1, log |-> 1, flag |-> FALSE] \in Group
  BY DEF Group
<1>4. [NewTable(TRUE) EXCEPT !.groups[1] = [half1 |-> 1, half2 |-> 1, sum |-> 1, log |-> 1, flag |-> FALSE]] \in Table
  <2> PICK x \in Group : x = [half1 |-> 1, half2 |-> 1, sum |-> 1, log |-> 1, flag |-> FALSE]
    BY <1>3
  <2>1. NewTable(TRUE) \in Table
    BY <1>1 DEF NewTable, Table, GroupIds
  <2>2. [NewTable(TRUE) EXCEPT !.groups[1] = x] \in Table
    BY <2>1 DEF Table
  <2> QED BY <2>2
<1>5. /\ ver = [z \in Zones |-> 1] /\ spare = [z \in Zones |-> SPARES] /\ logs = [z \in Zones |-> [p \in 1 .. LOGS |-> NoLog]]
      /\ slots = NoSlots /\ pslots = NoPageSlots /\ cur = 0 /\ pcur = 0 /\ ctl = None /\ pst = [z \in Zones |-> 1] /\ job = Idle
  BY DEF Init
<1>6. count \in [accesses : Nat, cuts : Nat, fails : Nat] /\ lost \in Losses
  BY DEF Init, Losses
<1>7. tables \in [Zones -> Table]
  BY <1>4 DEF Init
<1>8. Typed
  BY <1>1, <1>2, <1>5, <1>6, <1>7, IdleOK, Constants DEF Typed, Positions
<1>9. SlotsNamed
  <2>1. \A i \in SlotIds : slots[i].zone = None /\ slots[i].dirty = FALSE
    BY <1>5 DEF NoSlots, EmptySlot, SlotIds
  <2>2. \A i \in PageSlotIds : pslots[i].zone = None /\ pslots[i].dirty = FALSE
    BY <1>5 DEF NoPageSlots, EmptyPageSlot, PageSlotIds
  <2>3. \A z \in Zones, p \in Positions : logs[z][p].last = "none"
    BY <1>5 DEF Positions, NoLog
  <2> QED BY <2>1, <2>2, <2>3, Constants DEF SlotsNamed
<1>10. AccessAt /\ PageAt /\ SaveAt /\ Stopped
  BY <1>5, IdleOK DEF AccessAt, PageAt, SaveAt, Stopped, Inside, Saving, TablePages
<1>11. Placed
  BY <1>5, Constants DEF Placed
<1> QED BY <1>8, <1>9, <1>10, <1>11 DEF CtlInv

LEMMA CtlAccess == ASSUME CtlInv, NEW z \in Zones, NEW b \in Blocks, NEW w \in BOOLEAN, Access(z, b, w) PROVE CtlInv'
<1>1. /\ job.pc = "idle" /\ job' = [Idle EXCEPT !.pc = IF ctl = z THEN "flag" ELSE "zone", !.z = z, !.b = b, !.w = w]
      /\ count' = [count EXCEPT !.accesses = @ + 1]
      /\ UNCHANGED <<ver, logs, tables, spare, slots, pslots, cur, pcur, pst, ctl, lost>>
  BY DEF Access, flash
<1>2. /\ job' \in Jobs /\ job'.pc = (IF ctl = z THEN "flag" ELSE "zone") /\ job'.z = z /\ job'.b = b /\ job'.w = w
      /\ job'.why = "zone"
  BY <1>1, IdleOK DEF Jobs, PcNames
<1>3. Typed'
  BY <1>1, <1>2 DEF CtlInv, Typed
<1>4. SlotsNamed'
  BY <1>1 DEF CtlInv, SlotsNamed
<1>5. AccessAt' /\ PageAt' /\ SaveAt' /\ Stopped'
  BY <1>1, <1>2, Constants DEF CtlInv, AccessAt, PageAt, SaveAt, Stopped, Inside, Saving, TablePages, Home, CurZone
<1>20. Placed'
  BY <1>1 DEF CtlInv, Placed
<1> QED BY <1>3, <1>4, <1>5, <1>20 DEF CtlInv

LEMMA CtlZoneHit == ASSUME CtlInv, ZoneHit PROVE CtlInv'
<1>1. /\ job.pc = "zone" /\ Hits(job.z) # {} /\ cur' = Lowest(Hits(job.z)) /\ slots' = Counted(slots, cur')
      /\ ctl' = job.z /\ Goto("flag")
      /\ UNCHANGED <<ver, logs, tables, spare, pslots, pcur, pst, count, lost>>
  BY DEF ZoneHit, Arrived, flash
<1>2. job' \in Jobs /\ job'.pc = "flag" /\ job'.z = job.z /\ job'.b = job.b
  BY <1>1, GotoOK DEF CtlInv, Typed, PcNames
<1>3. cur' \in SlotIds /\ slots[cur'].zone = job.z
  BY <1>1, HitsAre DEF CtlInv
<1>4. slots' \in Slots /\ SlotsSame(slots', slots)
  BY <1>1, CountedSlots DEF CtlInv, Typed
<1>5. job.z \in Zones /\ job.b \in Blocks
  BY <1>1 DEF CtlInv, AccessAt
<1>6. Typed'
  BY <1>1, <1>2, <1>3, <1>4, <1>5 DEF CtlInv, Typed, SlotIds
<1>7. SlotsNamed'
  BY <1>1, <1>4, NamedKeep DEF CtlInv, PagesSame
<1>8. AccessAt' /\ PageAt' /\ SaveAt' /\ Stopped'
  BY <1>1, <1>2, <1>3, <1>4, <1>5 DEF AccessAt, PageAt, SaveAt, Stopped, Inside, Saving, TablePages, Home, SlotsSame
<1>20. Placed'
  BY <1>1 DEF CtlInv, Placed
<1> QED BY <1>6, <1>7, <1>8, <1>20 DEF CtlInv

LEMMA CtlZonePost == ASSUME CtlInv, ZonePost PROVE CtlInv'
<1>1. /\ job.pc = "zone" /\ Hits(job.z) = {} /\ cur' = PostLocation(slots) /\ slots' = Cleared(slots)
      /\ Goto(IF slots[PostLocation(slots)].dirty THEN "save" ELSE "load")
      /\ UNCHANGED <<ver, logs, tables, spare, pslots, pcur, pst, ctl, count, lost>>
  BY DEF ZonePost, flash
<1>2. /\ job' \in Jobs /\ job'.pc = (IF slots[cur'].dirty THEN "save" ELSE "load")
      /\ job'.z = job.z /\ job'.b = job.b /\ job'.why = job.why
  <2>1. {"save", "load"} \subseteq PcNames
    BY DEF PcNames
  <2> QED BY <1>1, <2>1, GotoOK DEF CtlInv, Typed
<1>3. cur' \in SlotIds /\ \A i \in SlotIds : slots[i].zone # job.z
  BY <1>1, HitsAre DEF CtlInv
<1>4. slots' \in Slots /\ SlotsSame(slots', slots)
  BY <1>1, ClearedSlots DEF CtlInv, Typed
<1>5. job.z \in Zones /\ job.b \in Blocks /\ job.why = "zone"
  BY <1>1 DEF CtlInv, AccessAt
<1>6. Typed'
  BY <1>1, <1>2, <1>3, <1>4, <1>5 DEF CtlInv, Typed, SlotIds
<1>7. SlotsNamed'
  BY <1>1, <1>4, NamedKeep DEF CtlInv, PagesSame
\* A clean block table has no dirty page map.
<1>8. ~slots[cur'].dirty => \A i \in PageSlotIds : pslots[i].dirty => pslots[i].zone # slots[cur'].zone
  BY <1>3 DEF CtlInv, SlotsNamed
<1>9. AccessAt' /\ PageAt' /\ SaveAt' /\ Stopped'
  BY <1>1, <1>2, <1>3, <1>4, <1>5, <1>8 DEF AccessAt, PageAt, SaveAt, Stopped, Inside, Saving, TablePages, SlotsSame, CurZone
<1>20. Placed'
  BY <1>1 DEF CtlInv, Placed
<1> QED BY <1>6, <1>7, <1>9, <1>20 DEF CtlInv

LEMMA CtlLoadTable == ASSUME CtlInv, LoadTable PROVE CtlInv'
<1> DEFINE g == tables[job.z].groups[pst[job.z]]
           s == [slots EXCEPT ![cur] = [@ EXCEPT !.zone = job.z, !.ver = g.half1, !.dirty = FALSE]]
<1>1. /\ job.pc = "load" /\ slots' = Counted(s, cur) /\ ctl' = job.z /\ Goto("flag") /\ SumHolds(g) /\ LogHolds(g)
      /\ UNCHANGED <<ver, logs, tables, spare, pslots, cur, pcur, pst, count, lost>>
  BY DEF LoadTable, Arrived, flash
<1>2. job' \in Jobs /\ job'.pc = "flag" /\ job'.z = job.z /\ job'.b = job.b
  BY <1>1, GotoOK DEF CtlInv, Typed, PcNames
<1>3. /\ cur \in SlotIds /\ job.z \in Zones /\ job.b \in Blocks /\ \A i \in SlotIds : slots[i].zone # job.z
      /\ \A i \in PageSlotIds : pslots[i].dirty => pslots[i].zone # CurZone
  BY <1>1 DEF CtlInv, SaveAt, Saving, TablePages
<1>4. g.half1 \in Int
  BY <1>1, <1>3 DEF CtlInv, Typed, Placed, Table, Group
<1>5. s \in Slots /\ \A i \in SlotIds : IF i = cur THEN s[i].zone = job.z /\ s[i].dirty = FALSE ELSE s[i] = slots[i]
  <2> HIDE DEF g
  <2> QED BY <1>3, <1>4 DEF CtlInv, Typed, Slots
<1> HIDE DEF s, g
<1>6. slots' \in Slots /\ \A i \in SlotIds : IF i = cur THEN slots'[i].zone = job.z /\ slots'[i].dirty = FALSE
                                             ELSE slots'[i].zone = slots[i].zone /\ slots'[i].dirty = slots[i].dirty
  BY <1>1, <1>5, CountedSlots DEF SlotsSame
<1>7. Typed'
  BY <1>1, <1>2, <1>3, <1>6 DEF CtlInv, Typed
<1>8. SlotsNamed'
  BY <1>1, <1>3, <1>6 DEF CtlInv, SlotsNamed, CurZone
<1>9. AccessAt' /\ PageAt' /\ SaveAt' /\ Stopped'
  BY <1>1, <1>2, <1>3, <1>6 DEF AccessAt, PageAt, SaveAt, Stopped, Inside, Saving, TablePages, Home
<1>20. Placed'
  BY <1>1 DEF CtlInv, Placed
<1> QED BY <1>7, <1>8, <1>9, <1>20 DEF CtlInv

LEMMA CtlLoadFails == ASSUME CtlInv, LoadFails PROVE CtlInv'
<1>1. /\ job.pc = "load" /\ Fail("zone") /\ UNCHANGED <<ver, logs, tables, spare, cur, pcur, pst, ctl>>
      /\ count' = count \/ Failing
  BY DEF LoadFails, flash
<1>2. PICK v \in {slots[cur].ver, Mixed} : slots' = Counted([slots EXCEPT ![cur].ver = v], cur)
  BY DEF LoadFails
<1>3. cur \in SlotIds
  BY <1>1 DEF CtlInv, SaveAt, Saving, TablePages
<1>4. slots' \in Slots /\ SlotsSame(slots', slots)
  <2> DEFINE s == [slots EXCEPT ![cur].ver = v]
  <2>1. s \in Slots /\ SlotsSame(s, slots)
    BY <1>3 DEF CtlInv, Typed, Slots, SlotsSame, Mixed
  <2> HIDE DEF s
  <2>2. slots' = Counted(s, cur)
    BY <1>2 DEF s
  <2>3. Counted(s, cur) \in Slots /\ SlotsSame(Counted(s, cur), s)
    BY <2>1, CountedSlots
  <2> QED BY <2>1, <2>2, <2>3 DEF SlotsSame
<1>5. count' \in [accesses : Nat, cuts : Nat, fails : Nat]
  BY <1>1 DEF CtlInv, Typed, Failing
<1>6. Typed'
  BY <1>1, <1>4, <1>5, FailOK DEF CtlInv, Typed
<1>7. SlotsNamed'
  BY <1>1, <1>4, FailOK, NamedKeep DEF CtlInv
<1>8. job'.pc \in {"leave", "failed"}
  BY <1>1, FailOK DEF CtlInv
<1>20. Placed'
  BY <1>1 DEF CtlInv, Placed
<1> QED BY <1>6, <1>7, <1>8, QuietAt, <1>20 DEF CtlInv

-----------------------------------------------------------------------------
(* Every action keeps the types and the control: an access of a page.       *)

LEMMA ChangedOK ==
    ASSUME NEW s \in Slots, cur \in SlotIds
    PROVE  /\ Changed(s) \in Slots /\ SlotsSame(Changed(s), s)
           /\ Changed(s)[cur].ver = (IF s[cur].ver = Mixed THEN Mixed ELSE s[cur].ver + 1)
           /\ \A i \in SlotIds \ {cur} : Changed(s)[i].ver = s[i].ver
BY DEF Changed, Slots, SlotsSame, Mixed

LEMMA GoneOK ==
    ASSUME pslots \in PageSlots, NEW i \in PageSlotIds
    PROVE  /\ Gone(i) \in PageSlots
           /\ Gone(i)[i].zone = None /\ Gone(i)[i].log = None /\ Gone(i)[i].dirty = FALSE
           /\ \A j \in PageSlotIds \ {i} : Gone(i)[j] = pslots[j]
BY DEF Gone, PageSlots

LEMMA ChangesOK ==
    ASSUME ver \in [Zones -> Nat], CurZone \in Zones, Changes
    PROVE  ver' \in [Zones -> Nat] /\ ver'[CurZone] = ver[CurZone] + 1 /\ \A z \in Zones \ {CurZone} : ver'[z] = ver[z]
BY DEF Changes

LEMMA FailingOK ==
    ASSUME Typed, count' = count \/ Failing
    PROVE  count' \in [accesses : Nat, cuts : Nat, fails : Nat]
BY DEF Typed, Failing

\* The zone of the current slot is known while its table is used.
LEMMA CurKnown ==
    ASSUME CtlInv, job.pc \in Inside \union Saving
    PROVE  cur \in SlotIds /\ CurZone \in Zones /\ slots[cur].zone = CurZone /\ pst \in [Zones -> GroupIds]
<1>1. job.pc # "off"
  BY DEF Inside, Saving, TablePages
<1>2. CASE job.pc \in {"pflag", "pwrite"}
  BY <1>2 DEF CtlInv, PageAt, SlotsNamed, CurZone, Placed
<1>3. CASE job.pc \in Inside \ {"pflag", "pwrite"}
  BY <1>1, <1>3 DEF CtlInv, AccessAt, Home, CurZone, Placed
<1>4. CASE job.pc \in Saving
  BY <1>1, <1>4 DEF CtlInv, SaveAt, SlotsNamed, CurZone, Placed, Saving, TablePages
<1> QED BY <1>2, <1>3, <1>4

PutGroup(z, n, x) == [tables EXCEPT ![z].groups[n] = x]

LEMMA PutGroupOK ==
    ASSUME tables \in [Zones -> Table], NEW c \in Zones, NEW n \in GroupIds, NEW x \in Group
    PROVE  /\ PutGroup(c, n, x) \in [Zones -> Table]
           /\ \A z \in Zones \ {c} : PutGroup(c, n, x)[z] = tables[z]
           /\ PutGroup(c, n, x)[c].area = tables[c].area
           /\ PutGroup(c, n, x)[c].groups[n] = x
           /\ \A g \in GroupIds \ {n} : PutGroup(c, n, x)[c].groups[g] = tables[c].groups[g]
<1> DEFINE t == tables[c]
           h == [t.groups EXCEPT ![n] = x]
           u == [t EXCEPT !.groups = h]
<1>1. t \in Table /\ t.groups \in [GroupIds -> Group]
  BY DEF Table
<1>2. h \in [GroupIds -> Group] /\ h[n] = x /\ \A g \in GroupIds \ {n} : h[g] = t.groups[g]
  BY <1>1
<1>3. PutGroup(c, n, x) = [tables EXCEPT ![c] = u]
  BY DEF PutGroup
<1> HIDE DEF t, h
<1>4. u \in Table /\ u.groups = h /\ u.area = t.area
  BY <1>1, <1>2 DEF Table
<1> HIDE DEF u
<1> QED BY <1>2, <1>3, <1>4 DEF t

LEMMA FlagSetOK ==
    ASSUME tables \in [Zones -> Table], CurZone \in Zones, pst \in [Zones -> GroupIds]
    PROVE  /\ FlagSet \in [Zones -> Table]
           /\ \A z \in Zones \ {CurZone} : FlagSet[z] = tables[z]
           /\ FlagSet[CurZone].area = tables[CurZone].area
           /\ FlagSet[CurZone].groups[pst[CurZone]] = [tables[CurZone].groups[pst[CurZone]] EXCEPT !.flag = TRUE]
           /\ \A g \in GroupIds \ {pst[CurZone]} : FlagSet[CurZone].groups[g] = tables[CurZone].groups[g]
<1> DEFINE c == CurZone
           n == pst[c]
           x == [tables[c].groups[n] EXCEPT !.flag = TRUE]
<1> HIDE DEF c, n
<1>1. c \in Zones /\ n \in GroupIds
  BY DEF c, n
<1>2. x \in Group
  <2>1. tables[c] \in Table
    BY <1>1
  <2>2. tables[c].groups[n] \in Group
    BY <1>1, <2>1 DEF Table
  <2> QED BY <2>2 DEF Group
<1>3. FlagSet = PutGroup(c, n, x)
  BY DEF FlagSet, PutGroup, c, n
<1> HIDE DEF x
<1>4. /\ FlagSet \in [Zones -> Table]
      /\ \A z \in Zones \ {c} : FlagSet[z] = tables[z]
      /\ FlagSet[c].area = tables[c].area
      /\ FlagSet[c].groups[n] = x
      /\ \A g \in GroupIds \ {n} : FlagSet[c].groups[g] = tables[c].groups[g]
  BY <1>1, <1>2, <1>3, PutGroupOK
<1> QED BY <1>4 DEF c, n, x

LEMMA FlagOK ==
    ASSUME CtlInv, job.pc \in Inside, SetDirtyFlag
    PROVE  /\ slots' \in Slots /\ slots'[cur].dirty = TRUE
           /\ \A i \in SlotIds : slots'[i].zone = slots[i].zone /\ slots'[i].ver = slots[i].ver
           /\ \A i \in SlotIds \ {cur} : slots'[i] = slots[i]
           /\ tables' \in [Zones -> Table]
           /\ count' \in [accesses : Nat, cuts : Nat, fails : Nat]
           /\ lost' \in Losses /\ lost'.failed = lost.failed
           /\ \A i \in SlotIds : slots'[i].dirty => slots[i].dirty \/ i = cur
<1>1. cur \in SlotIds /\ CurZone \in Zones /\ slots[cur].zone = CurZone /\ pst \in [Zones -> GroupIds] /\ Typed
  BY CurKnown DEF CtlInv
<1>2. CASE slots[cur].dirty /\ UNCHANGED <<tables, slots, lost, count>>
  BY <1>1, <1>2 DEF Typed, Slots
<1>3. CASE ~slots[cur].dirty /\ slots' = [slots EXCEPT ![cur].dirty = TRUE]
  <2>1. /\ slots' \in Slots /\ slots'[cur].dirty = TRUE /\ \A i \in SlotIds \ {cur} : slots'[i] = slots[i]
        /\ \A i \in SlotIds : slots'[i].zone = slots[i].zone /\ slots'[i].ver = slots[i].ver
    BY <1>1, <1>3 DEF Typed, Slots
  <2>2. CASE tables' = FlagSet /\ UNCHANGED <<lost, count>>
    BY <1>1, <2>1, <2>2, FlagSetOK DEF Typed
  <2>3. CASE Failing /\ lost' = [lost EXCEPT !.flags = @ \union {CurZone}] /\ UNCHANGED tables
    <3>1. lost' \in Losses /\ lost'.failed = lost.failed
      BY <1>1, <2>3 DEF Typed, Losses
    <3>2. count' \in [accesses : Nat, cuts : Nat, fails : Nat]
      BY <1>1, <2>3, FailingOK
    <3> QED BY <1>1, <2>1, <2>3, <3>1, <3>2 DEF Typed
  <2> QED BY <1>3, <2>2, <2>3 DEF SetDirtyFlag
<1> QED BY <1>2, <1>3 DEF SetDirtyFlag

LEMMA FlaggedNamed ==
    ASSUME CtlInv, cur \in SlotIds, CurZone \in Zones, PagesSame(pslots', pslots), UNCHANGED logs,
           \A i \in SlotIds : slots'[i].zone = slots[i].zone,
           \A i \in SlotIds \ {cur} : slots'[i] = slots[i], slots'[cur].dirty = TRUE
    PROVE  SlotsNamed'
<1>1. \A i \in SlotIds : slots'[i].dirty => slots'[i].zone \in Zones
  BY DEF CtlInv, SlotsNamed, CurZone
<1>2. \A i \in SlotIds : slots[i].dirty => slots'[i].dirty
  OBVIOUS
<1> QED BY <1>1, <1>2 DEF CtlInv, SlotsNamed, PagesSame

LEMMA CtlFlag == ASSUME CtlInv, Flag PROVE CtlInv'
<1>1. /\ job.pc = "flag" /\ Goto("log") /\ UNCHANGED <<ver, logs, spare, pslots, cur, pcur, pst, ctl>>
      /\ (job.w /\ SetDirtyFlag) \/ (~job.w /\ UNCHANGED <<tables, slots, lost, count>>)
  BY DEF Flag, FlagBeforeWrite
<1>2. job' \in Jobs /\ job'.pc = "log" /\ job'.z = job.z /\ job'.b = job.b /\ job'.w = job.w
  BY <1>1, GotoOK DEF CtlInv, Typed, PcNames
<1>3. cur \in SlotIds /\ CurZone \in Zones /\ CurZone = job.z /\ job.b \in Blocks /\ ctl = job.z
  BY <1>1, CurKnown DEF CtlInv, AccessAt, Home, Inside, CurZone
<1>4. /\ slots' \in Slots /\ \A i \in SlotIds : slots'[i].zone = slots[i].zone
      /\ tables' \in [Zones -> Table] /\ lost' \in Losses
      /\ count' \in [accesses : Nat, cuts : Nat, fails : Nat] /\ (job.w => slots'[cur].dirty)
  BY <1>1, FlagOK DEF CtlInv, Typed, Inside
<1>5. SlotsNamed'
  <2>1. CASE job.w /\ SetDirtyFlag
    BY <1>1, <1>3, <2>1, FlagOK, FlaggedNamed DEF Inside, PagesSame
  <2>2. CASE UNCHANGED slots
    BY <1>1, <2>2 DEF CtlInv, SlotsNamed
  <2> QED BY <1>1, <2>1, <2>2
<1>6. Typed'
  BY <1>1, <1>2, <1>4 DEF CtlInv, Typed
<1>7. AccessAt' /\ PageAt' /\ SaveAt' /\ Stopped'
  BY <1>1, <1>2, <1>3, <1>4 DEF AccessAt, PageAt, SaveAt, Stopped, Inside, Saving, TablePages, Home, CurZone
<1>20. Placed'
  BY <1>1 DEF CtlInv, Placed
<1> QED BY <1>5, <1>6, <1>7, <1>20 DEF CtlInv

LEMMA LogOfOK ==
    ASSUME NEW z, NEW b, LogOf(z, b) # {}
    PROVE  Lowest(LogOf(z, b)) \in Positions /\ logs[z][Lowest(LogOf(z, b))].blk = b
<1>1. LogOf(z, b) \in SUBSET Positions
  BY DEF LogOf, Positions
<1>2. Lowest(LogOf(z, b)) \in LogOf(z, b)
  BY <1>1, Constants, LowestOK DEF Positions
<1> QED BY <1>2 DEF LogOf, Positions

\* The entry of a log block is replaced.
PutEntry(z, p, g) == [logs EXCEPT ![z][p] = g]

LEMMA PutEntryOK ==
    ASSUME logs \in [Zones -> [Positions -> Log]], NEW c \in Zones, NEW n \in Positions, NEW g \in Log
    PROVE  /\ PutEntry(c, n, g) \in [Zones -> [Positions -> Log]]
           /\ PutEntry(c, n, g)[c][n] = g
           /\ \A z \in Zones, p \in Positions : z # c \/ p # n => PutEntry(c, n, g)[z][p] = logs[z][p]
<1> DEFINE h == [logs[c] EXCEPT ![n] = g]
<1>1. h \in [Positions -> Log] /\ h[n] = g /\ \A p \in Positions \ {n} : h[p] = logs[c][p]
  OBVIOUS
<1>2. PutEntry(c, n, g) = [logs EXCEPT ![c] = h]
  BY DEF PutEntry
<1> HIDE DEF h
<1> QED BY <1>1, <1>2

\* The control of an access of job.z with its block table in the current slot.
LEMMA AtHome ==
    ASSUME CtlInv, job.pc \in Inside \ {"pflag", "pwrite"}
    PROVE  /\ cur \in SlotIds /\ CurZone = job.z /\ slots[cur].zone = job.z /\ ctl = job.z /\ job.z \in Zones /\ job.b \in Blocks
           /\ job.pc # "flag" /\ job.w => slots[cur].dirty
BY DEF CtlInv, AccessAt, Home, CurZone

LEMMA CtlFindLog == ASSUME CtlInv, FindLog PROVE CtlInv'
<1>1. job.pc = "log" /\ UNCHANGED <<ver, logs, tables, spare, slots, pslots, cur, pcur, pst, ctl, count, lost>>
  BY DEF FindLog, flash
<1>2. cur \in SlotIds /\ CurZone = job.z /\ slots[cur].zone = job.z /\ ctl = job.z /\ job.z \in Zones /\ job.b \in Blocks /\ (job.w => slots[cur].dirty)
  BY <1>1, AtHome DEF Inside
<1>3. SlotsNamed'
  BY <1>1 DEF CtlInv, SlotsNamed
<1>4. job \in Jobs
  BY DEF CtlInv, Typed
<1>5. CASE LogOf(CurZone, job.b) # {} /\ job' = [job EXCEPT !.pc = "page", !.p = Lowest(LogOf(CurZone, job.b)), !.merge = FALSE]
  <2>1. PICK n \in Positions : n = Lowest(LogOf(CurZone, job.b)) /\ logs[CurZone][n].blk = job.b
    BY <1>5, LogOfOK
  <2>2. /\ job' \in Jobs /\ job'.pc = "page" /\ job'.z = job.z /\ job'.b = job.b /\ job'.w = job.w /\ job'.p = n /\ ~job'.merge
    BY <1>4, <1>5, <2>1 DEF Jobs, PcNames
  <2>3. Typed'
    BY <1>1, <2>2 DEF CtlInv, Typed
  <2>4. AccessAt' /\ PageAt' /\ SaveAt' /\ Stopped'
    BY <1>1, <1>2, <2>1, <2>2 DEF AccessAt, PageAt, SaveAt, Stopped, Inside, Saving, TablePages, Home, CurZone
  <2>5. Placed'
    BY <1>1 DEF CtlInv, Placed
  <2> QED BY <1>3, <2>3, <2>4, <2>5 DEF CtlInv
<1>6. CASE job' = Idle
  <2>1. Typed'
    BY <1>1, <1>6, IdleOK DEF CtlInv, Typed
  <2>2. AccessAt' /\ PageAt' /\ SaveAt' /\ Stopped'
    BY <1>1, <1>2, <1>6, IdleOK DEF AccessAt, PageAt, SaveAt, Stopped, Inside, Saving, TablePages, Home, CurZone
  <2>3. Placed'
    BY <1>1 DEF CtlInv, Placed
  <2> QED BY <1>3, <2>1, <2>2, <2>3 DEF CtlInv
<1> QED BY <1>5, <1>6 DEF FindLog

LEMMA NewLogOK == ASSUME NEW g \in Log, NEW b \in Blocks PROVE NewLog(g, b) \in Log /\ NewLog(g, b).blk = b
<1> DEFINE h == [g EXCEPT !.blk = b]
<1>1. h \in Log /\ h.blk = b
  BY DEF Log
<1>2. NewLog(g, b) = [h EXCEPT !.ver = g.ver + 1] /\ g.ver + 1 \in Int
  BY DEF NewLog, Log
<1> HIDE DEF h
<1> QED BY <1>1, <1>2 DEF Log

\* The log block of the access is found.
AtPage(n, m) == [job EXCEPT !.pc = "page", !.p = n, !.merge = m]

LEMMA AtPageOK ==
    ASSUME job \in Jobs, NEW n \in Positions, NEW m \in BOOLEAN
    PROVE  /\ AtPage(n, m) \in Jobs /\ AtPage(n, m).pc = "page" /\ AtPage(n, m).p = n /\ AtPage(n, m).merge = m
           /\ AtPage(n, m).z = job.z /\ AtPage(n, m).b = job.b /\ AtPage(n, m).w = job.w
<1> DEFINE j == [job EXCEPT !.pc = "page", !.p = n]
<1>1. j \in Jobs /\ j.pc = "page" /\ j.p = n /\ j.z = job.z /\ j.b = job.b /\ j.w = job.w
  BY DEF Jobs, PcNames
<1>2. AtPage(n, m) = [j EXCEPT !.merge = m]
  BY DEF AtPage
<1> HIDE DEF j
<1> QED BY <1>1, <1>2 DEF Jobs

LEMMA CtlCreateLog == ASSUME CtlInv, CreateLog PROVE CtlInv'
<1> DEFINE n == Lowest(LogOf(CurZone, None))
           g == NewLog(logs[CurZone][n], job.b)
<1>1. /\ job.pc = "log" /\ job.w /\ LogOf(CurZone, None) # {}
      /\ logs' = [logs EXCEPT ![CurZone][n] = g]
      /\ slots' = Changed(slots) /\ Changes
      /\ job' = AtPage(n, FALSE)
      /\ UNCHANGED <<tables, spare, pslots, cur, pcur, pst, ctl, count, lost>>
  BY Zenon DEF CreateLog, AtPage
<1>2. cur \in SlotIds /\ CurZone = job.z /\ slots[cur].zone = job.z /\ ctl = job.z /\ job.z \in Zones /\ job.b \in Blocks /\ slots[cur].dirty
  BY <1>1, AtHome DEF Inside
<1>3. n \in Positions /\ logs[CurZone][n].blk = None
  BY <1>1, LogOfOK
<1> HIDE DEF n
<1>4. logs[job.z][n] \in Log /\ logs \in [Zones -> [Positions -> Log]] /\ job \in Jobs
  BY <1>2, <1>3 DEF CtlInv, Typed
<1>5. g \in Log /\ g.blk = job.b
  BY <1>2, <1>4, NewLogOK
<1> HIDE DEF g
<1>6. /\ logs' \in [Zones -> [Positions -> Log]] /\ logs'[job.z][n] = g
      /\ \A z \in Zones, p \in Positions : z # job.z \/ p # n => logs'[z][p] = logs[z][p]
  <2>1. logs' = PutEntry(job.z, n, g)
    BY <1>1, <1>2 DEF PutEntry
  <2>2. /\ PutEntry(job.z, n, g) \in [Zones -> [Positions -> Log]] /\ PutEntry(job.z, n, g)[job.z][n] = g
        /\ \A z \in Zones, p \in Positions : z # job.z \/ p # n => PutEntry(job.z, n, g)[z][p] = logs[z][p]
    BY <1>2, <1>3, <1>4, <1>5, PutEntryOK
  <2> QED BY <2>1, <2>2
<1>7. slots' \in Slots /\ SlotsSame(slots', slots) /\ ver' \in [Zones -> Nat]
  BY <1>1, <1>2, ChangedOK, ChangesOK DEF CtlInv, Typed
<1>8. /\ job' \in Jobs /\ job'.pc = "page" /\ job'.z = job.z /\ job'.b = job.b /\ job'.w = job.w /\ job'.p = n /\ ~job'.merge
  BY <1>1, <1>3, <1>4, AtPageOK
<1>9. Typed'
  BY <1>1, <1>6, <1>7, <1>8 DEF CtlInv, Typed
<1>10. SlotsNamed'
  <2>1. \A z \in Zones, p \in Positions : logs[z][p].blk \in Blocks \/ (z = job.z /\ p = n) => logs'[z][p].blk \in Blocks
    BY <1>2, <1>5, <1>6
  <2>2. \A z \in Zones, p \in Positions : logs'[z][p].last = "table" => logs'[z][p].blk \in Blocks
    BY <1>2, <1>5, <1>6 DEF CtlInv, SlotsNamed
  <2> QED BY <1>1, <1>7, <2>1, <2>2 DEF CtlInv, SlotsNamed, SlotsSame
<1>11. AccessAt' /\ PageAt' /\ SaveAt' /\ Stopped'
  <2>1. slots'[cur].zone = job.z /\ slots'[cur].dirty /\ cur' = cur /\ ctl' = job.z
    BY <1>1, <1>2, <1>7 DEF SlotsSame
  <2>2. logs'[job.z][n].blk \in Blocks
    BY <1>2, <1>5, <1>6
  <2> HIDE <1>1, <1>5, <1>6, <1>7
  <2> QED BY <1>2, <1>3, <1>8, <2>1, <2>2 DEF AccessAt, PageAt, SaveAt, Stopped, Inside, Saving, TablePages, Home
<1>20. Placed'
  BY <1>1 DEF CtlInv, Placed
<1> QED BY <1>9, <1>10, <1>11, <1>20 DEF CtlInv

LEMMA CtlPickVictim == ASSUME CtlInv, PickVictim PROVE CtlInv'
<1> DEFINE full == {p \in 1 .. LOGS : logs[CurZone][p].len = PAGES}
<1>1. /\ job.pc = "log" /\ job.w /\ LogOf(CurZone, None) = {}
      /\ UNCHANGED <<ver, logs, tables, spare, slots, pslots, cur, pcur, pst, ctl, count, lost>>
      /\ \E p \in IF full # {} THEN {Lowest(full)} ELSE 1 .. LOGS : job' = AtPage(p, TRUE)
  BY Zenon DEF PickVictim, AtPage, flash
<1>2. full # {} => Lowest(full) \in full
  BY Constants, LowestOK
<1>3. PICK n \in Positions : job' = AtPage(n, TRUE)
  <2> HIDE DEF full
  <2> PICK p \in IF full # {} THEN {Lowest(full)} ELSE 1 .. LOGS : job' = AtPage(p, TRUE)
    BY <1>1
  <2>1. p \in Positions
    BY <1>2 DEF Positions, full
  <2> QED BY <2>1
<1>4. cur \in SlotIds /\ CurZone = job.z /\ slots[cur].zone = job.z /\ ctl = job.z /\ job.z \in Zones /\ job.b \in Blocks /\ slots[cur].dirty
  BY <1>1, AtHome DEF Inside
<1>5. job' \in Jobs /\ job'.pc = "page" /\ job'.z = job.z /\ job'.b = job.b /\ job'.w = job.w /\ job'.p = n /\ job'.merge
  BY <1>3, AtPageOK DEF CtlInv, Typed
<1>6. logs[job.z][n].blk \in Blocks
  <2>1. logs[job.z][n] \in Log
    BY <1>4 DEF CtlInv, Typed
  <2>2. n \notin LogOf(job.z, None)
    BY <1>1, <1>4
  <2> QED BY <2>1, <2>2 DEF LogOf, Log, Positions
<1>7. Typed'
  BY <1>1, <1>5 DEF CtlInv, Typed
<1>8. SlotsNamed'
  BY <1>1 DEF CtlInv, SlotsNamed
<1>9. AccessAt' /\ PageAt' /\ SaveAt' /\ Stopped'
  <2> HIDE DEF full
  <2> QED BY <1>1, <1>4, <1>5, <1>6 DEF AccessAt, PageAt, SaveAt, Stopped, Inside, Saving, TablePages, Home
<1>20. Placed'
  BY <1>1 DEF CtlInv, Placed
<1> QED BY <1>7, <1>8, <1>9, <1>20 DEF CtlInv

\* The page map is in its slot: the access goes on with it.
LEMMA AfterPageOK ==
    ASSUME CtlInv, AfterPage
    PROVE  /\ job' \in Jobs
           /\ \/ job' = Idle
              \/ /\ job'.pc \in {"merge", "write"} /\ job'.w = job.w /\ (job.merge \/ job.w)
                 /\ job'.z = job.z /\ job'.b = job.b /\ job'.p = job.p /\ job'.merge = job.merge
<1>1. job \in Jobs
  BY DEF CtlInv, Typed
<1>2. CASE job.merge
  BY <1>1, <1>2 DEF AfterPage, Jobs, PcNames
<1>3. CASE ~job.merge /\ job.w
  BY <1>1, <1>3 DEF AfterPage, Jobs, PcNames
<1>4. CASE ~job.merge /\ ~job.w
  BY <1>4, IdleOK DEF AfterPage
<1> QED BY <1>2, <1>3, <1>4

LEMMA ArrivesAtPage ==
    ASSUME CtlInv, job.pc \in {"page", "pload"}, AfterPage, UNCHANGED <<logs, cur, ctl>>,
           SlotsSame(slots', slots) \/ (slots'[cur].dirty /\ slots'[cur].zone = slots[cur].zone),
           pcur' \in PageSlotIds, pslots'[pcur'].zone = job.z, pslots'[pcur'].log = job.p
    PROVE  AccessAt' /\ PageAt' /\ SaveAt' /\ Stopped'
<1>1. /\ cur \in SlotIds /\ CurZone = job.z /\ slots[cur].zone = job.z /\ ctl = job.z /\ job.z \in Zones /\ job.b \in Blocks
      /\ (job.w => slots[cur].dirty)
  BY AtHome DEF Inside
<1>2. job.p \in Positions /\ logs[job.z][job.p].blk \in Blocks /\ (job.merge => job.w)
  BY DEF CtlInv, PageAt
<1>3. slots'[cur].zone = job.z /\ (job.w => slots'[cur].dirty)
  BY <1>1 DEF SlotsSame
<1>4. CASE job' = Idle
  BY <1>1, <1>3, <1>4, IdleOK DEF AccessAt, PageAt, SaveAt, Stopped, Inside, Saving, TablePages, CurZone
<1>5. CASE /\ job'.pc \in {"merge", "write"} /\ job'.w = job.w /\ (job.merge \/ job.w)
           /\ job'.z = job.z /\ job'.b = job.b /\ job'.p = job.p /\ job'.merge = job.merge
  BY <1>1, <1>2, <1>3, <1>5 DEF AccessAt, PageAt, SaveAt, Stopped, Inside, Saving, TablePages, Home
<1> QED BY <1>4, <1>5, AfterPageOK

LEMMA CtlPageHit == ASSUME CtlInv, PageHit PROVE CtlInv'
<1>1. /\ job.pc = "page" /\ PageHits(CurZone, job.p) # {} /\ pcur' = Lowest(PageHits(CurZone, job.p))
      /\ pslots' = Counted(pslots, pcur') /\ AfterPage
      /\ UNCHANGED <<ver, logs, tables, spare, slots, cur, pst, ctl, count, lost>>
  BY DEF PageHit, flash
<1>2. CurZone = job.z
  BY <1>1, AtHome DEF Inside
<1>3. pcur' \in PageSlotIds /\ pslots[pcur'].zone = job.z /\ pslots[pcur'].log = job.p
  BY <1>1, <1>2, HitsAre DEF CtlInv
<1>4. pslots' \in PageSlots /\ PagesSame(pslots', pslots)
  BY <1>1, CountedPages DEF CtlInv, Typed
<1>5. Typed'
  BY <1>1, <1>3, <1>4, AfterPageOK DEF CtlInv, Typed, PageSlotIds
<1>6. SlotsNamed'
  BY <1>1, <1>4, NamedKeep DEF CtlInv, SlotsSame
<1>7. pslots'[pcur'].zone = job.z /\ pslots'[pcur'].log = job.p /\ SlotsSame(slots', slots)
  BY <1>1, <1>3, <1>4 DEF PagesSame, SlotsSame
<1>8. AccessAt' /\ PageAt' /\ SaveAt' /\ Stopped'
  BY <1>1, <1>3, <1>7, ArrivesAtPage
<1>20. Placed'
  BY <1>1 DEF CtlInv, Placed
<1> QED BY <1>5, <1>6, <1>8, <1>20 DEF CtlInv

LEMMA CtlPagePost == ASSUME CtlInv, PagePost PROVE CtlInv'
<1> DEFINE v == PostLocation(pslots)
           y == pslots[v].zone
<1>1. /\ job.pc = "page" /\ PageHits(CurZone, job.p) = {} /\ pcur' = v
      /\ UNCHANGED <<ver, logs, tables, spare, slots, pst, ctl, count>>
  BY DEF PagePost, flash
<1>2. /\ cur \in SlotIds /\ CurZone = job.z /\ slots[cur].zone = job.z /\ ctl = job.z /\ job.z \in Zones /\ job.b \in Blocks
      /\ (job.w => slots[cur].dirty)
  BY <1>1, AtHome DEF Inside
<1>3. v \in PageSlotIds /\ \A i \in PageSlotIds : ~(pslots[i].zone = job.z /\ pslots[i].log = job.p)
  BY <1>1, <1>2, HitsAre DEF CtlInv
<1>4. job.p \in Positions /\ logs[job.z][job.p].blk \in Blocks /\ (job.merge => job.w)
  BY <1>1 DEF CtlInv, PageAt
<1>5. job \in Jobs /\ pslots \in PageSlots /\ pst \in [Zones -> GroupIds]
  BY <1>1 DEF CtlInv, Typed, Placed
<1>6. Cleared(pslots) \in PageSlots /\ PagesSame(Cleared(pslots), pslots)
  BY <1>5, ClearedPages
<1>7. /\ Counted(Cleared(pslots), v) \in PageSlots /\ PagesSame(Counted(Cleared(pslots), v), pslots)
  <2> DEFINE s == Cleared(pslots)
  <2> HIDE DEF s, v
  <2>1. s \in PageSlots /\ PagesSame(s, pslots)
    BY <1>6 DEF s
  <2>2. Counted(s, v) \in PageSlots /\ PagesSame(Counted(s, v), s)
    BY <2>1, CountedPages
  <2>3. Counted(s, v) \in PageSlots /\ PagesSame(Counted(s, v), pslots)
    BY <2>1, <2>2 DEF PagesSame
  <2> QED BY <2>3 DEF s
<1>20. Placed'
  BY <1>1, <1>5 DEF Placed
<1>10. CASE pslots' = Cleared(pslots) /\ Goto("pload") /\ UNCHANGED <<cur, lost>>
  <2>1. /\ job' \in Jobs /\ job'.pc = "pload" /\ job'.z = job.z /\ job'.b = job.b /\ job'.w = job.w
        /\ job'.p = job.p /\ job'.merge = job.merge
    BY <1>5, <1>10, GotoOK DEF PcNames
  <2>2. Typed'
    BY <1>1, <1>3, <1>6, <1>10, <2>1 DEF CtlInv, Typed, PageSlotIds
  <2>3. SlotsNamed'
    BY <1>1, <1>6, <1>10, NamedKeep DEF CtlInv, SlotsSame
  <2>4. AccessAt' /\ PageAt' /\ SaveAt' /\ Stopped'
    <3> HIDE DEF v
    <3> QED BY <1>1, <1>2, <1>3, <1>4, <1>6, <1>10, <2>1
            DEF AccessAt, PageAt, SaveAt, Stopped, Inside, Saving, TablePages, Home, PagesSame
  <2> QED BY <1>20, <2>2, <2>3, <2>4 DEF CtlInv
<1>11. CASE /\ y # None /\ pslots[v].dirty /\ Hits(y) # {}
            /\ cur' = IF y = CurZone THEN cur ELSE Lowest(Hits(y))
            /\ pslots' = Cleared(pslots)
            /\ job' = [job EXCEPT !.pc = "pflag", !.why = "page", !.back = cur]
            /\ UNCHANGED lost
  <2>1. /\ job' \in Jobs /\ job'.pc = "pflag" /\ job'.z = job.z /\ job'.b = job.b /\ job'.w = job.w
        /\ job'.p = job.p /\ job'.merge = job.merge /\ job'.back = cur
    <3>1. job' = [job EXCEPT !.pc = "pflag", !.why = "page", !.back = cur]
      BY <1>11
    <3>2. cur \in 0 .. BLK_SLOTS
      BY <1>2 DEF SlotIds
    <3> DEFINE j == [job EXCEPT !.pc = "pflag", !.why = "page"]
    <3>3. j \in Jobs /\ j.pc = "pflag" /\ j.z = job.z /\ j.b = job.b /\ j.w = job.w /\ j.p = job.p /\ j.merge = job.merge
      BY <1>5 DEF Jobs, PcNames
    <3>4. job' = [j EXCEPT !.back = cur]
      BY <3>1
    <3> HIDE DEF j
    <3> QED BY <3>2, <3>3, <3>4 DEF Jobs
  <2>2. cur' \in SlotIds /\ slots[cur'].zone = y
    BY <1>2, <1>11, HitsAre DEF CtlInv
  <2>3. Typed'
    BY <1>1, <1>3, <1>6, <1>11, <2>1, <2>2 DEF CtlInv, Typed, PageSlotIds, SlotIds
  <2>4. SlotsNamed'
    BY <1>1, <1>6, <1>11, NamedKeep DEF CtlInv, SlotsSame
  <2>5. pslots'[pcur'].zone = y /\ pslots'[pcur'].dirty /\ pcur' \in PageSlotIds
    BY <1>1, <1>3, <1>6, <1>11 DEF PagesSame
  <2>6. \A i \in PageSlotIds : ~(pslots'[i].zone = job.z /\ pslots'[i].log = job.p)
    BY <1>3, <1>6, <1>11 DEF PagesSame
  <2>7. AccessAt' /\ PageAt' /\ SaveAt' /\ Stopped'
    <3> HIDE DEF v, y
    <3> QED BY <1>1, <1>2, <1>4, <2>1, <2>2, <2>5, <2>6
            DEF AccessAt, PageAt, SaveAt, Stopped, Inside, Saving, TablePages, Home, CurZone
  <2> QED BY <1>20, <2>3, <2>4, <2>7 DEF CtlInv
<1>12. CASE /\ job' = [Idle EXCEPT !.pc = "failed"]
            /\ lost' = [lost EXCEPT !.failed = TRUE, !.noZone = TRUE]
            /\ pslots' = Counted(Cleared(pslots), v)
            /\ UNCHANGED cur
  <2>1. job' \in Jobs /\ job'.pc = "failed"
    BY <1>12, IdleOK DEF Jobs, PcNames
  <2>2. lost' \in Losses
    BY <1>12 DEF CtlInv, Typed, Losses
  <2>3. Typed'
    BY <1>1, <1>3, <1>7, <1>12, <2>1, <2>2 DEF CtlInv, Typed, PageSlotIds
  <2>4. SlotsNamed'
    BY <1>1, <1>7, <1>12, NamedKeep DEF CtlInv, SlotsSame
  <2> QED BY <1>20, <2>1, <2>3, <2>4, QuietAt DEF CtlInv
<1> QED BY <1>10, <1>11, <1>12 DEF PagePost

LEMMA CtlPageFlag == ASSUME CtlInv, PageFlag PROVE CtlInv'
<1>1. /\ job.pc = "pflag" /\ SetDirtyFlag /\ Goto("pwrite") /\ UNCHANGED <<ver, logs, spare, pslots, cur, pcur, pst, ctl>>
  BY DEF PageFlag
<1>2. /\ job' \in Jobs /\ job'.pc = "pwrite" /\ job'.z = job.z /\ job'.b = job.b /\ job'.w = job.w
      /\ job'.p = job.p /\ job'.merge = job.merge /\ job'.back = job.back
  BY <1>1, GotoOK DEF CtlInv, Typed, PcNames
<1>3. cur \in SlotIds /\ CurZone \in Zones /\ job.pc \in Inside
  BY <1>1, CurKnown DEF Inside
<1>4. /\ slots' \in Slots /\ slots'[cur].dirty = TRUE /\ \A i \in SlotIds : slots'[i].zone = slots[i].zone
      /\ \A i \in SlotIds \ {cur} : slots'[i] = slots[i]
      /\ tables' \in [Zones -> Table] /\ lost' \in Losses /\ count' \in [accesses : Nat, cuts : Nat, fails : Nat]
  BY <1>1, <1>3, FlagOK
<1>5. SlotsNamed'
  BY <1>1, <1>3, <1>4, FlaggedNamed DEF PagesSame
<1>6. Typed'
  BY <1>1, <1>2, <1>4 DEF CtlInv, Typed
<1>7. /\ job.back \in SlotIds /\ job.z \in Zones /\ job.b \in Blocks /\ ctl = job.z /\ slots[job.back].zone = job.z
      /\ (job.w => slots[job.back].dirty)
  BY <1>1 DEF CtlInv, AccessAt, Home, Inside
<1>8. /\ slots'[job.back].zone = job.z /\ (job.w => slots'[job.back].dirty)
  BY <1>4, <1>7
<1>9. /\ job.p \in Positions /\ logs[job.z][job.p].blk \in Blocks /\ (job.merge => job.w) /\ pcur \in PageSlotIds
      /\ slots[cur].zone = pslots[pcur].zone /\ pslots[pcur].dirty
      /\ \A i \in PageSlotIds : ~(pslots[i].zone = job.z /\ pslots[i].log = job.p)
  BY <1>1 DEF CtlInv, PageAt, CurZone
<1>10. AccessAt' /\ PageAt' /\ SaveAt' /\ Stopped'
  BY <1>1, <1>2, <1>3, <1>4, <1>7, <1>8, <1>9 DEF AccessAt, PageAt, SaveAt, Stopped, Inside, Saving, TablePages, Home, CurZone
<1>20. Placed'
  BY <1>1 DEF CtlInv, Placed
<1> QED BY <1>5, <1>6, <1>10, <1>20 DEF CtlInv

-----------------------------------------------------------------------------
(* Every action keeps the types and the control: page maps are written back.*)

LEMMA EntriesOK ==
    ASSUME NEW g \in Log
    PROVE  /\ Merged(g) \in Log /\ Merged(g).blk = None /\ Merged(g).last = "none"
           /\ Moved(g) \in Log /\ Moved(g).blk = g.blk /\ Moved(g).ver = g.ver + 1
           /\ \A n \in 0 .. PAGES, v \in Int :
                  /\ WithMap(g, n, v) \in Log /\ WithMap(g, n, v).blk = g.blk /\ WithMap(g, n, v).ver = g.ver
                  /\ WithMap(g, n, v).tv = v /\ WithMap(g, n, v).last = "table"
           /\ \A n \in 0 .. PAGES : /\ WithPage(g, n) \in Log /\ WithPage(g, n).blk = g.blk
                                    /\ WithPage(g, n).ver = g.ver + 1 /\ WithPage(g, n).last = "data"
<1>1. Merged(g) \in Log /\ Merged(g).blk = None /\ Merged(g).last = "none"
  <2>1. NoLog \in Log /\ NoLog.blk = None /\ NoLog.last = "none"
    BY Constants DEF NoLog, Log
  <2> QED BY <2>1 DEF Merged, Log
<1>2. Moved(g) \in Log /\ Moved(g).blk = g.blk /\ Moved(g).ver = g.ver + 1
  BY DEF Moved, Log
<1>3. ASSUME NEW n \in 0 .. PAGES, NEW v \in Int
      PROVE  /\ WithMap(g, n, v) \in Log /\ WithMap(g, n, v).blk = g.blk /\ WithMap(g, n, v).ver = g.ver
             /\ WithMap(g, n, v).tv = v /\ WithMap(g, n, v).last = "table"
  <2> DEFINE h == [g EXCEPT !.len = n, !.last = "table"]
  <2>1. h \in Log /\ h.blk = g.blk /\ h.ver = g.ver /\ h.last = "table"
    BY DEF Log
  <2>2. WithMap(g, n, v) = [h EXCEPT !.tv = v]
    BY DEF WithMap
  <2> HIDE DEF h
  <2> QED BY <2>1, <2>2 DEF Log
<1>4. ASSUME NEW n \in 0 .. PAGES
      PROVE  /\ WithPage(g, n) \in Log /\ WithPage(g, n).blk = g.blk
             /\ WithPage(g, n).ver = g.ver + 1 /\ WithPage(g, n).last = "data"
  <2> DEFINE h == [g EXCEPT !.len = n, !.last = "data"]
  <2>1. h \in Log /\ h.blk = g.blk /\ h.ver = g.ver /\ h.last = "data"
    BY DEF Log
  <2>2. WithPage(g, n) = [h EXCEPT !.ver = g.ver + 1] /\ g.ver + 1 \in Int
    BY DEF WithPage, Log
  <2> HIDE DEF h
  <2> QED BY <2>1, <2>2 DEF Log
<1> QED BY <1>1, <1>2, <1>3, <1>4

\* After the map of slot i was stored, the log block holds it, and the slot is empty;
\* or the log block is gone.
LEMMA StoreMapOK ==
    ASSUME CtlInv, job.pc \in Inside \union Saving, NEW i \in PageSlotIds, pslots[i].zone = CurZone, StoreMap(i)
    PROVE  \E n \in Positions, g \in Log :
               /\ n = pslots[i].log /\ logs' = PutEntry(CurZone, n, g)
               /\ \/ /\ g.last = "table" /\ g.blk = logs[CurZone][n].blk
                     /\ g.tv - g.ver = pslots[i].ver - logs[CurZone][n].ver
                  \/ g.last = "none" /\ g.blk = None
<1> DEFINE n == pslots[i].log
           g == logs[CurZone][n]
           v == pslots[i].ver
<1>1. CurZone \in Zones /\ n \in Positions
  BY CurKnown DEF CtlInv, SlotsNamed
<1>2. g \in Log /\ v \in Int
  BY <1>1 DEF CtlInv, Typed, PageSlots
<1>3. g.len \in 0 .. PAGES /\ g.ver \in Int /\ PAGES \in Nat /\ PAGES > 1
  BY <1>2, Constants DEF Log
<1>4. /\ LogNow(i) = g /\ MapToSave(i) = v /\ \A x : PutLog(i, x) <=> logs' = PutEntry(CurZone, n, x)
  BY Zenon DEF LogNow, MapToSave, PutLog, PutEntry
<1>5. \/ g.len < PAGES /\ logs' = PutEntry(CurZone, n, WithMap(g, g.len + 1, v))
      \/ \E k \in 1 .. PAGES - 1 : logs' = PutEntry(CurZone, n, WithMap(Moved(g), k + 1, v + 1))
      \/ logs' = PutEntry(CurZone, n, Merged(g))
  <2> HIDE DEF n, g, v
  <2> QED BY <1>4 DEF StoreMap
<1> HIDE DEF n, g, v
<1>6. CASE g.len < PAGES /\ logs' = PutEntry(CurZone, n, WithMap(g, g.len + 1, v))
  <2> DEFINE h == WithMap(g, g.len + 1, v)
  <2>1. g.len + 1 \in 0 .. PAGES
    BY <1>3, <1>6
  <2>2. h \in Log /\ h.last = "table" /\ h.blk = g.blk /\ h.tv = v /\ h.ver = g.ver
    BY <1>2, <2>1, EntriesOK
  <2> HIDE DEF h
  <2> QED BY <1>1, <1>6, <2>2 DEF n, g, v, h
<1>7. CASE \E k \in 1 .. PAGES - 1 : logs' = PutEntry(CurZone, n, WithMap(Moved(g), k + 1, v + 1))
  <2> PICK k \in 1 .. PAGES - 1 : logs' = PutEntry(CurZone, n, WithMap(Moved(g), k + 1, v + 1))
    BY <1>7
  <2> DEFINE h == WithMap(Moved(g), k + 1, v + 1)
  <2>1. k + 1 \in 0 .. PAGES /\ v + 1 \in Int
    BY <1>2, <1>3
  <2>2. Moved(g) \in Log /\ Moved(g).blk = g.blk /\ Moved(g).ver = g.ver + 1
    BY <1>2, EntriesOK
  <2>3. h \in Log /\ h.last = "table" /\ h.blk = g.blk /\ h.tv = v + 1 /\ h.ver = g.ver + 1
    BY <2>1, <2>2, EntriesOK
  <2>4. h.tv - h.ver = v - g.ver
    BY <1>2, <1>3, <2>3
  <2> HIDE DEF h
  <2> QED BY <1>1, <2>3, <2>4 DEF n, g, v, h
<1>8. CASE logs' = PutEntry(CurZone, n, Merged(g))
  BY <1>1, <1>2, <1>8, EntriesOK DEF n
<1> QED BY <1>5, <1>6, <1>7, <1>8

LEMMA PutEntryCur ==
    ASSUME logs \in [Zones -> [Positions -> Log]], CurZone \in Zones, NEW n \in Positions, NEW g \in Log
    PROVE  /\ PutEntry(CurZone, n, g) \in [Zones -> [Positions -> Log]]
           /\ PutEntry(CurZone, n, g)[CurZone][n] = g
           /\ \A z \in Zones, p \in Positions : z # CurZone \/ p # n => PutEntry(CurZone, n, g)[z][p] = logs[z][p]
<1> DEFINE c == CurZone
<1> HIDE DEF c
<1>1. c \in Zones
  BY DEF c
<1> QED BY <1>1, PutEntryOK DEF c

\* A slot is emptied while the entry of its log block is replaced.
LEMMA GoneKeeps ==
    ASSUME CtlInv, job.pc \in Inside \union Saving, NEW i \in PageSlotIds, pslots[i].zone = CurZone,
           NEW n \in Positions, n = pslots[i].log, NEW g \in Log, g.last = "table" => g.blk \in Blocks,
           logs' = PutEntry(CurZone, n, g), pslots' = Gone(i), slots' = Changed(slots), Changes
    PROVE  /\ logs' \in [Zones -> [Positions -> Log]] /\ pslots' \in PageSlots /\ slots' \in Slots /\ ver' \in [Zones -> Nat]
           /\ SlotsNamed' /\ SlotsSame(slots', slots)
           /\ \A j \in PageSlotIds : IF j = i THEN pslots'[j].zone = None /\ ~pslots'[j].dirty ELSE pslots'[j] = pslots[j]
           /\ \A z \in Zones, p \in Positions : ~(z = CurZone /\ p = pslots[i].log) => logs'[z][p] = logs[z][p]
<1>3. CurZone \in Zones /\ cur \in SlotIds
  BY CurKnown
<1>4. /\ logs' \in [Zones -> [Positions -> Log]] /\ logs'[CurZone][n] = g
      /\ \A z \in Zones, p \in Positions : z # CurZone \/ p # n => logs'[z][p] = logs[z][p]
  <2>1. logs \in [Zones -> [Positions -> Log]]
    BY DEF CtlInv, Typed
  <2>2. /\ PutEntry(CurZone, n, g) \in [Zones -> [Positions -> Log]] /\ PutEntry(CurZone, n, g)[CurZone][n] = g
        /\ \A z \in Zones, p \in Positions : z # CurZone \/ p # n => PutEntry(CurZone, n, g)[z][p] = logs[z][p]
    <3>1. PutEntry(CurZone, n, g) \in [Zones -> [Positions -> Log]]
      BY <1>3, <2>1, PutEntryCur
    <3>2. PutEntry(CurZone, n, g)[CurZone][n] = g
      BY <1>3, <2>1, PutEntryCur
    <3>3. \A z \in Zones, p \in Positions : z # CurZone \/ p # n => PutEntry(CurZone, n, g)[z][p] = logs[z][p]
      BY <1>3, <2>1, PutEntryCur
    <3> QED BY <3>1, <3>2, <3>3
  <2> QED BY <2>2
<1>5. pslots' \in PageSlots /\ \A j \in PageSlotIds : IF j = i THEN pslots'[j].zone = None /\ ~pslots'[j].dirty ELSE pslots'[j] = pslots[j]
  BY GoneOK DEF CtlInv, Typed
<1>6. slots' \in Slots /\ SlotsSame(slots', slots) /\ ver' \in [Zones -> Nat]
  BY <1>3, ChangedOK, ChangesOK DEF CtlInv, Typed
<1>8. SlotsNamed'
  <2>1. \A z \in Zones, p \in Positions : logs'[z][p].last = "table" => logs'[z][p].blk \in Blocks
    BY <1>4 DEF CtlInv, SlotsNamed
  <2>2. \A j \in PageSlotIds : pslots'[j].zone \in Zones => j # i /\ pslots'[j] = pslots[j]
    BY <1>5, Constants
  <2>3. \A j \in PageSlotIds : pslots'[j].zone \in Zones =>
            pslots'[j].log \in Positions /\ logs'[pslots'[j].zone][pslots'[j].log].blk \in Blocks
    <3> SUFFICES ASSUME NEW j \in PageSlotIds, pslots'[j].zone \in Zones
                 PROVE  pslots'[j].log \in Positions /\ logs'[pslots'[j].zone][pslots'[j].log].blk \in Blocks
      OBVIOUS
    <3>1. j # i /\ pslots'[j] = pslots[j] /\ pslots[j].zone \in Zones
      BY <2>2
    <3>2. pslots[j].log \in Positions /\ logs[pslots[j].zone][pslots[j].log].blk \in Blocks
      BY <3>1 DEF CtlInv, SlotsNamed
    <3>3. pslots[j].zone # CurZone \/ pslots[j].log # n
      BY <3>1 DEF CtlInv, SlotsNamed
    <3> QED BY <1>4, <3>1, <3>2, <3>3
  <2>4. \A j \in PageSlotIds : pslots'[j].dirty => j # i /\ pslots'[j] = pslots[j]
    BY <1>5
  <2> QED BY <1>6, <2>1, <2>2, <2>3, <2>4 DEF CtlInv, SlotsNamed, SlotsSame
<1> QED BY <1>4, <1>5, <1>6, <1>8

LEMMA StoreKeeps ==
    ASSUME CtlInv, job.pc \in Inside \union Saving, NEW i \in PageSlotIds, pslots[i].zone = CurZone, StoreMap(i)
    PROVE  /\ logs' \in [Zones -> [Positions -> Log]] /\ pslots' \in PageSlots /\ slots' \in Slots /\ ver' \in [Zones -> Nat]
           /\ SlotsNamed' /\ SlotsSame(slots', slots)
           /\ \A j \in PageSlotIds : IF j = i THEN pslots'[j].zone = None /\ ~pslots'[j].dirty ELSE pslots'[j] = pslots[j]
           /\ \A z \in Zones, p \in Positions : ~(z = CurZone /\ p = pslots[i].log) => logs'[z][p] = logs[z][p]
<1>1. PICK n \in Positions, g \in Log :
          /\ n = pslots[i].log /\ logs' = PutEntry(CurZone, n, g)
          /\ \/ /\ g.last = "table" /\ g.blk = logs[CurZone][n].blk
                /\ g.tv - g.ver = pslots[i].ver - logs[CurZone][n].ver
             \/ g.last = "none" /\ g.blk = None
  BY StoreMapOK
<1>2. pslots' = Gone(i) /\ slots' = Changed(slots) /\ Changes
  BY DEF StoreMap
<1>3. logs[CurZone][n].blk \in Blocks
  BY <1>1, CurKnown DEF CtlInv, SlotsNamed
<1>4. g.last = "table" => g.blk \in Blocks
  BY <1>1, <1>3
<1> QED BY <1>1, <1>2, <1>4, GoneKeeps

LEMMA SpareOK ==
    ASSUME CtlInv, CurZone \in Zones, TakesSpare
    PROVE  spare' \in [Zones -> 0 .. SPARES]
BY Constants DEF CtlInv, Typed, TakesSpare

\* The program of a page map fails: the log block moves, or the access fails.
LEMMA StoreFailsOK ==
    ASSUME CtlInv, job.pc \in Inside \union Saving, NEW i \in PageSlotIds, StoreMapFails(i)
    PROVE  /\ count' \in [accesses : Nat, cuts : Nat, fails : Nat] /\ UNCHANGED logs
           /\ slots' \in Slots /\ SlotsSame(slots', slots) /\ pslots' \in PageSlots /\ PagesSame(pslots', pslots)
           /\ ver' \in [Zones -> Nat] /\ spare' \in [Zones -> 0 .. SPARES] /\ lost' \in Losses /\ job' \in Jobs
           /\ \/ /\ UNCHANGED <<pslots, job, lost>> /\ slots' = Changed(slots) /\ Changes
              \/ job'.pc \in {"leave", "failed"} /\ lost'.failed = TRUE
<1>1. cur \in SlotIds /\ CurZone \in Zones /\ Typed
  BY CurKnown DEF CtlInv
<1>2. count' \in [accesses : Nat, cuts : Nat, fails : Nat] /\ UNCHANGED logs
  BY <1>1, FailingOK DEF StoreMapFails
<1>3. CASE TakesSpare /\ slots' = Changed(slots) /\ Changes /\ UNCHANGED <<pslots, job, lost>>
  <2>1. slots' \in Slots /\ SlotsSame(slots', slots) /\ ver' \in [Zones -> Nat] /\ spare' \in [Zones -> 0 .. SPARES]
    BY <1>1, <1>3, ChangedOK, ChangesOK, SpareOK DEF Typed
  <2> QED BY <1>1, <1>2, <1>3, <2>1 DEF Typed, PagesSame
<1>4. CASE Fail(job.why) /\ UNCHANGED <<ver, spare, slots>>
  BY <1>1, <1>2, <1>4, FailOK DEF Typed, SlotsSame
<1> QED BY <1>3, <1>4 DEF StoreMapFails

LEMMA CtlPageWriteBack == ASSUME CtlInv, PageWriteBack PROVE CtlInv'
<1>1. /\ job.pc = "pwrite" /\ StoreMap(pcur) /\ cur' = job.back /\ Goto("pload")
      /\ UNCHANGED <<tables, spare, pcur, pst, ctl, count, lost>>
  BY DEF PageWriteBack, TmpBmt
<1>2. /\ job' \in Jobs /\ job'.pc = "pload" /\ job'.z = job.z /\ job'.b = job.b /\ job'.w = job.w
      /\ job'.p = job.p /\ job'.merge = job.merge
  BY <1>1, GotoOK DEF CtlInv, Typed, PcNames
<1>3. /\ job.back \in SlotIds /\ job.z \in Zones /\ job.b \in Blocks /\ ctl = job.z /\ slots[job.back].zone = job.z
      /\ (job.w => slots[job.back].dirty)
  BY <1>1 DEF CtlInv, AccessAt, Home, Inside
<1>4. /\ job.p \in Positions /\ logs[job.z][job.p].blk \in Blocks /\ (job.merge => job.w) /\ pcur \in PageSlotIds
      /\ CurZone = pslots[pcur].zone /\ pslots[pcur].dirty
      /\ \A i \in PageSlotIds : ~(pslots[i].zone = job.z /\ pslots[i].log = job.p)
  BY <1>1 DEF CtlInv, PageAt
<1>5. /\ logs' \in [Zones -> [Positions -> Log]] /\ pslots' \in PageSlots /\ slots' \in Slots /\ ver' \in [Zones -> Nat]
      /\ SlotsNamed' /\ SlotsSame(slots', slots)
      /\ \A j \in PageSlotIds : IF j = pcur THEN pslots'[j].zone = None /\ ~pslots'[j].dirty ELSE pslots'[j] = pslots[j]
      /\ \A z \in Zones, p \in Positions : ~(z = CurZone /\ p = pslots[pcur].log) => logs'[z][p] = logs[z][p]
  BY <1>1, <1>4, StoreKeeps DEF Inside
<1>6. Typed'
  BY <1>1, <1>2, <1>3, <1>5 DEF CtlInv, Typed, SlotIds
<1>7. logs'[job.z][job.p] = logs[job.z][job.p]
  BY <1>3, <1>4, <1>5
<1>8. \A i \in PageSlotIds : ~(pslots'[i].zone = job.z /\ pslots'[i].log = job.p)
  BY <1>3, <1>4, <1>5, Constants
<1>9. slots'[job.back].zone = job.z /\ (job.w => slots'[job.back].dirty)
  BY <1>3, <1>5 DEF SlotsSame
<1>10. AccessAt' /\ PageAt' /\ SaveAt' /\ Stopped'
  <2> HIDE <1>5, <1>6
  <2> QED BY <1>1, <1>2, <1>3, <1>4, <1>7, <1>8, <1>9 DEF AccessAt, PageAt, SaveAt, Stopped, Inside, Saving, TablePages, Home
<1>20. Placed'
  BY <1>1 DEF CtlInv, Placed
<1> QED BY <1>5, <1>6, <1>10, <1>20 DEF CtlInv

LEMMA CtlPageWriteBackFails == ASSUME CtlInv, PageWriteBackFails PROVE CtlInv'
<1>1. job.pc = "pwrite" /\ StoreMapFails(pcur) /\ UNCHANGED <<tables, cur, pcur, pst, ctl>>
  BY DEF PageWriteBackFails
<1>2. pcur \in PageSlotIds
  BY <1>1 DEF CtlInv, PageAt
<1>3. /\ count' \in [accesses : Nat, cuts : Nat, fails : Nat] /\ UNCHANGED logs
      /\ slots' \in Slots /\ SlotsSame(slots', slots) /\ pslots' \in PageSlots /\ PagesSame(pslots', pslots)
      /\ ver' \in [Zones -> Nat] /\ spare' \in [Zones -> 0 .. SPARES] /\ lost' \in Losses /\ job' \in Jobs
      /\ UNCHANGED <<pslots, job, lost>> \/ job'.pc \in {"leave", "failed"}
  BY <1>1, <1>2, StoreFailsOK DEF Inside
<1>4. Typed'
  BY <1>1, <1>3 DEF CtlInv, Typed
<1>5. SlotsNamed'
  BY <1>3, NamedKeep DEF CtlInv
<1>6. ASSUME UNCHANGED <<pslots, job>>
      PROVE  AccessAt' /\ PageAt' /\ SaveAt' /\ Stopped'
  <2>1. job.back \in SlotIds /\ cur \in SlotIds
    BY <1>1 DEF CtlInv, AccessAt, PageAt, Home, Inside
  <2>2. slots'[job.back].zone = slots[job.back].zone /\ slots'[job.back].dirty = slots[job.back].dirty
        /\ slots'[cur].zone = slots[cur].zone /\ slots'[cur].dirty = slots[cur].dirty
    BY <1>3, <2>1 DEF SlotsSame
  <2>3. AccessAt'
    BY <1>1, <1>6, <2>2 DEF CtlInv, AccessAt, Home, Inside
  <2>4. PageAt'
    BY <1>1, <1>3, <1>6, <2>2 DEF CtlInv, PageAt, CurZone
  <2>5. SaveAt' /\ Stopped'
    BY <1>1, <1>6 DEF SaveAt, Stopped, Saving, TablePages
  <2> QED BY <2>3, <2>4, <2>5
<1>7. ASSUME job'.pc \in {"leave", "failed"}
      PROVE  AccessAt' /\ PageAt' /\ SaveAt' /\ Stopped'
  BY <1>7, QuietAt
<1>20. Placed'
  BY <1>1 DEF CtlInv, Placed
<1> QED BY <1>3, <1>4, <1>5, <1>6, <1>7, <1>20 DEF CtlInv

\* A map is put into the slot of the access.
LEMMA FetchedOK ==
    ASSUME pslots \in PageSlots, pcur \in PageSlotIds, CurZone \in Zones, job.p \in Positions, NEW v \in Int, NEW d \in BOOLEAN
    PROVE  /\ Counted(Fetched(v, d), pcur) \in PageSlots
           /\ Counted(Fetched(v, d), pcur)[pcur].zone = CurZone /\ Counted(Fetched(v, d), pcur)[pcur].log = job.p
           /\ Counted(Fetched(v, d), pcur)[pcur].ver = v /\ Counted(Fetched(v, d), pcur)[pcur].dirty = d
           /\ \A i \in PageSlotIds \ {pcur} :
                  /\ Counted(Fetched(v, d), pcur)[i].zone = pslots[i].zone /\ Counted(Fetched(v, d), pcur)[i].log = pslots[i].log
                  /\ Counted(Fetched(v, d), pcur)[i].ver = pslots[i].ver /\ Counted(Fetched(v, d), pcur)[i].dirty = pslots[i].dirty
<1> DEFINE r == [pslots[pcur] EXCEPT !.zone = CurZone, !.log = job.p, !.ver = v, !.dirty = d]
           s == [pslots EXCEPT ![pcur] = r]
<1>1. Fetched(v, d) = s
  BY DEF Fetched
<1>2. /\ r \in [zone : Zones \union {None}, log : Positions \union {None}, ver : Int, dirty : BOOLEAN, cnt : Nat]
      /\ r.zone = CurZone /\ r.log = job.p /\ r.ver = v /\ r.dirty = d
  <2> DEFINE q == [pslots[pcur] EXCEPT !.zone = CurZone, !.log = job.p]
  <2>1. q \in [zone : Zones \union {None}, log : Positions \union {None}, ver : Int, dirty : BOOLEAN, cnt : Nat] /\ q.zone = CurZone /\ q.log = job.p
    BY DEF PageSlots
  <2>2. r = [q EXCEPT !.ver = v, !.dirty = d]
    OBVIOUS
  <2> HIDE DEF q
  <2> QED BY <2>1, <2>2
<1> HIDE DEF r
<1>3. s \in PageSlots /\ s[pcur] = r /\ \A i \in PageSlotIds \ {pcur} : s[i] = pslots[i]
  BY <1>2 DEF PageSlots
<1> HIDE DEF s
<1>4. Counted(s, pcur) \in PageSlots /\ PagesSame(Counted(s, pcur), s) /\ VersSame(Counted(s, pcur), s, PageSlotIds)
  BY <1>3, CountedPages
<1>5. Counted(Fetched(v, d), pcur) = Counted(s, pcur)
  BY <1>1
<1> QED BY <1>2, <1>3, <1>4, <1>5 DEF PagesSame, VersSame

\* The slot holds the map of the log block of the access.
LEMMA FetchedNamed ==
    ASSUME CtlInv, job.pc = "pload", UNCHANGED logs, NEW v \in Int, NEW d \in BOOLEAN,
           pslots' = Counted(Fetched(v, d), pcur),
           \A i \in SlotIds : slots'[i].zone = slots[i].zone,
           \A i \in SlotIds \ {cur} : slots'[i].dirty = slots[i].dirty,
           slots'[cur].dirty = slots[cur].dirty \/ slots'[cur].dirty = TRUE, d = TRUE => slots'[cur].dirty
    PROVE  SlotsNamed' /\ pslots' \in PageSlots /\ pcur \in PageSlotIds /\ pslots'[pcur].zone = job.z /\ pslots'[pcur].log = job.p
<1>1. cur \in SlotIds /\ CurZone = job.z /\ slots[cur].zone = job.z /\ job.z \in Zones
  BY AtHome DEF Inside
<1>2. /\ job.p \in Positions /\ logs[job.z][job.p].blk \in Blocks /\ pcur \in PageSlotIds
      /\ \A i \in PageSlotIds : ~(pslots[i].zone = job.z /\ pslots[i].log = job.p)
  BY DEF CtlInv, PageAt
<1>3. /\ pslots' \in PageSlots /\ pslots'[pcur].zone = job.z /\ pslots'[pcur].log = job.p /\ pslots'[pcur].dirty = d
      /\ \A i \in PageSlotIds \ {pcur} : /\ pslots'[i].zone = pslots[i].zone /\ pslots'[i].log = pslots[i].log
                                         /\ pslots'[i].dirty = pslots[i].dirty
  BY <1>1, <1>2, FetchedOK DEF CtlInv, Typed
<1>4. \A i \in SlotIds : slots'[i].dirty => slots'[i].zone \in Zones
  BY <1>1 DEF CtlInv, SlotsNamed
<1>5. \A i \in PageSlotIds : pslots'[i].dirty => \E j \in SlotIds : slots'[j].zone = pslots'[i].zone /\ slots'[j].dirty
  <2> SUFFICES ASSUME NEW i \in PageSlotIds, pslots'[i].dirty
               PROVE  \E j \in SlotIds : slots'[j].zone = pslots'[i].zone /\ slots'[j].dirty
    OBVIOUS
  <2>1. CASE i = pcur
    BY <1>1, <1>3, <2>1
  <2>2. CASE i # pcur
    <3>1. PICK j \in SlotIds : slots[j].zone = pslots[i].zone /\ slots[j].dirty
      BY <1>3, <2>2 DEF CtlInv, SlotsNamed
    <3>2. slots'[j].dirty
      BY <3>1
    <3> QED BY <1>3, <2>2, <3>1, <3>2
  <2> QED BY <2>1, <2>2
<1>6. /\ \A i \in PageSlotIds : pslots'[i].dirty => pslots'[i].zone \in Zones
      /\ \A i \in PageSlotIds : pslots'[i].zone \in Zones =>
             pslots'[i].log \in Positions /\ logs'[pslots'[i].zone][pslots'[i].log].blk \in Blocks
      /\ \A i, j \in PageSlotIds : pslots'[i].zone \in Zones /\ pslots'[i].zone = pslots'[j].zone /\ pslots'[i].log = pslots'[j].log => i = j
  <2>1. \A i \in PageSlotIds : pslots'[i].dirty => pslots'[i].zone \in Zones
    BY <1>1, <1>3 DEF CtlInv, SlotsNamed
  <2>2. \A i \in PageSlotIds : pslots'[i].zone \in Zones =>
             pslots'[i].log \in Positions /\ logs'[pslots'[i].zone][pslots'[i].log].blk \in Blocks
    BY <1>1, <1>2, <1>3 DEF CtlInv, SlotsNamed
  <2>3. \A i, j \in PageSlotIds : pslots'[i].zone \in Zones /\ pslots'[i].zone = pslots'[j].zone /\ pslots'[i].log = pslots'[j].log => i = j
    BY <1>1, <1>2, <1>3 DEF CtlInv, SlotsNamed
  <2> QED BY <2>1, <2>2, <2>3
<1>7. SlotsNamed'
  BY <1>4, <1>5, <1>6 DEF CtlInv, SlotsNamed
<1> QED BY <1>2, <1>3, <1>7

LEMMA CtlPageLoad == ASSUME CtlInv, PageLoad PROVE CtlInv'
<1> DEFINE g == logs[CurZone][job.p]
           v == IF g.len = 0 THEN g.ver ELSE g.tv
<1>1. /\ job.pc = "pload" /\ pslots' = Counted(Fetched(v, FALSE), pcur) /\ AfterPage
      /\ UNCHANGED <<ver, logs, tables, spare, slots, cur, pcur, pst, ctl, count, lost>>
  BY DEF PageLoad, flash
<1>2. v \in Int
  <2>1. CurZone \in Zones /\ job.p \in Positions
    BY <1>1, AtHome DEF CtlInv, PageAt, Inside
  <2>2. g \in Log
    BY <2>1 DEF CtlInv, Typed
  <2> HIDE DEF g
  <2> QED BY <2>2 DEF Log
<1> HIDE DEF v
<1>3. SlotsNamed' /\ pslots' \in PageSlots /\ pcur \in PageSlotIds /\ pslots'[pcur].zone = job.z /\ pslots'[pcur].log = job.p
  BY <1>1, <1>2, FetchedNamed
<1>4. Typed'
  BY <1>1, <1>3, AfterPageOK DEF CtlInv, Typed
<1>5. AccessAt' /\ PageAt' /\ SaveAt' /\ Stopped'
  BY <1>1, <1>3, ArrivesAtPage DEF SlotsSame
<1>20. Placed'
  BY <1>1 DEF CtlInv, Placed
<1> QED BY <1>3, <1>4, <1>5, <1>20 DEF CtlInv

LEMMA CtlPageRebuild == ASSUME CtlInv, PageRebuild PROVE CtlInv'
<1> DEFINE v == logs[CurZone][job.p].ver
<1>1. /\ job.pc = "pload" /\ SetDirtyFlag /\ pslots' = Counted(Fetched(v, TRUE), pcur) /\ AfterPage
      /\ UNCHANGED <<ver, logs, spare, cur, pcur, pst, ctl>>
  BY DEF PageRebuild
<1>2. v \in Int
  <2>1. CurZone \in Zones /\ job.p \in Positions
    BY <1>1, AtHome DEF CtlInv, PageAt, Inside
  <2> QED BY <2>1 DEF CtlInv, Typed, Log
<1> HIDE DEF v
<1>3. /\ slots' \in Slots /\ slots'[cur].dirty = TRUE /\ \A i \in SlotIds : slots'[i].zone = slots[i].zone
      /\ \A i \in SlotIds \ {cur} : slots'[i] = slots[i]
      /\ tables' \in [Zones -> Table] /\ lost' \in Losses /\ count' \in [accesses : Nat, cuts : Nat, fails : Nat]
  BY <1>1, FlagOK DEF Inside
<1>4. SlotsNamed' /\ pslots' \in PageSlots /\ pcur \in PageSlotIds /\ pslots'[pcur].zone = job.z /\ pslots'[pcur].log = job.p
  <2>1. \A i \in SlotIds \ {cur} : slots'[i].dirty = slots[i].dirty
    BY <1>3
  <2> QED BY <1>1, <1>2, <1>3, <2>1, FetchedNamed
<1>5. Typed'
  BY <1>1, <1>3, <1>4, AfterPageOK DEF CtlInv, Typed
<1>6. AccessAt' /\ PageAt' /\ SaveAt' /\ Stopped'
  <2>1. cur \in SlotIds
    BY <1>1, AtHome DEF Inside
  <2> QED BY <1>1, <1>3, <1>4, <2>1, ArrivesAtPage
<1>20. Placed'
  BY <1>1 DEF CtlInv, Placed
<1> QED BY <1>4, <1>5, <1>6, <1>20 DEF CtlInv

LEMMA CtlPageLoadFails == ASSUME CtlInv, PageLoadFails PROVE CtlInv'
<1> DEFINE s == [pslots EXCEPT ![pcur].dirty = FALSE, ![pcur].ver = Mixed]
<1>1. /\ job.pc = "pload" /\ Failing /\ job' = [Idle EXCEPT !.pc = "failed"] /\ lost' = [lost EXCEPT !.failed = TRUE]
      /\ pslots' = Counted(s, pcur)
      /\ UNCHANGED <<ver, logs, tables, spare, slots, cur, pcur, pst, ctl>>
  BY DEF PageLoadFails, flash
<1>2. pcur \in PageSlotIds
  BY <1>1 DEF CtlInv, PageAt
<1>3. /\ s \in PageSlots /\ \A i \in PageSlotIds : /\ s[i].zone = pslots[i].zone /\ s[i].log = pslots[i].log
                                                   /\ s[i].dirty => pslots[i].dirty
  <2> DEFINE r == [pslots EXCEPT ![pcur].dirty = FALSE]
  <2>1. r \in PageSlots /\ \A i \in PageSlotIds : r[i].zone = pslots[i].zone /\ r[i].log = pslots[i].log /\ (r[i].dirty => pslots[i].dirty)
    BY <1>2 DEF CtlInv, Typed, PageSlots
  <2>2. s = [r EXCEPT ![pcur].ver = Mixed]
    OBVIOUS
  <2> HIDE DEF r, s
  <2>3. Mixed \in Int
    BY DEF Mixed
  <2>4. s \in PageSlots
    BY <1>2, <2>1, <2>2, <2>3 DEF PageSlots
  <2>5. \A i \in PageSlotIds : s[i].zone = r[i].zone /\ s[i].log = r[i].log /\ s[i].dirty = r[i].dirty
    BY <1>2, <2>1, <2>2 DEF PageSlots
  <2> QED BY <2>1, <2>4, <2>5
<1> HIDE DEF s
<1>4. /\ pslots' \in PageSlots /\ \A i \in PageSlotIds : /\ pslots'[i].zone = pslots[i].zone /\ pslots'[i].log = pslots[i].log
                                                         /\ pslots'[i].dirty => pslots[i].dirty
  <2>1. Counted(s, pcur) \in PageSlots /\ PagesSame(Counted(s, pcur), s)
    BY <1>3, CountedPages
  <2> QED BY <1>1, <1>3, <2>1 DEF PagesSame
<1>5. job' \in Jobs /\ job'.pc = "failed"
  BY <1>1, IdleOK DEF Jobs, PcNames
<1>6. count' \in [accesses : Nat, cuts : Nat, fails : Nat] /\ lost' \in Losses
  BY <1>1, FailingOK DEF CtlInv, Typed, Losses
<1>7. Typed'
  BY <1>1, <1>4, <1>5, <1>6 DEF CtlInv, Typed
<1>8. SlotsNamed'
  BY <1>1, <1>4 DEF CtlInv, SlotsNamed
<1>20. Placed'
  BY <1>1 DEF CtlInv, Placed
<1> QED BY <1>5, <1>7, <1>8, <1>20, QuietAt DEF CtlInv

LEMMA EnteredOK ==
    ASSUME pslots \in PageSlots, pcur \in PageSlotIds, pslots' = [pslots EXCEPT ![pcur] = Entered(@)]
    PROVE  /\ pslots' \in PageSlots /\ pslots'[pcur].dirty = TRUE /\ pslots'[pcur].ver = pslots[pcur].ver + 1
           /\ \A i \in PageSlotIds : pslots'[i].zone = pslots[i].zone /\ pslots'[i].log = pslots[i].log
           /\ \A i \in PageSlotIds \ {pcur} : pslots'[i] = pslots[i]
<1> DEFINE m == pslots[pcur]
           R == [zone : Zones \union {None}, log : Positions \union {None}, ver : Int, dirty : BOOLEAN, cnt : Nat]
<1>1. m \in R
  BY DEF PageSlots
<1> HIDE DEF m
<1>2. Entered(m) \in R /\ Entered(m).zone = m.zone /\ Entered(m).log = m.log /\ Entered(m).dirty = TRUE /\ Entered(m).ver = m.ver + 1
  <2> DEFINE h == [m EXCEPT !.ver = m.ver + 1]
  <2>1. h \in R /\ h.zone = m.zone /\ h.log = m.log /\ h.ver = m.ver + 1
    BY <1>1
  <2>2. Entered(m) = [h EXCEPT !.dirty = TRUE]
    BY DEF Entered
  <2> HIDE DEF h
  <2> QED BY <2>1, <2>2
<1>3. pslots' = [pslots EXCEPT ![pcur] = Entered(m)]
  BY DEF m
<1> QED BY <1>2, <1>3 DEF m, PageSlots

LEMMA CtlMergeVictim == ASSUME CtlInv, MergeVictim PROVE CtlInv'
<1> DEFINE g == logs[CurZone][job.p]
<1>1. /\ job.pc = "merge" /\ logs' = PutEntry(CurZone, job.p, Merged(g)) /\ pslots' = Gone(pcur)
      /\ slots' = Changed(slots) /\ Changes /\ Goto("log")
      /\ UNCHANGED <<tables, spare, cur, pcur, pst, ctl, count, lost>>
  BY Zenon DEF MergeVictim, ClearCurMapTbl, PutEntry
<1>2. /\ cur \in SlotIds /\ CurZone = job.z /\ slots[cur].zone = job.z /\ ctl = job.z /\ job.z \in Zones /\ job.b \in Blocks
      /\ (job.w => slots[cur].dirty)
  BY <1>1, AtHome DEF Inside
<1>3. job.p \in Positions /\ pcur \in PageSlotIds /\ pslots[pcur].zone = job.z /\ pslots[pcur].log = job.p
  BY <1>1 DEF CtlInv, PageAt
<1>4. Merged(g) \in Log /\ Merged(g).last = "none"
  <2>1. g \in Log
    BY <1>2, <1>3 DEF CtlInv, Typed
  <2> HIDE DEF g
  <2> QED BY <2>1, EntriesOK
<1>5. job' \in Jobs /\ job'.pc = "log" /\ job'.z = job.z /\ job'.b = job.b /\ job'.w = job.w
  BY <1>1, GotoOK DEF CtlInv, Typed, PcNames
<1> HIDE DEF g
<1>6. /\ logs' \in [Zones -> [Positions -> Log]] /\ pslots' \in PageSlots /\ slots' \in Slots /\ ver' \in [Zones -> Nat]
      /\ SlotsNamed' /\ SlotsSame(slots', slots)
  <2>1. PICK n \in Positions : n = job.p
    BY <1>3
  <2>2. PICK h \in Log : h = Merged(g)
    BY <1>4
  <2> QED BY <1>1, <1>2, <1>3, <1>4, <2>1, <2>2, GoneKeeps DEF Inside
<1>7. Typed'
  BY <1>1, <1>5, <1>6 DEF CtlInv, Typed
<1>8. AccessAt' /\ PageAt' /\ SaveAt' /\ Stopped'
  <2>1. slots'[cur].zone = job.z /\ (job.w => slots'[cur].dirty)
    BY <1>2, <1>6 DEF SlotsSame
  <2> HIDE <1>6, <1>7
  <2> QED BY <1>1, <1>2, <1>5, <2>1 DEF AccessAt, PageAt, SaveAt, Stopped, Inside, Saving, TablePages, Home
<1>20. Placed'
  BY <1>1 DEF CtlInv, Placed
<1> QED BY <1>6, <1>7, <1>8, <1>20 DEF CtlInv

LEMMA CtlWritePage == ASSUME CtlInv, WritePage PROVE CtlInv'
<1> DEFINE g == logs[CurZone][job.p]
           Written(n) == /\ logs' = PutEntry(CurZone, job.p, WithPage(g, n))
                         /\ pslots' = [pslots EXCEPT ![pcur] = Entered(@)]
                         /\ job' = Idle
<1>1. /\ job.pc = "write" /\ slots' = Changed(slots) /\ Changes
      /\ UNCHANGED <<tables, spare, cur, pcur, pst, ctl, count, lost>>
  BY DEF WritePage
<1>2. /\ cur \in SlotIds /\ CurZone = job.z /\ slots[cur].zone = job.z /\ ctl = job.z /\ job.z \in Zones /\ job.b \in Blocks
      /\ (job.w => slots[cur].dirty)
  BY <1>1, AtHome DEF Inside
<1>3. job.p \in Positions /\ pcur \in PageSlotIds /\ pslots[pcur].zone = job.z /\ pslots[pcur].log = job.p /\ job.w
  BY <1>1 DEF CtlInv, PageAt
<1>4. g \in Log /\ g.len \in 0 .. PAGES /\ logs[job.z][job.p].blk \in Blocks
  BY <1>1, <1>2, <1>3 DEF CtlInv, Typed, PageAt, Log
<1>5. \/ g.len < PAGES /\ Written(g.len + 1)
      \/ \E k \in 1 .. PAGES - 1 : Written(k + 1)
      \/ logs' = PutEntry(CurZone, job.p, Merged(g)) /\ pslots' = Gone(pcur) /\ Goto("log")
  BY Zenon DEF WritePage, PutEntry, ClearCurMapTbl
<1>6. slots' \in Slots /\ SlotsSame(slots', slots) /\ ver' \in [Zones -> Nat]
  BY <1>1, <1>2, ChangedOK, ChangesOK DEF CtlInv, Typed
<1>7. slots'[cur].zone = job.z /\ slots'[cur].dirty
  BY <1>2, <1>3, <1>6 DEF SlotsSame
<1>20. Placed'
  BY <1>1 DEF CtlInv, Placed
<1>8. ASSUME NEW n \in 0 .. PAGES, Written(n)
      PROVE  CtlInv'
  <2> DEFINE h == WithPage(g, n)
  <2>1. h \in Log /\ h.blk = g.blk /\ h.last = "data"
    <3> HIDE DEF g
    <3> QED BY <1>4, EntriesOK
  <2> HIDE DEF h
  <2>2. /\ logs' \in [Zones -> [Positions -> Log]] /\ logs'[job.z][job.p] = h
        /\ \A z \in Zones, p \in Positions : z # job.z \/ p # job.p => logs'[z][p] = logs[z][p]
    <3>1. PICK q \in Positions : q = job.p
      BY <1>3
    <3>2. logs' = PutEntry(job.z, q, h)
      BY <1>2, <1>8, <3>1 DEF h
    <3>3. logs \in [Zones -> [Positions -> Log]]
      BY DEF CtlInv, Typed
    <3> HIDE <1>5, <1>8
    <3>4. /\ PutEntry(job.z, q, h) \in [Zones -> [Positions -> Log]] /\ PutEntry(job.z, q, h)[job.z][q] = h
          /\ \A z \in Zones, p \in Positions : z # job.z \/ p # q => PutEntry(job.z, q, h)[z][p] = logs[z][p]
      BY <1>2, <2>1, <3>3, PutEntryOK
    <3> QED BY <3>1, <3>2, <3>4
  <2>3. /\ pslots' \in PageSlots /\ pslots'[pcur].dirty = TRUE
        /\ \A i \in PageSlotIds : pslots'[i].zone = pslots[i].zone /\ pslots'[i].log = pslots[i].log
        /\ \A i \in PageSlotIds \ {pcur} : pslots'[i] = pslots[i]
    BY <1>3, <1>8, EnteredOK DEF CtlInv, Typed
  <2>4. job' = Idle
    BY <1>8
  <2> HIDE <1>5, <1>8
  <2>5. Typed'
    BY <1>1, <1>6, <2>2, <2>3, <2>4, IdleOK DEF CtlInv, Typed
  <2>6. \A z \in Zones, p \in Positions : logs[z][p].blk \in Blocks => logs'[z][p].blk \in Blocks
    BY <1>2, <1>4, <2>1, <2>2
  <2>7. \A z \in Zones, p \in Positions : logs'[z][p].last = "table" => logs'[z][p].blk \in Blocks
    BY <1>2, <1>4, <2>1, <2>2 DEF CtlInv, SlotsNamed
  <2>8. \A i \in PageSlotIds : pslots'[i].dirty => \E j \in SlotIds : slots'[j].zone = pslots'[i].zone /\ slots'[j].dirty
    <3> SUFFICES ASSUME NEW i \in PageSlotIds, pslots'[i].dirty
                 PROVE  \E j \in SlotIds : slots'[j].zone = pslots'[i].zone /\ slots'[j].dirty
      OBVIOUS
    <3>1. CASE i = pcur
      BY <1>2, <1>3, <1>7, <2>3, <3>1
    <3>2. CASE i # pcur
      <4>1. PICK j \in SlotIds : slots[j].zone = pslots[i].zone /\ slots[j].dirty
        BY <2>3, <3>2 DEF CtlInv, SlotsNamed
      <4> QED BY <1>6, <2>3, <4>1 DEF SlotsSame
    <3> QED BY <3>1, <3>2
  <2>9. \A i \in PageSlotIds : pslots'[i].dirty => pslots'[i].zone \in Zones
    BY <1>2, <1>3, <2>3 DEF CtlInv, SlotsNamed
  <2>10. SlotsNamed'
    BY <1>6, <2>3, <2>6, <2>7, <2>8, <2>9 DEF CtlInv, SlotsNamed, SlotsSame
  <2>11. AccessAt' /\ PageAt' /\ SaveAt' /\ Stopped'
    BY <1>1, <1>2, <1>7, <2>4, IdleOK DEF AccessAt, PageAt, SaveAt, Stopped, Inside, Saving, TablePages, CurZone
  <2> QED BY <1>20, <2>5, <2>10, <2>11 DEF CtlInv
<1>9. ASSUME logs' = PutEntry(CurZone, job.p, Merged(g)), pslots' = Gone(pcur), Goto("log")
      PROVE  CtlInv'
  <2>1. Merged(g) \in Log /\ Merged(g).last = "none"
    <3> HIDE DEF g
    <3> QED BY <1>4, EntriesOK
  <2>2. job' \in Jobs /\ job'.pc = "log" /\ job'.z = job.z /\ job'.b = job.b /\ job'.w = job.w
    BY <1>9, GotoOK DEF CtlInv, Typed, PcNames
  <2>3. logs' \in [Zones -> [Positions -> Log]] /\ pslots' \in PageSlots /\ SlotsNamed'
    <3>1. PICK n \in Positions : n = job.p
      BY <1>3
    <3>2. PICK h \in Log : h = Merged(g)
      BY <2>1
    <3> HIDE DEF g
    <3> QED BY <1>1, <1>2, <1>3, <1>9, <2>1, <3>1, <3>2, GoneKeeps DEF Inside
  <2>4. Typed'
    BY <1>1, <1>6, <2>2, <2>3 DEF CtlInv, Typed
  <2>5. AccessAt' /\ PageAt' /\ SaveAt' /\ Stopped'
    <3> HIDE <1>5, <1>9, <2>3, <2>4
    <3> QED BY <1>1, <1>2, <1>7, <2>2 DEF AccessAt, PageAt, SaveAt, Stopped, Inside, Saving, TablePages, Home
  <2> QED BY <1>20, <2>3, <2>4, <2>5 DEF CtlInv
<1>10. CASE g.len < PAGES /\ Written(g.len + 1)
  <2>1. PICK n \in 0 .. PAGES : n = g.len + 1
    BY <1>4, <1>10, Constants
  <2> HIDE DEF g
  <2> QED BY <1>8, <1>10, <2>1
<1>11. CASE \E k \in 1 .. PAGES - 1 : Written(k + 1)
  <2> PICK k \in 1 .. PAGES - 1 : Written(k + 1)
    BY <1>11
  <2>1. PICK n \in 0 .. PAGES : n = k + 1
    BY Constants
  <2> HIDE DEF g
  <2> QED BY <1>8, <2>1
<1> HIDE DEF g, Written
<1> QED BY <1>5, <1>9, <1>10, <1>11

LEMMA CtlSavePage == ASSUME CtlInv, SavePage PROVE CtlInv'
<1>1. /\ job.pc = "save" /\ DirtyMaps # {} /\ pcur' = Lowest(DirtyMaps)
      /\ UNCHANGED <<tables, spare, cur, pst, ctl, job, count, lost>>
  BY DEF SavePage, MapsFirst
<1>2. PICK n \in PageSlotIds : n = pcur' /\ pslots[n].zone = CurZone /\ pslots[n].dirty
  <2>1. DirtyMaps \in SUBSET PageSlotIds
    BY DEF DirtyMaps, CtlInv, Typed, PageSlots
  <2>2. Lowest(DirtyMaps) \in DirtyMaps
    BY <1>1, <2>1, Constants, LowestOK DEF PageSlotIds
  <2> QED BY <1>1, <2>1, <2>2 DEF DirtyMaps
<1>3. StoreMap(n)
  BY <1>2 DEF SavePage
<1>4. /\ logs' \in [Zones -> [Positions -> Log]] /\ pslots' \in PageSlots /\ slots' \in Slots /\ ver' \in [Zones -> Nat]
      /\ SlotsNamed' /\ SlotsSame(slots', slots)
  BY <1>1, <1>2, <1>3, StoreKeeps DEF Saving
<1>5. Typed'
  BY <1>1, <1>2, <1>4 DEF CtlInv, Typed, PageSlotIds
<1>6. /\ cur \in SlotIds /\ job.why \in {"zone", "close"} /\ slots[cur].dirty
      /\ job.why = "zone" => job.z \in Zones /\ job.b \in Blocks /\ \A i \in SlotIds : slots[i].zone # job.z
  BY <1>1 DEF CtlInv, SaveAt, Saving
<1>7. AccessAt' /\ PageAt' /\ SaveAt' /\ Stopped'
  BY <1>1, <1>4, <1>6 DEF AccessAt, PageAt, SaveAt, Stopped, Inside, Saving, TablePages, SlotsSame
<1>20. Placed'
  BY <1>1 DEF CtlInv, Placed
<1> QED BY <1>4, <1>5, <1>7, <1>20 DEF CtlInv

LEMMA CtlSavePageFails == ASSUME CtlInv, SavePageFails PROVE CtlInv'
<1>1. /\ job.pc = "save" /\ DirtyMaps # {} /\ pcur' = Lowest(DirtyMaps)
      /\ UNCHANGED <<tables, cur, pst, ctl>>
  BY DEF SavePageFails, MapsFirst
<1>2. PICK n \in PageSlotIds : n = pcur'
  <2>1. DirtyMaps \in SUBSET PageSlotIds
    BY DEF DirtyMaps, CtlInv, Typed, PageSlots
  <2>2. Lowest(DirtyMaps) \in DirtyMaps
    BY <1>1, <2>1, Constants, LowestOK DEF PageSlotIds
  <2> QED BY <1>1, <2>1, <2>2
<1>3. StoreMapFails(n)
  BY <1>2 DEF SavePageFails
<1>4. /\ count' \in [accesses : Nat, cuts : Nat, fails : Nat] /\ UNCHANGED logs
      /\ slots' \in Slots /\ SlotsSame(slots', slots) /\ pslots' \in PageSlots /\ PagesSame(pslots', pslots)
      /\ ver' \in [Zones -> Nat] /\ spare' \in [Zones -> 0 .. SPARES] /\ lost' \in Losses /\ job' \in Jobs
      /\ UNCHANGED <<pslots, job, lost>> \/ job'.pc \in {"leave", "failed"}
  BY <1>1, <1>2, <1>3, StoreFailsOK DEF Saving
<1>5. Typed'
  BY <1>1, <1>2, <1>4 DEF CtlInv, Typed, PageSlotIds
<1>6. SlotsNamed'
  BY <1>4, NamedKeep DEF CtlInv
<1>7. ASSUME UNCHANGED job
      PROVE  AccessAt' /\ PageAt' /\ SaveAt' /\ Stopped'
  <2>1. /\ cur \in SlotIds /\ job.why \in {"zone", "close"} /\ slots[cur].dirty
        /\ job.why = "zone" => job.z \in Zones /\ job.b \in Blocks /\ \A i \in SlotIds : slots[i].zone # job.z
    BY <1>1 DEF CtlInv, SaveAt, Saving
  <2>2. SlotsSame(slots', slots)
    BY <1>4
  <2> QED BY <1>1, <1>7, <2>1, <2>2 DEF AccessAt, PageAt, SaveAt, Stopped, Inside, Saving, TablePages, SlotsSame
<1>8. ASSUME job'.pc \in {"leave", "failed"}
      PROVE  AccessAt' /\ PageAt' /\ SaveAt' /\ Stopped'
  BY <1>8, QuietAt
<1>20. Placed'
  BY <1>1 DEF CtlInv, Placed
<1> QED BY <1>4, <1>5, <1>6, <1>7, <1>8, <1>20 DEF CtlInv

-----------------------------------------------------------------------------
(* Every action keeps the types and the control: the table of the zone.     *)

LEMMA NewTableOK == ASSUME NEW a \in BOOLEAN PROVE NewTable(a) \in Table /\ NewGroup \in Group /\ \A g \in GroupIds : NewTable(a).groups[g] = NewGroup
<1>1. NewGroup \in Group
  BY DEF NewGroup, Group, Blank
<1> QED BY <1>1 DEF NewTable, Table, GroupIds

\* The block table of the current slot is being saved.
LEMMA AtTable ==
    ASSUME CtlInv, job.pc \in Saving
    PROVE  /\ cur \in SlotIds /\ CurZone \in Zones /\ slots[cur].zone = CurZone /\ pst \in [Zones -> GroupIds]
           /\ job.why \in {"zone", "close"} /\ slots[cur].dirty
           /\ job.why = "zone" => job.z \in Zones /\ job.b \in Blocks /\ \A i \in SlotIds : slots[i].zone # job.z
           /\ job.pc # "save" => \A i \in PageSlotIds : pslots[i].dirty => pslots[i].zone # CurZone
           /\ job.pc \in TablePages => job.g \in GroupIds
BY CurKnown DEF CtlInv, SaveAt, Saving, TablePages

\* No page map of the zone is dirty when its table is written.
LEMMA MapsSaved ==
    ASSUME Typed, MapsFirst = {}
    PROVE  \A i \in PageSlotIds : pslots[i].dirty => pslots[i].zone # CurZone
BY DEF Typed, MapsFirst, DirtyMaps, PageSlots

LEMMA TableGoesOn ==
    ASSUME CtlInv, job.pc \in Saving, SlotsSame(slots', slots), UNCHANGED <<pslots, cur>>,
           job'.pc \in TablePages, job'.g \in GroupIds, job'.why = job.why, job'.z = job.z, job'.b = job.b,
           \A i \in PageSlotIds : pslots[i].dirty => pslots[i].zone # CurZone
    PROVE  AccessAt' /\ PageAt' /\ SaveAt' /\ Stopped'
<1>1. /\ cur \in SlotIds /\ job.why \in {"zone", "close"} /\ slots[cur].dirty
      /\ job.why = "zone" => job.z \in Zones /\ job.b \in Blocks /\ \A i \in SlotIds : slots[i].zone # job.z
  BY AtTable
<1>2. CurZone' = CurZone
  BY <1>1 DEF CurZone, SlotsSame
<1> QED BY <1>1, <1>2 DEF AccessAt, PageAt, SaveAt, Stopped, Inside, Saving, TablePages, SlotsSame

AtGroup(n, v) == [job EXCEPT !.pc = "table1", !.g = n, !.sum = v]

LEMMA AtGroupOK ==
    ASSUME job \in Jobs, NEW n \in GroupIds, NEW v \in Int
    PROVE  /\ AtGroup(n, v) \in Jobs /\ AtGroup(n, v).pc = "table1" /\ AtGroup(n, v).g = n /\ AtGroup(n, v).sum = v
           /\ AtGroup(n, v).why = job.why /\ AtGroup(n, v).z = job.z /\ AtGroup(n, v).b = job.b
<1> DEFINE j == [job EXCEPT !.pc = "table1", !.g = n]
<1>1. j \in Jobs /\ j.pc = "table1" /\ j.g = n /\ j.why = job.why /\ j.z = job.z /\ j.b = job.b
  <2>1. n \in 0 .. GROUPS
    BY DEF GroupIds
  <2> QED BY <2>1 DEF Jobs, PcNames
<1>2. AtGroup(n, v) = [j EXCEPT !.sum = v]
  BY DEF AtGroup
<1> HIDE DEF j
<1> QED BY <1>1, <1>2 DEF Jobs

LEMMA CtlNextGroup == ASSUME CtlInv, NextGroup PROVE CtlInv'
<1> DEFINE n == pst[CurZone] + 1
           v == slots[cur].ver
<1>1. /\ job.pc = "save" /\ MapsFirst = {} /\ ~(pst[CurZone] >= GROUPS) /\ job' = AtGroup(n, v)
      /\ UNCHANGED <<ver, logs, tables, spare, slots, pslots, cur, pcur, pst, ctl, count, lost>>
  BY DEF NextGroup, StartGroup, TableFull, AtGroup, flash
<1>2. cur \in SlotIds /\ CurZone \in Zones /\ pst \in [Zones -> GroupIds]
  BY <1>1, AtTable DEF Saving
<1>3. n \in GroupIds /\ v \in Int
  <2>1. pst[CurZone] \in GroupIds
    BY <1>2
  <2>2. n \in GroupIds
    BY <1>1, <2>1, Constants DEF GroupIds
  <2> QED BY <1>2, <2>2 DEF CtlInv, Typed, Slots
<1> HIDE DEF n, v
<1>4. job' \in Jobs /\ job'.pc = "table1" /\ job'.g = n /\ job'.why = job.why /\ job'.z = job.z /\ job'.b = job.b
  BY <1>1, <1>3, AtGroupOK DEF CtlInv, Typed
<1>5. Typed'
  BY <1>1, <1>4 DEF CtlInv, Typed
<1>6. SlotsNamed'
  BY <1>1 DEF CtlInv, SlotsNamed
<1>7. AccessAt' /\ PageAt' /\ SaveAt' /\ Stopped'
  <2>1. \A i \in PageSlotIds : pslots[i].dirty => pslots[i].zone # CurZone
    BY <1>1, MapsSaved DEF CtlInv
  <2> QED BY <1>1, <1>3, <1>4, <2>1, TableGoesOn DEF Saving, TablePages, SlotsSame
<1>20. Placed'
  BY <1>1 DEF CtlInv, Placed
<1> QED BY <1>5, <1>6, <1>7, <1>20 DEF CtlInv

LEMMA CtlEraseGroups == ASSUME CtlInv, EraseGroups PROVE CtlInv'
<1>1. job.pc = "save" /\ MapsFirst = {} /\ UNCHANGED <<logs, cur, pcur, pst, ctl>>
  BY DEF EraseGroups
<1>2. cur \in SlotIds /\ CurZone \in Zones /\ job \in Jobs
  BY <1>1, AtTable DEF CtlInv, Typed, Saving
<1>3. \A i \in PageSlotIds : pslots[i].dirty => pslots[i].zone # CurZone
  BY <1>1, MapsSaved DEF CtlInv
<1>4. slots[cur].ver \in Int /\ slots[cur].ver + 1 \in Int /\ 1 \in GroupIds
  BY <1>2, Constants DEF CtlInv, Typed, Slots
<1>5. \A a \in BOOLEAN : [tables EXCEPT ![CurZone] = NewTable(a)] \in [Zones -> Table]
  BY <1>2, NewTableOK DEF CtlInv, Typed
<1>6. tables[CurZone].area \in BOOLEAN
  BY <1>2 DEF CtlInv, Typed, Table
<1>20. Placed'
  BY <1>1 DEF CtlInv, Placed
<1>7. CASE /\ tables' = [tables EXCEPT ![CurZone] = NewTable(@.area)]
           /\ StartGroup(1, slots[cur].ver)
           /\ UNCHANGED <<ver, spare, slots, pslots, count, lost>>
  <2>1. tables' \in [Zones -> Table]
    BY <1>5, <1>6, <1>7
  <2>2. /\ job' \in Jobs /\ job'.pc = "table1" /\ job'.g = 1 /\ job'.why = job.why /\ job'.z = job.z /\ job'.b = job.b
    <3>1. job' = AtGroup(1, slots[cur].ver)
      BY <1>7 DEF StartGroup, AtGroup
    <3> QED BY <1>2, <1>4, <3>1, AtGroupOK
  <2>3. Typed'
    BY <1>1, <1>7, <2>1, <2>2 DEF CtlInv, Typed
  <2>4. SlotsNamed'
    BY <1>1, <1>7 DEF CtlInv, SlotsNamed
  <2>5. AccessAt' /\ PageAt' /\ SaveAt' /\ Stopped'
    BY <1>1, <1>3, <1>4, <1>7, <2>2, TableGoesOn DEF Saving, TablePages, SlotsSame
  <2> QED BY <1>20, <2>3, <2>4, <2>5 DEF CtlInv
<1>8. CASE /\ MayFail /\ Failing /\ TakesSpare
           /\ \E area \in BOOLEAN : tables' = [tables EXCEPT ![CurZone] = NewTable(area)]
           /\ StartGroup(1, slots[cur].ver + 1)
           /\ slots' = Changed(slots) /\ Changes
           /\ UNCHANGED <<pslots, lost>>
  <2>1. tables' \in [Zones -> Table]
    BY <1>5, <1>8
  <2>2. /\ job' \in Jobs /\ job'.pc = "table1" /\ job'.g = 1 /\ job'.why = job.why /\ job'.z = job.z /\ job'.b = job.b
    <3>1. job' = AtGroup(1, slots[cur].ver + 1)
      BY <1>8 DEF StartGroup, AtGroup
    <3> QED BY <1>2, <1>4, <3>1, AtGroupOK
  <2>3. slots' \in Slots /\ SlotsSame(slots', slots) /\ ver' \in [Zones -> Nat] /\ spare' \in [Zones -> 0 .. SPARES]
        /\ count' \in [accesses : Nat, cuts : Nat, fails : Nat]
    BY <1>2, <1>8, ChangedOK, ChangesOK, SpareOK, FailingOK DEF CtlInv, Typed
  <2>4. Typed'
    BY <1>1, <1>8, <2>1, <2>2, <2>3 DEF CtlInv, Typed
  <2>5. SlotsNamed'
    BY <1>1, <1>8, <2>3, NamedKeep DEF CtlInv, PagesSame
  <2>6. AccessAt' /\ PageAt' /\ SaveAt' /\ Stopped'
    BY <1>1, <1>3, <1>4, <1>8, <2>2, <2>3, TableGoesOn DEF Saving, TablePages
  <2> QED BY <1>20, <2>4, <2>5, <2>6 DEF CtlInv
<1>9. CASE /\ MayFail /\ Failing /\ spare[CurZone] = 0
           /\ Fail(job.why)
           /\ tables' = [tables EXCEPT ![CurZone] = NewTable(@.area)]
           /\ UNCHANGED <<ver, spare, slots>>
  <2>1. tables' \in [Zones -> Table]
    BY <1>5, <1>6, <1>9
  <2>2. /\ job' \in Jobs /\ job'.pc \in {"leave", "failed"} /\ lost' \in Losses
        /\ pslots' \in PageSlots /\ PagesSame(pslots', pslots) /\ count' \in [accesses : Nat, cuts : Nat, fails : Nat]
    BY <1>9, FailOK, FailingOK DEF CtlInv
  <2>3. Typed'
    BY <1>1, <1>9, <2>1, <2>2 DEF CtlInv, Typed
  <2>4. SlotsNamed'
    BY <1>1, <1>9, <2>2, NamedKeep DEF CtlInv, SlotsSame
  <2> QED BY <1>20, <2>2, <2>3, <2>4, QuietAt DEF CtlInv
<1> QED BY <1>7, <1>8, <1>9 DEF EraseGroups

\* What the program of a page of the group leaves there.
Target == tables[CurZone].groups[job.g]

LEMMA ProgrammedOK ==
    ASSUME CtlInv, job.pc \in TablePages, NEW v \in Int
    PROVE  \E x \in Group : /\ Programmed(v) = PutGroup(CurZone, job.g, x)
                            /\ \/ job.pc = "table1" /\ x = [Target EXCEPT !.half1 = v]
                               \/ /\ job.pc = "table2"
                                  /\ x = [Target EXCEPT !.half2 = v, !.sum = IF v = Torn THEN Torn ELSE job.sum]
                               \/ job.pc = "table3" /\ x = [Target EXCEPT !.log = v]
<1> DEFINE g == Target
<1>1. CurZone \in Zones /\ job.g \in GroupIds /\ job.sum \in Int
  BY AtTable DEF CtlInv, Typed, Jobs, Saving
<1>2. g \in Group
  <2>1. tables[CurZone] \in Table
    BY <1>1 DEF CtlInv, Typed
  <2> QED BY <1>1, <2>1 DEF Table, Target
<1>3. Programmed(v) = PutGroup(CurZone, job.g,
            CASE job.pc = "table1" -> [g EXCEPT !.half1 = v]
              [] job.pc = "table2" -> [g EXCEPT !.half2 = v, !.sum = IF v = Torn THEN Torn ELSE job.sum]
              [] job.pc = "table3" -> [g EXCEPT !.log = v])
  BY Zenon DEF Programmed, PutGroup, Target
<1> HIDE DEF g
<1>4. CASE job.pc = "table1"
  <2>1. [g EXCEPT !.half1 = v] \in Group
    BY <1>2 DEF Group
  <2>2. Programmed(v) = PutGroup(CurZone, job.g, [g EXCEPT !.half1 = v])
    BY <1>3, <1>4
  <2> QED BY <1>4, <2>1, <2>2 DEF g
<1>5. CASE job.pc = "table2"
  <2> DEFINE s == IF v = Torn THEN Torn ELSE job.sum
  <2>1. s \in Int
    BY <1>1 DEF Torn
  <2> HIDE DEF s
  <2>2. [g EXCEPT !.half2 = v, !.sum = s] \in Group
    BY <1>2, <2>1 DEF Group
  <2>3. Programmed(v) = PutGroup(CurZone, job.g, [g EXCEPT !.half2 = v, !.sum = s])
    BY <1>3, <1>5 DEF s
  <2> QED BY <1>5, <2>2, <2>3 DEF g, s
<1>6. CASE job.pc = "table3"
  <2>1. [g EXCEPT !.log = v] \in Group
    BY <1>2 DEF Group
  <2>2. Programmed(v) = PutGroup(CurZone, job.g, [g EXCEPT !.log = v])
    BY <1>3, <1>6
  <2> QED BY <1>6, <2>1, <2>2 DEF g
<1> QED BY <1>4, <1>5, <1>6 DEF TablePages

LEMMA ProgrammedTyped ==
    ASSUME CtlInv, job.pc \in TablePages, NEW v \in Int
    PROVE  Programmed(v) \in [Zones -> Table]
<1>1. CurZone \in Zones /\ job.g \in GroupIds /\ tables \in [Zones -> Table]
  BY AtTable DEF CtlInv, Typed, Saving
<1>2. PICK x \in Group : Programmed(v) = PutGroup(CurZone, job.g, x)
  <2>1. \E x \in Group : Programmed(v) = PutGroup(CurZone, job.g, x)
    BY ProgrammedOK, Zenon
  <2> QED BY <2>1
<1>3. PICK c \in Zones, n \in GroupIds : c = CurZone /\ n = job.g
  BY <1>1
<1>4. PutGroup(c, n, x) \in [Zones -> Table]
  BY <1>1, PutGroupOK
<1> QED BY <1>2, <1>3, <1>4

LEMMA CtlProgramTable == ASSUME CtlInv, ProgramTable PROVE CtlInv'
<1>1. /\ job.pc \in {"table1", "table2"} /\ tables' = Programmed(slots[cur].ver) /\ Goto(AfterProgram[job.pc])
      /\ UNCHANGED <<ver, logs, spare, slots, pslots, cur, pcur, pst, ctl, count, lost>>
  BY DEF ProgramTable
<1>2. AfterProgram[job.pc] \in {"table2", "table3"}
  BY <1>1 DEF AfterProgram
<1>3. /\ job' \in Jobs /\ job'.pc \in TablePages /\ job'.g = job.g /\ job'.why = job.why /\ job'.z = job.z /\ job'.b = job.b
  <2>1. AfterProgram[job.pc] \in PcNames
    BY <1>2 DEF PcNames
  <2> QED BY <1>1, <1>2, <2>1, GotoOK DEF CtlInv, Typed, TablePages
<1>4. cur \in SlotIds /\ job.g \in GroupIds /\ \A i \in PageSlotIds : pslots[i].dirty => pslots[i].zone # CurZone
  BY <1>1, AtTable DEF Saving, TablePages
<1>5. tables' \in [Zones -> Table]
  <2>1. slots[cur].ver \in Int
    BY <1>4 DEF CtlInv, Typed, Slots
  <2> QED BY <1>1, <2>1, ProgrammedTyped DEF TablePages
<1>6. Typed'
  BY <1>1, <1>3, <1>5 DEF CtlInv, Typed
<1>7. SlotsNamed'
  BY <1>1 DEF CtlInv, SlotsNamed
<1>8. AccessAt' /\ PageAt' /\ SaveAt' /\ Stopped'
  BY <1>1, <1>3, <1>4, TableGoesOn DEF Saving, TablePages, SlotsSame
<1>20. Placed'
  BY <1>1 DEF CtlInv, Placed
<1> QED BY <1>6, <1>7, <1>8, <1>20 DEF CtlInv

LEMMA CtlFinishTable == ASSUME CtlInv, FinishTable PROVE CtlInv'
<1>1. /\ job.pc = "table3" /\ tables' = Programmed(slots[cur].ver) /\ pst' = [pst EXCEPT ![CurZone] = job.g]
      /\ job' = [job EXCEPT !.pc = IF job.why = "close" THEN "close" ELSE "load", !.g = 0]
      /\ slots' = IF job.why = "close" THEN [slots EXCEPT ![cur].dirty = FALSE] ELSE slots
      /\ UNCHANGED <<ver, logs, spare, pslots, cur, pcur, ctl, count, lost>>
  BY DEF FinishTable
<1>2. /\ cur \in SlotIds /\ CurZone \in Zones /\ slots[cur].zone = CurZone /\ pst \in [Zones -> GroupIds]
      /\ job.why \in {"zone", "close"} /\ slots[cur].dirty
      /\ job.why = "zone" => job.z \in Zones /\ job.b \in Blocks /\ \A i \in SlotIds : slots[i].zone # job.z
      /\ \A i \in PageSlotIds : pslots[i].dirty => pslots[i].zone # CurZone
      /\ job.g \in GroupIds
  BY <1>1, AtTable DEF Saving, TablePages
<1>3. /\ job' \in Jobs /\ job'.pc = (IF job.why = "close" THEN "close" ELSE "load")
      /\ job'.why = job.why /\ job'.z = job.z /\ job'.b = job.b
  <2> DEFINE p == IF job.why = "close" THEN "close" ELSE "load"
             j == [job EXCEPT !.pc = p]
  <2>1. job' = [j EXCEPT !.g = 0]
    BY <1>1
  <2>2. p \in PcNames /\ 0 \in 0 .. GROUPS
    BY Constants DEF PcNames
  <2> HIDE DEF p
  <2>3. j \in Jobs /\ j.pc = p /\ j.why = job.why /\ j.z = job.z /\ j.b = job.b
    BY <2>2 DEF CtlInv, Typed, Jobs
  <2> HIDE DEF j
  <2> QED BY <2>1, <2>2, <2>3 DEF Jobs, p
<1>4. /\ slots' \in Slots /\ \A i \in SlotIds : slots'[i].zone = slots[i].zone /\ (slots'[i].dirty => slots[i].dirty)
      /\ \A i \in SlotIds \ {cur} : slots'[i].dirty = slots[i].dirty
  BY <1>1, <1>2 DEF CtlInv, Typed, Slots
<1>5. tables' \in [Zones -> Table]
  <2>1. slots[cur].ver \in Int
    BY <1>2 DEF CtlInv, Typed, Slots
  <2> QED BY <1>1, <2>1, ProgrammedTyped DEF TablePages
<1>6. pst' \in [Zones -> GroupIds] /\ pst' \in [Zones -> 0 .. GROUPS]
  BY <1>1, <1>2 DEF GroupIds
<1>7. Typed'
  BY <1>1, <1>3, <1>4, <1>5, <1>6 DEF CtlInv, Typed
<1>8. SlotsNamed'
  <2>1. \A i \in PageSlotIds : pslots'[i].dirty => \E j \in SlotIds : slots'[j].zone = pslots'[i].zone /\ slots'[j].dirty
    <3> SUFFICES ASSUME NEW i \in PageSlotIds, pslots[i].dirty
                 PROVE  \E j \in SlotIds : slots'[j].zone = pslots[i].zone /\ slots'[j].dirty
      BY <1>1
    <3>1. PICK j \in SlotIds : slots[j].zone = pslots[i].zone /\ slots[j].dirty
      BY DEF CtlInv, SlotsNamed
    <3>2. j # cur
      BY <1>2, <3>1
    <3> QED BY <1>4, <3>1, <3>2
  <2> QED BY <1>1, <1>4, <2>1 DEF CtlInv, SlotsNamed
<1>9. AccessAt' /\ PageAt' /\ SaveAt' /\ Stopped'
  <2>1. CurZone' = CurZone
    BY <1>1, <1>2, <1>4 DEF CurZone
  <2> QED BY <1>1, <1>2, <1>3, <1>4, <2>1 DEF AccessAt, PageAt, SaveAt, Stopped, Inside, Saving, TablePages
<1>20. Placed'
  BY <1>6 DEF Placed
<1> QED BY <1>7, <1>8, <1>9, <1>20 DEF CtlInv

LEMMA CtlProgramFails == ASSUME CtlInv, ProgramFails PROVE CtlInv'
<1>1. job.pc \in TablePages /\ Failing /\ UNCHANGED <<logs, cur, pcur, pst, ctl>>
  BY DEF ProgramFails
<1>2. cur \in SlotIds /\ CurZone \in Zones /\ \A i \in PageSlotIds : pslots[i].dirty => pslots[i].zone # CurZone
  BY <1>1, AtTable DEF Saving, TablePages
<1>3. count' \in [accesses : Nat, cuts : Nat, fails : Nat] /\ job \in Jobs
  BY <1>1, FailingOK DEF CtlInv, Typed
<1>20. Placed'
  BY <1>1 DEF CtlInv, Placed, TablePages
<1>4. CASE /\ TakesSpare
           /\ \E area \in BOOLEAN : tables' = [tables EXCEPT ![CurZone] = NewTable(area)]
           /\ slots' = Changed(slots) /\ Changes
           /\ job' = [job EXCEPT !.pc = "table1", !.g = 1]
           /\ lost' = [lost EXCEPT !.sums = @ \union {CurZone}]
           /\ UNCHANGED pslots
  <2>1. tables' \in [Zones -> Table]
    <3>1. \A a \in BOOLEAN : [tables EXCEPT ![CurZone] = NewTable(a)] \in [Zones -> Table]
      BY <1>2, NewTableOK DEF CtlInv, Typed
    <3> QED BY <1>4, <3>1
  <2>2. job' \in Jobs /\ job'.pc = "table1" /\ job'.g = 1 /\ job'.why = job.why /\ job'.z = job.z /\ job'.b = job.b
    <3>1. 1 \in 0 .. GROUPS
      BY Constants
    <3>2. job' = [job EXCEPT !.pc = "table1", !.g = 1]
      BY <1>4
    <3> QED BY <1>3, <3>1, <3>2 DEF Jobs, PcNames
  <2>3. slots' \in Slots /\ SlotsSame(slots', slots) /\ ver' \in [Zones -> Nat] /\ spare' \in [Zones -> 0 .. SPARES]
    BY <1>2, <1>4, ChangedOK, ChangesOK, SpareOK DEF CtlInv, Typed
  <2>4. lost' \in Losses
    BY <1>2, <1>4 DEF CtlInv, Typed, Losses
  <2>5. Typed'
    BY <1>1, <1>3, <1>4, <2>1, <2>2, <2>3, <2>4 DEF CtlInv, Typed
  <2>6. SlotsNamed'
    BY <1>1, <1>4, <2>3, NamedKeep DEF CtlInv, PagesSame
  <2>7. AccessAt' /\ PageAt' /\ SaveAt' /\ Stopped'
    <3>1. 1 \in GroupIds /\ "table1" \in TablePages /\ job.pc \in Saving
      BY <1>1, Constants DEF TablePages, Saving
    <3> QED BY <1>1, <1>2, <1>4, <2>2, <2>3, <3>1, TableGoesOn
  <2> QED BY <1>20, <2>5, <2>6, <2>7 DEF CtlInv
<1>5. CASE /\ spare[CurZone] = 0
           /\ Fail(job.why)
           /\ tables' = Programmed(Torn)
           /\ UNCHANGED <<ver, spare, slots>>
  <2>1. tables' \in [Zones -> Table]
    BY <1>1, <1>5, ProgrammedTyped DEF Torn
  <2>2. /\ job' \in Jobs /\ job'.pc \in {"leave", "failed"} /\ lost' \in Losses
        /\ pslots' \in PageSlots /\ PagesSame(pslots', pslots)
    BY <1>5, FailOK DEF CtlInv
  <2>3. Typed'
    BY <1>1, <1>3, <1>5, <2>1, <2>2 DEF CtlInv, Typed
  <2>4. SlotsNamed'
    BY <1>1, <1>5, <2>2, NamedKeep DEF CtlInv, SlotsSame
  <2> QED BY <1>20, <2>2, <2>3, <2>4, QuietAt DEF CtlInv
<1> QED BY <1>4, <1>5 DEF ProgramFails

-----------------------------------------------------------------------------
(* Every action keeps the types and the control: exit, power cut and start. *)

LEMMA EmptySlots ==
    /\ NoSlots \in Slots /\ \A i \in SlotIds : NoSlots[i].zone = None /\ NoSlots[i].dirty = FALSE
    /\ NoPageSlots \in PageSlots /\ \A i \in PageSlotIds : NoPageSlots[i].zone = None /\ NoPageSlots[i].dirty = FALSE
BY DEF NoSlots, EmptySlot, Slots, SlotIds, NoPageSlots, EmptyPageSlot, PageSlots, PageSlotIds, None

LEMMA NoTablesOK ==
    ASSUME CtlInv, NoTables("off"), UNCHANGED <<ver, logs, spare>>, tables' \in [Zones -> Table],
           count' \in [accesses : Nat, cuts : Nat, fails : Nat], lost' \in Losses
    PROVE  CtlInv'
<1>1. /\ slots' = NoSlots /\ pslots' = NoPageSlots /\ cur' = 0 /\ pcur' = 0 /\ ctl' = None /\ pst' = [z \in Zones |-> 0]
      /\ job' = [Idle EXCEPT !.pc = "off"]
  BY DEF NoTables
<1>2. job' \in Jobs /\ job'.pc = "off"
  BY <1>1, IdleOK DEF Jobs, PcNames
<1>3. Typed'
  BY <1>1, <1>2, EmptySlots, Constants DEF CtlInv, Typed
<1>4. SlotsNamed'
  BY <1>1, EmptySlots, Constants DEF CtlInv, SlotsNamed
<1>5. AccessAt' /\ PageAt' /\ SaveAt' /\ Stopped' /\ Placed'
  BY <1>1, <1>2 DEF AccessAt, PageAt, SaveAt, Stopped, Placed, Inside, Saving, TablePages
<1> QED BY <1>3, <1>4, <1>5 DEF CtlInv

LEMMA CtlExit == ASSUME CtlInv, Exit PROVE CtlInv'
<1>1. /\ job.pc \in {"idle", "failed"} /\ job' = [Idle EXCEPT !.pc = "close", !.why = "close"]
      /\ UNCHANGED <<ver, logs, tables, spare, slots, pslots, cur, pcur, pst, ctl, count, lost>>
  BY DEF Exit, flash
<1>2. job' \in Jobs /\ job'.pc = "close" /\ job'.why = "close"
  BY <1>1, IdleOK DEF Jobs, PcNames
<1>3. Typed' /\ SlotsNamed'
  BY <1>1, <1>2 DEF CtlInv, Typed, SlotsNamed
<1>20. Placed'
  BY <1>1 DEF CtlInv, Placed
<1> QED BY <1>2, <1>3, <1>20, QuietAt DEF CtlInv

LEMMA CtlWriteBackAll == ASSUME CtlInv, WriteBackAll PROVE CtlInv'
<1>1. /\ job.pc = "close" /\ DirtySlots # {} /\ cur' = Lowest(DirtySlots) /\ Goto("save")
      /\ UNCHANGED <<ver, logs, tables, spare, slots, pslots, pcur, pst, ctl, count, lost>>
  BY DEF WriteBackAll, flash
<1>2. job' \in Jobs /\ job'.pc = "save" /\ job'.why = "close"
  BY <1>1, GotoOK DEF CtlInv, Typed, Stopped, PcNames
<1>3. cur' \in SlotIds /\ slots[cur'].dirty
  <2>1. DirtySlots \in SUBSET SlotIds
    BY DEF DirtySlots, CtlInv, Typed, Slots
  <2>2. Lowest(DirtySlots) \in DirtySlots
    BY <1>1, <2>1, Constants, LowestOK DEF SlotIds
  <2> QED BY <1>1, <2>1, <2>2 DEF DirtySlots
<1>4. Typed'
  BY <1>1, <1>2, <1>3 DEF CtlInv, Typed, SlotIds
<1>5. SlotsNamed'
  BY <1>1 DEF CtlInv, SlotsNamed
<1>6. AccessAt' /\ PageAt' /\ SaveAt' /\ Stopped'
  BY <1>1, <1>2, <1>3 DEF AccessAt, PageAt, SaveAt, Stopped, Inside, Saving, TablePages
<1>20. Placed'
  BY <1>1 DEF CtlInv, Placed
<1> QED BY <1>4, <1>5, <1>6, <1>20 DEF CtlInv

LEMMA CtlExitDone == ASSUME CtlInv, ExitDone PROVE CtlInv'
<1>1. /\ NoTables("off") /\ lost' = [lost EXCEPT !.closed = job.pc = "close"] /\ UNCHANGED <<ver, logs, tables, spare, count>>
  BY DEF ExitDone, flash
<1>2. lost' \in Losses
  <2>1. PICK b \in BOOLEAN : b = (job.pc = "close")
    OBVIOUS
  <2>2. lost' = [lost EXCEPT !.closed = b]
    BY <1>1, <2>1
  <2> QED BY <2>2 DEF CtlInv, Typed, Losses
<1> QED BY <1>1, <1>2, NoTablesOK DEF CtlInv, Typed

LEMMA CtlPowerCut == ASSUME CtlInv, PowerCut PROVE CtlInv'
<1>1. /\ NoTables("off") /\ lost' = [lost EXCEPT !.closed = FALSE] /\ UNCHANGED <<ver, logs, spare>>
      /\ count' = [count EXCEPT !.cuts = @ + 1]
      /\ UNCHANGED tables \/ (job.pc \in TablePages /\ tables' = Programmed(Torn))
  BY DEF PowerCut
<1>2. lost' \in Losses /\ count' \in [accesses : Nat, cuts : Nat, fails : Nat]
  <2>1. lost' \in Losses
    BY <1>1 DEF CtlInv, Typed, Losses
  <2>2. count' \in [accesses : Nat, cuts : Nat, fails : Nat]
    BY <1>1 DEF CtlInv, Typed
  <2> QED BY <2>1, <2>2
<1>3. tables' \in [Zones -> Table]
  <2>1. Torn \in Int
    BY DEF Torn
  <2> QED BY <1>1, <2>1, ProgrammedTyped DEF CtlInv, Typed
<1> QED BY <1>1, <1>2, <1>3, NoTablesOK

\* A group with the tables of the version v.
Fresh(v) == [NewGroup EXCEPT !.half1 = v, !.half2 = v, !.sum = v, !.log = v]

LEMMA FreshOK ==
    ASSUME NEW v \in Int
    PROVE  /\ Fresh(v) \in Group /\ Fresh(v).half1 = v /\ Fresh(v).half2 = v /\ Fresh(v).sum = v /\ Fresh(v).log = v
           /\ Fresh(v).flag = FALSE
<1>1. NewGroup \in Group /\ NewGroup.flag = FALSE
  BY DEF NewGroup, Group, Blank
<1> PICK e \in Group : e = NewGroup /\ e.flag = FALSE
  BY <1>1
<1> DEFINE h == [e EXCEPT !.half1 = v, !.half2 = v]
<1>2. h \in Group /\ h.half1 = v /\ h.half2 = v /\ h.flag = FALSE
  BY DEF Group
<1>3. Fresh(v) = [h EXCEPT !.sum = v, !.log = v]
  BY DEF Fresh
<1> HIDE DEF h
<1> QED BY <1>2, <1>3 DEF Group

\* One group of a table.
InGroup(t, n, x) == [t EXCEPT !.groups[n] = x]

LEMMA InGroupOK ==
    ASSUME NEW t \in Table, NEW n \in GroupIds, NEW x \in Group
    PROVE  /\ InGroup(t, n, x) \in Table /\ InGroup(t, n, x).area = t.area /\ InGroup(t, n, x).groups[n] = x
           /\ \A g \in GroupIds \ {n} : InGroup(t, n, x).groups[g] = t.groups[g]
<1> DEFINE h == [t.groups EXCEPT ![n] = x]
<1>1. h \in [GroupIds -> Group] /\ h[n] = x /\ \A g \in GroupIds \ {n} : h[g] = t.groups[g]
  BY DEF Table
<1>2. InGroup(t, n, x) = [t EXCEPT !.groups = h]
  BY DEF InGroup
<1> HIDE DEF h
<1> QED BY <1>1, <1>2 DEF Table

\* The rebuilt tables are in the group after the last one that is used, or in the first
\* group of a new block.
LEMMA RebuiltOK ==
    ASSUME tables \in [Zones -> Table], ver \in [Zones -> Nat], NEW z \in Zones
    PROVE  \/ /\ Rebuilt(z) = InGroup(tables[z], SearchBlkTblPst(tables[z]) + 1, Fresh(ver[z]))
              /\ Used(tables[z], 1) /\ SearchBlkTblPst(tables[z]) + 1 \in GroupIds
              /\ tables[z].area
           \/ Rebuilt(z) = InGroup(NewTable(TRUE), 1, Fresh(ver[z]))
<1> DEFINE old == tables[z].area /\ Used(tables[z], 1)
           t == IF old THEN tables[z] ELSE NewTable(TRUE)
           n == IF Used(t, 1) THEN SearchBlkTblPst(t) + 1 ELSE 1
<1>1. Rebuilt(z) = IF n > GROUPS THEN InGroup(NewTable(TRUE), 1, Fresh(ver[z])) ELSE InGroup(t, n, Fresh(ver[z]))
  BY Zenon DEF Rebuilt, InGroup, Fresh
<1>2. CASE old
  <2>1. t = tables[z] /\ n = SearchBlkTblPst(tables[z]) + 1
    BY <1>2
  <2>2. SearchBlkTblPst(tables[z]) \in GroupIds
    BY SearchEnds DEF Ends
  <2> HIDE DEF t, n
  <2>3. n > GROUPS \/ n \in GroupIds
    BY <2>1, <2>2, Constants DEF GroupIds
  <2> QED BY <1>1, <1>2, <2>1, <2>3
<1>3. CASE ~old
  <2>1. t = NewTable(TRUE)
    BY <1>3
  <2>2. ~Used(NewTable(TRUE), 1)
    <3>1. NewTable(TRUE).groups[1] = NewGroup
      BY NewTableOK, Constants
    <3>2. NewGroup.half1 = Blank
      BY DEF NewGroup
    <3> QED BY <3>1, <3>2 DEF Used
  <2>3. n = 1
    BY <2>1, <2>2
  <2> HIDE DEF t, n
  <2> QED BY <1>1, <2>1, <2>3, Constants
<1> QED BY <1>2, <1>3

LEMMA RebuiltTyped ==
    ASSUME tables \in [Zones -> Table], ver \in [Zones -> Nat], NEW z \in Zones
    PROVE  Rebuilt(z) \in Table
<1>1. tables[z] \in Table /\ NewTable(TRUE) \in Table /\ Fresh(ver[z]) \in Group /\ 1 \in GroupIds
  <2>1. NewTable(TRUE) \in Table
    BY NewTableOK
  <2>2. ver[z] \in Int
    OBVIOUS
  <2>3. Fresh(ver[z]) \in Group
    BY <2>2, FreshOK
  <2> QED BY <2>1, <2>3, Constants
<1>2. CASE /\ Rebuilt(z) = InGroup(tables[z], SearchBlkTblPst(tables[z]) + 1, Fresh(ver[z]))
           /\ SearchBlkTblPst(tables[z]) + 1 \in GroupIds
  BY <1>1, <1>2, InGroupOK
<1>3. CASE Rebuilt(z) = InGroup(NewTable(TRUE), 1, Fresh(ver[z]))
  <2>1. InGroup(NewTable(TRUE), 1, Fresh(ver[z])) \in Table
    BY <1>1, InGroupOK
  <2> QED BY <1>3, <2>1
<1> QED BY <1>2, <1>3, RebuiltOK

LEMMA CtlStart == ASSUME CtlInv, Start PROVE CtlInv'
<1>1. /\ job.pc = "off" /\ tables' = [z \in Zones |-> IF Accepts(tables[z]) THEN tables[z] ELSE Rebuilt(z)]
      /\ pst' = [z \in Zones |-> SearchBlkTblPst(tables'[z])]
      /\ job' = Idle /\ lost' = [lost EXCEPT !.closed = FALSE, !.sums = {}]
      /\ UNCHANGED <<ver, logs, spare, slots, pslots, cur, pcur, ctl, count>>
  BY DEF Start
<1>2. tables' \in [Zones -> Table]
  BY <1>1, RebuiltTyped DEF CtlInv, Typed
<1>3. pst' \in [Zones -> GroupIds] /\ pst' \in [Zones -> 0 .. GROUPS]
  <2>1. \A z \in Zones : SearchBlkTblPst(tables'[z]) \in GroupIds
    BY SearchEnds DEF Ends
  <2>2. pst' \in [Zones -> GroupIds]
    BY <1>1, <2>1
  <2> QED BY <2>2 DEF GroupIds
<1>4. lost' \in Losses
  <2> DEFINE l == [lost EXCEPT !.closed = FALSE]
  <2>1. l \in Losses
    BY DEF CtlInv, Typed, Losses
  <2>2. lost' = [l EXCEPT !.sums = {}]
    BY <1>1
  <2> HIDE DEF l
  <2> QED BY <2>1, <2>2 DEF Losses
<1>5. Typed'
  BY <1>1, <1>2, <1>3, <1>4, IdleOK DEF CtlInv, Typed
<1>6. SlotsNamed'
  BY <1>1 DEF CtlInv, SlotsNamed
<1>7. AccessAt' /\ PageAt' /\ SaveAt' /\ Stopped' /\ Placed'
  BY <1>1, <1>3, IdleOK DEF CtlInv, AccessAt, PageAt, SaveAt, Stopped, Placed, Inside, Saving, TablePages
<1> QED BY <1>5, <1>6, <1>7 DEF CtlInv

LEMMA CtlStays == ASSUME CtlInv, UNCHANGED vars PROVE CtlInv'
<1>1. UNCHANGED <<ver, logs, tables, spare, slots, pslots, cur, pcur, pst, ctl, job, count, lost>>
  BY DEF vars
<1> QED BY <1>1 DEF CtlInv, Typed, SlotsNamed, AccessAt, PageAt, SaveAt, Stopped, Placed, Home, CurZone

LEMMA CtlNext == ASSUME CtlInv, [Next]_vars PROVE CtlInv'
<1>1. CASE \E z \in Zones, b \in Blocks, w \in BOOLEAN : Access(z, b, w)
  BY <1>1, CtlAccess
<1>2. CASE Exit \/ PowerCut \/ Start
  BY <1>2, CtlExit, CtlPowerCut, CtlStart
<1>3. CASE ZoneHit \/ ZonePost \/ LoadTable \/ LoadFails \/ Flag
  BY <1>3, CtlZoneHit, CtlZonePost, CtlLoadTable, CtlLoadFails, CtlFlag
<1>4. CASE FindLog \/ CreateLog \/ PickVictim \/ PageHit \/ PagePost \/ PageFlag
  BY <1>4, CtlFindLog, CtlCreateLog, CtlPickVictim, CtlPageHit, CtlPagePost, CtlPageFlag
<1>5. CASE PageWriteBack \/ PageWriteBackFails \/ PageLoad \/ PageRebuild \/ PageLoadFails
  BY <1>5, CtlPageWriteBack, CtlPageWriteBackFails, CtlPageLoad, CtlPageRebuild, CtlPageLoadFails
<1>6. CASE MergeVictim \/ WritePage \/ SavePage \/ SavePageFails \/ NextGroup \/ EraseGroups
  BY <1>6, CtlMergeVictim, CtlWritePage, CtlSavePage, CtlSavePageFails, CtlNextGroup, CtlEraseGroups
<1>7. CASE ProgramTable \/ FinishTable \/ ProgramFails \/ WriteBackAll \/ ExitDone
  BY <1>7, CtlProgramTable, CtlFinishTable, CtlProgramFails, CtlWriteBackAll, CtlExitDone
<1>8. CASE UNCHANGED vars
  BY <1>8, CtlStays
<1> QED BY <1>1, <1>2, <1>3, <1>4, <1>5, <1>6, <1>7, <1>8 DEF Next, Steps

-----------------------------------------------------------------------------
(* What is held: steps that leave the tables on flash alone.                *)

LEMMA HoldFailed == ASSUME lost'.failed PROVE HoldInv'
BY DEF HoldInv

\* Only the slots, or what the access is at, are different.
LEMMA HoldRam ==
    ASSUME CtlInv, HoldInv, UNCHANGED <<ver, tables, pst, lost>>, SlotsSame(slots', slots), VersSame(slots', slots, SlotIds),
           ~lost.failed => PagesHold' /\ EntriesHold',
           job.pc \notin TablePages \union {"load", "off"}, job'.pc \notin TablePages \union {"off"},
           job'.pc = "load" => ~slots[cur'].dirty
    PROVE  HoldInv'
<1> SUFFICES ASSUME ~lost.failed
             PROVE  VersHold' /\ VersionsHold' /\ TablesHold' /\ GroupWritten'
  BY DEF HoldInv
<1>1. VersHold /\ VersionsHold /\ TablesHold
  BY DEF HoldInv
<1>2. VersHold'
  BY <1>1 DEF VersHold, Sure, SlotsSame, VersSame
<1>3. VersionsHold'
  BY <1>1 DEF VersionsHold
<1>4. GroupWritten'
  BY DEF GroupWritten
<1>5. ASSUME NEW z \in Zones
      PROVE  TableHolds(z)'
  <2>1. TableHolds(z)
    BY <1>1 DEF TablesHold, Writing
  <2>2. Settled(z)' <=> Settled(z)
    BY DEF Settled, SlotsSame
  <2> QED BY <2>1, <2>2 DEF TableHolds, Sure
<1>6. TablesHold'
  BY <1>5 DEF TablesHold
<1> QED BY <1>2, <1>3, <1>4, <1>6

\* The slots follow a change of the mapping.
LEMMA VersChanged ==
    ASSUME CtlInv, HoldInv, ~lost.failed, job.pc \in Inside \union Saving, slots' = Changed(slots), Changes,
           lost'.flags = lost.flags
    PROVE  /\ VersHold' /\ SlotsSame(slots', slots) /\ slots[cur].ver \in Nat /\ slots'[cur].ver = slots[cur].ver + 1
           /\ \A z \in Zones \ {CurZone} : ver'[z] = ver[z]
<1>1. VersHold /\ cur \in SlotIds /\ CurZone \in Zones /\ slots[cur].zone = CurZone
  BY CurKnown DEF HoldInv
<1>2. /\ SlotsSame(slots', slots) /\ \A i \in SlotIds \ {cur} : slots'[i].ver = slots[i].ver
      /\ slots'[cur].ver = (IF slots[cur].ver = Mixed THEN Mixed ELSE slots[cur].ver + 1)
      /\ ver'[CurZone] = ver[CurZone] + 1 /\ \A z \in Zones \ {CurZone} : ver'[z] = ver[z]
  BY <1>1, ChangedOK, ChangesOK DEF CtlInv, Typed
<1>3. slots[cur].ver \in Nat /\ slots'[cur].ver = slots[cur].ver + 1
  <2>1. slots[cur].ver \in Nat
    BY <1>1 DEF VersHold
  <2> QED BY <1>2, <2>1 DEF Mixed
<1>4. ASSUME NEW i \in SlotIds, slots'[i].zone \in Zones
      PROVE  slots'[i].ver \in Nat /\ (slots'[i].zone \in Sure' => slots'[i].ver = ver'[slots'[i].zone])
  <2>1. CASE i = cur
    BY <1>1, <1>2, <1>3, <2>1 DEF VersHold, Sure, SlotsSame
  <2>2. CASE i # cur
    <3>1. slots[i].zone \in Zones /\ slots[i].zone # CurZone
      BY <1>1, <1>2, <1>4, <2>2 DEF CtlInv, SlotsNamed, SlotsSame
    <3> QED BY <1>1, <1>2, <2>2, <3>1 DEF VersHold, Sure, SlotsSame
  <2> QED BY <2>1, <2>2
<1> QED BY <1>2, <1>3, <1>4 DEF VersHold, Sure

\* The mapping of the zone changes, in RAM and on flash; its dirty flag is set.
LEMMA HoldChange ==
    ASSUME CtlInv, HoldInv, job.pc \in Inside \union {"save"}, slots[cur].dirty,
           slots' = Changed(slots), Changes, UNCHANGED <<tables, pst, lost>>,
           ~lost.failed => PagesHold' /\ EntriesHold',
           job'.pc \notin TablePages \union {"load", "off"}
    PROVE  HoldInv'
<1> SUFFICES ASSUME ~lost.failed
             PROVE  VersHold' /\ VersionsHold' /\ TablesHold' /\ GroupWritten'
  BY DEF HoldInv
<1>1. VersHold /\ VersionsHold /\ TablesHold
  BY DEF HoldInv, Inside
<1>2. cur \in SlotIds /\ CurZone \in Zones /\ slots[cur].zone = CurZone
  BY CurKnown DEF Saving
<1>3. VersHold' /\ SlotsSame(slots', slots) /\ \A z \in Zones \ {CurZone} : ver'[z] = ver[z]
  BY VersChanged DEF Saving
<1>6. VersionsHold'
  BY <1>1 DEF VersionsHold
<1>7. GroupWritten'
  BY DEF GroupWritten
<1>8. ASSUME NEW z \in Zones
      PROVE  TableHolds(z)'
  <2>1. TableHolds(z)
    BY <1>1 DEF TablesHold, Writing, Inside, TablePages
  <2>2. Settled(z)' <=> Settled(z)
    BY <1>3 DEF Settled, SlotsSame, Inside
  <2>3. CASE z = CurZone
    <3>1. ~Settled(z)
      BY <1>2, <2>3 DEF Settled, Inside
    <3> QED BY <2>1, <2>2, <3>1 DEF TableHolds, Sure
  <2>4. CASE z # CurZone
    BY <1>3, <2>1, <2>2, <2>4 DEF TableHolds, Sure
  <2> QED BY <2>3, <2>4
<1>9. TablesHold'
  BY <1>8 DEF TablesHold
<1> QED BY <1>3, <1>6, <1>7, <1>9

\* The dirty flag of the zone is set, unless its table is dirty already.
LEMMA HoldFlag ==
    ASSUME CtlInv, HoldInv, job.pc \in Inside, SetDirtyFlag, UNCHANGED <<ver, pst>>,
           ~lost.failed => PagesHold' /\ EntriesHold',
           job'.pc \notin TablePages \union {"load", "off"}
    PROVE  HoldInv'
<1>1. cur \in SlotIds /\ CurZone \in Zones /\ slots[cur].zone = CurZone /\ pst \in [Zones -> GroupIds] /\ Typed
  BY CurKnown DEF CtlInv
<1>2. /\ slots' \in Slots /\ slots'[cur].dirty = TRUE
      /\ \A i \in SlotIds : slots'[i].zone = slots[i].zone /\ slots'[i].ver = slots[i].ver
      /\ \A i \in SlotIds \ {cur} : slots'[i] = slots[i]
      /\ lost'.failed = lost.failed
  BY FlagOK
<1> SUFFICES ASSUME ~lost.failed
             PROVE  VersHold' /\ VersionsHold' /\ TablesHold' /\ GroupWritten'
  BY <1>2 DEF HoldInv
<1>3. VersHold /\ VersionsHold /\ TablesHold
  BY DEF HoldInv, Inside
<1>4. Sure' \subseteq Sure /\ \A z \in Zones \ {CurZone} : z \in Sure' <=> z \in Sure
  <2>1. lost \in Losses
    BY <1>1 DEF Typed
  <2>2. CASE UNCHANGED lost
    BY <2>2 DEF Sure
  <2>3. CASE lost' = [lost EXCEPT !.flags = @ \union {CurZone}]
    <3>1. lost'.flags = lost.flags \union {CurZone}
      BY <2>1, <2>3 DEF Losses
    <3> QED BY <3>1 DEF Sure
  <2> QED BY <2>2, <2>3 DEF SetDirtyFlag
<1>5. VersHold'
  BY <1>2, <1>3, <1>4 DEF VersHold
<1>6. GroupWritten'
  BY DEF GroupWritten
<1>7. lost'.sums = lost.sums
  <2>1. lost \in Losses
    BY <1>1 DEF Typed
  <2> QED BY <2>1 DEF SetDirtyFlag, Losses
\* What is on flash: nothing new, or the flag of the zone.
<1>8. \/ tables' = tables /\ (slots[cur].dirty \/ CurZone \notin Sure')
      \/ tables' = FlagSet
  <2>1. CASE slots[cur].dirty /\ UNCHANGED <<tables, slots, lost, count>>
    BY <2>1
  <2>2. CASE tables' = FlagSet
    BY <2>2
  <2>3. CASE lost' = [lost EXCEPT !.flags = @ \union {CurZone}] /\ UNCHANGED tables
    <3>1. lost \in Losses
      BY <1>1 DEF Typed
    <3>2. lost'.flags = lost.flags \union {CurZone}
      BY <2>3, <3>1 DEF Losses
    <3> QED BY <2>3, <3>2 DEF Sure
  <2> QED BY <2>1, <2>2, <2>3 DEF SetDirtyFlag
<1>9. /\ \A z \in Zones \ {CurZone} : tables'[z] = tables[z]
      /\ \A g \in GroupIds : /\ tables'[CurZone].groups[g].half1 = tables[CurZone].groups[g].half1
                             /\ g # pst[CurZone] => tables'[CurZone].groups[g] = tables[CurZone].groups[g]
      /\ CurZone \in Sure' => ((slots[cur].dirty /\ tables' = tables) \/ tables'[CurZone].groups[pst[CurZone]].flag)
  <2>1. CASE tables' = tables /\ (slots[cur].dirty \/ CurZone \notin Sure')
    BY <2>1
  <2>2. CASE tables' = FlagSet
    <3>1. /\ \A z \in Zones \ {CurZone} : tables'[z] = tables[z]
          /\ tables'[CurZone].groups[pst[CurZone]] = [tables[CurZone].groups[pst[CurZone]] EXCEPT !.flag = TRUE]
          /\ \A g \in GroupIds \ {pst[CurZone]} : tables'[CurZone].groups[g] = tables[CurZone].groups[g]
      BY <1>1, <2>2, FlagSetOK DEF Typed
    <3>2. tables[CurZone].groups[pst[CurZone]] \in Group
      <4>1. tables[CurZone] \in Table /\ pst[CurZone] \in GroupIds
        BY <1>1 DEF Typed
      <4> QED BY <4>1 DEF Table
    <3>3. /\ tables'[CurZone].groups[pst[CurZone]].flag = TRUE
          /\ tables'[CurZone].groups[pst[CurZone]].half1 = tables[CurZone].groups[pst[CurZone]].half1
      BY <3>1, <3>2 DEF Group
    <3> QED BY <3>1, <3>3
  <2> QED BY <1>8, <2>1, <2>2
<1>10. VersionsHold'
  BY <1>3, <1>9 DEF VersionsHold
<1>11. ASSUME NEW z \in Zones
       PROVE  TableHolds(z)'
  <2>1. TableHolds(z)
    BY <1>3 DEF TablesHold, Writing, Inside, TablePages
  <2>2. CASE z = CurZone
    <3>1. ~Settled(z)'
      BY <1>1, <1>2, <2>2 DEF Settled
    <3>2. UsedTo(tables'[z], pst[z])
      <4>1. pst[z] \in GroupIds /\ GroupIds \subseteq Nat
        BY <1>1 DEF GroupIds
      <4>2. UsedTo(tables[z], pst[z])
        BY <2>1 DEF TableHolds
      <4>3. \A g \in GroupIds : ~(g <= pst[z]) => g # pst[z]
        BY <4>1
      <4> QED BY <1>9, <2>2, <4>2, <4>3 DEF UsedTo
    <3>3. z \in Sure' => tables'[z].groups[pst[z]].flag
      <4>1. CASE slots[cur].dirty /\ tables' = tables
        <5>1. ~Settled(z)
          BY <1>1, <2>2, <4>1 DEF Settled, Inside
        <5> QED BY <1>4, <2>1, <4>1, <5>1 DEF TableHolds
      <4> QED BY <1>9, <2>2, <4>1
    <3> QED BY <2>1, <3>1, <3>2, <3>3 DEF TableHolds
  <2>3. CASE z # CurZone
    <3>1. Settled(z)' <=> Settled(z)
      BY <1>1, <1>2, <2>3 DEF Settled, Inside
    <3>2. tables'[z] = tables[z] /\ (z \in Sure' <=> z \in Sure)
      BY <1>4, <1>9, <2>3
    <3> QED BY <1>7, <2>1, <3>1, <3>2 DEF TableHolds
  <2> QED BY <2>2, <2>3
<1>12. TablesHold'
  BY <1>11 DEF TablesHold
<1> QED BY <1>5, <1>6, <1>10, <1>12

\* A table is fetched: it is the one of the blocks, and no other slot has it.
LEMMA HoldLoadTable == ASSUME CtlInv, HoldInv, LoadTable PROVE HoldInv'
<1> DEFINE g == tables[job.z].groups[pst[job.z]]
           s == [slots EXCEPT ![cur] = [@ EXCEPT !.zone = job.z, !.ver = g.half1, !.dirty = FALSE]]
<1>1. /\ job.pc = "load" /\ slots' = Counted(s, cur) /\ Goto("flag") /\ SumHolds(g)
      /\ UNCHANGED <<ver, logs, tables, pslots, cur, pst, lost>>
  BY DEF LoadTable, Arrived, flash
<1> SUFFICES ASSUME ~lost.failed
             PROVE  VersHold' /\ PagesHold' /\ EntriesHold' /\ VersionsHold' /\ TablesHold' /\ GroupWritten'
  BY <1>1, GotoOK DEF HoldInv, CtlInv, Typed, PcNames
<1>2. VersHold /\ PagesHold /\ EntriesHold /\ VersionsHold /\ TablesHold
  BY <1>1 DEF HoldInv
<1>3. job'.pc = "flag"
  BY <1>1, GotoOK DEF CtlInv, Typed, PcNames
<1>4. cur \in SlotIds /\ job.z \in Zones /\ (\A i \in SlotIds : slots[i].zone # job.z) /\ pst[job.z] \in GroupIds
  BY <1>1 DEF CtlInv, SaveAt, Placed, Saving, TablePages
<1>5. g.half1 \in Nat /\ (job.z \in Sure => g.half1 = ver[job.z])
  <2>1. g.half1 \in Versions
    BY <1>2, <1>4 DEF VersionsHold
  <2>2. g.half1 \in Nat
    BY <1>1, <2>1 DEF SumHolds, Versions
  <2>3. TableHolds(job.z)
    BY <1>1, <1>2, <1>4 DEF TablesHold, Writing, TablePages
  <2>4. Settled(job.z)
    BY <1>4 DEF Settled
  <2> QED BY <2>2, <2>3, <2>4 DEF TableHolds
<1>6. s \in Slots /\ \A i \in SlotIds : IF i = cur THEN s[i].zone = job.z /\ s[i].ver = g.half1 /\ s[i].dirty = FALSE ELSE s[i] = slots[i]
  <2> HIDE DEF g
  <2> DEFINE h == [slots[cur] EXCEPT !.zone = job.z, !.ver = g.half1]
             x == [h EXCEPT !.dirty = FALSE]
  <2>1. slots \in Slots /\ slots[cur] \in [zone : Zones \union {None}, ver : Int, dirty : BOOLEAN, cnt : Nat]
    BY <1>4 DEF CtlInv, Typed, Slots
  <2>2. h \in [zone : Zones \union {None}, ver : Int, dirty : BOOLEAN, cnt : Nat] /\ h.zone = job.z /\ h.ver = g.half1
    <3> DEFINE e == slots[cur]
               n == g.half1
    <3>1. e \in [zone : Zones \union {None}, ver : Int, dirty : BOOLEAN, cnt : Nat] /\ n \in Int /\ job.z \in Zones
      BY <1>4, <1>5, <2>1
    <3>2. h = [e EXCEPT !.zone = job.z, !.ver = n]
      OBVIOUS
    <3> HIDE DEF e, n, h
    <3> QED BY <3>1, <3>2 DEF n
  <2>3. s = [slots EXCEPT ![cur] = x]
    OBVIOUS
  <2> HIDE DEF h, s
  <2>4. x \in [zone : Zones \union {None}, ver : Int, dirty : BOOLEAN, cnt : Nat] /\ x.zone = job.z /\ x.ver = g.half1 /\ x.dirty = FALSE
    BY <2>2
  <2> HIDE DEF x
  <2> QED BY <1>4, <2>1, <2>3, <2>4 DEF Slots
<1> HIDE DEF s, g
<1>7. \A i \in SlotIds : IF i = cur THEN slots'[i].zone = job.z /\ slots'[i].ver = g.half1 /\ slots'[i].dirty = FALSE
                         ELSE slots'[i].zone = slots[i].zone /\ slots'[i].ver = slots[i].ver /\ slots'[i].dirty = slots[i].dirty
  <2>1. SlotsSame(Counted(s, cur), s) /\ VersSame(Counted(s, cur), s, SlotIds)
    BY <1>6, CountedSlots
  <2> QED BY <1>1, <1>6, <2>1 DEF SlotsSame, VersSame
<1>8. VersHold'
  BY <1>1, <1>2, <1>5, <1>7 DEF VersHold, Sure
<1>9. PagesHold' /\ EntriesHold' /\ VersionsHold' /\ GroupWritten'
  BY <1>1, <1>2, <1>3 DEF PagesHold, EntriesHold, VersionsHold, GroupWritten, Sure, TablePages
<1>10. ASSUME NEW z \in Zones
       PROVE  TableHolds(z)'
  <2>1. TableHolds(z)
    BY <1>1, <1>2 DEF TablesHold, Writing, TablePages
  <2>2. Settled(z)' <=> Settled(z)
    BY <1>1, <1>3, <1>4, <1>7 DEF Settled
  <2> QED BY <1>1, <2>1, <2>2 DEF TableHolds, Sure
<1>11. TablesHold'
  BY <1>10 DEF TablesHold
<1> QED BY <1>8, <1>9, <1>11

LEMMA PagesSteady ==
    ASSUME HoldInv, ~lost.failed, PagesSame(pslots', pslots), VersSame(pslots', pslots, PageSlotIds), UNCHANGED logs, Sure' \subseteq Sure
    PROVE  PagesHold' /\ EntriesHold'
BY DEF HoldInv, PagesHold, EntriesHold, PagesSame, VersSame

\* Steps that neither change the mapping nor a table.
LEMMA HoldAccess == ASSUME CtlInv, HoldInv, NEW z \in Zones, NEW b \in Blocks, NEW w \in BOOLEAN, Access(z, b, w) PROVE HoldInv'
<1> DEFINE j == [Idle EXCEPT !.pc = IF ctl = z THEN "flag" ELSE "zone", !.z = z, !.b = b, !.w = w]
<1>1. job.pc = "idle" /\ job' = j /\ UNCHANGED <<ver, logs, tables, pst, lost, slots, pslots>>
  BY DEF Access, flash
<1>2. j.pc \in {"flag", "zone"}
  BY DEF Idle
<1> HIDE DEF j
<1>3. ~lost.failed => PagesHold' /\ EntriesHold'
  BY <1>1, PagesSteady DEF PagesSame, VersSame, Sure
<1> QED BY <1>1, <1>2, <1>3, HoldRam DEF SlotsSame, VersSame, TablePages

LEMMA HoldZoneHit == ASSUME CtlInv, HoldInv, ZoneHit PROVE HoldInv'
<1>1. job.pc = "zone" /\ slots' = Counted(slots, cur') /\ Goto("flag") /\ UNCHANGED <<ver, logs, tables, pst, lost, pslots>>
  BY DEF ZoneHit, Arrived, flash
<1>2. job'.pc = "flag"
  BY <1>1, GotoOK DEF CtlInv, Typed, PcNames
<1>3. SlotsSame(slots', slots) /\ VersSame(slots', slots, SlotIds)
  BY <1>1, CountedSlots DEF CtlInv, Typed
<1>4. ~lost.failed => PagesHold' /\ EntriesHold'
  BY <1>1, PagesSteady DEF PagesSame, VersSame, Sure
<1> QED BY <1>1, <1>2, <1>3, <1>4, HoldRam DEF TablePages

LEMMA HoldZonePost == ASSUME CtlInv, HoldInv, ZonePost PROVE HoldInv'
<1>1. /\ job.pc = "zone" /\ slots' = Cleared(slots) /\ cur' = PostLocation(slots) /\ UNCHANGED <<ver, logs, tables, pst, lost, pslots>>
      /\ Goto(IF slots[PostLocation(slots)].dirty THEN "save" ELSE "load")
  BY DEF ZonePost, flash
<1>2. job'.pc = IF slots[cur'].dirty THEN "save" ELSE "load"
  BY <1>1, GotoOK DEF CtlInv, Typed, PcNames
<1>3. SlotsSame(slots', slots) /\ VersSame(slots', slots, SlotIds)
  BY <1>1, ClearedSlots DEF CtlInv, Typed
<1>4. ~lost.failed => PagesHold' /\ EntriesHold'
  BY <1>1, PagesSteady DEF PagesSame, VersSame, Sure
<1> QED BY <1>1, <1>2, <1>3, <1>4, HoldRam DEF TablePages

LEMMA HoldFindLog == ASSUME CtlInv, HoldInv, FindLog PROVE HoldInv'
<1>1. /\ job.pc = "log" /\ UNCHANGED <<ver, logs, tables, pst, lost, slots, pslots>>
      /\ job' = AtPage(Lowest(LogOf(CurZone, job.b)), FALSE) \/ job' = Idle
  BY DEF FindLog, flash, AtPage
<1>2. job'.pc \in {"page", "idle"}
  <2>1. \A n : AtPage(n, FALSE).pc = "page"
    BY DEF AtPage, CtlInv, Typed, Jobs
  <2> QED BY <1>1, <2>1, IdleOK
<1>3. ~lost.failed => PagesHold' /\ EntriesHold'
  BY <1>1, PagesSteady DEF PagesSame, VersSame, Sure
<1> QED BY <1>1, <1>2, <1>3, HoldRam DEF SlotsSame, VersSame, TablePages

LEMMA HoldPickVictim == ASSUME CtlInv, HoldInv, PickVictim PROVE HoldInv'
<1>1. /\ job.pc = "log" /\ UNCHANGED <<ver, logs, tables, pst, lost, slots, pslots>>
      /\ \E p : job' = AtPage(p, TRUE)
  BY Zenon DEF PickVictim, AtPage, flash
<1>2. job'.pc = "page"
  BY <1>1 DEF AtPage, CtlInv, Typed, Jobs
<1>3. ~lost.failed => PagesHold' /\ EntriesHold'
  BY <1>1, PagesSteady DEF PagesSame, VersSame, Sure
<1> QED BY <1>1, <1>2, <1>3, HoldRam DEF SlotsSame, VersSame, TablePages

LEMMA HoldPageHit == ASSUME CtlInv, HoldInv, PageHit PROVE HoldInv'
<1>1. job.pc = "page" /\ pslots' = Counted(pslots, pcur') /\ AfterPage /\ UNCHANGED <<ver, logs, tables, pst, lost, slots>>
  BY DEF PageHit, flash
<1>2. job'.pc \in {"merge", "write", "idle"}
  BY <1>1, AfterPageOK, IdleOK
<1>3. ~lost.failed => PagesHold' /\ EntriesHold'
  <2>1. PagesSame(pslots', pslots) /\ VersSame(pslots', pslots, PageSlotIds)
    BY <1>1, CountedPages DEF CtlInv, Typed
  <2> QED BY <1>1, <2>1, PagesSteady DEF Sure
<1> QED BY <1>1, <1>2, <1>3, HoldRam DEF SlotsSame, VersSame, TablePages

LEMMA HoldPagePost == ASSUME CtlInv, HoldInv, PagePost PROVE HoldInv'
<1>1. /\ job.pc = "page" /\ UNCHANGED <<ver, logs, tables, pst, slots>>
      /\ \/ pslots' = Cleared(pslots) /\ Goto("pload") /\ UNCHANGED lost
         \/ pslots' = Cleared(pslots) /\ job' = [job EXCEPT !.pc = "pflag", !.why = "page", !.back = cur] /\ UNCHANGED lost
         \/ lost' = [lost EXCEPT !.failed = TRUE, !.noZone = TRUE]
  BY Zenon DEF PagePost, flash
<1>2. CASE lost' = [lost EXCEPT !.failed = TRUE, !.noZone = TRUE]
  <2>1. lost'.failed
    BY <1>2 DEF CtlInv, Typed, Losses
  <2> QED BY <2>1, HoldFailed
<1>3. CASE pslots' = Cleared(pslots) /\ job'.pc \in {"pload", "pflag"} /\ UNCHANGED lost
  <2>1. PagesSame(pslots', pslots) /\ VersSame(pslots', pslots, PageSlotIds)
    BY <1>3, ClearedPages DEF CtlInv, Typed
  <2>2. ~lost.failed => PagesHold' /\ EntriesHold'
    BY <1>1, <1>3, <2>1, PagesSteady DEF Sure
  <2> QED BY <1>1, <1>3, <2>2, HoldRam DEF SlotsSame, VersSame, TablePages
<1>4. Goto("pload") => job'.pc = "pload"
  BY GotoOK DEF CtlInv, Typed, PcNames
<1>5. job' = [job EXCEPT !.pc = "pflag", !.why = "page", !.back = cur] => job'.pc = "pflag"
  BY DEF CtlInv, Typed, Jobs
<1> QED BY <1>1, <1>2, <1>3, <1>4, <1>5

LEMMA HoldExit == ASSUME CtlInv, HoldInv, Exit PROVE HoldInv'
<1>1. /\ job.pc \in {"idle", "failed"} /\ job' = [Idle EXCEPT !.pc = "close", !.why = "close"]
      /\ UNCHANGED <<ver, logs, tables, pst, lost, slots, pslots>>
  BY DEF Exit, flash
<1>2. job'.pc = "close"
  BY <1>1 DEF Idle
<1>3. ~lost.failed => PagesHold' /\ EntriesHold'
  BY <1>1, PagesSteady DEF PagesSame, VersSame, Sure
<1> QED BY <1>1, <1>2, <1>3, HoldRam DEF SlotsSame, VersSame, TablePages

LEMMA HoldWriteBackAll == ASSUME CtlInv, HoldInv, WriteBackAll PROVE HoldInv'
<1>1. job.pc = "close" /\ Goto("save") /\ UNCHANGED <<ver, logs, tables, pst, lost, slots, pslots>>
  BY DEF WriteBackAll, flash
<1>2. job'.pc = "save"
  BY <1>1, GotoOK DEF CtlInv, Typed, PcNames
<1>3. ~lost.failed => PagesHold' /\ EntriesHold'
  BY <1>1, PagesSteady DEF PagesSame, VersSame, Sure
<1> QED BY <1>1, <1>2, <1>3, HoldRam DEF SlotsSame, VersSame, TablePages

\* A zone whose flag could not be stored is not among the sure ones any more.
LEMMA FewerSure ==
    ASSUME Typed, SetDirtyFlag
    PROVE  Sure' \subseteq Sure
<1>1. CASE UNCHANGED lost
  BY <1>1 DEF Sure
<1>2. CASE lost' = [lost EXCEPT !.flags = @ \union {CurZone}]
  <2>1. lost'.flags = lost.flags \union {CurZone}
    BY <1>2 DEF Typed, Losses
  <2> QED BY <2>1 DEF Sure
<1> QED BY <1>1, <1>2 DEF SetDirtyFlag

LEMMA HoldFlagStep == ASSUME CtlInv, HoldInv, Flag PROVE HoldInv'
<1>1. job.pc = "flag" /\ Goto("log") /\ UNCHANGED <<ver, logs, pslots, pst>>
  BY DEF Flag
<1>2. job'.pc = "log"
  BY <1>1, GotoOK DEF CtlInv, Typed, PcNames
<1>3. PagesSame(pslots', pslots) /\ VersSame(pslots', pslots, PageSlotIds)
  BY <1>1 DEF PagesSame, VersSame
<1>4. CASE SetDirtyFlag
  <2>1. ~lost.failed => PagesHold' /\ EntriesHold'
    BY <1>1, <1>3, <1>4, PagesSteady, FewerSure DEF CtlInv
  <2> QED BY <1>1, <1>2, <1>4, <2>1, HoldFlag DEF Inside, TablePages
<1>5. CASE UNCHANGED <<tables, slots, lost>>
  <2>1. ~lost.failed => PagesHold' /\ EntriesHold'
    BY <1>1, <1>3, <1>5, PagesSteady DEF Sure
  <2> QED BY <1>1, <1>2, <1>5, <2>1, HoldRam DEF SlotsSame, VersSame, TablePages
<1> QED BY <1>4, <1>5 DEF Flag, FlagBeforeWrite

LEMMA HoldPageFlag == ASSUME CtlInv, HoldInv, PageFlag PROVE HoldInv'
<1>1. job.pc = "pflag" /\ SetDirtyFlag /\ Goto("pwrite") /\ UNCHANGED <<ver, logs, pslots, pst>>
  BY DEF PageFlag
<1>2. job'.pc = "pwrite"
  BY <1>1, GotoOK DEF CtlInv, Typed, PcNames
<1>3. PagesSame(pslots', pslots) /\ VersSame(pslots', pslots, PageSlotIds)
  BY <1>1 DEF PagesSame, VersSame
<1>4. ~lost.failed => PagesHold' /\ EntriesHold'
  BY <1>1, <1>3, PagesSteady, FewerSure DEF CtlInv
<1> QED BY <1>1, <1>2, <1>4, HoldFlag DEF Inside, TablePages

\* The map that is fetched is the one of the log block.
LEMMA FetchedHold ==
    ASSUME CtlInv, HoldInv, ~lost.failed, job.pc = "pload", UNCHANGED logs, NEW v \in Int, NEW d \in BOOLEAN,
           pslots' = Counted(Fetched(v, d), pcur), Sure' \subseteq Sure,
           CurZone \in Sure' => v = logs[CurZone][job.p].ver
    PROVE  PagesHold' /\ EntriesHold'
<1>1. PagesHold /\ EntriesHold
  BY DEF HoldInv
<1>2. EntriesHold'
  BY <1>1 DEF EntriesHold
<1>3. CurZone \in Zones /\ job.p \in Positions /\ pcur \in PageSlotIds /\ pslots \in PageSlots
  BY AtHome DEF Inside, CtlInv, PageAt, Typed
<1>4. /\ pslots'[pcur].zone = CurZone /\ pslots'[pcur].log = job.p /\ pslots'[pcur].ver = v
      /\ \A i \in PageSlotIds \ {pcur} : pslots'[i].zone = pslots[i].zone /\ pslots'[i].log = pslots[i].log /\ pslots'[i].ver = pslots[i].ver
  BY <1>3, FetchedOK
<1>5. ASSUME NEW i \in PageSlotIds, pslots'[i].zone \in Sure'
      PROVE  pslots'[i].ver = logs'[pslots'[i].zone][pslots'[i].log].ver
  <2>1. CASE i = pcur
    BY <1>4, <1>5, <2>1
  <2>2. CASE i # pcur
    <3>1. pslots'[i].zone = pslots[i].zone /\ pslots'[i].log = pslots[i].log /\ pslots'[i].ver = pslots[i].ver
      BY <1>4, <2>2
    <3> QED BY <1>1, <1>5, <3>1 DEF PagesHold
  <2> QED BY <2>1, <2>2
<1>6. PagesHold'
  BY <1>5 DEF PagesHold
<1> QED BY <1>2, <1>6

LEMMA HoldPageLoad == ASSUME CtlInv, HoldInv, PageLoad PROVE HoldInv'
<1> DEFINE g == logs[CurZone][job.p]
           v == IF g.len = 0 THEN g.ver ELSE g.tv
<1>1. /\ job.pc = "pload" /\ (g.len = 0 \/ g.last = "table") /\ pslots' = Counted(Fetched(v, FALSE), pcur) /\ AfterPage
      /\ UNCHANGED <<ver, logs, tables, pst, lost, slots>>
  BY DEF PageLoad, flash, LastIsTable
<1>2. job'.pc \in {"merge", "write", "idle"}
  BY <1>1, AfterPageOK, IdleOK
<1>3. CurZone \in Zones /\ job.p \in Positions /\ g \in Log
  <2>1. CurZone \in Zones /\ job.p \in Positions /\ logs \in [Zones -> [Positions -> Log]]
    BY <1>1, AtHome DEF Inside, CtlInv, PageAt, Typed
  <2> QED BY <2>1
<1>4. v \in Int
  <2> HIDE DEF g
  <2> QED BY <1>3 DEF Log
<1>5. ~lost.failed => PagesHold' /\ EntriesHold'
  <2> SUFFICES ASSUME ~lost.failed PROVE PagesHold' /\ EntriesHold'
    OBVIOUS
  <2>1. CurZone \in Sure => v = g.ver
    BY <1>1, <1>3 DEF HoldInv, EntriesHold
  <2>2. Sure' = Sure
    BY <1>1 DEF Sure
  <2> HIDE DEF v
  <2> QED BY <1>1, <1>4, <2>1, <2>2, FetchedHold
<1> HIDE DEF v
<1> QED BY <1>1, <1>2, <1>5, HoldRam DEF SlotsSame, VersSame, TablePages

LEMMA HoldPageRebuild == ASSUME CtlInv, HoldInv, PageRebuild PROVE HoldInv'
<1> DEFINE v == logs[CurZone][job.p].ver
<1>1. /\ job.pc = "pload" /\ SetDirtyFlag /\ pslots' = Counted(Fetched(v, TRUE), pcur) /\ AfterPage
      /\ UNCHANGED <<ver, logs, pst>>
  BY DEF PageRebuild
<1>2. job'.pc \in {"merge", "write", "idle"}
  BY <1>1, AfterPageOK, IdleOK
<1>3. v \in Int
  <2>1. CurZone \in Zones /\ job.p \in Positions /\ logs \in [Zones -> [Positions -> Log]]
    BY <1>1, AtHome DEF Inside, CtlInv, PageAt, Typed
  <2>2. logs[CurZone][job.p] \in Log
    BY <2>1
  <2> QED BY <2>2 DEF Log
<1>4. ~lost.failed => PagesHold' /\ EntriesHold'
  <2> SUFFICES ASSUME ~lost.failed PROVE PagesHold' /\ EntriesHold'
    OBVIOUS
  <2>1. Sure' \subseteq Sure
    BY <1>1, FewerSure DEF CtlInv
  <2>2. CurZone \in Sure' => v = logs[CurZone][job.p].ver
    OBVIOUS
  <2> HIDE DEF v
  <2> QED BY <1>1, <1>3, <2>1, <2>2, FetchedHold
<1> HIDE DEF v
<1> QED BY <1>1, <1>2, <1>4, HoldFlag DEF Inside, TablePages

-----------------------------------------------------------------------------
(* What is held: the mapping changes.                                       *)

\* A slot is emptied; when its log block keeps a map it is the right one.
LEMMA GoneHolds ==
    ASSUME CtlInv, HoldInv, ~lost.failed, job.pc \in Inside \union Saving, NEW i \in PageSlotIds, pslots[i].zone = CurZone,
           NEW n \in Positions, n = pslots[i].log, NEW g \in Log, g.last = "table" => g.blk \in Blocks,
           CurZone \in Sure /\ g.last = "table" => g.tv = g.ver,
           logs' = PutEntry(CurZone, n, g), pslots' = Gone(i), slots' = Changed(slots), Changes, UNCHANGED lost
    PROVE  PagesHold' /\ EntriesHold'
<1>1. PagesHold /\ EntriesHold /\ Sure' = Sure /\ CurZone \in Zones /\ None \notin Zones
  BY CurKnown, Constants DEF HoldInv, Sure
<1>2. /\ \A j \in PageSlotIds : IF j = i THEN pslots'[j].zone = None ELSE pslots'[j] = pslots[j]
      /\ \A z \in Zones, p \in Positions : ~(z = CurZone /\ p = n) => logs'[z][p] = logs[z][p]
  BY GoneKeeps
<1>3. logs'[CurZone][n] = g
  <2>1. logs \in [Zones -> [Positions -> Log]]
    BY DEF CtlInv, Typed
  <2> QED BY <1>1, <2>1, PutEntryCur
<1>4. ASSUME NEW z \in Sure, NEW p \in Positions, logs'[z][p].last = "table"
      PROVE  logs'[z][p].tv = logs'[z][p].ver
  <2>1. CASE z = CurZone /\ p = n
    BY <1>3, <1>4, <2>1
  <2>2. CASE ~(z = CurZone /\ p = n)
    BY <1>1, <1>2, <1>4, <2>2 DEF EntriesHold, Sure
  <2> QED BY <2>1, <2>2
<1>5. ASSUME NEW j \in PageSlotIds, pslots'[j].zone \in Sure
      PROVE  pslots'[j].ver = logs'[pslots'[j].zone][pslots'[j].log].ver
  <2>1. j # i /\ pslots'[j] = pslots[j] /\ pslots[j].zone \in Zones
    BY <1>1, <1>2, <1>5 DEF Sure
  <2>2. pslots[j].log \in Positions /\ ~(pslots[j].zone = CurZone /\ pslots[j].log = n)
    BY <2>1 DEF CtlInv, SlotsNamed
  <2> QED BY <1>1, <1>2, <1>5, <2>1, <2>2 DEF PagesHold
<1> QED BY <1>1, <1>4, <1>5 DEF PagesHold, EntriesHold

LEMMA StoreHolds ==
    ASSUME CtlInv, HoldInv, ~lost.failed, job.pc \in Inside \union Saving, NEW i \in PageSlotIds, pslots[i].zone = CurZone,
           StoreMap(i), UNCHANGED lost
    PROVE  PagesHold' /\ EntriesHold'
<1>1. PICK n \in Positions, g \in Log :
          /\ n = pslots[i].log /\ logs' = PutEntry(CurZone, n, g)
          /\ \/ /\ g.last = "table" /\ g.blk = logs[CurZone][n].blk
                /\ g.tv - g.ver = pslots[i].ver - logs[CurZone][n].ver
             \/ g.last = "none" /\ g.blk = None
  BY StoreMapOK
<1>2. pslots' = Gone(i) /\ slots' = Changed(slots) /\ Changes
  BY DEF StoreMap
<1>3. CurZone \in Zones
  BY CurKnown
<1>4. logs[CurZone][n].blk \in Blocks
  BY <1>1, <1>3 DEF CtlInv, SlotsNamed
<1>5. g.last = "table" => g.blk \in Blocks
  BY <1>1, <1>4
<1>6. CurZone \in Sure /\ g.last = "table" => g.tv = g.ver
  <2>1. g.tv \in Int /\ g.ver \in Int /\ pslots[i].ver \in Int
    BY DEF Log, CtlInv, Typed, PageSlots
  <2>2. CurZone \in Sure => pslots[i].ver = logs[CurZone][n].ver
    BY <1>1 DEF HoldInv, PagesHold
  <2> QED BY <1>1, <2>1, <2>2
<1> QED BY <1>1, <1>2, <1>5, <1>6, GoneHolds

LEMMA HoldPageWriteBack == ASSUME CtlInv, HoldInv, PageWriteBack PROVE HoldInv'
<1>1. job.pc = "pwrite" /\ StoreMap(pcur) /\ Goto("pload") /\ UNCHANGED <<tables, pst, lost>>
  BY DEF PageWriteBack
<1>2. job'.pc = "pload"
  BY <1>1, GotoOK DEF CtlInv, Typed, PcNames
<1>3. pcur \in PageSlotIds /\ CurZone = pslots[pcur].zone /\ slots[cur].dirty
  BY <1>1 DEF CtlInv, PageAt
<1>4. slots' = Changed(slots) /\ Changes
  BY <1>1 DEF StoreMap
<1>5. ~lost.failed => PagesHold' /\ EntriesHold'
  BY <1>1, <1>3, StoreHolds DEF Inside
<1> QED BY <1>1, <1>2, <1>3, <1>4, <1>5, HoldChange DEF Inside, TablePages

LEMMA HoldSavePage == ASSUME CtlInv, HoldInv, SavePage PROVE HoldInv'
<1>1. job.pc = "save" /\ DirtyMaps # {} /\ pcur' = Lowest(DirtyMaps) /\ UNCHANGED <<tables, pst, job, lost>>
  BY DEF SavePage, MapsFirst
<1>2. PICK n \in PageSlotIds : n = pcur' /\ pslots[n].zone = CurZone /\ pslots[n].dirty
  <2>1. DirtyMaps \in SUBSET PageSlotIds
    BY DEF DirtyMaps, CtlInv, Typed, PageSlots
  <2>2. Lowest(DirtyMaps) \in DirtyMaps
    BY <1>1, <2>1, Constants, LowestOK DEF PageSlotIds
  <2> QED BY <1>1, <2>1, <2>2 DEF DirtyMaps
<1>3. StoreMap(n)
  BY <1>2 DEF SavePage
<1>4. slots[cur].dirty
  BY <1>1, AtTable DEF Saving
<1>5. slots' = Changed(slots) /\ Changes
  BY <1>3 DEF StoreMap
<1>6. ~lost.failed => PagesHold' /\ EntriesHold'
  BY <1>1, <1>2, <1>3, StoreHolds DEF Saving
<1> QED BY <1>1, <1>4, <1>5, <1>6, HoldChange DEF TablePages

\* The program of a page map failed.
LEMMA StoreFailsHolds ==
    ASSUME CtlInv, HoldInv, job.pc \in Inside \union {"save"}, slots[cur].dirty, NEW i \in PageSlotIds, StoreMapFails(i),
           UNCHANGED <<tables, pst>>
    PROVE  HoldInv'
<1>1. /\ UNCHANGED logs
      /\ \/ /\ UNCHANGED <<pslots, job, lost>> /\ slots' = Changed(slots) /\ Changes
         \/ job'.pc \in {"leave", "failed"} /\ lost'.failed = TRUE
  BY StoreFailsOK DEF Saving
<1>2. CASE UNCHANGED <<pslots, job, lost>> /\ slots' = Changed(slots) /\ Changes
  <2>1. ~lost.failed => PagesHold' /\ EntriesHold'
    BY <1>1, <1>2, PagesSteady DEF PagesSame, VersSame, Sure
  <2> QED BY <1>2, <2>1, HoldChange DEF Inside, TablePages
<1>3. CASE lost'.failed = TRUE
  BY <1>3, HoldFailed
<1> QED BY <1>1, <1>2, <1>3

LEMMA HoldStoreFails == ASSUME CtlInv, HoldInv, PageWriteBackFails \/ SavePageFails PROVE HoldInv'
<1>1. CASE PageWriteBackFails
  <2>1. job.pc = "pwrite" /\ StoreMapFails(pcur) /\ UNCHANGED <<tables, pst>>
    BY <1>1 DEF PageWriteBackFails
  <2>2. pcur \in PageSlotIds /\ slots[cur].dirty
    BY <2>1 DEF CtlInv, PageAt
  <2> QED BY <2>1, <2>2, StoreFailsHolds DEF Inside
<1>2. CASE SavePageFails
  <2>1. job.pc = "save" /\ DirtyMaps # {} /\ pcur' = Lowest(DirtyMaps) /\ UNCHANGED <<tables, pst>>
    BY <1>2 DEF SavePageFails, MapsFirst
  <2>2. PICK n \in PageSlotIds : n = pcur'
    <3>1. DirtyMaps \in SUBSET PageSlotIds
      BY DEF DirtyMaps, CtlInv, Typed, PageSlots
    <3>2. Lowest(DirtyMaps) \in DirtyMaps
      BY <2>1, <3>1, Constants, LowestOK DEF PageSlotIds
    <3> QED BY <2>1, <3>1, <3>2
  <2>3. StoreMapFails(n) /\ slots[cur].dirty
    BY <1>2, <2>1, <2>2, AtTable DEF SavePageFails, Saving
  <2> QED BY <2>1, <2>3, StoreFailsHolds
<1> QED BY <1>1, <1>2

\* A position that had no log block had no page map either.
LEMMA HoldCreateLog == ASSUME CtlInv, HoldInv, CreateLog PROVE HoldInv'
<1> DEFINE n == Lowest(LogOf(CurZone, None))
           g == NewLog(logs[CurZone][n], job.b)
<1>1. /\ job.pc = "log" /\ job.w /\ LogOf(CurZone, None) # {}
      /\ logs' = [logs EXCEPT ![CurZone][n] = g]
      /\ slots' = Changed(slots) /\ Changes
      /\ job' = AtPage(n, FALSE)
      /\ UNCHANGED <<tables, pslots, pst, lost>>
  BY Zenon DEF CreateLog, AtPage
<1>2. CurZone = job.z /\ job.z \in Zones /\ job.b \in Blocks /\ slots[cur].dirty
  BY <1>1, AtHome DEF Inside
<1>3. n \in Positions /\ logs[CurZone][n].blk = None
  BY <1>1, LogOfOK
<1>4. job'.pc = "page"
  <2>1. job \in Jobs
    BY DEF CtlInv, Typed
  <2> HIDE DEF n
  <2> QED BY <1>1, <1>3, <2>1, AtPageOK
<1> HIDE DEF n
<1>5. logs[CurZone][n] \in Log /\ logs \in [Zones -> [Positions -> Log]] /\ logs[CurZone][n].last # "table"
  <2>1. logs[CurZone][n] \in Log /\ logs \in [Zones -> [Positions -> Log]]
    BY <1>2, <1>3 DEF CtlInv, Typed
  <2> QED BY <1>2, <1>3, <2>1, Constants DEF CtlInv, SlotsNamed
<1>6. g \in Log /\ g.last # "table"
  <2>1. g \in Log
    BY <1>2, <1>5, NewLogOK
  <2>2. g.last = logs[CurZone][n].last
    BY <1>5 DEF NewLog, Log
  <2> QED BY <1>5, <2>1, <2>2
<1> HIDE DEF g
<1>7. /\ logs'[CurZone][n] = g
      /\ \A z \in Zones, p \in Positions : z # CurZone \/ p # n => logs'[z][p] = logs[z][p]
  <2>1. logs' = PutEntry(CurZone, n, g)
    BY <1>1 DEF PutEntry
  <2>2. CurZone \in Zones /\ logs \in [Zones -> [Positions -> Log]]
    BY <1>2, <1>5
  <2>3. /\ PutEntry(CurZone, n, g)[CurZone][n] = g
        /\ \A z \in Zones, p \in Positions : z # CurZone \/ p # n => PutEntry(CurZone, n, g)[z][p] = logs[z][p]
    BY <1>3, <1>6, <2>2, PutEntryCur
  <2> QED BY <2>1, <2>3
<1>8. ~lost.failed => PagesHold' /\ EntriesHold'
  <2> SUFFICES ASSUME ~lost.failed PROVE PagesHold' /\ EntriesHold'
    OBVIOUS
  <2>1. PagesHold /\ EntriesHold /\ Sure' = Sure
    BY <1>1 DEF HoldInv, Sure
  <2>2. ASSUME NEW i \in PageSlotIds, pslots[i].zone \in Sure
        PROVE  pslots[i].ver = logs'[pslots[i].zone][pslots[i].log].ver
    <3>1. pslots[i].zone \in Zones /\ pslots[i].log \in Positions /\ logs[pslots[i].zone][pslots[i].log].blk \in Blocks
      BY <2>2 DEF Sure, CtlInv, SlotsNamed
    <3>2. logs'[pslots[i].zone][pslots[i].log] = logs[pslots[i].zone][pslots[i].log]
      BY <1>3, <1>7, <3>1, Constants
    <3> QED BY <2>1, <2>2, <3>2 DEF PagesHold
  <2>3. EntriesHold'
    BY <1>6, <1>7, <2>1 DEF EntriesHold, Sure
  <2> QED BY <1>1, <2>1, <2>2, <2>3 DEF PagesHold
<1> QED BY <1>1, <1>2, <1>4, <1>8, HoldChange DEF Inside, TablePages

LEMMA HoldMergeVictim == ASSUME CtlInv, HoldInv, MergeVictim PROVE HoldInv'
<1> DEFINE g == logs[CurZone][job.p]
<1>1. /\ job.pc = "merge" /\ logs' = PutEntry(CurZone, job.p, Merged(g)) /\ pslots' = Gone(pcur)
      /\ slots' = Changed(slots) /\ Changes /\ Goto("log")
      /\ UNCHANGED <<tables, pst, lost>>
  BY Zenon DEF MergeVictim, ClearCurMapTbl, PutEntry
<1>2. CurZone = job.z /\ job.z \in Zones /\ (job.w => slots[cur].dirty)
  BY <1>1, AtHome DEF Inside
<1>3. job.p \in Positions /\ pcur \in PageSlotIds /\ pslots[pcur].zone = job.z /\ pslots[pcur].log = job.p /\ job.w
  BY <1>1 DEF CtlInv, PageAt
<1>4. PICK h \in Log : h = Merged(g) /\ h.last = "none"
  <2>1. g \in Log
    BY <1>2, <1>3 DEF CtlInv, Typed
  <2> HIDE DEF g
  <2> QED BY <2>1, EntriesOK
<1> HIDE DEF g
<1>5. job'.pc = "log"
  BY <1>1, GotoOK DEF CtlInv, Typed, PcNames
<1>6. ~lost.failed => PagesHold' /\ EntriesHold'
  <2>1. PICK n \in Positions : n = job.p
    BY <1>3
  <2> QED BY <1>1, <1>2, <1>3, <1>4, <2>1, GoneHolds DEF Inside
<1> QED BY <1>1, <1>2, <1>3, <1>5, <1>6, HoldChange DEF Inside, TablePages

LEMMA HoldWritePage == ASSUME CtlInv, HoldInv, WritePage PROVE HoldInv'
<1> DEFINE g == logs[CurZone][job.p]
           Written(n) == /\ logs' = PutEntry(CurZone, job.p, WithPage(g, n))
                         /\ pslots' = [pslots EXCEPT ![pcur] = Entered(@)]
                         /\ job' = Idle
<1>1. job.pc = "write" /\ slots' = Changed(slots) /\ Changes /\ UNCHANGED <<tables, pst, lost>>
  BY DEF WritePage
<1>2. CurZone = job.z /\ job.z \in Zones /\ (job.w => slots[cur].dirty)
  BY <1>1, AtHome DEF Inside
<1>3. job.p \in Positions /\ pcur \in PageSlotIds /\ pslots[pcur].zone = job.z /\ pslots[pcur].log = job.p /\ job.w
  BY <1>1 DEF CtlInv, PageAt
<1>4. g \in Log /\ g.len \in 0 .. PAGES
  BY <1>2, <1>3 DEF CtlInv, Typed, Log
<1>5. \/ g.len < PAGES /\ Written(g.len + 1)
      \/ \E k \in 1 .. PAGES - 1 : Written(k + 1)
      \/ logs' = PutEntry(CurZone, job.p, Merged(g)) /\ pslots' = Gone(pcur) /\ Goto("log")
  BY Zenon DEF WritePage, PutEntry, ClearCurMapTbl
<1>6. ASSUME NEW n \in 0 .. PAGES, Written(n)
      PROVE  HoldInv'
  <2>1. PICK h \in Log : h = WithPage(g, n) /\ h.ver = g.ver + 1 /\ h.last = "data"
    <3> HIDE DEF g
    <3> QED BY <1>4, EntriesOK
  <2>2. PICK q \in Positions : q = job.p
    BY <1>3
  <2>3. logs' = PutEntry(CurZone, q, h) /\ logs \in [Zones -> [Positions -> Log]]
    BY <1>6, <2>1, <2>2 DEF CtlInv, Typed
  <2>4. /\ logs'[CurZone][q] = h
        /\ \A z \in Zones, p \in Positions : z # CurZone \/ p # q => logs'[z][p] = logs[z][p]
    <3> HIDE <1>5, <1>6
    <3>1. CurZone \in Zones
      BY <1>2
    <3>2. /\ PutEntry(CurZone, q, h)[CurZone][q] = h
          /\ \A z \in Zones, p \in Positions : z # CurZone \/ p # q => PutEntry(CurZone, q, h)[z][p] = logs[z][p]
      BY <2>3, <3>1, PutEntryCur
    <3> QED BY <2>3, <3>2
  <2>5. /\ pslots'[pcur].ver = pslots[pcur].ver + 1
        /\ \A i \in PageSlotIds : pslots'[i].zone = pslots[i].zone /\ pslots'[i].log = pslots[i].log
        /\ \A i \in PageSlotIds \ {pcur} : pslots'[i] = pslots[i]
    BY <1>3, <1>6, EnteredOK DEF CtlInv, Typed
  <2>6. job'.pc = "idle"
    BY <1>6, IdleOK
  <2>7. ~lost.failed => PagesHold' /\ EntriesHold'
    <3> SUFFICES ASSUME ~lost.failed PROVE PagesHold' /\ EntriesHold'
      OBVIOUS
    <3>1. PagesHold /\ EntriesHold /\ Sure' = Sure
      BY <1>1 DEF HoldInv, Sure
    <3>2. EntriesHold'
      BY <2>1, <2>4, <3>1 DEF EntriesHold, Sure
    <3>3. ASSUME NEW i \in PageSlotIds, pslots'[i].zone \in Sure
          PROVE  pslots'[i].ver = logs'[pslots'[i].zone][pslots'[i].log].ver
      <4>1. CASE i = pcur
        <5>1. pslots[i].ver = logs[CurZone][q].ver
          BY <1>2, <1>3, <2>2, <2>5, <3>1, <3>3, <4>1 DEF PagesHold
        <5>2. h.ver = logs[CurZone][q].ver + 1
          BY <2>1, <2>2
        <5>3. pslots'[i].zone = CurZone /\ pslots'[i].log = q
          BY <1>2, <1>3, <2>2, <2>5, <4>1
        <5> HIDE <1>5, <1>6
        <5> QED BY <2>4, <2>5, <4>1, <5>1, <5>2, <5>3
      <4>2. CASE i # pcur
        <5>1. pslots'[i] = pslots[i] /\ pslots[i].zone \in Zones
          BY <2>5, <3>3, <4>2 DEF Sure
        <5>2. pslots[i].log \in Positions /\ ~(pslots[i].zone = CurZone /\ pslots[i].log = q)
          BY <1>2, <1>3, <2>2, <4>2, <5>1 DEF CtlInv, SlotsNamed
        <5>3. logs'[pslots[i].zone][pslots[i].log] = logs[pslots[i].zone][pslots[i].log]
          BY <2>4, <5>1, <5>2
        <5> QED BY <3>1, <3>3, <5>1, <5>3 DEF PagesHold
      <4> QED BY <4>1, <4>2
    <3> QED BY <3>1, <3>2, <3>3 DEF PagesHold
  <2> HIDE <1>5, <1>6
  <2> QED BY <1>1, <1>2, <1>3, <2>6, <2>7, HoldChange DEF Inside, TablePages
<1>7. ASSUME logs' = PutEntry(CurZone, job.p, Merged(g)), pslots' = Gone(pcur), Goto("log")
      PROVE  HoldInv'
  <2>1. PICK h \in Log : h = Merged(g) /\ h.last = "none"
    <3> HIDE DEF g
    <3> QED BY <1>4, EntriesOK
  <2>2. job'.pc = "log"
    BY <1>7, GotoOK DEF CtlInv, Typed, PcNames
  <2>3. ~lost.failed => PagesHold' /\ EntriesHold'
    <3>1. PICK n \in Positions : n = job.p
      BY <1>3
    <3> HIDE DEF g
    <3> QED BY <1>1, <1>2, <1>3, <1>7, <2>1, <3>1, GoneHolds DEF Inside
  <2> QED BY <1>1, <1>2, <1>3, <2>2, <2>3, HoldChange DEF Inside, TablePages
<1>8. CASE g.len < PAGES /\ Written(g.len + 1)
  <2>1. PICK n \in 0 .. PAGES : n = g.len + 1
    BY <1>4, <1>8, Constants
  <2> HIDE DEF g
  <2> QED BY <1>6, <1>8, <2>1
<1>9. CASE \E k \in 1 .. PAGES - 1 : Written(k + 1)
  <2> PICK k \in 1 .. PAGES - 1 : Written(k + 1)
    BY <1>9
  <2>1. PICK n \in 0 .. PAGES : n = k + 1
    BY Constants
  <2> HIDE DEF g
  <2> QED BY <1>6, <2>1
<1> HIDE DEF g, Written
<1> QED BY <1>5, <1>7, <1>8, <1>9

-----------------------------------------------------------------------------
(* What is held: a block table is written to the next group.                *)

\* The tables of the other zones stay where they are.
LEMMA OthersHold ==
    ASSUME CtlInv, HoldInv, ~lost.failed, job.pc \in Saving, job'.pc \in TablePages, SlotsSame(slots', slots), UNCHANGED <<cur, pst>>,
           \A z \in Zones \ {CurZone} : tables'[z] = tables[z] /\ ver'[z] = ver[z] /\ (z \in lost'.sums <=> z \in lost.sums),
           lost'.flags = lost.flags
    PROVE  TablesHold'
<1>1. TablesHold /\ cur \in SlotIds
  BY AtTable DEF HoldInv, Saving, TablePages
<1>2. CurZone' = CurZone
  BY <1>1 DEF CurZone, SlotsSame
<1>3. ASSUME NEW z \in Zones, z # CurZone
      PROVE  TableHolds(z)'
  <2>1. TableHolds(z)
    BY <1>1, <1>3 DEF TablesHold, Writing
  <2>2. Settled(z)' <=> Settled(z)
    BY DEF Settled, SlotsSame, Saving, TablePages
  <2>3. tables'[z] = tables[z] /\ ver'[z] = ver[z] /\ (z \in lost'.sums <=> z \in lost.sums) /\ Sure' = Sure /\ pst' = pst
    BY <1>3 DEF Sure
  <2> QED BY <2>1, <2>2, <2>3 DEF TableHolds
<1> QED BY <1>2, <1>3 DEF TablesHold, Writing

\* The group of a new block, and the first program of a group.
LEMMA FirstHalf ==
    ASSUME NEW v, NEW s
    PROVE  NewGroup = Halfway("table1", v, s)
BY DEF NewGroup, Halfway

LEMMA HoldNextGroup == ASSUME CtlInv, HoldInv, NextGroup PROVE HoldInv'
<1> DEFINE n == pst[CurZone] + 1
           v == slots[cur].ver
<1>1. /\ job.pc = "save" /\ ~(pst[CurZone] >= GROUPS) /\ job' = AtGroup(n, v)
      /\ UNCHANGED <<ver, logs, tables, slots, pslots, cur, pst, lost>>
  BY DEF NextGroup, StartGroup, TableFull, AtGroup, flash
<1>2. cur \in SlotIds /\ CurZone \in Zones /\ slots[cur].zone = CurZone /\ slots[cur].dirty /\ pst \in [Zones -> GroupIds]
  BY <1>1, AtTable DEF Saving
<1>3. n \in GroupIds /\ v \in Int /\ pst[CurZone] \in GroupIds /\ n > pst[CurZone] /\ n - 1 = pst[CurZone]
  <2>1. pst[CurZone] \in GroupIds
    BY <1>2
  <2>2. n \in GroupIds /\ n > pst[CurZone] /\ n - 1 = pst[CurZone]
    BY <1>1, <2>1, Constants DEF GroupIds
  <2> QED BY <1>2, <2>1, <2>2 DEF CtlInv, Typed, Slots
<1>4. job'.pc = "table1" /\ job'.g = n /\ job'.sum = v /\ n = pst[CurZone] + 1 /\ v = slots[cur].ver
  <2> HIDE DEF n, v
  <2>1. job'.pc = "table1" /\ job'.g = n /\ job'.sum = v
    BY <1>1, <1>3, AtGroupOK DEF CtlInv, Typed
  <2> QED BY <2>1 DEF n, v
<1> HIDE DEF n, v
<1> SUFFICES ASSUME ~lost.failed
             PROVE  VersHold' /\ PagesHold' /\ EntriesHold' /\ VersionsHold' /\ TablesHold' /\ GroupWritten'
  BY <1>1, <1>4 DEF HoldInv
<1>5. VersHold /\ PagesHold /\ EntriesHold /\ VersionsHold /\ TablesHold
  BY <1>1 DEF HoldInv
<1>6. VersHold' /\ PagesHold' /\ EntriesHold' /\ VersionsHold'
  BY <1>1, <1>5 DEF VersHold, PagesHold, EntriesHold, VersionsHold, Sure
<1>7. TablesHold'
  BY <1>1, <1>4, OthersHold DEF Saving, TablePages, SlotsSame
<1>8. GroupWritten'
  <2>1. TableHolds(CurZone)
    BY <1>1, <1>2, <1>5 DEF TablesHold, Writing, TablePages
  <2>2. ~Settled(CurZone)
    BY <1>1, <1>2 DEF Settled
  <2>3. UsedTo(tables[CurZone], n - 1) /\ (CurZone \in Sure => tables[CurZone].groups[n - 1].flag)
    BY <1>3, <2>1, <2>2 DEF TableHolds
  <2>4. tables[CurZone].groups[n] = NewGroup
    <3>1. UsedTo(tables[CurZone], pst[CurZone])
      BY <2>1 DEF TableHolds
    <3>2. ~(n <= pst[CurZone])
      BY <1>3 DEF GroupIds
    <3> QED BY <1>3, <3>1, <3>2 DEF UsedTo
  <2>5. CurZone' = CurZone /\ Sure' = Sure
    BY <1>1 DEF CurZone, Sure
  <2> HIDE <1>5, <1>6, <1>7
  <2> QED BY <1>1, <1>4, <2>3, <2>4, <2>5, FirstHalf DEF GroupWritten
<1> QED BY <1>6, <1>7, <1>8

\* An erased table block, and the group 1 that is to be written there.
LEMMA HoldErased ==
    ASSUME CtlInv, HoldInv, ~lost.failed, job.pc \in Saving, VersHold', SlotsSame(slots', slots), UNCHANGED <<logs, pslots, cur, pst>>,
           lost'.flags = lost.flags, \A z \in Zones \ {CurZone} : ver'[z] = ver[z] /\ (z \in lost'.sums <=> z \in lost.sums),
           NEW a \in BOOLEAN, tables' = [tables EXCEPT ![CurZone] = NewTable(a)],
           job'.pc = "table1", job'.g = 1, CurZone \notin lost'.sums => job'.sum = slots'[cur].ver
    PROVE  HoldInv'
<1>1. PagesHold /\ EntriesHold /\ VersionsHold /\ cur \in SlotIds /\ CurZone \in Zones /\ tables \in [Zones -> Table]
  BY AtTable DEF HoldInv, CtlInv, Typed
<1>2. Sure' = Sure /\ CurZone' = CurZone
  BY <1>1 DEF Sure, CurZone, SlotsSame
<1>3. PagesHold' /\ EntriesHold'
  BY <1>1, <1>2 DEF PagesHold, EntriesHold
<1>4. /\ \A z \in Zones \ {CurZone} : tables'[z] = tables[z]
      /\ \A g \in GroupIds : tables'[CurZone].groups[g] = NewGroup
  BY <1>1, NewTableOK
<1>5. VersionsHold'
  <2>1. NewGroup.half1 \in Versions
    BY DEF NewGroup, Versions
  <2>2. ASSUME NEW z \in Zones, NEW g \in GroupIds
        PROVE  tables'[z].groups[g].half1 \in Versions
    <3>1. CASE z = CurZone
      BY <1>4, <2>1, <3>1
    <3>2. CASE z # CurZone
      BY <1>1, <1>4, <3>2 DEF VersionsHold
    <3> QED BY <3>1, <3>2
  <2> QED BY <2>2 DEF VersionsHold
<1>6. TablesHold'
  BY <1>4, OthersHold DEF TablePages
<1>7. GroupWritten'
  <2>1. UsedTo(tables'[CurZone], 0)
    BY <1>4 DEF UsedTo, GroupIds
  <2>2. tables'[CurZone].groups[1] = NewGroup
    BY <1>4, Constants
  <2> HIDE <1>4, <1>5, <1>6
  <2> QED BY <1>2, <2>1, <2>2, FirstHalf DEF GroupWritten
<1> QED BY <1>3, <1>5, <1>6, <1>7 DEF HoldInv

LEMMA HoldEraseGroups == ASSUME CtlInv, HoldInv, EraseGroups PROVE HoldInv'
<1>1. job.pc = "save" /\ UNCHANGED <<logs, cur, pst>>
  BY DEF EraseGroups
<1>2. cur \in SlotIds /\ CurZone \in Zones /\ job \in Jobs /\ slots[cur].ver \in Int /\ slots[cur].ver + 1 \in Int /\ 1 \in GroupIds
  BY <1>1, AtTable, Constants DEF CtlInv, Typed, Saving, Slots
<1>3. CASE lost'.failed
  BY <1>3, HoldFailed
<1>4. CASE /\ tables' = [tables EXCEPT ![CurZone] = NewTable(@.area)]
           /\ StartGroup(1, slots[cur].ver)
           /\ UNCHANGED <<ver, spare, slots, pslots, count, lost>> /\ ~lost.failed
  <2>1. job'.pc = "table1" /\ job'.g = 1 /\ job'.sum = slots[cur].ver
    <3>1. job' = AtGroup(1, slots[cur].ver)
      BY <1>4 DEF StartGroup, AtGroup
    <3> QED BY <1>2, <3>1, AtGroupOK
  <2>2. PICK a \in BOOLEAN : tables' = [tables EXCEPT ![CurZone] = NewTable(a)]
    <3>1. tables[CurZone].area \in BOOLEAN
      BY <1>2 DEF CtlInv, Typed, Table
    <3> QED BY <1>4, <3>1
  <2>3. VersHold'
    BY <1>4 DEF HoldInv, VersHold, Sure
  <2> QED BY <1>1, <1>4, <2>1, <2>2, <2>3, HoldErased DEF Saving, SlotsSame
<1>5. CASE /\ \E area \in BOOLEAN : tables' = [tables EXCEPT ![CurZone] = NewTable(area)]
           /\ StartGroup(1, slots[cur].ver + 1)
           /\ slots' = Changed(slots) /\ Changes
           /\ UNCHANGED <<pslots, lost>> /\ ~lost.failed
  <2>1. job'.pc = "table1" /\ job'.g = 1 /\ job'.sum = slots[cur].ver + 1
    <3>1. job' = AtGroup(1, slots[cur].ver + 1)
      BY <1>5 DEF StartGroup, AtGroup
    <3> QED BY <1>2, <3>1, AtGroupOK
  <2>2. PICK a \in BOOLEAN : tables' = [tables EXCEPT ![CurZone] = NewTable(a)]
    BY <1>5
  <2>3. VersHold' /\ SlotsSame(slots', slots) /\ slots'[cur].ver = slots[cur].ver + 1 /\ \A z \in Zones \ {CurZone} : ver'[z] = ver[z]
    BY <1>1, <1>5, VersChanged DEF Saving
  <2> QED BY <1>1, <1>5, <2>1, <2>2, <2>3, HoldErased DEF Saving
<1>6. Fail(job.why) => lost'.failed
  BY FailOK DEF CtlInv
<1>7. \/ /\ tables' = [tables EXCEPT ![CurZone] = NewTable(@.area)]
         /\ StartGroup(1, slots[cur].ver)
         /\ UNCHANGED <<ver, spare, slots, pslots, count, lost>>
      \/ /\ \E area \in BOOLEAN : tables' = [tables EXCEPT ![CurZone] = NewTable(area)]
         /\ StartGroup(1, slots[cur].ver + 1)
         /\ slots' = Changed(slots) /\ Changes
         /\ UNCHANGED <<pslots, lost>>
      \/ Fail(job.why)
  BY Zenon DEF EraseGroups
<1> QED BY <1>3, <1>4, <1>5, <1>6, <1>7

LEMMA HoldProgramFails == ASSUME CtlInv, HoldInv, ProgramFails PROVE HoldInv'
<1>1. job.pc \in TablePages /\ UNCHANGED <<logs, cur, pst>>
  BY DEF ProgramFails
<1>2. CurZone \in Zones /\ job \in Jobs /\ 1 \in 0 .. GROUPS /\ lost \in Losses
  BY <1>1, AtTable, Constants DEF CtlInv, Typed, Saving
<1>3. CASE lost'.failed
  BY <1>3, HoldFailed
<1>4. CASE /\ \E area \in BOOLEAN : tables' = [tables EXCEPT ![CurZone] = NewTable(area)]
           /\ slots' = Changed(slots) /\ Changes
           /\ job' = [job EXCEPT !.pc = "table1", !.g = 1]
           /\ lost' = [lost EXCEPT !.sums = @ \union {CurZone}]
           /\ UNCHANGED pslots /\ ~lost'.failed
  <2>1. job'.pc = "table1" /\ job'.g = 1
    BY <1>2, <1>4 DEF Jobs, PcNames
  <2>2. lost'.sums = lost.sums \union {CurZone} /\ lost'.flags = lost.flags /\ ~lost.failed
    BY <1>2, <1>4 DEF Losses
  <2>3. PICK a \in BOOLEAN : tables' = [tables EXCEPT ![CurZone] = NewTable(a)]
    BY <1>4
  <2>4. VersHold' /\ SlotsSame(slots', slots) /\ \A z \in Zones \ {CurZone} : ver'[z] = ver[z]
    BY <1>1, <1>4, <2>2, VersChanged DEF Saving
  <2> QED BY <1>1, <1>4, <2>1, <2>2, <2>3, <2>4, HoldErased DEF Saving
<1>5. Fail(job.why) => lost'.failed
  BY FailOK DEF CtlInv
<1>6. \/ /\ \E area \in BOOLEAN : tables' = [tables EXCEPT ![CurZone] = NewTable(area)]
         /\ slots' = Changed(slots) /\ Changes
         /\ job' = [job EXCEPT !.pc = "table1", !.g = 1]
         /\ lost' = [lost EXCEPT !.sums = @ \union {CurZone}]
         /\ UNCHANGED pslots
      \/ Fail(job.why)
  BY Zenon DEF ProgramFails
<1> QED BY <1>3, <1>4, <1>5, <1>6

\* A page of the group is programmed: what it holds then.
LEMMA GroupProgrammed ==
    ASSUME CtlInv, HoldInv, ~lost.failed, job.pc \in TablePages, NEW v \in Nat, v = slots[cur].ver
    PROVE  \E x \in Group :
               /\ Programmed(v) = PutGroup(CurZone, job.g, x)
               /\ x = IF job.pc = "table1" THEN Halfway("table2", v, job.sum)
                      ELSE IF job.pc = "table2" THEN Halfway("table3", v, job.sum)
                      ELSE [half1 |-> v, half2 |-> v, sum |-> job.sum, log |-> v, flag |-> FALSE]
<1>1. v \in Int /\ v # Torn
  BY DEF Torn
<1>2. PICK x \in Group : /\ Programmed(v) = PutGroup(CurZone, job.g, x)
                         /\ \/ job.pc = "table1" /\ x = [Target EXCEPT !.half1 = v]
                            \/ /\ job.pc = "table2"
                               /\ x = [Target EXCEPT !.half2 = v, !.sum = IF v = Torn THEN Torn ELSE job.sum]
                            \/ job.pc = "table3" /\ x = [Target EXCEPT !.log = v]
  <2> HIDE <1>1
  <2>1. PICK w \in Int : w = v
    BY <1>1
  <2>2. \E x \in Group : /\ Programmed(w) = PutGroup(CurZone, job.g, x)
                         /\ \/ job.pc = "table1" /\ x = [Target EXCEPT !.half1 = w]
                            \/ /\ job.pc = "table2"
                               /\ x = [Target EXCEPT !.half2 = w, !.sum = IF w = Torn THEN Torn ELSE job.sum]
                            \/ job.pc = "table3" /\ x = [Target EXCEPT !.log = w]
    BY ProgrammedOK, Zenon
  <2> QED BY <2>1, <2>2
<1>3. Target = Halfway(job.pc, v, job.sum)
  BY DEF HoldInv, GroupWritten, Target, TablePages
<1>4. CASE job.pc = "table1"
  <2>1. x = [Halfway("table1", v, job.sum) EXCEPT !.half1 = v]
    BY <1>2, <1>3, <1>4
  <2>2. x = Halfway("table2", v, job.sum)
    BY <2>1 DEF Halfway
  <2> QED BY <1>2, <1>4, <2>2
<1>5. CASE job.pc = "table2"
  <2>1. x = [Halfway("table2", v, job.sum) EXCEPT !.half2 = v, !.sum = job.sum]
    BY <1>1, <1>2, <1>3, <1>5
  <2>2. x = Halfway("table3", v, job.sum)
    BY <2>1 DEF Halfway
  <2> QED BY <1>2, <1>5, <2>2
<1>6. CASE job.pc = "table3"
  <2>1. x = [Halfway("table3", v, job.sum) EXCEPT !.log = v]
    BY <1>2, <1>3, <1>6
  <2>2. x = [half1 |-> v, half2 |-> v, sum |-> job.sum, log |-> v, flag |-> FALSE]
    BY <2>1 DEF Halfway
  <2> QED BY <1>2, <1>6, <2>2
<1> QED BY <1>4, <1>5, <1>6 DEF TablePages

\* The table block of the zone with one more page programmed.
LEMMA TableProgrammed ==
    ASSUME CtlInv, HoldInv, ~lost.failed, job.pc \in TablePages, NEW x \in Group, x.half1 \in Versions \ {Blank},
           tables' = PutGroup(CurZone, job.g, x)
    PROVE  /\ \A z \in Zones \ {CurZone} : tables'[z] = tables[z]
           /\ tables'[CurZone].groups[job.g] = x
           /\ \A g \in GroupIds \ {job.g} : tables'[CurZone].groups[g] = tables[CurZone].groups[g]
           /\ UsedTo(tables'[CurZone], job.g) /\ VersionsHold'
<1>1. CurZone \in Zones /\ job.g \in GroupIds /\ tables \in [Zones -> Table]
  BY AtTable DEF CtlInv, Typed, Saving
<1>2. /\ \A z \in Zones \ {CurZone} : tables'[z] = tables[z]
      /\ tables'[CurZone].groups[job.g] = x
      /\ \A g \in GroupIds \ {job.g} : tables'[CurZone].groups[g] = tables[CurZone].groups[g]
  <2>1. PICK n \in GroupIds : n = job.g
    BY <1>1
  <2>2. PICK c \in Zones : c = CurZone
    BY <1>1
  <2>3. /\ \A z \in Zones \ {c} : PutGroup(c, n, x)[z] = tables[z]
        /\ PutGroup(c, n, x)[c].groups[n] = x
        /\ \A g \in GroupIds \ {n} : PutGroup(c, n, x)[c].groups[g] = tables[c].groups[g]
    BY <1>1, PutGroupOK
  <2> QED BY <2>1, <2>2, <2>3
<1>3. x.half1 # Blank /\ x.half1 \in Versions
  OBVIOUS
<1>4. UsedTo(tables'[CurZone], job.g)
  <2>1. UsedTo(tables[CurZone], job.g - 1) \/ UsedTo(tables[CurZone], job.g)
    BY DEF HoldInv, GroupWritten, TablePages
  <2>2. \A g \in GroupIds \ {job.g} : /\ (g <= job.g <=> g <= job.g - 1)
    BY <1>1 DEF GroupIds
  <2>3. ASSUME NEW g \in GroupIds
        PROVE  IF g <= job.g THEN tables'[CurZone].groups[g].half1 # Blank ELSE tables'[CurZone].groups[g] = NewGroup
    <3>1. CASE g = job.g
      <4>1. g <= job.g
        BY <3>1 DEF GroupIds
      <4> QED BY <1>2, <1>3, <3>1, <4>1
    <3>2. CASE g # job.g
      BY <1>2, <2>1, <2>2, <3>2 DEF UsedTo
    <3> QED BY <3>1, <3>2
  <2> QED BY <2>3 DEF UsedTo
<1>5. VersionsHold'
  <2>1. VersionsHold
    BY DEF HoldInv
  <2>2. ASSUME NEW z \in Zones, NEW g \in GroupIds
        PROVE  tables'[z].groups[g].half1 \in Versions
    <3>1. CASE z = CurZone /\ g = job.g
      BY <1>2, <1>3, <3>1
    <3>2. CASE ~(z = CurZone /\ g = job.g)
      <4>1. tables'[z].groups[g] = tables[z].groups[g]
        BY <1>2, <3>2
      <4> QED BY <2>1, <4>1 DEF VersionsHold
    <3> QED BY <3>1, <3>2
  <2> QED BY <2>2 DEF VersionsHold
<1> QED BY <1>2, <1>4, <1>5

LEMMA HoldProgramTable == ASSUME CtlInv, HoldInv, ProgramTable PROVE HoldInv'
<1>1. /\ job.pc \in {"table1", "table2"} /\ tables' = Programmed(slots[cur].ver) /\ Goto(AfterProgram[job.pc])
      /\ UNCHANGED <<ver, logs, slots, pslots, cur, pst, lost>>
  BY DEF ProgramTable
<1>2. job'.pc = (IF job.pc = "table1" THEN "table2" ELSE "table3") /\ job'.g = job.g /\ job'.sum = job.sum
  <2>1. AfterProgram[job.pc] = IF job.pc = "table1" THEN "table2" ELSE "table3"
    BY <1>1 DEF AfterProgram
  <2>2. AfterProgram[job.pc] \in PcNames
    BY <1>1, <2>1 DEF PcNames
  <2> QED BY <1>1, <2>1, <2>2, GotoOK DEF CtlInv, Typed
<1>3. cur \in SlotIds /\ CurZone \in Zones /\ slots[cur].zone = CurZone /\ pst[CurZone] \in GroupIds /\ job.g \in GroupIds
  BY <1>1, AtTable DEF Saving, TablePages
<1> SUFFICES ASSUME ~lost.failed
             PROVE  VersHold' /\ PagesHold' /\ EntriesHold' /\ VersionsHold' /\ TablesHold' /\ GroupWritten'
  BY <1>1, <1>2 DEF HoldInv
<1>4. VersHold /\ PagesHold /\ EntriesHold /\ GroupWritten
  BY <1>1 DEF HoldInv
<1>5. VersHold' /\ PagesHold' /\ EntriesHold'
  BY <1>1, <1>4 DEF VersHold, PagesHold, EntriesHold, Sure
<1>6. PICK v \in Nat : v = slots[cur].ver
  BY <1>3, <1>4 DEF VersHold
<1>7. PICK x \in Group : /\ tables' = PutGroup(CurZone, job.g, x)
                         /\ x = Halfway(job'.pc, v, job.sum) /\ x.half1 = v
  <2>1. \E x \in Group :
               /\ Programmed(v) = PutGroup(CurZone, job.g, x)
               /\ x = IF job.pc = "table1" THEN Halfway("table2", v, job.sum)
                      ELSE IF job.pc = "table2" THEN Halfway("table3", v, job.sum)
                      ELSE [half1 |-> v, half2 |-> v, sum |-> job.sum, log |-> v, flag |-> FALSE]
    BY <1>1, <1>6, GroupProgrammed DEF TablePages
  <2>2. Halfway("table2", v, job.sum).half1 = v /\ Halfway("table3", v, job.sum).half1 = v
    BY DEF Halfway
  <2> QED BY <1>1, <1>2, <1>6, <2>1, <2>2
<1>8. /\ \A z \in Zones \ {CurZone} : tables'[z] = tables[z]
      /\ tables'[CurZone].groups[job.g] = x
      /\ \A g \in GroupIds \ {job.g} : tables'[CurZone].groups[g] = tables[CurZone].groups[g]
      /\ UsedTo(tables'[CurZone], job.g) /\ VersionsHold'
  <2>1. x.half1 \in Versions \ {Blank}
    BY <1>6, <1>7 DEF Blank, Versions
  <2> QED BY <1>1, <1>7, <2>1, TableProgrammed DEF TablePages
<1>9. TablesHold'
  BY <1>1, <1>2, <1>8, OthersHold DEF Saving, TablePages, SlotsSame
<1>10. GroupWritten'
  <2>1. job.g > 1 => job.g = pst[CurZone] + 1 /\ (CurZone \in Sure => tables'[CurZone].groups[job.g - 1].flag)
    <3> SUFFICES ASSUME job.g > 1
                 PROVE  job.g = pst[CurZone] + 1 /\ (CurZone \in Sure => tables'[CurZone].groups[job.g - 1].flag)
      OBVIOUS
    <3>1. job.g - 1 \in GroupIds \ {job.g}
      BY <1>3, Constants DEF GroupIds
    <3> QED BY <1>1, <1>4, <1>8, <3>1 DEF GroupWritten, TablePages
  <2>2. CurZone \notin lost.sums => job.sum = v
    BY <1>1, <1>4, <1>6 DEF GroupWritten, TablePages
  <2>3. CurZone' = CurZone /\ Sure' = Sure /\ job'.pc # "table1"
    BY <1>1, <1>2 DEF CurZone, Sure
  <2> HIDE <1>4, <1>5, <1>9
  <2> QED BY <1>1, <1>2, <1>6, <1>7, <1>8, <2>1, <2>2, <2>3 DEF GroupWritten
<1> QED BY <1>5, <1>8, <1>9, <1>10

LEMMA HoldFinishTable == ASSUME CtlInv, HoldInv, FinishTable PROVE HoldInv'
<1>1. /\ job.pc = "table3" /\ tables' = Programmed(slots[cur].ver) /\ pst' = [pst EXCEPT ![CurZone] = job.g]
      /\ job' = [job EXCEPT !.pc = IF job.why = "close" THEN "close" ELSE "load", !.g = 0]
      /\ slots' = IF job.why = "close" THEN [slots EXCEPT ![cur].dirty = FALSE] ELSE slots
      /\ UNCHANGED <<ver, logs, pslots, cur, lost>>
  BY DEF FinishTable
<1>2. /\ cur \in SlotIds /\ CurZone \in Zones /\ slots[cur].zone = CurZone /\ pst \in [Zones -> GroupIds]
      /\ job.why \in {"zone", "close"} /\ job.g \in GroupIds
  BY <1>1, AtTable DEF Saving, TablePages
<1>3. job'.pc = IF job.why = "close" THEN "close" ELSE "load"
  <2> DEFINE p == IF job.why = "close" THEN "close" ELSE "load"
             j == [job EXCEPT !.pc = p]
  <2>1. job' = [j EXCEPT !.g = 0]
    BY <1>1
  <2>2. j \in Jobs /\ j.pc = p
    <3>1. p \in PcNames
      BY DEF PcNames
    <3> HIDE DEF p
    <3> QED BY <3>1 DEF CtlInv, Typed, Jobs
  <2> HIDE DEF j, p
  <2> QED BY <2>1, <2>2 DEF Jobs, p
<1>4. /\ \A i \in SlotIds : slots'[i].zone = slots[i].zone /\ slots'[i].ver = slots[i].ver
      /\ \A i \in SlotIds \ {cur} : slots'[i].dirty = slots[i].dirty
      /\ job.why = "close" => slots'[cur].dirty = FALSE
  BY <1>1, <1>2 DEF CtlInv, Typed, Slots
<1> SUFFICES ASSUME ~lost.failed
             PROVE  VersHold' /\ PagesHold' /\ EntriesHold' /\ VersionsHold' /\ TablesHold' /\ GroupWritten'
  BY <1>1, <1>3 DEF HoldInv
<1>5. VersHold /\ PagesHold /\ EntriesHold /\ TablesHold /\ GroupWritten
  BY <1>1 DEF HoldInv
<1>6. VersHold' /\ PagesHold' /\ EntriesHold' /\ GroupWritten'
  BY <1>1, <1>3, <1>4, <1>5 DEF VersHold, PagesHold, EntriesHold, GroupWritten, Sure, TablePages
<1>7. PICK v \in Nat : v = slots[cur].ver /\ (CurZone \in Sure => v = ver[CurZone])
  BY <1>2, <1>5 DEF VersHold
<1> DEFINE y == [half1 |-> v, half2 |-> v, sum |-> job.sum, log |-> v, flag |-> FALSE]
<1>8. PICK x \in Group : tables' = PutGroup(CurZone, job.g, x) /\ x = y
  <2>1. \E x \in Group :
               /\ Programmed(v) = PutGroup(CurZone, job.g, x)
               /\ x = IF job.pc = "table1" THEN Halfway("table2", v, job.sum)
                      ELSE IF job.pc = "table2" THEN Halfway("table3", v, job.sum)
                      ELSE [half1 |-> v, half2 |-> v, sum |-> job.sum, log |-> v, flag |-> FALSE]
    BY <1>1, <1>7, GroupProgrammed DEF TablePages
  <2> QED BY <1>1, <1>7, <2>1
<1>9. x.half1 = v /\ x.half2 = v /\ x.sum = job.sum /\ x.log = v /\ x.flag = FALSE
  BY <1>8
<1> HIDE DEF y
<1>10. /\ \A z \in Zones \ {CurZone} : tables'[z] = tables[z]
       /\ tables'[CurZone].groups[job.g] = x
       /\ UsedTo(tables'[CurZone], job.g) /\ VersionsHold'
  <2>1. x.half1 \in Versions \ {Blank}
    BY <1>7, <1>9 DEF Blank, Versions
  <2> QED BY <1>1, <1>8, <2>1, TableProgrammed DEF TablePages
<1>11. pst'[CurZone] = job.g /\ \A z \in Zones \ {CurZone} : pst'[z] = pst[z]
  BY <1>1, <1>2
<1>12. TableHolds(CurZone)' 
  <2> SUFFICES ASSUME NEW z \in Zones, z = CurZone
               PROVE  TableHolds(z)'
    <3>1. CurZone' = CurZone
      BY <1>1, <1>2, <1>4 DEF CurZone
    <3> QED BY <1>2, <3>1
  <2>1. Settled(z)'
    <3>1. \A i \in SlotIds : slots[i].zone = z => i = cur
      BY <1>2 DEF CtlInv, SlotsNamed
    <3> QED BY <1>1, <1>2, <1>3, <1>4, <3>1 DEF Settled
  <2>2. z \notin lost.sums => Valid(x)
    <3>1. v # Blank /\ v # Torn
      BY DEF Blank, Torn
    <3>2. z \notin lost.sums => job.sum = v
      BY <1>1, <1>5, <1>7 DEF GroupWritten, TablePages
    <3> QED BY <1>9, <3>1, <3>2 DEF Valid, SumHolds, LogHolds
  <2> HIDE <1>5, <1>6
  <2> QED BY <1>1, <1>2, <1>7, <1>9, <1>10, <1>11, <2>1, <2>2 DEF TableHolds, Sure
<1>13. ASSUME NEW z \in Zones, z # CurZone
       PROVE  TableHolds(z)'
  <2>1. TableHolds(z)
    BY <1>5, <1>13 DEF TablesHold, Writing
  <2>2. Settled(z)' <=> Settled(z)
    BY <1>1, <1>2, <1>3, <1>4, <1>13 DEF Settled
  <2> QED BY <1>1, <1>10, <1>11, <1>13, <2>1, <2>2 DEF TableHolds, Sure
<1>14. TablesHold'
  <2>1. CurZone' = CurZone
    BY <1>1, <1>2, <1>4 DEF CurZone
  <2>2. ASSUME NEW z \in Zones
        PROVE  TableHolds(z)'
    <3>1. CASE z = CurZone
      BY <1>12, <2>1, <3>1
    <3>2. CASE z # CurZone
      BY <1>13, <3>2
    <3> QED BY <3>1, <3>2
  <2> QED BY <2>2 DEF TablesHold
<1> QED BY <1>6, <1>10, <1>14

LEMMA HoldLoadFails == ASSUME CtlInv, HoldInv, LoadFails \/ PageLoadFails PROVE HoldInv'
<1>1. CASE LoadFails
  <2>1. Fail("zone")
    BY <1>1 DEF LoadFails
  <2> QED BY <2>1, FailOK, HoldFailed DEF CtlInv
<1>2. CASE PageLoadFails
  <2>1. lost'.failed
    BY <1>2 DEF PageLoadFails, CtlInv, Typed, Losses
  <2> QED BY <2>1, HoldFailed
<1> QED BY <1>1, <1>2

-----------------------------------------------------------------------------
(* What is held: power cut, exit and start.                                 *)

\* Valid tables on flash are those of the blocks.
TrueAt(z, n) ==
    /\ UsedTo(tables[z], n)
    /\ z \in Sure /\ n > 0 /\ Valid(tables[z].groups[n]) => tables[z].groups[n].half1 = ver[z]

\* Before the pages of a group are all there its checksums do not hold; the group before
\* it has the dirty flag.
LEMMA TrueWhileRunning ==
    ASSUME CtlInv, HoldInv, ~lost.failed, job.pc # "off", NEW z \in Zones
    PROVE  \E n \in 0 .. GROUPS : TrueAt(z, n)
<1>1. TablesHold /\ GroupWritten
  BY DEF HoldInv
<1>2. GroupIds \subseteq 0 .. GROUPS /\ 0 \in 0 .. GROUPS /\ \A n \in GroupIds : n - 1 \in 0 .. GROUPS
  BY Constants DEF GroupIds
<1>3. CASE ~Writing(z)
  <2>1. TableHolds(z)
    BY <1>1, <1>3 DEF TablesHold
  <2>2. TrueAt(z, pst[z])
    BY <2>1 DEF TableHolds, TrueAt, Valid
  <2> QED BY <1>2, <2>1, <2>2 DEF TableHolds
<1>4. CASE Writing(z)
  <2>1. job.pc \in TablePages /\ CurZone = z /\ job.g \in GroupIds
    BY <1>4, AtTable DEF Writing, Saving
  <2>2. PICK n \in 0 .. GROUPS : n = IF job.pc = "table1" THEN job.g - 1 ELSE job.g
    BY <1>2, <2>1
  <2>3. UsedTo(tables[z], n)
    BY <1>1, <2>1, <2>2 DEF GroupWritten
  <2>4. z \in Sure /\ n > 0 => ~Valid(tables[z].groups[n])
    <3>1. CASE job.pc = "table1"
      <4>1. n > 0 => job.g > 1
        BY <2>1, <2>2, <3>1 DEF GroupIds
      <4> QED BY <1>1, <2>1, <2>2, <3>1, <4>1 DEF GroupWritten, Valid
    <3>2. CASE job.pc # "table1"
      <4>1. tables[z].groups[n].log = Blank
        BY <1>1, <2>1, <2>2, <3>2 DEF GroupWritten, Halfway
      <4> QED BY <4>1 DEF Valid, LogHolds
    <3> QED BY <3>1, <3>2
  <2> QED BY <2>3, <2>4 DEF TrueAt
<1> QED BY <1>3, <1>4

\* A page of the group is torn.
LEMMA TrueWhenTorn ==
    ASSUME CtlInv, HoldInv, ~lost.failed, job.pc \in TablePages, NEW z \in Zones, tables' = Programmed(Torn), ver' = ver, Sure' = Sure
    PROVE  VersionsHold' /\ \E n \in 0 .. GROUPS : TrueAt(z, n)'
<1>1. PICK x \in Group : /\ tables' = PutGroup(CurZone, job.g, x)
                         /\ \/ job.pc = "table1" /\ x = [Target EXCEPT !.half1 = Torn]
                            \/ job.pc = "table2" /\ x = [Target EXCEPT !.half2 = Torn, !.sum = Torn]
                            \/ job.pc = "table3" /\ x = [Target EXCEPT !.log = Torn]
  <2>1. PICK w \in Int : w = Torn
    BY DEF Torn
  <2>2. \E x \in Group : /\ Programmed(w) = PutGroup(CurZone, job.g, x)
                         /\ \/ job.pc = "table1" /\ x = [Target EXCEPT !.half1 = w]
                            \/ /\ job.pc = "table2"
                               /\ x = [Target EXCEPT !.half2 = w, !.sum = IF w = Torn THEN Torn ELSE job.sum]
                            \/ job.pc = "table3" /\ x = [Target EXCEPT !.log = w]
    BY ProgrammedOK, Zenon
  <2> QED BY <2>1, <2>2
<1>2. /\ CurZone \in Zones /\ job.g \in GroupIds /\ tables \in [Zones -> Table] /\ cur \in SlotIds /\ slots[cur].zone = CurZone
      /\ Target \in Group
  <2>1. CurZone \in Zones /\ job.g \in GroupIds /\ tables \in [Zones -> Table] /\ cur \in SlotIds /\ slots[cur].zone = CurZone
    BY AtTable DEF CtlInv, Typed, Saving
  <2>2. tables[CurZone] \in Table
    BY <2>1
  <2> QED BY <2>1, <2>2 DEF Table, Target
<1>3. x.half1 \in Versions \ {Blank} /\ ~Valid(x)
  <2>1. VersHold /\ GroupWritten
    BY DEF HoldInv, TablePages
  <2>2. PICK v \in Nat : v = slots[cur].ver
    BY <1>2, <2>1 DEF VersHold
  <2>3. Target = Halfway(job.pc, v, job.sum)
    BY <2>1, <2>2 DEF GroupWritten, Target
  <2>4. v # Blank /\ v # Torn /\ Torn # Blank
    BY DEF Blank, Torn
  <2>5. CASE job.pc = "table1" /\ x = [Target EXCEPT !.half1 = Torn]
    <3>1. x.half1 = Torn
      BY <1>2, <2>5 DEF Group
    <3> QED BY <2>4, <3>1 DEF Versions, Valid, SumHolds
  <2>6. CASE job.pc = "table2" /\ x = [Target EXCEPT !.half2 = Torn, !.sum = Torn]
    <3>1. x.half1 = Target.half1 /\ x.half2 = Torn
      BY <1>2, <2>6 DEF Group
    <3>2. x.half1 = v
      BY <2>3, <2>6, <3>1 DEF Halfway
    <3> QED BY <2>4, <3>1, <3>2 DEF Versions, Valid, SumHolds
  <2>7. CASE job.pc = "table3" /\ x = [Target EXCEPT !.log = Torn]
    <3>1. x.half1 = Target.half1 /\ x.log = Torn
      BY <1>2, <2>7 DEF Group
    <3>2. x.half1 = v
      BY <2>3, <2>7, <3>1 DEF Halfway
    <3> QED BY <2>4, <3>1, <3>2 DEF Versions, Valid, LogHolds
  <2> QED BY <1>1, <2>5, <2>6, <2>7
<1>8. /\ \A c \in Zones \ {CurZone} : tables'[c] = tables[c]
      /\ tables'[CurZone].groups[job.g] = x
      /\ UsedTo(tables'[CurZone], job.g) /\ VersionsHold'
  BY <1>1, <1>3, TableProgrammed
<1>4. CASE z # CurZone
  <2>1. PICK n \in 0 .. GROUPS : TrueAt(z, n)
    BY TrueWhileRunning DEF TablePages
  <2>2. tables'[z] = tables[z] /\ ver' = ver /\ Sure' = Sure
    BY <1>4, <1>8
  <2> QED BY <1>8, <2>1, <2>2 DEF TrueAt
<1>5. CASE z = CurZone
  <2>1. PICK n \in 0 .. GROUPS : n = job.g
    BY <1>2 DEF GroupIds
  <2> HIDE <1>1
  <2> QED BY <1>3, <1>5, <1>8, <2>1 DEF TrueAt
<1> QED BY <1>4, <1>5, <1>8

LEMMA HoldPowerCut == ASSUME CtlInv, HoldInv, PowerCut PROVE HoldInv'
<1>1. /\ job.pc # "off" /\ NoTables("off") /\ lost' = [lost EXCEPT !.closed = FALSE] /\ UNCHANGED <<ver, logs>>
      /\ UNCHANGED tables \/ (job.pc \in TablePages /\ tables' = Programmed(Torn))
  BY DEF PowerCut
<1>2. job'.pc = "off" /\ slots' = NoSlots /\ pslots' = NoPageSlots
  BY <1>1 DEF NoTables, Idle
<1>3. lost'.flags = lost.flags /\ lost'.failed = lost.failed /\ lost'.closed = FALSE
  BY <1>1 DEF CtlInv, Typed, Losses
<1> SUFFICES ASSUME ~lost.failed
             PROVE  VersHold' /\ PagesHold' /\ EntriesHold' /\ VersionsHold' /\ TablesLeft'
  BY <1>2, <1>3 DEF HoldInv
<1>4. Sure' = Sure
  BY <1>3 DEF Sure
<1>5. VersHold' /\ PagesHold'
  BY <1>2, <1>4, EmptySlots, Constants DEF VersHold, PagesHold, Sure
<1>6. EntriesHold'
  BY <1>1, <1>4 DEF HoldInv, EntriesHold
<1>7. ASSUME NEW z \in Zones
      PROVE  \E n \in 0 .. GROUPS : TrueAt(z, n)'
  <2>1. CASE UNCHANGED tables
    <3>1. PICK n \in 0 .. GROUPS : TrueAt(z, n)
      BY <1>1, TrueWhileRunning
    <3> QED BY <1>1, <1>4, <2>1, <3>1 DEF TrueAt
  <2>2. CASE job.pc \in TablePages /\ tables' = Programmed(Torn)
    BY <1>1, <1>4, <2>2, TrueWhenTorn
  <2> QED BY <1>1, <2>1, <2>2
<1>8. TablesLeft'
  BY <1>3, <1>7 DEF TablesLeft, LeftAt, TrueAt
<1>9. VersionsHold'
  <2>1. VersionsHold
    BY DEF HoldInv
  <2>2. CASE UNCHANGED tables
    BY <2>1, <2>2 DEF VersionsHold
  <2>3. CASE job.pc \in TablePages /\ tables' = Programmed(Torn)
    <3> SUFFICES ASSUME NEW z \in Zones, NEW g \in GroupIds
                 PROVE  (tables[z].groups[g].half1)' \in Versions
      BY DEF VersionsHold
    <3>1. VersionsHold'
      BY <1>1, <1>4, <2>3, TrueWhenTorn
    <3> QED BY <3>1 DEF VersionsHold
  <2> QED BY <1>1, <2>2, <2>3
<1> QED BY <1>5, <1>6, <1>8, <1>9

LEMMA HoldExitDone == ASSUME CtlInv, HoldInv, ExitDone PROVE HoldInv'
<1>1. /\ job.pc = "leave" \/ (job.pc = "close" /\ DirtySlots = {})
      /\ NoTables("off") /\ lost' = [lost EXCEPT !.closed = job.pc = "close"] /\ UNCHANGED <<ver, logs, tables>>
  BY DEF ExitDone, flash
<1>2. job'.pc = "off" /\ slots' = NoSlots /\ pslots' = NoPageSlots
  BY <1>1 DEF NoTables, Idle
<1>3. lost'.flags = lost.flags /\ lost'.failed = lost.failed /\ lost'.sums = lost.sums /\ lost'.closed = (job.pc = "close")
  BY <1>1 DEF CtlInv, Typed, Losses
<1> SUFFICES ASSUME ~lost.failed
             PROVE  VersHold' /\ PagesHold' /\ EntriesHold' /\ VersionsHold' /\ TablesLeft'
  BY <1>2, <1>3 DEF HoldInv
<1>4. Sure' = Sure
  BY <1>3 DEF Sure
<1>5. VersHold' /\ PagesHold'
  BY <1>2, <1>4, EmptySlots, Constants DEF VersHold, PagesHold, Sure
<1>6. EntriesHold' /\ VersionsHold'
  BY <1>1, <1>4 DEF HoldInv, EntriesHold, VersionsHold
<1>7. ASSUME NEW z \in Zones
      PROVE  \E n \in 0 .. GROUPS : LeftAt(z, n)'
  <2>1. CASE job.pc = "leave"
    <3>1. PICK n \in 0 .. GROUPS : TrueAt(z, n)
      BY <2>1, TrueWhileRunning
    <3> QED BY <1>1, <1>3, <1>4, <2>1, <3>1 DEF TrueAt, LeftAt
  <2>2. CASE job.pc = "close" /\ DirtySlots = {}
    <3>1. TableHolds(z)
      BY <2>2 DEF HoldInv, TablesHold, Writing, TablePages
    <3>2. Settled(z)
      BY <2>2 DEF Settled, DirtySlots, CtlInv, Typed, Slots
    <3>3. PICK n \in 0 .. GROUPS : n = pst[z] /\ n > 0
      BY <3>1, Constants DEF TableHolds, GroupIds
    <3> QED BY <1>1, <1>3, <1>4, <3>1, <3>2, <3>3 DEF TableHolds, LeftAt
  <2> QED BY <1>1, <2>1, <2>2
<1>8. TablesLeft'
  BY <1>7 DEF TablesLeft
<1> QED BY <1>5, <1>6, <1>8

\* A group with rebuilt tables is valid.
LEMMA FreshValid == ASSUME NEW v \in Nat PROVE Fresh(v) \in Group /\ Valid(Fresh(v)) /\ Fresh(v).half1 = v /\ v # Blank
<1>1. v \in Int /\ v # Blank /\ v # Torn
  BY DEF Blank, Torn
<1>2. /\ Fresh(v) \in Group /\ Fresh(v).half1 = v /\ Fresh(v).half2 = v /\ Fresh(v).sum = v /\ Fresh(v).log = v
      /\ Fresh(v).flag = FALSE
  BY <1>1, FreshOK
<1> QED BY <1>1, <1>2 DEF Valid, SumHolds, LogHolds

\* Tables that are accepted are those of the last group.
LEMMA AcceptedAt ==
    ASSUME NEW t, NEW n \in 0 .. GROUPS, UsedTo(t, n), Used(t, 1)
    PROVE  n \in GroupIds /\ SearchBlkTblPst(t) = n
<1>1. n # 0
  <2> SUFFICES ASSUME n = 0
               PROVE  FALSE
    OBVIOUS
  <2>1. 1 \in GroupIds /\ ~(1 <= n)
    BY Constants
  <2>2. t.groups[1] = NewGroup
    BY <2>1 DEF UsedTo
  <2> QED BY <2>2 DEF Used, NewGroup
<1> QED BY <1>1, SearchLast, Constants DEF GroupIds

\* After the start the last group of every table block is that of the blocks.
StartTable(z) == IF Accepts(tables[z]) THEN tables[z] ELSE Rebuilt(z)
StartsAt(z, t, m) ==
    /\ UsedTo(t, m) /\ Valid(t.groups[m]) /\ (z \in Sure => t.groups[m].half1 = ver[z])
    /\ \A g \in GroupIds : t.groups[g].half1 \in Versions

LEMMA StartFinds ==
    ASSUME CtlInv, HoldInv, ~lost.failed, job.pc = "off", NEW z \in Zones
    PROVE  \E m \in GroupIds : StartsAt(z, StartTable(z), m)
<1>1. PICK n \in 0 .. GROUPS : LeftAt(z, n)
  BY DEF HoldInv, TablesLeft
<1>2. /\ tables \in [Zones -> Table] /\ ver \in [Zones -> Nat] /\ tables[z] \in Table /\ ver[z] \in Nat
      /\ \A g \in GroupIds : tables[z].groups[g].half1 \in Versions
  BY DEF HoldInv, VersionsHold, CtlInv, Typed
<1>3. PICK x \in Group : x = Fresh(ver[z]) /\ Valid(x) /\ x.half1 = ver[z] /\ ver[z] # Blank /\ ver[z] \in Versions
  BY <1>2, FreshValid DEF Versions
<1>4. CASE Accepts(tables[z])
  <2>1. Used(tables[z], 1) /\ Valid(tables[z].groups[SearchBlkTblPst(tables[z])])
    BY <1>4 DEF Accepts
  <2>2. n \in GroupIds /\ SearchBlkTblPst(tables[z]) = n /\ n > 0
    BY <1>1, <2>1, AcceptedAt DEF LeftAt, GroupIds
  <2> QED BY <1>1, <1>2, <1>4, <2>1, <2>2 DEF StartTable, StartsAt, LeftAt
<1>5. CASE ~Accepts(tables[z])
  <2>1. StartTable(z) = Rebuilt(z)
    BY <1>5 DEF StartTable
  <2>2. CASE /\ Rebuilt(z) = InGroup(tables[z], SearchBlkTblPst(tables[z]) + 1, x)
             /\ Used(tables[z], 1) /\ SearchBlkTblPst(tables[z]) + 1 \in GroupIds
    <3>1. n \in GroupIds /\ SearchBlkTblPst(tables[z]) = n
      BY <1>1, <2>2, AcceptedAt DEF LeftAt
    <3>2. PICK m \in GroupIds : m = n + 1
      BY <2>2, <3>1
    <3> DEFINE t == InGroup(tables[z], m, x)
    <3>3. t.groups[m] = x /\ \A g \in GroupIds \ {m} : t.groups[g] = tables[z].groups[g]
      BY <1>2, InGroupOK
    <3>4. StartTable(z) = t
      BY <2>1, <2>2, <3>1, <3>2
    <3> HIDE DEF t
    <3>5. UsedTo(t, m)
      <4>1. \A g \in GroupIds \ {m} : (g <= m <=> g <= n)
        BY <3>1, <3>2 DEF GroupIds
      <4>2. m <= m
        BY DEF GroupIds
      <4>3. \A g \in GroupIds : IF g <= m THEN t.groups[g].half1 # Blank ELSE t.groups[g] = NewGroup
        BY <1>1, <1>3, <3>3, <4>1, <4>2 DEF LeftAt, UsedTo
      <4> QED BY <4>3 DEF UsedTo
    <3>6. \A g \in GroupIds : t.groups[g].half1 \in Versions
      BY <1>2, <1>3, <3>3
    <3> QED BY <1>3, <3>3, <3>4, <3>5, <3>6 DEF StartsAt
  <2>3. CASE Rebuilt(z) = InGroup(NewTable(TRUE), 1, x)
    <3> DEFINE t == InGroup(NewTable(TRUE), 1, x)
    <3>1. NewTable(TRUE) \in Table /\ \A g \in GroupIds : NewTable(TRUE).groups[g] = NewGroup
      BY NewTableOK
    <3>2. t.groups[1] = x /\ \A g \in GroupIds \ {1} : t.groups[g] = NewTable(TRUE).groups[g]
      <4>1. 1 \in GroupIds
        BY Constants
      <4>2. PICK u \in Table : u = NewTable(TRUE)
        BY <3>1
      <4>3. InGroup(u, 1, x).groups[1] = x /\ \A g \in GroupIds \ {1} : InGroup(u, 1, x).groups[g] = u.groups[g]
        BY <4>1, InGroupOK
      <4> QED BY <4>2, <4>3
    <3>3. StartTable(z) = t
      BY <2>1, <2>3
    <3> HIDE DEF t
    <3>4. \A g \in GroupIds \ {1} : t.groups[g] = NewGroup /\ ~(g <= 1)
      <4>1. \A g \in GroupIds \ {1} : ~(g <= 1)
        BY DEF GroupIds
      <4> QED BY <3>1, <3>2, <4>1
    <3>5. UsedTo(t, 1)
      BY <1>3, <3>2, <3>4 DEF UsedTo
    <3>6. \A g \in GroupIds : t.groups[g].half1 \in Versions
      <4>1. NewGroup.half1 \in Versions
        BY DEF NewGroup, Versions
      <4> QED BY <1>3, <3>2, <3>4, <4>1
    <3> QED BY <1>3, <3>2, <3>3, <3>5, <3>6, Constants DEF StartsAt
  <2> QED BY <1>2, <1>3, <2>2, <2>3, RebuiltOK
<1> QED BY <1>4, <1>5

LEMMA HoldStart == ASSUME CtlInv, HoldInv, Start PROVE HoldInv'
<1>1. /\ job.pc = "off" /\ tables' = [z \in Zones |-> StartTable(z)] /\ pst' = [z \in Zones |-> SearchBlkTblPst(tables'[z])]
      /\ job' = Idle /\ lost' = [lost EXCEPT !.closed = FALSE, !.sums = {}]
      /\ UNCHANGED <<ver, logs, slots, pslots>>
  BY DEF Start, StartTable
<1>2. lost'.flags = lost.flags /\ lost'.failed = lost.failed
  <2>1. lost \in Losses
    BY DEF CtlInv, Typed
  <2> QED BY <1>1, <2>1 DEF Losses
<1>3. job'.pc = "idle" /\ slots = NoSlots
  BY <1>1, IdleOK DEF CtlInv, Stopped
<1> SUFFICES ASSUME ~lost.failed
             PROVE  VersHold' /\ PagesHold' /\ EntriesHold' /\ VersionsHold' /\ TablesHold' /\ GroupWritten'
  BY <1>2, <1>3 DEF HoldInv
<1>4. Sure' = Sure
  BY <1>2 DEF Sure
<1>5. VersHold' /\ PagesHold' /\ EntriesHold'
  BY <1>1, <1>4 DEF HoldInv, VersHold, PagesHold, EntriesHold
<1>6. GroupWritten'
  BY <1>3 DEF GroupWritten, TablePages
<1>7. ASSUME NEW z \in Zones
      PROVE  TableHolds(z)' /\ \A g \in GroupIds : (tables[z].groups[g].half1)' \in Versions
  <2>1. PICK m \in GroupIds : StartsAt(z, StartTable(z), m)
    BY <1>1, StartFinds
  <2>2. tables'[z] = StartTable(z)
    BY <1>1
  <2>3. pst'[z] = m
    <3>1. UsedTo(tables'[z], m) /\ m \in 0 .. GROUPS /\ m # 0
      BY <2>1, <2>2, Constants DEF StartsAt, GroupIds
    <3>2. SearchBlkTblPst(tables'[z]) = m
      <4>1. PICK t : t = tables'[z]
        OBVIOUS
      <4>2. UsedTo(t, m)
        BY <3>1, <4>1
      <4> QED BY <3>1, <4>1, <4>2, SearchLast
    <3> QED BY <1>1, <3>2
  <2>4. Settled(z)'
    BY <1>1, <1>3, EmptySlots DEF Settled
  <2> QED BY <1>1, <1>4, <2>1, <2>2, <2>3, <2>4 DEF TableHolds, StartsAt, Valid
<1>8. TablesHold' /\ VersionsHold'
  BY <1>7 DEF TablesHold, VersionsHold
<1> QED BY <1>5, <1>6, <1>8

LEMMA HoldInit == Init => HoldInv
<1> SUFFICES ASSUME Init
             PROVE  HoldInv
  OBVIOUS
<1> DEFINE x == [half1 |-> 1, half2 |-> 1, sum |-> 1, log |-> 1, flag |-> FALSE]
           t == InGroup(NewTable(TRUE), 1, x)
<1>1. /\ slots = NoSlots /\ pslots = NoPageSlots /\ job = Idle /\ pst = [z \in Zones |-> 1] /\ ver = [z \in Zones |-> 1]
      /\ logs = [z \in Zones |-> [p \in Positions |-> NoLog]]
      /\ tables = [z \in Zones |-> t]
  BY DEF Init, InGroup, Positions
<1>2. x \in Group /\ x.half1 = 1 /\ Valid(x)
  BY DEF Group, Valid, SumHolds, LogHolds, Blank, Torn
<1>3. NewTable(TRUE) \in Table /\ \A g \in GroupIds : NewTable(TRUE).groups[g] = NewGroup
  BY NewTableOK
<1> HIDE DEF x
<1>4. t.groups[1] = x /\ \A g \in GroupIds \ {1} : t.groups[g] = NewTable(TRUE).groups[g]
  <2>1. 1 \in GroupIds
    BY Constants
  <2> QED BY <1>2, <1>3, <2>1, InGroupOK
<1> HIDE DEF t
<1>5. \A g \in GroupIds \ {1} : t.groups[g] = NewGroup /\ ~(g <= 1)
  <2>1. \A g \in GroupIds \ {1} : ~(g <= 1)
    BY DEF GroupIds
  <2> QED BY <1>3, <1>4, <2>1
<1>6. UsedTo(t, 1)
  BY <1>2, <1>4, <1>5 DEF UsedTo, Blank
<1>7. VersHold /\ PagesHold
  BY <1>1, EmptySlots, Constants DEF VersHold, PagesHold, Sure
<1>8. EntriesHold
  BY <1>1 DEF EntriesHold, NoLog, Sure
<1>9. VersionsHold
  <2>1. NewGroup.half1 \in Versions /\ 1 \in Versions
    BY DEF NewGroup, Versions
  <2>2. \A g \in GroupIds : t.groups[g].half1 \in Versions
    BY <1>2, <1>4, <1>5, <2>1
  <2> QED BY <1>1, <2>2 DEF VersionsHold
<1>10. TablesHold
  <2>1. ASSUME NEW z \in Zones
        PROVE  TableHolds(z)
    <3>1. Settled(z)
      BY <1>1, EmptySlots DEF Settled
    <3>2. tables[z] = t /\ pst[z] = 1 /\ ver[z] = 1
      BY <1>1
    <3> QED BY <1>2, <1>4, <1>6, <3>1, <3>2, Constants DEF TableHolds, Valid
  <2> QED BY <2>1 DEF TablesHold
<1>11. GroupWritten
  BY <1>1, IdleOK DEF GroupWritten, TablePages
<1> QED BY <1>1, <1>7, <1>8, <1>9, <1>10, <1>11, IdleOK DEF HoldInv

LEMMA HoldStays == ASSUME HoldInv, UNCHANGED vars PROVE HoldInv'
<1>1. UNCHANGED <<ver, logs, tables, slots, pslots, cur, pst, job, lost>>
  BY DEF vars
<1>2. VersHold' <=> VersHold
  BY <1>1 DEF VersHold, Sure
<1>3. (PagesHold' <=> PagesHold) /\ (EntriesHold' <=> EntriesHold)
  BY <1>1 DEF PagesHold, EntriesHold, Sure
<1>4. VersionsHold' <=> VersionsHold
  BY <1>1 DEF VersionsHold
<1>5. (TablesLeft' <=> TablesLeft) /\ (GroupWritten' <=> GroupWritten)
  BY <1>1 DEF TablesLeft, LeftAt, GroupWritten, Sure, CurZone
<1>6. TablesHold' <=> TablesHold
  BY <1>1 DEF TablesHold, TableHolds, Settled, Writing, Sure, CurZone
<1> QED BY <1>1, <1>2, <1>3, <1>4, <1>5, <1>6 DEF HoldInv

LEMMA HoldNext == ASSUME CtlInv, HoldInv, [Next]_vars PROVE HoldInv'
<1>1. CASE \E z \in Zones, b \in Blocks, w \in BOOLEAN : Access(z, b, w)
  BY <1>1, HoldAccess
<1>2. CASE Exit \/ PowerCut \/ Start
  BY <1>2, HoldExit, HoldPowerCut, HoldStart
<1>3. CASE ZoneHit \/ ZonePost \/ LoadTable \/ LoadFails \/ Flag
  BY <1>3, HoldZoneHit, HoldZonePost, HoldLoadTable, HoldLoadFails, HoldFlagStep
<1>4. CASE FindLog \/ CreateLog \/ PickVictim \/ PageHit \/ PagePost \/ PageFlag
  BY <1>4, HoldFindLog, HoldCreateLog, HoldPickVictim, HoldPageHit, HoldPagePost, HoldPageFlag
<1>5. CASE PageWriteBack \/ PageWriteBackFails \/ PageLoad \/ PageRebuild \/ PageLoadFails
  BY <1>5, HoldPageWriteBack, HoldStoreFails, HoldPageLoad, HoldPageRebuild, HoldLoadFails
<1>6. CASE MergeVictim \/ WritePage \/ SavePage \/ SavePageFails \/ NextGroup \/ EraseGroups
  BY <1>6, HoldMergeVictim, HoldWritePage, HoldSavePage, HoldStoreFails, HoldNextGroup, HoldEraseGroups
<1>7. CASE ProgramTable \/ FinishTable \/ ProgramFails \/ WriteBackAll \/ ExitDone
  BY <1>7, HoldProgramTable, HoldFinishTable, HoldProgramFails, HoldWriteBackAll, HoldExitDone
<1>8. CASE UNCHANGED vars
  BY <1>8, HoldStays
<1> QED BY <1>1, <1>2, <1>3, <1>4, <1>5, <1>6, <1>7, <1>8 DEF Next, Steps

-----------------------------------------------------------------------------
(* The theorems.                                                            *)

\* The control of the caches and what they hold, in every state that is reached.
THEOREM MapInvariance == Spec => [](CtlInv /\ HoldInv)
<1>1. Init => CtlInv /\ HoldInv
  BY CtlInit, HoldInit
<1>2. CtlInv /\ HoldInv /\ [Next]_vars => (CtlInv /\ HoldInv)'
  BY CtlNext, HoldNext
<1> QED BY <1>1, <1>2, PTL DEF Spec

LEMMA CoherentNow == ASSUME CtlInv, HoldInv PROVE Coherent
<1>1. Typed /\ SlotsNamed
  BY DEF CtlInv
<1>2. DOMAIN slots = SlotIds /\ DOMAIN pslots = PageSlotIds
  BY <1>1 DEF Typed, Slots, PageSlots
<1>3. TypeOK
  <2>1. \A z \in Zones, p \in Positions : logs[z][p].blk \in Blocks \union {None} /\ logs[z][p].len \in 0 .. PAGES
    <3> SUFFICES ASSUME NEW z \in Zones, NEW p \in Positions
                 PROVE  logs[z][p].blk \in Blocks \union {None} /\ logs[z][p].len \in 0 .. PAGES
      OBVIOUS
    <3>1. logs[z][p] \in Log
      BY <1>1 DEF Typed
    <3> QED BY <3>1 DEF Log
  <2>2. /\ \A i \in SlotIds : slots[i].zone \in Zones \union {None} /\ slots[i].dirty \in BOOLEAN /\ slots[i].cnt \in Nat
        /\ \A i \in PageSlotIds : pslots[i].zone \in Zones \union {None} /\ pslots[i].log \in Positions \union {None}
    BY <1>1 DEF Typed, Slots, PageSlots
  <2> QED BY <1>1, <2>1, <2>2 DEF TypeOK, Typed, SlotIds, PageSlotIds, Positions
<1>4. OneCopy
  BY <1>1, <1>2 DEF OneCopy, SlotsNamed, Typed, Slots, PageSlots
<1>5. SlotsCurrent
  BY <1>2 DEF SlotsCurrent, HoldInv, VersHold, PagesHold, Sure
<1>6. MapsHaveZone
  BY <1>1, <1>2 DEF MapsHaveZone, SlotsNamed
<1>7. CurrentTables
  <2>1. job.pc \in {"idle", "flag", "log", "page", "pload", "merge", "write"} /\ ctl # None => CurZone = ctl
    BY AtHome DEF CtlInv, AccessAt, Inside
  <2>2. job.pc \in {"merge", "write"} => pslots[pcur].zone = CurZone /\ pslots[pcur].log = job.p
    BY AtHome DEF CtlInv, PageAt, Inside
  <2> QED BY <2>1, <2>2 DEF CurrentTables
<1> QED BY <1>3, <1>4, <1>5, <1>6, <1>7 DEF Coherent

\* No table is in two slots; while no access failed the slots hold what the flash holds, a
\* page map that must be written back has the block table of its zone in a slot, and the
\* tables in use are those of the zone that is accessed (BMM_SwitchMapTbl,
\* PMM_SwitchMapTbl and their write-backs): for any number of zones, slots and groups.
THEOREM SlotsCoherent == Spec => []Coherent
<1>1. CtlInv /\ HoldInv => Coherent
  BY CoherentNow
<1> QED BY <1>1, MapInvariance, PTL

LEMMA AcceptedNow == ASSUME CtlInv, HoldInv PROVE AcceptedTrue
<1> SUFFICES ASSUME ~lost.failed, NEW z \in Zones \ lost.flags, Accepts(tables[z])
             PROVE  Saved(tables[z]) = ver[z]
  BY DEF AcceptedTrue
<1>1. PICK n \in 0 .. GROUPS : TrueAt(z, n)
  <2>1. CASE job.pc = "off"
    BY <2>1 DEF HoldInv, TablesLeft, LeftAt, TrueAt
  <2>2. CASE job.pc # "off"
    BY <2>2, TrueWhileRunning
  <2> QED BY <2>1, <2>2
<1>2. Used(tables[z], 1) /\ Valid(tables[z].groups[SearchBlkTblPst(tables[z])])
  BY DEF Accepts
<1>3. n \in GroupIds /\ SearchBlkTblPst(tables[z]) = n
  BY <1>1, <1>2, AcceptedAt DEF TrueAt
<1> QED BY <1>1, <1>2, <1>3 DEF TrueAt, Saved, Sure, GroupIds

\* Whenever the power fails, whatever was being written, tables that the next start would
\* accept (_SearchZoneTbls) are those of the blocks on flash.
THEOREM AcceptedTablesTrue == Spec => []AcceptedTrue
<1>1. CtlInv /\ HoldInv => AcceptedTrue
  BY AcceptedNow
<1> QED BY <1>1, MapInvariance, PTL

LEMMA ExitNow == ASSUME CtlInv, HoldInv PROVE ExitSaves
<1> SUFFICES ASSUME job.pc = "off", lost.closed, ~lost.failed, NEW z \in Zones \ lost.sums, tables[z].area
             PROVE  Accepts(tables[z])
  BY DEF ExitSaves
<1>1. PICK n \in 0 .. GROUPS : LeftAt(z, n)
  BY DEF HoldInv, TablesLeft
<1>2. n > 0 /\ Valid(tables[z].groups[n]) /\ UsedTo(tables[z], n)
  BY <1>1 DEF LeftAt
<1>3. SearchBlkTblPst(tables[z]) = n
  BY <1>2, SearchLast
<1>4. Used(tables[z], 1)
  <2>1. 1 \in GroupIds /\ 1 <= n
    BY <1>2, Constants
  <2> QED BY <1>2, <2>1 DEF UsedTo, Used
<1> QED BY <1>2, <1>3, <1>4 DEF Accepts

\* After LML_Exit without errors the next start accepts the tables of every zone, but for
\* those that moved out of the table area or kept an old checksum.
THEOREM ExitSavesTables == Spec => []ExitSaves
<1>1. CtlInv /\ HoldInv => ExitSaves
  BY ExitNow
<1> QED BY <1>1, MapInvariance, PTL
=============================================================================
