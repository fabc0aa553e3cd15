-------------------------- MODULE LogBlockAccounts --------------------------
(***************************************************************************)
(* Proofs about LogBlock: no merge, no bad block and no power cut loses a   *)
(* block or gives it two roles, as long as the spare blocks outnumber the   *)
(* failures.                                                                *)
(***************************************************************************)
EXTENDS LogBlockProofs

\* More blocks than a load can turn bad, and three for the logical block: its data
\* block, its log block and the one a merge fills.
EnoughSpares == \A load \in Loads : load.fails + Cardinality(load.bad) + 3 <= BLOCKS

-----------------------------------------------------------------------------
(* The inductive invariant.  Inside an operation, the block a merge fills,  *)
(* the one that replaces a bad block and those that wait for their erase    *)
(* have a role of their own.                                                *)

\* The log block, the block a merge fills, the new block of LML_BadBlkManage and the
\* blocks to be erased, where control stands.
Log == IF Mode \in {"swap", "erase"} THEN None ELSE logBlk
Work == IF Mode \in Merges \/ (Mode = "erase" /\ job.kind = "move") THEN job.blk ELSE None
Spare == IF pc = "restore" THEN bm.new ELSE None
Old == IF pc = "erase" THEN {job.toErase[i] : i \in 1 .. Len(job.toErase)} ELSE {}

\* The blocks F are free, B are bad, and d, l, w, s (or None) and O have the other roles.
Roles(d, l, w, s, O) == ({d, l, w, s} \ {None}) \union O
Split(F, B, d, l, w, s, O) ==
    /\ Phys \subseteq F \union B \union Roles(d, l, w, s, O)
    /\ F \intersect B = {} /\ Roles(d, l, w, s, O) \intersect (F \union B) = {}
    /\ d \notin {l, w, s}
    /\ l = None \/ l \notin {w, s}
    /\ w = None \/ w # s
    /\ {d, l, w, s} \intersect O = {}
Accounted ==
    /\ Split(free, bad, dataBlk, Log, Work, Spare, Old)
    /\ pc = "erase" => \A i, j \in 1 .. Len(job.toErase) : i # j => job.toErase[i] # job.toErase[j]

\* The block that is being replaced, where control goes on at `ret` after that.
VictimAt(ret) == CASE ret = "datainfo" -> dataBlk
                   [] ret \in {"loginfo", "program", "idle", "table"} -> logBlk
                   [] OTHER -> job.blk
Victim == VictimAt(bm.ret)

\* What the scan has settled on, among the blocks it has seen.
ScanFound ==
    /\ dataBlk = None => logBlk = None
    /\ dataBlk # None => dataBlk # logBlk
    /\ \A b \in {dataBlk, logBlk} \ {None} : b < job.p /\ b \notin bad /\ flash[b][0].info
    /\ \A b \in Phys : b < job.p /\ b \notin bad /\ flash[b][0].info => b \in {dataBlk, logBlk}

\* The tables on the flash name the same blocks as those in RAM.
CleanQuiet ==
    /\ clean => pc \in {"idle", "off"} /\ ~mapDirty /\ \A f \in flight : ~f.user
    /\ pc \in {"off", "scan"} => flight = {}

\* A failed program costs one block.
Budget ==
    /\ count.fails <= count.load.fails
    /\ Cardinality(bad) + (IF pc = "restore" THEN 1 ELSE 0) <= Cardinality(count.load.bad) + count.fails

AccInv ==
    /\ pc \notin {"off", "scan"} \/ clean => Accounted
    /\ CleanQuiet
    /\ pc = "restore" => bm.bad = Victim
    /\ pc = "scan" => ScanFound
    /\ pc # "fail"
    /\ Budget

-----------------------------------------------------------------------------
(* Counting.                                                                *)

LEMMA OneMore ==
    ASSUME NEW S, IsFiniteSet(S), NEW x
    PROVE  IsFiniteSet(S \union {x}) /\ Cardinality(S \union {x}) <= Cardinality(S) + 1
           /\ Cardinality(S) \in Nat /\ Cardinality(S \union {x}) \in Nat
<1>1. Cardinality(S) \in Nat
  BY FS_CardinalityType
<1>2. CASE x \in S
  <2>1. S \union {x} = S
    BY <1>2
  <2>2. Cardinality(S) <= Cardinality(S) + 1
    BY <1>1
  <2> QED BY <1>1, <2>1, <2>2
<1>3. CASE x \notin S
  <2>1. IsFiniteSet(S \union {x}) /\ Cardinality(S \union {x}) = Cardinality(S) + 1
    BY <1>3, FS_AddElement
  <2> QED BY <1>1, <2>1
<1> QED BY <1>2, <1>3

\* Four more elements at most.
LEMMA FourMore ==
    ASSUME NEW B, IsFiniteSet(B), NEW d, NEW l, NEW w, NEW s,
           NEW P, P \subseteq B \union ({d, l, w, s} \ {None})
    PROVE  /\ Cardinality(P) <= Cardinality(B) + 4
           /\ s = None => Cardinality(P) <= Cardinality(B) + 3
           /\ s = None /\ w = None => Cardinality(P) <= Cardinality(B) + 2
<1> DEFINE B2 == (B \union {d}) \union {l}
           B3 == B2 \union {w}
           B4 == B3 \union {s}
<1>1. IsFiniteSet(B \union {d}) /\ Cardinality(B \union {d}) <= Cardinality(B) + 1 /\ Cardinality(B) \in Nat
      /\ Cardinality(B \union {d}) \in Nat
  BY OneMore
<1>2. IsFiniteSet(B2) /\ Cardinality(B2) <= Cardinality(B \union {d}) + 1 /\ Cardinality(B2) \in Nat
  BY <1>1, OneMore
<1>3. P \subseteq B4 /\ (s = None => P \subseteq B3) /\ (s = None /\ w = None => P \subseteq B2)
  OBVIOUS
<1> HIDE DEF B2
<1>4. IsFiniteSet(B3) /\ Cardinality(B3) <= Cardinality(B2) + 1 /\ Cardinality(B3) \in Nat
  BY <1>2, OneMore
<1> HIDE DEF B3
<1>5. IsFiniteSet(B4) /\ Cardinality(B4) <= Cardinality(B3) + 1 /\ Cardinality(B4) \in Nat
  BY <1>4, OneMore
<1> HIDE DEF B4
<1>6. /\ IsFiniteSet(P) /\ Cardinality(P) \in Nat /\ Cardinality(P) <= Cardinality(B4)
      /\ s = None => Cardinality(P) <= Cardinality(B3)
      /\ s = None /\ w = None => Cardinality(P) <= Cardinality(B2)
  <2>1. IsFiniteSet(P) /\ Cardinality(P) <= Cardinality(B4) /\ Cardinality(P) \in Nat
    BY <1>3, <1>5, FS_Subset, FS_CardinalityType
  <2> QED BY <1>2, <1>3, <1>4, <2>1, FS_Subset
<1> QED BY <1>1, <1>2, <1>4, <1>5, <1>6

LEMMA BlockCount ==
    ASSUME TypeInv
    PROVE  /\ IsFiniteSet(bad) /\ Cardinality(bad) \in Nat
           /\ IsFiniteSet(Phys) /\ Cardinality(Phys) = BLOCKS /\ BLOCKS \in Nat
           /\ count.load \in Loads /\ count.fails \in Nat /\ count.load.fails \in Nat
           /\ Cardinality(count.load.bad) \in Nat
<1>1. BLOCKS \in Nat /\ BLOCKS > 2 /\ BLOCKS - 1 \in Nat
  BY BlocksAssumption
<1>2. IsFiniteSet(Phys) /\ Cardinality(Phys) = BLOCKS
  <2>1. 0 <= BLOCKS - 1 /\ (BLOCKS - 1) - 0 + 1 = BLOCKS
    BY <1>1
  <2> QED BY <1>1, <2>1, FS_Interval DEF Phys
<1>3. bad \subseteq Phys /\ count.load \in Loads /\ count.fails \in Nat
  BY Typed DEF TypeInv, RecordsOK, Counts
<1>4. count.load.fails \in Nat /\ count.load.bad \subseteq Phys
  <2>1. count.load.fails \in Nat /\ count.load.bad \subseteq 1 .. BLOCKS - 1
    BY <1>3, LoadsAssumption
  <2> QED BY <1>1, <2>1 DEF Phys
<1> QED BY <1>1, <1>2, <1>3, <1>4, FS_Subset, FS_CardinalityType

\* There is a free block whenever one is asked for.
LEMMA SpareThere ==
    ASSUME TypeInv, AccInv, EnoughSpares, Accounted, pc # "erase",
           MayFail \/ (Work = None /\ pc # "restore")
    PROVE  free # {}
<1> SUFFICES ASSUME free = {}
             PROVE  FALSE
  OBVIOUS
<1>1. Phys \subseteq bad \union ({dataBlk, Log, Work, Spare} \ {None})
  BY DEF Accounted, Split, Roles, Old
<1> DEFINE n == Cardinality(bad)
           k == Cardinality(count.load.bad)
           f == count.fails
           m == count.load.fails
<1>2. n \in Nat /\ k \in Nat /\ f \in Nat /\ m \in Nat /\ BLOCKS \in Nat /\ IsFiniteSet(bad) /\ Cardinality(Phys) = BLOCKS
  BY BlockCount
<1>3. m + k + 3 <= BLOCKS
  BY BlockCount DEF EnoughSpares
<1>4. f <= m /\ n + (IF pc = "restore" THEN 1 ELSE 0) <= k + f
  BY DEF AccInv, Budget
<1>5. /\ BLOCKS <= n + 4
      /\ Spare = None => BLOCKS <= n + 3
      /\ Spare = None /\ Work = None => BLOCKS <= n + 2
  BY <1>1, <1>2, FourMore
<1>6. pc # "restore" => Spare = None
  BY DEF Spare
<1>7. MayFail => f < m
  BY DEF MayFail
<1> HIDE DEF n, k, f, m
<1> QED BY <1>2, <1>3, <1>4, <1>5, <1>6, <1>7

-----------------------------------------------------------------------------
(* What the steps have in common.                                           *)

\* A step that gives no block another role.
LEMMA AccKeep ==
    ASSUME TypeInv, AccInv, pc \notin {"scan", "erase", "restore"}, pc = "off" => clean,
           pc' \notin {"off", "scan", "erase", "restore", "fail"},
           UNCHANGED <<dataBlk, free, bad>>, Log' = Log, Work' = Work,
           count'.fails = count.fails, count'.load = count.load,
           clean' => pc' = "idle" /\ ~mapDirty' /\ \A f \in flight' : ~f.user
    PROVE  AccInv'
<1>1. Accounted
  BY DEF AccInv
<1>2. Spare = None /\ Spare' = None /\ Old = {} /\ Old' = {}
  BY DEF Spare, Old
<1>3. Accounted'
  BY <1>1, <1>2 DEF Accounted
<1> QED BY <1>3 DEF AccInv, CleanQuiet, Budget

\* The names of the roles where control stands.
LEMMA RolesAt ==
    /\ pc \in {"getlog", "datainfo", "loginfo", "program", "idle", "table", "merge", "fail", "off", "scan"}
          => Mode = pc /\ Log = logBlk /\ Work = None /\ Spare = None /\ Old = {}
    /\ pc = "swap" => Mode = pc /\ Log = None /\ Work = job.blk /\ Spare = None /\ Old = {}
    /\ pc \in {"move", "simple"} => Mode = pc /\ Log = logBlk /\ Work = job.blk /\ Spare = None /\ Old = {}
BY DEF Mode, Log, Work, Spare, Old, Merges

LEMMA RolesAtNext ==
    /\ pc' \in {"getlog", "datainfo", "loginfo", "program", "idle", "table", "merge", "fail", "off", "scan"}
          => Mode' = pc' /\ Log' = logBlk' /\ Work' = None /\ Spare' = None /\ Old' = {}
    /\ pc' = "swap" => Mode' = pc' /\ Log' = None /\ Work' = job'.blk /\ Spare' = None /\ Old' = {}
    /\ pc' \in {"move", "simple"} => Mode' = pc' /\ Log' = logBlk' /\ Work' = job'.blk /\ Spare' = None /\ Old' = {}
BY DEF Mode, Log, Work, Spare, Old, Merges

\* A program fails: a free block is taken for the bad one.
LEMMA AccSpare ==
    ASSUME TypeInv, AccInv, EnoughSpares, pc \in Returned, ~clean, MayFail, Failed,
           NEW n, LML_BadBlkManage(VictimAt(pc), n, pc), UNCHANGED <<dataBlk, logBlk, bad, clean>>
    PROVE  AccInv'
<1>1. Accounted /\ pc \notin {"erase", "restore", "off", "scan"}
  BY DEF AccInv, Returned
<1>2. free # {}
  BY <1>1, SpareThere
<1>3. PICK new \in free : /\ free' = free \ {new} /\ pc' = "restore" /\ job' = job
                          /\ bm' = [bad |-> VictimAt(pc), n |-> n, new |-> new, p |-> 0, ret |-> pc]
  BY <1>2 DEF LML_BadBlkManage
<1>4. bm'.bad = VictimAt(pc) /\ bm'.new = new /\ bm'.ret = pc /\ Mode = pc /\ Mode' = pc
  BY <1>1, <1>3 DEF Mode
<1>5. Log' = Log /\ Work' = Work /\ Spare = None /\ Spare' = new /\ Old = {} /\ Old' = {}
  BY <1>1, <1>3, <1>4 DEF Log, Work, Spare, Old
<1>6. new \in Phys /\ new # None
  BY <1>3, Typed, NotNone DEF TypeInv
<1>7. Split(free', bad', dataBlk', Log', Work', Spare', Old')
  BY <1>1, <1>3, <1>5, <1>6 DEF Accounted, Split, Roles
<1>8. Accounted'
  BY <1>3, <1>7 DEF Accounted
<1>9. Victim' = VictimAt(pc)
  BY <1>3, <1>4 DEF Victim, VictimAt
<1>10. Budget'
  <2>1. count'.load = count.load /\ count'.fails = count.fails + 1
    BY DEF Failed, TypeInv, RecordsOK, Counts
  <2>2. count.fails < count.load.fails
    BY DEF MayFail
  <2>3. Cardinality(bad) \in Nat /\ Cardinality(count.load.bad) \in Nat /\ count.fails \in Nat /\ count.load.fails \in Nat
    BY BlockCount
  <2>4. Cardinality(bad) <= Cardinality(count.load.bad) + count.fails
    <3>1. Cardinality(bad) + 0 <= Cardinality(count.load.bad) + count.fails
      BY <1>1 DEF AccInv, Budget
    <3> QED BY <2>3, <3>1
  <2>5. Cardinality(bad) + 1 <= Cardinality(count.load.bad) + count'.fails /\ count'.fails <= count.load.fails
    BY <2>1, <2>2, <2>3, <2>4
  <2> QED BY <1>3, <2>1, <2>5 DEF Budget
<1> QED BY <1>3, <1>4, <1>8, <1>9, <1>10 DEF AccInv, CleanQuiet

-----------------------------------------------------------------------------
(* Every action keeps the accounts.                                         *)

LEMMA AccInit == ASSUME Init PROVE AccInv
<1>1. PICK load \in Loads :
         /\ count = [load |-> load, writes |-> 0, cuts |-> 0, fails |-> 0, eraseFails |-> 0, evictions |-> 0]
         /\ bad = load.bad
  BY DEF Init
<1>2. TypeInv
  BY TypesInit
<1>3. /\ dataBlk = 0 /\ logBlk = None /\ free = Phys \ ({0} \union bad) /\ pc = "idle" /\ mapDirty = FALSE /\ flight = {}
  BY DEF Init
<1>4. count.load = load /\ count.fails = 0 /\ load.fails \in Nat /\ load.bad \subseteq 1 .. BLOCKS - 1
  BY <1>1, LoadsAssumption
<1>5. 0 \notin bad /\ 0 \in Phys /\ 0 # None
  BY <1>1, <1>4, Geometry, NotNone
<1>6. Log = None /\ Work = None /\ Spare = None /\ Old = {}
  BY <1>3, RolesAt
<1>7. Split(free, bad, dataBlk, Log, Work, Spare, Old)
  BY <1>3, <1>5, <1>6 DEF Split, Roles
<1>8. Accounted
  BY <1>3, <1>7 DEF Accounted
<1>9. Budget
  <2>1. Cardinality(bad) \in Nat
    BY <1>2, BlockCount
  <2>2. 0 <= load.fails /\ Cardinality(bad) + 0 <= Cardinality(bad) + 0
    BY <1>4, <2>1
  <2> QED BY <1>1, <1>3, <1>4, <2>2 DEF Budget
<1> QED BY <1>3, <1>8, <1>9 DEF AccInv, CleanQuiet

LEMMA AccPageWrite == ASSUME TypeInv, AccInv, NEW i \in count.load.pages, LML_PageWrite(i) PROVE AccInv'
<1>1. /\ pc = "idle" /\ pc' = "getlog" /\ clean' = FALSE /\ count' = [count EXCEPT !.writes = @ + 1]
      /\ UNCHANGED <<bad, dataBlk, logBlk, free>>
  BY DEF LML_PageWrite, tables
<1>2. count'.fails = count.fails /\ count'.load = count.load
  BY <1>1 DEF TypeInv, RecordsOK, Counts
<1> QED BY <1>1, <1>2, RolesAt, RolesAtNext, AccKeep

LEMMA AccSwitch == ASSUME TypeInv, AccInv, pc \in {"idle", "getlog", "merge"}, PMM_SwitchMapTbl PROVE AccInv'
<1>1. /\ clean' = (clean /\ ~mapDirty') /\ UNCHANGED <<bad, dataBlk, logBlk, free, pc, flight, count>>
  BY DEF PMM_SwitchMapTbl
<1>2. clean' => pc' = "idle" /\ ~mapDirty' /\ \A f \in flight' : ~f.user
  BY <1>1 DEF AccInv, CleanQuiet
<1> QED BY <1>1, <1>2, RolesAt, RolesAtNext, AccKeep

LEMMA AccCreateNewLogBlk == ASSUME TypeInv, AccInv, CreateNewLogBlk PROVE AccInv'
<1>1. /\ pc = "getlog" /\ logBlk = None /\ pc' = "datainfo"
      /\ UNCHANGED <<bad, dataBlk, clean, flight, count>>
  BY DEF CreateNewLogBlk
<1>2. PICK b \in free : free' = free \ {b} /\ logBlk' = b
  BY DEF CreateNewLogBlk
<1>3. Accounted /\ ~clean
  BY <1>1 DEF AccInv, CleanQuiet
<1>4. b \in Phys /\ b # None
  BY <1>2, Typed, NotNone DEF TypeInv
<1>5. /\ Log = None /\ Work = None /\ Spare = None /\ Old = {}
      /\ Log' = b /\ Work' = None /\ Spare' = None /\ Old' = {}
  BY <1>1, <1>2, RolesAt, RolesAtNext
<1>6. Split(free', bad', dataBlk', Log', Work', Spare', Old')
  BY <1>1, <1>2, <1>3, <1>4, <1>5 DEF Accounted, Split, Roles
<1>7. Accounted'
  BY <1>1, <1>6 DEF Accounted
<1> QED BY <1>1, <1>3, <1>7 DEF AccInv, CleanQuiet, Budget

\* The free block table is not empty.
LEMMA AccNoFreeBlk == ASSUME TypeInv, AccInv, EnoughSpares PROVE ~NoFreeBlk
<1> SUFFICES ASSUME pc = "getlog", free = {}
             PROVE  FALSE
  BY DEF NoFreeBlk
<1>1. Accounted /\ Work = None
  BY RolesAt DEF AccInv
<1> QED BY <1>1, SpareThere

LEMMA AccWriteDataInfo == ASSUME TypeInv, AccInv, EnoughSpares, WriteDataInfo PROVE AccInv'
<1>1. /\ pc = "datainfo" /\ UNCHANGED <<bad, dataBlk, logBlk, mapDirty, clean>>
  BY DEF WriteDataInfo
<1>2. ~clean
  BY <1>1 DEF AccInv, CleanQuiet
<1>3. CASE pc' = "getlog" /\ UNCHANGED <<free, count>>
  BY <1>1, <1>2, <1>3, RolesAt, RolesAtNext, AccKeep
<1>4. CASE MayFail /\ Failed /\ LML_BadBlkManage(dataBlk, 0, "datainfo")
  BY <1>1, <1>2, <1>4, AccSpare DEF VictimAt, Returned
<1> QED BY <1>3, <1>4 DEF WriteDataInfo

LEMMA AccGetLogPage == ASSUME TypeInv, AccInv, GetLogPage PROVE AccInv'
<1>1. /\ pc = "getlog" /\ logBlk # None /\ pc' \in {"program", "loginfo", "fail", "merge"}
      /\ UNCHANGED <<bad, dataBlk, logBlk, free, clean, count>>
  BY Zenon DEF GetLogPage, TakeLogPage
<1>2. ~clean
  BY <1>1 DEF AccInv, CleanQuiet
<1>3. pc' # "fail"
  <2> SUFFICES ASSUME ~(NextLogPage(lastUsed, req.lp) < PAGES), req.again
               PROVE  FALSE
    BY <1>1, Zenon DEF GetLogPage, TakeLogPage, HasRoom
  <2> QED BY <1>1, WriteHasRoom
<1> QED BY <1>1, <1>2, <1>3, RolesAt, RolesAtNext, AccKeep

LEMMA AccWriteLogInfo == ASSUME TypeInv, AccInv, EnoughSpares, WriteLogInfo PROVE AccInv'
<1>1. /\ pc = "loginfo" /\ UNCHANGED <<bad, dataBlk, logBlk, clean>>
  BY DEF WriteLogInfo
<1>2. ~clean
  BY <1>1 DEF AccInv, CleanQuiet
<1>3. CASE pc' = "program" /\ UNCHANGED <<free, count>>
  BY <1>1, <1>2, <1>3, RolesAt, RolesAtNext, AccKeep
<1>4. CASE MayFail /\ Failed /\ LML_BadBlkManage(logBlk, 0, "loginfo")
  BY <1>1, <1>2, <1>4, AccSpare DEF VictimAt, Returned
<1> QED BY <1>3, <1>4, Zenon DEF WriteLogInfo, TakeLogPage

LEMMA AccProgramPage == ASSUME TypeInv, AccInv, ProgramPage PROVE AccInv'
<1>1. /\ pc = "program" /\ pc' = "idle" /\ UNCHANGED <<bad, dataBlk, logBlk, free, clean, count>>
  BY DEF ProgramPage, tables
<1>2. ~clean
  BY <1>1 DEF AccInv, CleanQuiet
<1> QED BY <1>1, <1>2, RolesAt, RolesAtNext, AccKeep

LEMMA AccSyncFails == ASSUME TypeInv, AccInv, EnoughSpares, SyncFails PROVE AccInv'
<1>1. /\ pc = "program" /\ MayFail /\ Failed /\ LML_BadBlkManage(logBlk, lastUsed, "program")
      /\ UNCHANGED <<bad, dataBlk, logBlk, clean>>
  BY DEF SyncFails
<1>2. ~clean
  BY <1>1 DEF AccInv, CleanQuiet
<1> QED BY <1>1, <1>2, AccSpare DEF VictimAt, Returned

LEMMA AccCloseWritePage == ASSUME TypeInv, AccInv, EnoughSpares, CloseWritePage PROVE AccInv'
<1>1. /\ pc = "idle" /\ (\E f \in flight : f.user) /\ UNCHANGED <<bad, dataBlk, logBlk, clean>>
  BY DEF CloseWritePage
<1>2. ~clean
  BY <1>1 DEF AccInv, CleanQuiet
<1>3. CASE UNCHANGED <<pc, free, count>>
  BY <1>1, <1>2, <1>3, RolesAt, RolesAtNext, AccKeep
<1>4. CASE MayFail /\ Failed /\ LML_BadBlkManage(logBlk, lastUsed + 1, "idle")
  BY <1>1, <1>2, <1>4, AccSpare DEF VictimAt, Returned
<1> QED BY <1>3, <1>4 DEF CloseWritePage

LEMMA AccEvictPageMap == ASSUME TypeInv, AccInv, EvictPageMap PROVE AccInv'
<1>1. /\ pc = "idle" /\ count' = [count EXCEPT !.evictions = @ + 1] /\ pc' \in {"idle", "merge", "table"}
      /\ mapDirty \/ pc' = pc
      /\ UNCHANGED <<bad, dataBlk, logBlk, mapDirty, free, clean, flight>>
  BY DEF EvictPageMap, Closed
<1>2. count'.fails = count.fails /\ count'.load = count.load
  BY <1>1 DEF TypeInv, RecordsOK, Counts
<1>3. clean' => pc' = "idle" /\ ~mapDirty' /\ \A f \in flight' : ~f.user
  BY <1>1 DEF AccInv, CleanQuiet
<1> QED BY <1>1, <1>2, <1>3, RolesAt, RolesAtNext, AccKeep

LEMMA AccWritePageMapTbl == ASSUME TypeInv, AccInv, EnoughSpares, WritePageMapTbl PROVE AccInv'
<1>1. /\ pc = "table" /\ UNCHANGED <<bad, dataBlk, logBlk, clean>>
  BY DEF WritePageMapTbl
<1>2. ~clean
  BY <1>1 DEF AccInv, CleanQuiet
<1>3. CASE pc' = "idle" /\ UNCHANGED <<free, count>>
  BY <1>1, <1>2, <1>3, RolesAt, RolesAtNext, AccKeep
<1>4. CASE MayFail /\ Failed /\ LML_BadBlkManage(logBlk, lastUsed + 1, "table")
  BY <1>1, <1>2, <1>4, AccSpare DEF VictimAt, Returned
<1> QED BY <1>3, <1>4 DEF WritePageMapTbl

LEMMA AccWriteBackMapTbl == ASSUME TypeInv, AccInv, WriteBackMapTbl PROVE AccInv'
<1>1. /\ pc = "idle" /\ ~mapDirty /\ (\A f \in flight : ~f.user)
      /\ UNCHANGED <<bad, dataBlk, logBlk, mapDirty, free, pc, flight, count>>
  BY DEF WriteBackMapTbl, Closed, tables
<1> QED BY <1>1, RolesAt, RolesAtNext, AccKeep

LEMMA AccMergeOldest == ASSUME TypeInv, AccInv, MergeOldest PROVE AccInv'
<1>1. /\ pc = "idle" /\ pc' = "merge" /\ clean' = FALSE /\ count' = [count EXCEPT !.evictions = @ + 1]
      /\ UNCHANGED <<bad, dataBlk, logBlk, free>>
  BY DEF MergeOldest, Closed, tables
<1>2. count'.fails = count.fails /\ count'.load = count.load
  BY <1>1 DEF TypeInv, RecordsOK, Counts
<1> QED BY <1>1, <1>2, RolesAt, RolesAtNext, AccKeep

LEMMA AccMergeLogBlk == ASSUME TypeInv, AccInv, EnoughSpares, LML_MergeLogBlk PROVE AccInv'
<1>1. /\ pc = "merge"
      /\ UNCHANGED <<bad, dataBlk, logBlk, clean, flight, count>>
  BY Zenon DEF LML_MergeLogBlk
<1>2. Accounted /\ ~clean /\ logBlk \in Phys /\ logBlk # None
  BY <1>1, Typed DEF AccInv, CleanQuiet, TypeInv, BlocksNamed, Mode
<1>3. Log = logBlk /\ Work = None /\ Spare = None /\ Old = {}
  BY <1>1, RolesAt
<1>4. free # {}
  BY <1>1, <1>2, <1>3, SpareThere
<1>5. CASE /\ job' = [NoJob EXCEPT !.kind = "swap", !.p = lastUsed + 1, !.blk = logBlk]
           /\ pc' = "swap" /\ UNCHANGED free
  <2>1. job'.blk = logBlk
    BY <1>5 DEF NoJob
  <2>2. Log' = None /\ Work' = logBlk /\ Spare' = None /\ Old' = {}
    BY <1>5, <2>1, RolesAtNext
  <2>3. Split(free', bad', dataBlk', Log', Work', Spare', Old')
    BY <1>1, <1>2, <1>3, <1>5, <2>2 DEF Accounted, Split, Roles
  <2>4. Accounted'
    BY <1>5, <2>3 DEF Accounted
  <2> QED BY <1>1, <1>2, <1>5, <2>4 DEF AccInv, CleanQuiet, Budget
<1>6. ASSUME NEW b \in free, free' = free \ {b}, pc' = job'.kind,
             \/ job' = [NoJob EXCEPT !.kind = "move", !.p = -1, !.blk = b]
             \/ job' = [NoJob EXCEPT !.kind = "simple", !.blk = b]
      PROVE  AccInv'
  <2>1. pc' \in {"move", "simple"} /\ job'.blk = b
    BY <1>6 DEF NoJob
  <2>2. Log' = logBlk /\ Work' = b /\ Spare' = None /\ Old' = {}
    BY <1>1, <2>1, RolesAtNext
  <2>3. b \in Phys /\ b # None
    BY <1>6, Typed, NotNone DEF TypeInv
  <2>4. Split(free', bad', dataBlk', Log', Work', Spare', Old')
    BY <1>1, <1>2, <1>3, <1>6, <2>2, <2>3 DEF Accounted, Split, Roles
  <2>5. Accounted'
    BY <2>1, <2>4 DEF Accounted
  <2> QED BY <1>1, <1>2, <2>1, <2>5 DEF AccInv, CleanQuiet, Budget
<1> QED BY <1>4, <1>5, <1>6, Zenon DEF LML_MergeLogBlk

\* A copy of a merge that fails.
LEMMA AccCopyFails ==
    ASSUME TypeInv, AccInv, EnoughSpares, NEW n, CopyFails(n), pc \in Merges,
           UNCHANGED <<bad, dataBlk, logBlk, clean>>
    PROVE  AccInv'
<1>1. job.kind = pc /\ ~clean
  BY DEF TypeInv, BlocksNamed, Mode, Merges, AccInv, CleanQuiet
<1>2. VictimAt(pc) = job.blk /\ pc \in Returned
  BY DEF VictimAt, Merges, Returned
<1>3. MayFail /\ Failed /\ LML_BadBlkManage(VictimAt(pc), n, pc)
  BY <1>1, <1>2 DEF CopyFails
<1> QED BY <1>1, <1>2, <1>3, AccSpare

\* A copy of a merge that succeeds.
LEMMA AccCopied ==
    ASSUME TypeInv, AccInv, pc \in Merges, job'.blk = job.blk, UNCHANGED <<bad, dataBlk, logBlk, clean, pc, free, count>>
    PROVE  AccInv'
<1>1. ~clean
  BY DEF Merges, AccInv, CleanQuiet
<1>2. Log' = Log /\ Work' = Work
  BY RolesAt, RolesAtNext DEF Merges
<1> QED BY <1>1, <1>2, AccKeep DEF Merges

LEMMA AccSwapCopy == ASSUME TypeInv, AccInv, EnoughSpares, SwapCopy PROVE AccInv'
<1>1. pc \in Merges /\ UNCHANGED <<bad, dataBlk, logBlk, clean>>
  BY DEF SwapCopy, Merges
<1>2. CASE job' = [job EXCEPT !.p = @ + 1] /\ UNCHANGED <<pc, free, count>>
  <2>1. job'.blk = job.blk
    BY <1>2 DEF TypeInv, RecordsOK, Jobs
  <2> QED BY <1>1, <1>2, <2>1, AccCopied
<1>3. CASE CopyFails(job.p)
  BY <1>1, <1>3, AccCopyFails
<1> QED BY <1>2, <1>3 DEF SwapCopy

LEMMA AccMovePage0 == ASSUME TypeInv, AccInv, EnoughSpares, MovePage0 PROVE AccInv'
<1>1. pc \in Merges /\ UNCHANGED <<bad, dataBlk, logBlk, clean>>
  BY DEF MovePage0, Merges
<1>2. CASE job' = [job EXCEPT !.dst = 0] /\ UNCHANGED <<pc, free, count>>
  <2>1. job'.blk = job.blk
    BY <1>2 DEF TypeInv, RecordsOK, Jobs
  <2> QED BY <1>1, <1>2, <2>1, AccCopied
<1>3. CASE CopyFails(0)
  BY <1>1, <1>3, AccCopyFails
<1> QED BY <1>2, <1>3 DEF MovePage0

LEMMA AccMoveCopy == ASSUME TypeInv, AccInv, EnoughSpares, MoveCopy PROVE AccInv'
<1>1. pc \in Merges /\ UNCHANGED <<bad, dataBlk, logBlk, clean>>
  BY Zenon DEF MoveCopy, Merges
<1> DEFINE p == MoveNext
           to == MoveTo(p)
<1>2. \/ job' = [job EXCEPT !.p = p, !.dst = to, !.last = IF to > @ THEN to ELSE @] /\ UNCHANGED <<pc, free, count>>
      \/ CopyFails(0)
  BY Zenon DEF MoveCopy
<1>3. CASE job' = [job EXCEPT !.p = p, !.dst = to, !.last = IF to > @ THEN to ELSE @] /\ UNCHANGED <<pc, free, count>>
  <2> HIDE DEF p, to
  <2>1. job'.blk = job.blk
    BY <1>3 DEF TypeInv, RecordsOK, Jobs
  <2> QED BY <1>1, <1>3, <2>1, AccCopied
<1>4. CASE CopyFails(0)
  BY <1>1, <1>4, AccCopyFails
<1> QED BY <1>2, <1>3, <1>4

LEMMA AccSimpleCopy == ASSUME TypeInv, AccInv, EnoughSpares, SimpleCopy PROVE AccInv'
<1>1. pc \in Merges /\ UNCHANGED <<bad, dataBlk, logBlk, clean>>
  BY Zenon DEF SimpleCopy, Merges
<1>2. CASE job' = [job EXCEPT !.p = @ + 1] /\ UNCHANGED <<pc, free, count>>
  <2>1. job'.blk = job.blk
    BY <1>2 DEF TypeInv, RecordsOK, Jobs
  <2> QED BY <1>1, <1>2, <2>1, AccCopied
<1>3. CASE CopyFails(job.p)
  BY <1>1, <1>3, AccCopyFails
<1> QED BY <1>2, <1>3, Zenon DEF SimpleCopy

\* The blocks to be erased after a merge.
LEMMA OldNext ==
    ASSUME pc' = "erase"
    PROVE  /\ \A a : job'.toErase = <<a>> => Old' = {a} /\ \A i, j \in 1 .. Len(job'.toErase) : i = j
           /\ \A a, b : job'.toErase = <<a, b>> /\ a # b =>
                  /\ Old' = {a, b}
                  /\ \A i, j \in 1 .. Len(job'.toErase) : i # j => job'.toErase[i] # job'.toErase[j]
<1>1. Old' = {job'.toErase[i] : i \in 1 .. Len(job'.toErase)}
  BY DEF Old
<1>2. ASSUME NEW a, job'.toErase = <<a>>
      PROVE  Old' = {a} /\ \A i, j \in 1 .. Len(job'.toErase) : i = j
  BY <1>1, <1>2
<1>3. ASSUME NEW a, NEW b, job'.toErase = <<a, b>>, a # b
      PROVE  /\ Old' = {a, b}
             /\ \A i, j \in 1 .. Len(job'.toErase) : i # j => job'.toErase[i] # job'.toErase[j]
  <2>1. \A i \in 1 .. Len(<<a, b>>) : i = 1 \/ i = 2
    OBVIOUS
  <2>2. 1 \in 1 .. Len(<<a, b>>) /\ 2 \in 1 .. Len(<<a, b>>) /\ <<a, b>>[1] = a /\ <<a, b>>[2] = b
    OBVIOUS
  <2> QED BY <1>1, <1>3, <2>1, <2>2
<1> QED BY <1>2, <1>3

LEMMA AccSwapDone == ASSUME TypeInv, AccInv, SwapDone PROVE AccInv'
<1>1. /\ pc = "swap" /\ pc' = "erase" /\ dataBlk' = job.blk /\ logBlk' = None /\ job' = [job EXCEPT !.toErase = <<dataBlk>>]
      /\ UNCHANGED <<bad, free, clean, count>>
  BY DEF SwapDone
<1>2. job.kind = "swap" /\ dataBlk \in Phys /\ job \in Jobs /\ job.blk # None /\ dataBlk # None
  BY <1>1, Typed DEF TypeInv, BlocksNamed, Mode, Merges, RecordsOK, Jobs
<1>3. job'.kind = "swap" /\ job'.toErase = <<dataBlk>>
  BY <1>1, <1>2 DEF Jobs
<1>4. Accounted /\ ~clean
  BY <1>1 DEF AccInv, CleanQuiet
<1>5. Log = None /\ Work = job.blk /\ Spare = None /\ Old = {}
  BY <1>1, RolesAt
<1>6. Log' = None /\ Work' = None /\ Spare' = None
  BY <1>1, <1>3 DEF Log, Work, Spare, Mode, Merges
<1>7. Old' = {dataBlk} /\ \A i, j \in 1 .. Len(job'.toErase) : i = j
  BY <1>1, <1>3, OldNext
<1>8. Split(free', bad', dataBlk', Log', Work', Spare', Old')
  BY <1>1, <1>2, <1>4, <1>5, <1>6, <1>7 DEF Accounted, Split, Roles
<1>9. Accounted'
  BY <1>7, <1>8 DEF Accounted
<1> QED BY <1>1, <1>4, <1>9 DEF AccInv, CleanQuiet, Budget

LEMMA AccMoveDone == ASSUME TypeInv, AccInv, MoveDone PROVE AccInv'
<1>1. /\ pc = "move" /\ pc' = "erase" /\ job' = [job EXCEPT !.toErase = <<logBlk>>]
      /\ UNCHANGED <<bad, dataBlk, logBlk, free, clean, count>>
  BY DEF MoveDone, tables
<1>2. job.kind = "move" /\ logBlk \in Phys /\ job \in Jobs /\ job.blk # None /\ logBlk # None
  BY <1>1, Typed DEF TypeInv, BlocksNamed, Mode, Merges, RecordsOK, Jobs
<1>3. job'.kind = "move" /\ job'.blk = job.blk /\ job'.toErase = <<logBlk>>
  BY <1>1, <1>2 DEF Jobs
<1>4. Accounted /\ ~clean
  BY <1>1 DEF AccInv, CleanQuiet
<1>5. Log = logBlk /\ Work = job.blk /\ Spare = None /\ Old = {}
  BY <1>1, RolesAt
<1>6. Log' = None /\ Work' = job.blk /\ Spare' = None
  BY <1>1, <1>3 DEF Log, Work, Spare, Mode, Merges
<1>7. Old' = {logBlk} /\ \A i, j \in 1 .. Len(job'.toErase) : i = j
  BY <1>1, <1>3, OldNext
<1>8. Split(free', bad', dataBlk', Log', Work', Spare', Old')
  BY <1>1, <1>2, <1>4, <1>5, <1>6, <1>7 DEF Accounted, Split, Roles
<1>9. Accounted'
  BY <1>7, <1>8 DEF Accounted
<1> QED BY <1>1, <1>4, <1>9 DEF AccInv, CleanQuiet, Budget

LEMMA AccSimpleDone == ASSUME TypeInv, AccInv, SimpleDone PROVE AccInv'
<1>1. /\ pc = "simple" /\ pc' = "erase" /\ dataBlk' = job.blk /\ job' = [job EXCEPT !.toErase = <<dataBlk, logBlk>>]
      /\ UNCHANGED <<bad, logBlk, free, clean, count>>
  BY DEF SimpleDone
<1>2. /\ job.kind = "simple" /\ dataBlk \in Phys /\ logBlk \in Phys /\ job \in Jobs
      /\ job.blk # None /\ logBlk # None /\ dataBlk # None
  BY <1>1, Typed DEF TypeInv, BlocksNamed, Mode, Merges, RecordsOK, Jobs
<1>3. job'.kind = "simple" /\ job'.toErase = <<dataBlk, logBlk>>
  BY <1>1, <1>2 DEF Jobs
<1>4. Accounted /\ ~clean
  BY <1>1 DEF AccInv, CleanQuiet
<1>5. Log = logBlk /\ Work = job.blk /\ Spare = None /\ Old = {}
  BY <1>1, RolesAt
<1>6. Log' = None /\ Work' = None /\ Spare' = None
  BY <1>1, <1>3 DEF Log, Work, Spare, Mode, Merges
<1>7. dataBlk # logBlk
  BY <1>4, <1>5 DEF Accounted, Split
<1>8. Old' = {dataBlk, logBlk} /\ \A i, j \in 1 .. Len(job'.toErase) : i # j => job'.toErase[i] # job'.toErase[j]
  BY <1>1, <1>3, <1>7, OldNext
<1>9. Split(free', bad', dataBlk', Log', Work', Spare', Old')
  BY <1>1, <1>2, <1>4, <1>5, <1>6, <1>8 DEF Accounted, Split, Roles
<1>10. Accounted'
  BY <1>8, <1>9 DEF Accounted
<1> QED BY <1>1, <1>4, <1>10 DEF AccInv, CleanQuiet, Budget

\* The first block of a list, and the rest of it.
LEMMA FirstAndRest ==
    ASSUME NEW s \in Seq(Phys), s # <<>>, \A i, j \in 1 .. Len(s) : i # j => s[i] # s[j]
    PROVE  /\ {s[i] : i \in 1 .. Len(s)} = {s[1]} \union {Tail(s)[i] : i \in 1 .. Len(Tail(s))}
           /\ s[1] \notin {Tail(s)[i] : i \in 1 .. Len(Tail(s))}
           /\ \A i, j \in 1 .. Len(Tail(s)) : i # j => Tail(s)[i] # Tail(s)[j]
<1> DEFINE t == Tail(s)
<1>1. /\ Len(s) \in Nat /\ Len(s) > 0 /\ Len(t) = Len(s) - 1
      /\ \A i \in 1 .. Len(t) : t[i] = s[i + 1] /\ i + 1 \in 1 .. Len(s) /\ i + 1 # 1
      /\ 1 \in 1 .. Len(s)
  OBVIOUS
<1> HIDE DEF t
<1>2. ASSUME NEW j \in 1 .. Len(s), j # 1
      PROVE  s[j] \in {t[i] : i \in 1 .. Len(t)}
  <2>1. j - 1 \in 1 .. Len(t) /\ j - 1 + 1 = j
    BY <1>1, <1>2
  <2>2. s[j] = t[j - 1]
    BY <1>1, <2>1
  <2> QED BY <2>1, <2>2
<1>3. {s[i] : i \in 1 .. Len(s)} = {s[1]} \union {t[i] : i \in 1 .. Len(t)}
  <2>1. ASSUME NEW x \in {s[i] : i \in 1 .. Len(s)}
        PROVE  x \in {s[1]} \union {t[i] : i \in 1 .. Len(t)}
    BY <1>2
  <2>2. ASSUME NEW x \in {t[i] : i \in 1 .. Len(t)}
        PROVE  x \in {s[i] : i \in 1 .. Len(s)}
    BY <1>1
  <2>3. s[1] \in {s[i] : i \in 1 .. Len(s)}
    BY <1>1
  <2> QED BY <2>1, <2>2, <2>3
<1>4. s[1] \notin {t[i] : i \in 1 .. Len(t)}
  BY <1>1
<1>5. \A i, j \in 1 .. Len(t) : i # j => t[i] # t[j]
  BY <1>1
<1> QED BY <1>3, <1>4, <1>5 DEF t

LEMMA NoEraseFails == ASSUME TypeInv, MaxEraseFails = 0 PROVE ~EraseMayFail
BY DEF EraseMayFail, TypeInv, RecordsOK, Counts

LEMMA AccEraseBlk == ASSUME TypeInv, AccInv, MaxEraseFails = 0, EraseBlk PROVE AccInv'
<1> DEFINE b == job.toErase[1]
<1>1. /\ pc = "erase" /\ job.toErase # <<>> /\ free' = free \union {b}
      /\ job' = [job EXCEPT !.toErase = Tail(@)]
      /\ UNCHANGED <<bad, count, dataBlk, logBlk, clean, pc, bm>>
  BY NoEraseFails, Zenon DEF EraseBlk
<1>2. job \in Jobs /\ job.toErase \in Seq(Phys)
  BY DEF TypeInv, RecordsOK, Jobs
<1>3. job'.kind = job.kind /\ job'.blk = job.blk /\ job'.toErase = Tail(job.toErase)
  BY <1>1, <1>2 DEF Jobs
<1>4. Accounted /\ ~clean
  BY <1>1 DEF AccInv, CleanQuiet
<1>5. /\ Old = {b} \union Old' /\ b \notin Old'
      /\ \A i, j \in 1 .. Len(job'.toErase) : i # j => job'.toErase[i] # job'.toErase[j]
  <2>1. \A i, j \in 1 .. Len(job.toErase) : i # j => job.toErase[i] # job.toErase[j]
    BY <1>1, <1>4 DEF Accounted
  <2>2. PICK s \in Seq(Phys) : s = job.toErase
    BY <1>2
  <2>3. /\ {s[i] : i \in 1 .. Len(s)} = {s[1]} \union {Tail(s)[i] : i \in 1 .. Len(Tail(s))}
        /\ s[1] \notin {Tail(s)[i] : i \in 1 .. Len(Tail(s))}
        /\ \A i, j \in 1 .. Len(Tail(s)) : i # j => Tail(s)[i] # Tail(s)[j]
    BY <1>1, <2>1, <2>2, FirstAndRest
  <2>4. Old = {s[i] : i \in 1 .. Len(s)} /\ Old' = {Tail(s)[i] : i \in 1 .. Len(Tail(s))} /\ b = s[1]
    BY <1>1, <1>3, <2>2 DEF Old
  <2> QED BY <1>3, <2>2, <2>3, <2>4
<1>6. Log' = Log /\ Work' = Work /\ Spare' = Spare
  BY <1>1, <1>3 DEF Log, Work, Spare, Mode
<1>7. b \in Phys /\ b # None
  BY <1>1, <1>2, NotNone
<1> HIDE DEF b
<1>8. Split(free', bad', dataBlk', Log', Work', Spare', Old')
  BY <1>1, <1>4, <1>5, <1>6, <1>7 DEF Accounted, Split, Roles
<1>9. Accounted'
  BY <1>5, <1>8 DEF Accounted
<1> QED BY <1>1, <1>4, <1>9 DEF AccInv, CleanQuiet, Budget

LEMMA AccMergeDone == ASSUME TypeInv, AccInv, MergeDone PROVE AccInv'
<1>1. /\ pc = "erase" /\ job.toErase = <<>> /\ pc' \in {"getlog", "table", "idle"}
      /\ logBlk' = IF job.kind = "move" THEN job.blk ELSE None
      /\ UNCHANGED <<bad, dataBlk, free, clean, count>>
  BY DEF MergeDone, AfterMerge
<1>2. Accounted /\ ~clean
  BY <1>1 DEF AccInv, CleanQuiet
<1>3. Log = None /\ Work = logBlk' /\ Spare = None /\ Old = {}
  BY <1>1 DEF Log, Work, Spare, Old, Mode, Merges
<1>4. Log' = logBlk' /\ Work' = None /\ Spare' = None /\ Old' = {}
  BY <1>1, RolesAtNext
<1>5. Split(free', bad', dataBlk', Log', Work', Spare', Old')
  BY <1>1, <1>2, <1>3, <1>4 DEF Accounted, Split, Roles
<1>6. Accounted'
  BY <1>1, <1>5 DEF Accounted
<1> QED BY <1>1, <1>2, <1>6 DEF AccInv, CleanQuiet, Budget

LEMMA AccRestorePageData == ASSUME TypeInv, AccInv, RestorePageData PROVE AccInv'
<1>1. /\ pc = "restore" /\ bm' = [bm EXCEPT !.p = @ + 1]
      /\ UNCHANGED <<bad, dataBlk, logBlk, free, clean, pc, job, count>>
  BY DEF RestorePageData, tables
<1>2. bm'.bad = bm.bad /\ bm'.new = bm.new /\ bm'.ret = bm.ret
  BY <1>1 DEF TypeInv, RecordsOK, BadJobs
<1>3. Log' = Log /\ Work' = Work /\ Spare' = Spare /\ Old' = Old /\ Victim' = Victim
  BY <1>1, <1>2 DEF Log, Work, Spare, Old, Mode, Victim, VictimAt
<1>4. Accounted /\ ~clean
  BY <1>1 DEF AccInv, CleanQuiet
<1>5. Accounted'
  BY <1>1, <1>3, <1>4 DEF Accounted
<1> QED BY <1>1, <1>2, <1>3, <1>4, <1>5 DEF AccInv, CleanQuiet, Budget

LEMMA AccRestoreFails == ASSUME TypeInv, AccInv, EnoughSpares, RestoreFails PROVE AccInv'
<1>1. /\ pc = "restore" /\ MayFail /\ Failed /\ LML_BadBlkManage(bm.bad, bm.n, bm.ret) /\ bad' = bad \union {bm.new}
      /\ UNCHANGED <<dataBlk, logBlk, clean>>
  BY DEF RestoreFails
<1>2. Accounted /\ ~clean
  BY <1>1 DEF AccInv, CleanQuiet
<1>3. free # {}
  BY <1>1, <1>2, SpareThere
<1>4. PICK new \in free : /\ free' = free \ {new} /\ pc' = "restore" /\ job' = job
                          /\ bm' = [bad |-> bm.bad, n |-> bm.n, new |-> new, p |-> 0, ret |-> bm.ret]
  BY <1>1, <1>3 DEF LML_BadBlkManage
<1>5. bm'.bad = bm.bad /\ bm'.new = new /\ bm'.ret = bm.ret
  BY <1>4
<1>6. /\ Log' = Log /\ Work' = Work /\ Spare = bm.new /\ Spare' = new /\ Old = {} /\ Old' = {} /\ Victim' = Victim
  BY <1>1, <1>4, <1>5 DEF Log, Work, Spare, Old, Mode, Victim, VictimAt
<1>7. new \in Phys /\ new # None /\ bm.new # None
  BY <1>1, <1>4, Typed, NotNone DEF TypeInv, BlocksNamed
<1>8. Split(free', bad', dataBlk', Log', Work', Spare', Old')
  BY <1>1, <1>2, <1>4, <1>6, <1>7 DEF Accounted, Split, Roles
<1>9. Accounted'
  BY <1>4, <1>8 DEF Accounted
<1>10. Budget'
  <2> DEFINE n == Cardinality(bad)
             m == Cardinality(bad')
             k == Cardinality(count.load.bad)
             f == count.fails
             g == count.load.fails
  <2>1. count'.load = count.load /\ count'.fails = f + 1
    BY <1>1 DEF Failed, TypeInv, RecordsOK, Counts
  <2>2. n \in Nat /\ k \in Nat /\ f \in Nat /\ g \in Nat /\ IsFiniteSet(bad) /\ f < g
    BY <1>1, BlockCount DEF MayFail
  <2>3. m \in Nat /\ m <= n + 1
    BY <1>1, <2>2, OneMore
  <2>4. n + 1 <= k + f
    BY <1>1 DEF AccInv, Budget
  <2>5. m + 1 <= k + (f + 1) /\ f + 1 <= g
    <3> HIDE DEF n, m, k, f, g
    <3> QED BY <2>2, <2>3, <2>4
  <2> QED BY <1>4, <2>1, <2>5 DEF Budget
<1> QED BY <1>1, <1>2, <1>4, <1>5, <1>6, <1>9, <1>10 DEF AccInv, CleanQuiet

\* The bad block is marked, and the operation goes on with the new one.
LEMMA AccReplaced ==
    ASSUME TypeInv, AccInv, pc = "restore", pc' \in Returned, ~clean, bad' = bad \union {bm.bad}, UNCHANGED <<clean, count>>,
           Split(free', bad', dataBlk', Log', Work', Spare', Old')
    PROVE  AccInv'
<1>1. Accounted'
  BY DEF Accounted, Returned
<1>2. Budget'
  <2> DEFINE n == Cardinality(bad)
             m == Cardinality(bad')
             k == Cardinality(count.load.bad)
             f == count.fails
  <2>1. n \in Nat /\ k \in Nat /\ f \in Nat /\ IsFiniteSet(bad)
    BY BlockCount
  <2>2. m \in Nat /\ m <= n + 1
    BY <2>1, OneMore
  <2>3. n + 1 <= k + f /\ f <= count.load.fails
    BY DEF AccInv, Budget
  <2>4. m + 0 <= k + f
    <3> HIDE DEF n, m, k, f
    <3> QED BY <2>1, <2>2, <2>3
  <2> QED BY <2>3, <2>4 DEF Budget, Returned
<1> QED BY <1>1, <1>2 DEF AccInv, CleanQuiet, Returned

LEMMA AccMarkBadBlk == ASSUME TypeInv, AccInv, MarkBadBlk PROVE AccInv'
<1>1. /\ pc = "restore" /\ pc' = bm.ret /\ bad' = bad \union {bm.bad}
      /\ dataBlk' = IF bm.ret = "datainfo" THEN bm.new ELSE dataBlk
      /\ logBlk' = IF bm.ret \in {"loginfo", "program", "idle", "table"} THEN bm.new ELSE logBlk
      /\ UNCHANGED <<free, clean, count>>
  BY DEF MarkBadBlk, Replaced
<1>2. bm.ret \in Merges => job'.blk = bm.new
  <2>1. CASE bm.ret \in {"swap", "simple"}
    <3>1. job' = [job EXCEPT !.blk = bm.new] /\ job \in Jobs
      BY <2>1 DEF MarkBadBlk, TypeInv, RecordsOK
    <3> QED BY <3>1 DEF Jobs
  <2>2. CASE bm.ret = "move"
    <3>1. job' = Redone(job, bm.new) /\ job \in Jobs /\ bm.new \in Phys
      BY <1>1, <2>2 DEF MarkBadBlk, Redone, TypeInv, RecordsOK, BlocksNamed, BadJobs
    <3> QED BY <3>1, RedoOK
  <2> QED BY <2>1, <2>2 DEF Merges
<1>3. /\ Accounted /\ ~clean /\ bm.bad = Victim /\ bm.ret \in Returned /\ bm.bad \in Phys /\ bm.new \in Phys
      /\ bm.bad # None /\ bm.new # None
  BY <1>1, NotNone DEF AccInv, CleanQuiet, TypeInv, RecordsOK, BlocksNamed, BadJobs
<1>4. Split(free, bad, dataBlk, Log, Work, bm.new, {})
  BY <1>1, <1>3 DEF Accounted, Spare, Old
<1>5. CASE bm.ret = "datainfo"
  <2>1. Log = logBlk /\ Work = None /\ bm.bad = dataBlk
    BY <1>1, <1>3, <1>5 DEF Log, Work, Mode, Merges, Victim, VictimAt
  <2>2. Log' = logBlk /\ Work' = None /\ Spare' = None /\ Old' = {} /\ dataBlk' = bm.new
    BY <1>1, <1>5, RolesAtNext
  <2>3. Split(free', bad', dataBlk', Log', Work', Spare', Old')
    BY <1>1, <1>3, <1>4, <2>1, <2>2 DEF Split, Roles
  <2> QED BY <1>1, <1>3, <1>5, <2>3, AccReplaced
<1>6. CASE bm.ret \in {"loginfo", "program", "idle", "table"}
  <2>1. Log = logBlk /\ Work = None /\ bm.bad = logBlk
    BY <1>1, <1>3, <1>6 DEF Log, Work, Mode, Merges, Victim, VictimAt
  <2>2. Log' = bm.new /\ Work' = None /\ Spare' = None /\ Old' = {} /\ dataBlk' = dataBlk
    BY <1>1, <1>6, RolesAtNext
  <2>3. Split(free', bad', dataBlk', Log', Work', Spare', Old')
    BY <1>1, <1>3, <1>4, <2>1, <2>2 DEF Split, Roles
  <2> QED BY <1>1, <1>3, <1>6, <2>3, AccReplaced
<1>7. CASE bm.ret = "swap"
  <2>1. Log = None /\ Work = job.blk /\ bm.bad = job.blk
    BY <1>1, <1>3, <1>7 DEF Log, Work, Mode, Merges, Victim, VictimAt
  <2>2. Log' = None /\ Work' = bm.new /\ Spare' = None /\ Old' = {} /\ dataBlk' = dataBlk
    BY <1>1, <1>2, <1>7, RolesAtNext DEF Merges
  <2>3. /\ Phys \subseteq free \union bad \union ({dataBlk, job.blk, bm.new} \ {None}) /\ free \intersect bad = {}
        /\ ({dataBlk, job.blk, bm.new} \ {None}) \intersect (free \union bad) = {}
        /\ dataBlk \notin {None, job.blk, bm.new} /\ job.blk # bm.new
    BY <1>3, <1>4, <2>1 DEF Split, Roles
  <2>4. Split(free', bad', dataBlk', Log', Work', Spare', Old')
    BY <1>1, <1>3, <2>1, <2>2, <2>3 DEF Split, Roles
  <2> QED BY <1>1, <1>3, <1>7, <2>4, AccReplaced
<1>8. CASE bm.ret \in {"move", "simple"}
  <2>1. Log = logBlk /\ Work = job.blk /\ bm.bad = job.blk
    BY <1>1, <1>3, <1>8 DEF Log, Work, Mode, Merges, Victim, VictimAt
  <2>2. Log' = logBlk /\ Work' = bm.new /\ Spare' = None /\ Old' = {} /\ dataBlk' = dataBlk
    BY <1>1, <1>2, <1>8, RolesAtNext DEF Merges
  <2>3. dataBlk # None
    BY <1>1 DEF TypeInv, BlocksNamed
  <2>4. Split(free', bad', dataBlk', Log', Work', Spare', Old')
    BY <1>1, <1>3, <1>4, <2>1, <2>2, <2>3 DEF Split, Roles
  <2> QED BY <1>1, <1>3, <1>8, <2>4, AccReplaced
<1> QED BY <1>3, <1>5, <1>6, <1>7, <1>8 DEF Returned

LEMMA AccPowerCut == ASSUME TypeInv, AccInv, PowerCut PROVE AccInv'
<1>1. /\ pc' = "off" /\ pc # "off" /\ flight' = {} /\ count' = [count EXCEPT !.cuts = @ + 1]
      /\ UNCHANGED <<bad, dataBlk, logBlk, mapDirty, free, clean>>
  BY DEF PowerCut, tables
<1>2. count'.load = count.load /\ count'.fails = count.fails
  BY <1>1 DEF TypeInv, RecordsOK, Counts
<1>3. clean => Accounted'
  <2> HAVE clean
  <2>1. pc = "idle" /\ Accounted
    BY <1>1 DEF AccInv, CleanQuiet
  <2>2. Log' = Log /\ Work' = Work /\ Spare' = Spare /\ Old' = Old
    BY <1>1, <2>1, RolesAt, RolesAtNext
  <2> QED BY <1>1, <2>1, <2>2 DEF Accounted
<1>4. Budget'
  <2> DEFINE n == Cardinality(bad)
             k == Cardinality(count.load.bad)
  <2>1. n \in Nat /\ k \in Nat /\ count.fails \in Nat
    BY BlockCount
  <2>2. n + (IF pc = "restore" THEN 1 ELSE 0) <= k + count.fails /\ count.fails <= count.load.fails
    BY DEF AccInv, Budget
  <2>3. n + 0 <= k + count.fails
    <3> HIDE DEF n, k
    <3> QED BY <2>1, <2>2
  <2> QED BY <1>1, <1>2, <2>2, <2>3 DEF Budget
<1> QED BY <1>1, <1>3, <1>4 DEF AccInv, CleanQuiet

LEMMA AccLoadTables == ASSUME TypeInv, AccInv, LoadTables PROVE AccInv'
<1>1. /\ pc = "off" /\ clean /\ mapDirty' = FALSE /\ pc' = "idle"
      /\ UNCHANGED <<bad, dataBlk, logBlk, free, clean, flight, count>>
  BY DEF LoadTables
<1>2. \A f \in flight' : ~f.user
  BY <1>1 DEF AccInv, CleanQuiet
<1> QED BY <1>1, <1>2, RolesAt, RolesAtNext, AccKeep

LEMMA AccStartScan == ASSUME TypeInv, AccInv, StartScan PROVE AccInv'
<1>1. /\ pc = "off" /\ ~clean /\ pc' = "scan" /\ dataBlk' = None /\ logBlk' = None /\ job' = NoJob
      /\ UNCHANGED <<flash, bad, clean, flight, count>>
  BY DEF StartScan
<1>2. job'.p = 0 /\ \A b \in Phys : ~(b < 0)
  BY <1>1 DEF NoJob, Phys
<1>3. ScanFound'
  BY <1>1, <1>2 DEF ScanFound
<1> QED BY <1>1, <1>3 DEF AccInv, CleanQuiet, Budget

\* What the scan settles on when it sees the block n.
LEMMA ScanSeen ==
    ASSUME NEW n \in Phys, job.p = n, job'.p = n + 1, bad' = bad, ScanFound,
           dataBlk \in Phys \union {None}, logBlk \in Phys \union {None}, flash \in Blocks, n \notin bad, flash[n][0].info,
           NEW r, dataBlk' = r.data, logBlk' = r.log,
           flash' = IF r.loser = None THEN flash ELSE [flash EXCEPT ![r.loser] = ErasedBlock],
           \/ dataBlk = None /\ r = [data |-> n, log |-> None, loser |-> None]
           \/ /\ dataBlk # None
              /\ r \in {[data |-> n, log |-> logBlk, loser |-> dataBlk], [data |-> dataBlk, log |-> logBlk, loser |-> n],
                        [data |-> dataBlk, log |-> n, loser |-> logBlk], [data |-> n, log |-> dataBlk, loser |-> logBlk]}
           \/ dataBlk # None /\ logBlk = None /\ r = [data |-> dataBlk, log |-> n, loser |-> None]
    PROVE  ScanFound'
<1> DEFINE d == dataBlk
           l == logBlk
<1>1. n # None /\ n \in Nat /\ Phys \subseteq Nat
  BY NotNone DEF Phys
<1>2. /\ d = None => l = None
      /\ d # None => d # l
      /\ d # None => d \in Phys /\ d < n /\ d \notin bad /\ flash[d][0].info
      /\ l # None => l \in Phys /\ l < n /\ l \notin bad /\ flash[l][0].info
      /\ \A b \in Phys : b < n /\ b \notin bad /\ flash[b][0].info => b \in {d, l}
  BY DEF ScanFound
<1>3. ErasedBlock[0].info = FALSE
  BY Geometry DEF ErasedBlock, Erased
<1>4. ASSUME NEW x \in Phys, flash' = [flash EXCEPT ![x] = ErasedBlock]
      PROVE  ~flash'[x][0].info /\ \A b \in Phys : b # x => flash'[b] = flash[b]
  BY <1>3, <1>4 DEF Blocks
<1>5. (d # None => d # n) /\ (l # None => l # n)
  BY <1>1, <1>2
<1>6. \A b \in Phys : b < n + 1 => b < n \/ b = n
  BY <1>1
<1>7. \A b \in Phys : b < n => b < n + 1
  BY <1>1
<1>8. n < n + 1
  BY <1>1
<1>9. CASE r.loser = None
  <2>1. flash' = flash
    BY <1>9
  <2>2. CASE d = None /\ dataBlk' = n /\ logBlk' = None
    BY <1>1, <1>2, <1>6, <1>8, <2>1, <2>2 DEF ScanFound
  <2>3. ASSUME d # None, l = None, NEW x, NEW y, dataBlk' = x, logBlk' = y, {x, y} = {d, n}, x # y
        PROVE  ScanFound'
    <3>1. x # None /\ y # None
      BY <1>1, <2>3
    <3>2. \A b \in {x, y} : b < n + 1 /\ b \notin bad' /\ flash'[b][0].info
      BY <1>2, <1>7, <1>8, <2>1, <2>3
    <3>3. \A b \in Phys : b < n + 1 /\ b \notin bad' /\ flash'[b][0].info => b \in {x, y}
      BY <1>2, <1>6, <2>1, <2>3, NotNone
    <3> QED BY <2>3, <3>1, <3>2, <3>3 DEF ScanFound
  <2>4. /\ d # None /\ l = None /\ dataBlk' = d /\ logBlk' = n => ScanFound'
        /\ d # None /\ l = None /\ dataBlk' = n /\ logBlk' = d => ScanFound'
    BY <1>5, <2>3
  <2> QED BY <1>1, <1>9, <2>2, <2>4
<1>10. CASE r.loser # None
  <2>1. /\ d # None
        /\ \/ dataBlk' = n /\ logBlk' = l /\ r.loser = d
           \/ dataBlk' = d /\ logBlk' = l /\ r.loser = n
           \/ dataBlk' = d /\ logBlk' = n /\ r.loser = l
           \/ dataBlk' = n /\ logBlk' = d /\ r.loser = l
    BY <1>10
  <2>2. flash' = [flash EXCEPT ![r.loser] = ErasedBlock] /\ r.loser \in Phys
    BY <1>2, <1>10, <2>1
  <2> PICK x \in Phys : x = r.loser
    BY <2>2
  <2>3. ~flash'[x][0].info /\ \A b \in Phys : b # x => flash'[b] = flash[b]
    BY <1>4, <2>2
  <2>4. CASE dataBlk' = n /\ logBlk' = l /\ x = d
    BY <1>1, <1>2, <1>5, <1>6, <1>7, <1>8, <2>1, <2>3, <2>4 DEF ScanFound
  <2>5. CASE dataBlk' = d /\ logBlk' = l /\ x = n
    BY <1>1, <1>2, <1>5, <1>6, <1>7, <1>8, <2>1, <2>3, <2>5 DEF ScanFound
  <2>6. CASE dataBlk' = d /\ logBlk' = n /\ x = l
    BY <1>1, <1>2, <1>5, <1>6, <1>7, <1>8, <2>1, <2>3, <2>6 DEF ScanFound
  <2>7. CASE dataBlk' = n /\ logBlk' = d /\ x = l
    BY <1>1, <1>2, <1>5, <1>6, <1>7, <1>8, <2>1, <2>3, <2>7 DEF ScanFound
  <2> QED BY <2>1, <2>4, <2>5, <2>6, <2>7
<1> QED BY <1>9, <1>10

LEMMA AccScanBlk == ASSUME TypeInv, AccInv, MaxEraseFails = 0, ScanBlk PROVE AccInv'
<1>1. /\ pc = "scan" /\ job.p < BLOCKS /\ job' = [job EXCEPT !.p = @ + 1] /\ UNCHANGED <<clean, pc, flight>>
  BY DEF ScanBlk
<1>2. job \in Jobs /\ job.p \in Nat /\ job.p \in Phys /\ ~clean /\ ScanFound
  BY <1>1, BlocksAssumption DEF TypeInv, RecordsOK, BlocksNamed, PagesNamed, Phys, AccInv
<1>3. job'.p = job.p + 1
  BY <1>1, <1>2 DEF Jobs
<1>4. ScanFound' /\ UNCHANGED <<bad, count>>
  <2>1. CASE Scanned(flash, job.p)
    <3> DEFINE r == FillBlkToZoneTbl(flash, [data |-> dataBlk, log |-> logBlk], job.p)
    <3>1. /\ dataBlk' = r.data /\ logBlk' = r.log /\ UNCHANGED <<bad, count>>
          /\ flash' = IF r.loser = None THEN flash ELSE [flash EXCEPT ![r.loser] = ErasedBlock]
      BY <2>1, NoEraseFails, Zenon DEF ScanBlk
    <3>2. \/ dataBlk = None /\ r = [data |-> job.p, log |-> None, loser |-> None]
          \/ /\ dataBlk # None
             /\ r \in {[data |-> job.p, log |-> logBlk, loser |-> dataBlk], [data |-> dataBlk, log |-> logBlk, loser |-> job.p],
                       [data |-> dataBlk, log |-> job.p, loser |-> logBlk], [data |-> job.p, log |-> dataBlk, loser |-> logBlk]}
          \/ dataBlk # None /\ logBlk = None /\ r = [data |-> dataBlk, log |-> job.p, loser |-> None]
      BY FillOK
    <3>3. job.p \notin bad /\ flash[job.p][0].info
      BY <2>1 DEF Scanned
    <3> HIDE DEF r
    <3> QED BY <1>2, <1>3, <3>1, <3>2, <3>3, ScanSeen, Typed DEF TypeInv
  <2>2. CASE ~Scanned(flash, job.p)
    <3>1. UNCHANGED <<dataBlk, logBlk, flash, bad, count>>
      BY <2>2 DEF ScanBlk
    <3>2. \A b \in Phys : (b < job'.p <=> b < job.p \/ b = job.p)
      BY <1>2, <1>3 DEF Phys
    <3>3. dataBlk \in Phys \union {None} /\ logBlk \in Phys \union {None}
      BY Typed DEF TypeInv
    <3> QED BY <1>2, <2>2, <3>1, <3>2, <3>3 DEF ScanFound, Scanned
  <2> QED BY <2>1, <2>2
<1> QED BY <1>1, <1>2, <1>4 DEF AccInv, CleanQuiet, Budget

LEMMA AccScanDone == ASSUME TypeInv, AccInv, ScanDone PROVE AccInv'
<1> DEFINE blank == {b \in Phys : b \notin bad /\ ~flash[b][0].info}
<1>1. /\ pc = "scan" /\ job.p = BLOCKS /\ pc' = "idle" /\ mapDirty' = FALSE
      /\ UNCHANGED <<bad, logBlk, flight, count>>
  BY DEF ScanDone
<1>2. PICK d \in IF dataBlk = None THEN blank ELSE {dataBlk} : dataBlk' = d /\ free' = blank \ {d}
  BY DEF ScanDone
<1>3. /\ dataBlk = None => logBlk = None
      /\ dataBlk # None => dataBlk # logBlk
      /\ \A b \in {dataBlk, logBlk} \ {None} : b \notin bad /\ flash[b][0].info
      /\ \A b \in Phys : b \notin bad /\ flash[b][0].info => b \in {dataBlk, logBlk}
  <2>1. \A b \in Phys : b < job.p
    BY <1>1, BlocksAssumption DEF Phys
  <2> QED BY <1>1, <2>1 DEF AccInv, ScanFound
<1>4. d # None /\ d \in Phys
  BY <1>2, Typed, NotNone DEF TypeInv
<1>5. Log' = logBlk /\ Work' = None /\ Spare' = None /\ Old' = {}
  BY <1>1, RolesAtNext
<1>6. Split(free', bad', dataBlk', Log', Work', Spare', Old')
  <2>1. bad \subseteq Phys /\ logBlk \in Phys \union {None}
    BY Typed DEF TypeInv
  <2>2. d # logBlk /\ d \notin bad /\ (logBlk # None => logBlk \notin bad /\ flash[logBlk][0].info)
    BY <1>2, <1>3, <1>4
  <2>3. Phys \subseteq (blank \ {d}) \union bad \union ({d, logBlk} \ {None})
    <3> SUFFICES ASSUME NEW b \in Phys, b \notin bad, b # d, flash[b][0].info
                 PROVE  b = logBlk /\ b # None
      BY <1>4
    <3> QED BY <1>2, <1>3, NotNone
  <2>4. Split(blank \ {d}, bad, d, logBlk, None, None, {})
    BY <1>4, <2>2, <2>3 DEF Split, Roles
  <2> QED BY <1>1, <1>2, <1>5, <2>4
<1>7. Accounted'
  BY <1>1, <1>6 DEF Accounted
<1>8. flight' = {}
  BY <1>1 DEF AccInv, CleanQuiet
<1> QED BY <1>1, <1>7, <1>8 DEF AccInv, CleanQuiet, Budget

LEMMA AccNext == ASSUME TypeInv, AccInv, EnoughSpares, MaxEraseFails = 0, [Next]_vars PROVE AccInv'
<1>1. CASE UNCHANGED vars
  <2>1. UNCHANGED <<flash, bad, dataBlk, logBlk, mapDirty, free, clean, pc, job, bm, flight, count>>
    BY <1>1 DEF vars, tables
  <2>2. Mode' = Mode /\ Log' = Log /\ Work' = Work /\ Spare' = Spare /\ Old' = Old /\ Victim' = Victim
    BY <2>1 DEF Mode, Log, Work, Spare, Old, Victim, VictimAt
  <2>3. (Accounted => Accounted') /\ (ScanFound => ScanFound')
    BY <2>1, <2>2 DEF Accounted, ScanFound
  <2> QED BY <2>1, <2>2, <2>3 DEF AccInv, CleanQuiet, Budget
<1>2. CASE Call
  <2>1. LML_PageRead => AccInv'
    BY AccSwitch DEF LML_PageRead
  <2> QED BY <1>2, <2>1, AccPageWrite, AccCloseWritePage, AccEvictPageMap, AccMergeOldest, AccWriteBackMapTbl DEF Call
<1>3. CASE Step
  <2>1. SwitchForWrite => AccInv'
    BY AccSwitch DEF SwitchForWrite
  <2>2. ~WriteFails
    BY DEF AccInv, WriteFails
  <2> QED BY <1>3, <2>1, <2>2, AccCreateNewLogBlk, AccNoFreeBlk, AccWriteDataInfo, AccGetLogPage, AccWriteLogInfo,
             AccProgramPage, AccSyncFails, AccWritePageMapTbl, AccMergeLogBlk,
             AccSwapCopy, AccSwapDone, AccMovePage0, AccMoveCopy, AccMoveDone, AccSimpleCopy,
             AccSimpleDone, AccEraseBlk, AccMergeDone, AccRestorePageData, AccRestoreFails,
             AccMarkBadBlk, AccLoadTables, AccStartScan, AccScanBlk, AccScanDone DEF Step
<1> QED BY <1>1, <1>2, <1>3, AccPowerCut DEF Next

LEMMA AccIdle == ASSUME TypeInv, AccInv PROVE BlocksAccounted
<1> SUFFICES ASSUME pc = "idle"
             PROVE  /\ Phys = free \union bad \union {dataBlk} \union ({logBlk} \ {None})
                    /\ free \intersect bad = {}
                    /\ dataBlk # logBlk
                    /\ {dataBlk, logBlk} \intersect (free \union bad) = {}
  BY DEF BlocksAccounted
<1>1. Split(free, bad, dataBlk, logBlk, None, None, {})
  BY RolesAt DEF AccInv, Accounted
<1>2. /\ dataBlk \in Phys /\ logBlk \in Phys \union {None} /\ free \subseteq Phys /\ bad \subseteq Phys /\ None \notin Phys
  BY Typed, NotNone DEF TypeInv, BlocksNamed
<1> QED BY <1>1, <1>2 DEF Split, Roles

-----------------------------------------------------------------------------
(* The theorems.                                                            *)

\* Between two calls every physical block is the data block, the log block, free or bad,
\* and nothing else: whatever programs fail in whatever order, wherever the power is cut
\* (the scan of _FillZoneTblInfo included), and whichever merges run, as long as the
\* blocks outnumber the failures and every erase succeeds.  (A block that cannot be
\* erased is flagged as bad and put into the free block table: LML_VirtualBlkErase.)
THEOREM NoBlockLost == ASSUME EnoughSpares, MaxEraseFails = 0 PROVE Spec => []BlocksAccounted
<1>1. ASSUME TypeInv, AccInv, [Next]_vars PROVE TypeInv' /\ AccInv'
  BY <1>1, TypesNext, AccNext
<1>2. Init => TypeInv /\ AccInv
  BY TypesInit, AccInit
<1>3. TypeInv /\ AccInv => BlocksAccounted
  BY AccIdle
<1> QED BY <1>1, <1>2, <1>3, PTL DEF Spec

\* No write, merge or replacement of a bad block gives up for want of a free block
\* ("look for free block failed": _CreateNewLogBlk, LML_MergeLogBlk, LML_BadBlkManage):
\* three blocks beside the bad ones are enough.
THEOREM NoWriteRefused == ASSUME EnoughSpares, MaxEraseFails = 0 PROVE Spec => [](pc # "fail")
<1>1. ASSUME TypeInv, AccInv, [Next]_vars PROVE TypeInv' /\ AccInv'
  BY <1>1, TypesNext, AccNext
<1>2. Init => TypeInv /\ AccInv
  BY TypesInit, AccInit
<1>3. AccInv => pc # "fail"
  BY DEF AccInv
<1> QED BY <1>1, <1>2, <1>3, PTL DEF Spec

-----------------------------------------------------------------------------
(***************************************************************************)
(* A block that the driver takes for a free one is erased, also after a    *)
(* power cut, when the rebuild calls every block free whose page 0 has no  *)
(* logical information.                                                    *)
(***************************************************************************)

\* An erase leaves nothing half done: a block erased in some of its banks only may have
\* lost the logical information of page 0 and still hold pages.
ErasesWhole == "erase" \notin Torn \/ BANKS = 1

-----------------------------------------------------------------------------
(* The inductive invariant.  Page 0 is the first page of a block to be      *)
(* programmed, and its program has ended before any other one of the block  *)
(* that a power cut could leave.                                            *)

Known == pc \notin {"off", "scan"} \/ clean

\* A block without logical information in page 0 holds nothing.
Blank == \A b \in Phys \ bad : flash[b][0].info \/ flash[b] = ErasedBlock
FreeErased == Known => \A b \in free : flash[b] = ErasedBlock

\* A program of page 0 that may not have ended: neither have the others of its block.
FlightFree == \A f \in flight : f.b \notin free
Page0First ==
    \A f \in flight : f.p = 0 =>
        \A q \in Pages \ {0} : flash[f.b][q] = Erased \/ \E g \in flight : g.b = f.b /\ g.p = q /\ StartedAfter(g, f)
Stored == Blank /\ FreeErased /\ FlightFree /\ Page0First

FlightEnds ==
    /\ pc = "idle" => \A f \in flight : f.user \/ f.p # 0
    /\ pc = "erase" /\ job.toErase = <<>> => flight = {}

\* The log block and its data block, before and after page 0 of the log block is programmed.
FreshLog == lastUsed = None \/ (Mode = "program" /\ lastUsed = 0)
LogInfo ==
    /\ Known /\ logBlk # None /\ Mode # "erase" =>
         /\ IF FreshLog THEN flash[logBlk] = ErasedBlock ELSE flash[logBlk][0].info
         /\ Mode # "datainfo" => flash[dataBlk][0].info
         /\ Mode \notin {"datainfo", "getlog", "loginfo"} => lastUsed # None
    /\ Mode = "loginfo" => lastUsed = None /\ NextLogPage(lastUsed, req.lp) # 0

\* The block a merge fills, from page 0 on.
Begun(b, yes) == IF yes THEN flash[b][0].info ELSE flash[b] = ErasedBlock
MergeInfo ==
    /\ Mode = "swap" => job.p > 0
    /\ Mode \in {"swap", "simple"} => Begun(job.blk, job.p > 0)
    /\ Mode = "move" => Begun(job.blk, job.dst # None)
    /\ pc = "move" => /\ job.dst = None => job.p = -1
                      /\ job.dst # None /\ job.p = -1 => MoveNext = None \/ MoveNext % BANKS # 0
    /\ pc = "erase" /\ job.kind = "move" => flash[job.blk][0].info /\ flash[dataBlk][0].info

\* The block that takes the place of a bad one, and the pages that are copied to it.
Copied(ret) == CASE ret = "program" -> lastUsed
                 [] ret \in {"idle", "table"} -> lastUsed + 1
                 [] ret \in {"swap", "simple"} -> job.p
                 [] OTHER -> 0
RestoreInfo ==
    pc = "restore" => /\ bm.n = Copied(bm.ret)
                      /\ bm.n > 0 => flash[bm.bad][0].info
                      /\ Begun(bm.new, bm.p > 0)

UseInv == Stored /\ FlightEnds /\ LogInfo /\ MergeInfo /\ RestoreInfo

\* No block loses the information of its page 0, and those of S do not lose their erased state.
InfoStays == \A c \in Phys : flash[c][0].info => flash'[c][0].info
ErasedStays(S) == \A c \in S : flash[c] = ErasedBlock => flash'[c] = ErasedBlock

-----------------------------------------------------------------------------
(* Programs.                                                                *)

LEMMA StartedLater ==
    ASSUME NEW f \in [b : Phys, p : Pages, user : BOOLEAN], NEW g \in [b : Phys, p : Pages, user : BOOLEAN],
           NEW h \in [b : Phys, p : Pages, user : BOOLEAN], StartedAfter(h, g), StartedAfter(g, f)
    PROVE  StartedAfter(h, f)
<1>1. f.p \in Int /\ g.p \in Int /\ h.p \in Int /\ f.user \in BOOLEAN /\ g.user \in BOOLEAN /\ h.user \in BOOLEAN
  BY DEF Pages
<1> QED BY <1>1 DEF StartedAfter

\* A page of an erased block is erased.
LEMMA ErasedPage == \A q \in Pages : ErasedBlock[q] = Erased /\ ~Erased.info
BY DEF ErasedBlock, Erased

\* A program starts page 0 of an erased block with logical information, or goes on in
\* a block that has it; b is not a free block.
LEMMA ProgramKeeps ==
    ASSUME TypeInv, Stored, Known', NEW b \in Phys, NEW p \in Pages, NEW content \in Page, NEW u \in BOOLEAN,
           b \notin free, free' \subseteq free, UNCHANGED bad,
           flash' = Programmed(b, p, content),
           flight' = OtherBanks(p) \union {[b |-> b, p |-> p, user |-> u]},
           p = 0 => content.info /\ flash[b] = ErasedBlock,
           p # 0 => flash[b][0].info,
           Known
    PROVE  /\ Stored' /\ InfoStays /\ ErasedStays(Phys \ {b}) /\ flash'[b][0].info
           /\ \A f \in flight' : f.user \/ f = [b |-> b, p |-> p, user |-> u]
<1> DEFINE new == [b |-> b, p |-> p, user |-> u]
<1>1. flash \in Blocks /\ flight \in Flights /\ new \in [b : Phys, p : Pages, user : BOOLEAN]
  BY Typed DEF TypeInv
<1>2. PICK x \in Page : x = IF flash[b][p] = Erased THEN content ELSE [content EXCEPT !.val = Junk]
  BY DEF Page
<1>3. flash' = [flash EXCEPT ![b][p] = x]
  BY <1>1, <1>2 DEF Programmed, Blocks
<1>4. /\ \A c \in Phys \ {b} : flash'[c] = flash[c]
      /\ \A q \in Pages \ {p} : flash'[b][q] = flash[b][q]
      /\ flash'[b][p] = x
  BY <1>1, <1>3 DEF Blocks
<1>5. flash'[b][0].info
  <2>1. CASE p = 0
    BY <1>2, <1>4, <2>1, ErasedPage, Geometry
  <2>2. CASE p # 0
    BY <1>4, <2>2, Geometry
  <2> QED BY <2>1, <2>2
<1>6. InfoStays /\ ErasedStays(Phys \ {b})
  BY <1>4, <1>5 DEF InfoStays, ErasedStays
<1>7. /\ \A f \in OtherBanks(p) : f \in flight /\ f.user /\ f.p % BANKS # p % BANKS
      /\ \A f \in OtherBanks(p), g \in flight : StartedAfter(g, f) => g \in OtherBanks(p)
  <2> DEFINE waited == {g \in flight : ~g.user \/ g.p % BANKS = p % BANKS}
  <2>1. OtherBanks(p) = {f \in flight \ waited : \A g \in waited : ~StartedAfter(g, f)}
    BY DEF OtherBanks
  <2>2. ASSUME NEW f \in OtherBanks(p), NEW g \in flight, StartedAfter(g, f)
        PROVE  g \in OtherBanks(p)
    <3>1. f \in flight /\ g \notin waited
      BY <2>1, <2>2
    <3>2. \A h \in waited : ~StartedAfter(h, g)
      <4> SUFFICES ASSUME NEW h \in waited, StartedAfter(h, g)
                   PROVE  FALSE
        OBVIOUS
      <4>1. StartedAfter(h, f)
        BY <1>1, <2>2, <3>1, StartedLater DEF Flights
      <4> QED BY <2>1, <4>1
    <3> HIDE DEF waited
    <3> QED BY <2>1, <3>1, <3>2
  <2>3. \A f \in OtherBanks(p) : f \in flight /\ f.user /\ f.p % BANKS # p % BANKS
    BY <2>1
  <2> QED BY <2>2, <2>3
<1>8. \A f \in flight' : f.user \/ f = new
  BY <1>7
<1>9. Blank' /\ FreeErased' /\ FlightFree'
  <2>1. free \subseteq Phys
    BY Typed DEF TypeInv
  <2>2. Blank'
    BY <1>4, <1>5 DEF Stored, Blank
  <2>3. FreeErased'
    BY <1>4, <2>1 DEF Stored, FreeErased
  <2>4. FlightFree'
    BY <1>7 DEF Stored, FlightFree
  <2> QED BY <2>2, <2>3, <2>4
<1>10. Page0First'
  <2> SUFFICES ASSUME NEW f \in flight', f.p = 0, NEW q \in Pages \ {0}, flash'[f.b][q] # Erased
               PROVE  \E g \in flight' : g.b = f.b /\ g.p = q /\ StartedAfter(g, f)
    BY DEF Page0First
  <2>1. CASE f = new
    BY <1>4, <2>1, ErasedPage
  <2>2. CASE f \in OtherBanks(p)
    <3>1. f \in flight /\ f.user /\ p # 0 /\ f.b \in Phys
      BY <1>1, <1>7, <2>2 DEF Flights
    <3>2. CASE f.b = b /\ q = p
      <4>1. StartedAfter(new, f)
        BY <3>1, <3>2 DEF StartedAfter, Pages
      <4> QED BY <3>2, <4>1
    <3>3. CASE ~(f.b = b /\ q = p)
      <4>1. flash[f.b][q] # Erased
        BY <1>4, <3>1, <3>3
      <4>2. PICK g \in flight : g.b = f.b /\ g.p = q /\ StartedAfter(g, f)
        BY <3>1, <4>1 DEF Stored, Page0First
      <4> QED BY <1>7, <2>2, <4>2
    <3> QED BY <3>2, <3>3
  <2> QED BY <2>1, <2>2
<1> QED BY <1>5, <1>6, <1>8, <1>9, <1>10 DEF Stored

\* A program of the write path that failed.
LEMMA RuinKeeps ==
    ASSUME TypeInv, Stored, Known, NEW f \in flight, f.user, Ruin(f), free' \subseteq free, UNCHANGED bad
    PROVE  Stored' /\ InfoStays /\ ErasedStays(Phys)
<1>1. flash \in Blocks /\ flight \in Flights
  BY Typed DEF TypeInv
<1>2. f.b \in Phys /\ f.p \in Pages /\ f.user \in BOOLEAN
  BY <1>1 DEF Flights
<1> PICK b \in Phys : b = f.b
  BY <1>2
<1> PICK p \in Pages : p = f.p
  BY <1>2
<1>3. flash' = [flash EXCEPT ![b][p].val = Junk] /\ flight' = {g \in flight \ {f} : ~StartedAfter(f, g)}
  BY DEF Ruin
<1>4. PICK x : x = [flash[b][p] EXCEPT !.val = Junk]
  OBVIOUS
<1>5. /\ \A c \in Phys \ {b} : flash'[c] = flash[c]
      /\ \A q \in Pages \ {p} : flash'[b][q] = flash[b][q]
      /\ flash'[b][p] = x /\ flash'[b] = [flash[b] EXCEPT ![p] = x]
  BY <1>1, <1>3, <1>4 DEF Blocks
<1>6. flash[b][p] \in Page
  BY <1>1 DEF Blocks
<1>7. x.info = flash[b][p].info /\ (flash[b][p] = Erased => x = Erased)
  BY <1>4, <1>6 DEF Page, Erased
<1>8. /\ \A c \in Phys : flash'[c][0].info = flash[c][0].info
      /\ \A c \in Phys, q \in Pages : flash[c][q] = Erased => flash'[c][q] = Erased
  <2>1. \A c \in Phys, q \in Pages : flash'[c][q] = flash[c][q] \/ (c = b /\ q = p)
    BY <1>5
  <2>2. \A c \in Phys, q \in Pages : flash'[c][q].info = flash[c][q].info
    BY <1>5, <1>7, <2>1
  <2>3. \A c \in Phys : flash'[c][0].info = flash[c][0].info
    BY <2>2, Geometry
  <2>4. \A c \in Phys, q \in Pages : flash[c][q] = Erased => flash'[c][q] = Erased
    <3> SUFFICES ASSUME NEW c \in Phys, NEW q \in Pages, flash[c][q] = Erased
                 PROVE  flash'[c][q] = Erased
      OBVIOUS
    <3> QED BY <1>5, <1>7, <2>1
  <2> QED BY <2>3, <2>4
<1>9. ErasedStays(Phys)
  <2> SUFFICES ASSUME flash[b] = ErasedBlock
               PROVE  flash'[b] = ErasedBlock
    BY <1>5 DEF ErasedStays
  <2>1. x = Erased
    BY <1>7, ErasedPage
  <2> QED BY <1>5, <2>1, ErasedPage DEF ErasedBlock
<1>10. InfoStays
  BY <1>8 DEF InfoStays
<1>11. Blank' /\ FreeErased' /\ FlightFree'
  BY <1>1, <1>3, <1>8, <1>9, Typed DEF TypeInv, Stored, Blank, FreeErased, FlightFree, ErasedStays
<1>12. Page0First'
  <2> SUFFICES ASSUME NEW g \in flight', g.p = 0, NEW q \in Pages \ {0}, flash'[g.b][q] # Erased
               PROVE  \E h \in flight' : h.b = g.b /\ h.p = q /\ StartedAfter(h, g)
    BY DEF Page0First
  <2>1. g \in flight /\ g.b \in Phys /\ ~StartedAfter(f, g)
    BY <1>1, <1>3 DEF Flights
  <2>2. PICK h \in flight : h.b = g.b /\ h.p = q /\ StartedAfter(h, g)
    BY <1>8, <2>1 DEF Stored, Page0First
  <2>3. ~StartedAfter(f, h)
    BY <1>1, <2>1, <2>2, StartedLater DEF Flights
  <2> QED BY <1>3, <2>1, <2>2, <2>3
<1> QED BY <1>9, <1>10, <1>11, <1>12 DEF Stored

-----------------------------------------------------------------------------
(* What the steps have in common.                                           *)

LEMMA StoredSame ==
    ASSUME Stored, UNCHANGED <<flash, bad>>, free' \subseteq free, flight' \in {flight, {}}, Known' => Known
    PROVE  Stored' /\ InfoStays /\ ErasedStays(Phys)
BY DEF Stored, Blank, FreeErased, FlightFree, Page0First, InfoStays, ErasedStays

\* The log block and the data block keep their places.
LEMMA LogKeep ==
    ASSUME TypeInv, LogInfo, Known, InfoStays, UNCHANGED <<dataBlk, logBlk, lastUsed>>, Mode # "erase",
           \/ Mode' = Mode /\ req' = req
           \/ Mode \notin {"datainfo", "getlog", "loginfo", "program"} /\ Mode' \notin {"loginfo", "program"},
           FreshLog /\ logBlk # None => ErasedStays({logBlk})
    PROVE  LogInfo'
<1>1. logBlk # None => logBlk \in Phys
  BY Typed DEF TypeInv
<1>2. dataBlk \in Phys
  BY Typed DEF TypeInv, BlocksNamed, Known
<1>3. CASE Mode' = Mode /\ req' = req
  <2>1. FreshLog' = FreshLog
    BY <1>3 DEF FreshLog
  <2> QED BY <1>1, <1>2, <1>3, <2>1 DEF LogInfo, InfoStays, ErasedStays
<1>4. CASE Mode \notin {"datainfo", "getlog", "loginfo", "program"} /\ Mode' \notin {"loginfo", "program"}
  <2>1. logBlk # None => lastUsed # None /\ ~FreshLog /\ ~FreshLog' /\ flash[logBlk][0].info /\ flash[dataBlk][0].info
    BY <1>4 DEF LogInfo, FreshLog
  <2> QED BY <1>1, <1>2, <1>4, <2>1 DEF LogInfo, InfoStays
<1> QED BY <1>3, <1>4

\* A step of control outside a merge.
LEMMA UseKeep ==
    ASSUME TypeInv, UseInv, Known,
           UNCHANGED <<flash, bad, dataBlk, logBlk, lastUsed, free>>, flight' \in {flight, {}},
           pc \notin Merges \union {"restore", "erase"}, pc' \notin Merges \union {"restore", "erase"},
           pc' = "idle" => pc = "idle" \/ flight' = {},
           \/ pc' = pc /\ req' = req
           \/ pc \notin {"datainfo", "getlog", "loginfo", "program"} /\ pc' \notin {"loginfo", "program"}
    PROVE  UseInv'
<1>1. Stored' /\ InfoStays /\ ErasedStays(Phys)
  BY StoredSame DEF UseInv
<1>2. Mode = pc /\ Mode' = pc'
  BY DEF Mode
<1>3. logBlk # None => ErasedStays({logBlk})
  BY <1>1, Typed DEF TypeInv, ErasedStays
<1>4. LogInfo'
  BY <1>1, <1>2, <1>3, LogKeep DEF UseInv
<1>5. FlightEnds'
  BY DEF UseInv, FlightEnds
<1>6. MergeInfo' /\ RestoreInfo'
  BY <1>2 DEF MergeInfo, RestoreInfo, Merges
<1> QED BY <1>1, <1>4, <1>5, <1>6 DEF UseInv

\* A program fails: a free block takes the first n pages of the bad one.
LEMMA UseSpare ==
    ASSUME TypeInv, AccInv, UseInv, TypeInv', AccInv', pc \in Returned, ~clean,
           LML_BadBlkManage(VictimAt(pc), Copied(pc), pc),
           UNCHANGED <<bad, dataBlk, logBlk, lastUsed, req>>,
           UNCHANGED <<flash, flight>> \/ \E f \in flight : f.user /\ Ruin(f),
           Copied(pc) # 0 => flash[VictimAt(pc)][0].info
    PROVE  UseInv'
<1>1. PICK new \in free : /\ free' = free \ {new} /\ pc' = "restore" /\ job' = job
                          /\ bm' = [bad |-> VictimAt(pc), n |-> Copied(pc), new |-> new, p |-> 0, ret |-> pc]
  BY DEF LML_BadBlkManage, GiveUp, AccInv
<1>2. pc \notin {"off", "scan", "erase", "restore"} /\ Known
  BY DEF Returned, Known
<1>3. Stored' /\ InfoStays /\ ErasedStays(Phys)
  <2>1. free' \subseteq free
    BY <1>1
  <2>2. CASE UNCHANGED <<flash, flight>>
    BY <1>2, <2>1, <2>2, StoredSame DEF UseInv
  <2>3. CASE \E f \in flight : f.user /\ Ruin(f)
    <3>1. PICK f \in flight : f.user /\ Ruin(f)
      BY <2>3
    <3> QED BY <1>2, <2>1, <3>1, RuinKeeps DEF UseInv
  <2> QED BY <2>2, <2>3
<1>4. bm'.bad = VictimAt(pc) /\ bm'.n = Copied(pc) /\ bm'.new = new /\ bm'.p = 0 /\ bm'.ret = pc
  BY <1>1
<1>5. Mode = pc /\ Mode' = pc
  BY <1>1, <1>2, <1>4 DEF Mode
<1>6. LogInfo'
  <2>1. logBlk # None => ErasedStays({logBlk})
    BY <1>3, Typed DEF TypeInv, ErasedStays
  <2> QED BY <1>2, <1>3, <1>5, <2>1, LogKeep DEF UseInv
<1>7. FlightEnds'
  BY <1>1 DEF FlightEnds
<1>8. MergeInfo'
  <2>1. pc \in Merges => job.blk \in Phys
    BY <1>5 DEF TypeInv, RecordsOK, Jobs, BlocksNamed
  <2> QED BY <1>1, <1>3, <1>5, <2>1 DEF UseInv, MergeInfo, Merges, Begun, InfoStays, ErasedStays
<1>9. RestoreInfo'
  <2>1. bm'.bad \in Phys
    BY <1>1 DEF TypeInv, BlocksNamed, RecordsOK, BadJobs
  <2>2. new \in Phys /\ flash[new] = ErasedBlock
    BY <1>2, Typed DEF TypeInv, UseInv, Stored, FreeErased
  <2>4. Copied(bm.ret)' = Copied(pc)
    BY <1>1, <1>4 DEF Copied
  <2>5. Copied(pc) \in Nat
    BY <1>4 DEF TypeInv, RecordsOK, BadJobs
  <2>6. ~(bm'.p > 0)
    BY <1>4
  <2> QED BY <1>3, <1>4, <2>1, <2>2, <2>4, <2>5, <2>6 DEF RestoreInfo, Begun, InfoStays, ErasedStays
<1> QED BY <1>3, <1>6, <1>7, <1>8, <1>9 DEF UseInv

-----------------------------------------------------------------------------
(* Every action outside a merge.                                            *)

LEMMA UseInit == ASSUME Init PROVE UseInv
<1>1. /\ flash = [b \in Phys |-> IF b \in bad THEN MarkedBad ELSE ErasedBlock]
      /\ logBlk = None /\ free = Phys \ ({0} \union bad) /\ pc = "idle" /\ flight = {}
  BY DEF Init
<1>2. \A b \in Phys \ bad : flash[b] = ErasedBlock
  BY <1>1
<1>3. Stored
  BY <1>1, <1>2 DEF Stored, Blank, FreeErased, FlightFree, Page0First
<1> QED BY <1>1, <1>3 DEF UseInv, FlightEnds, LogInfo, MergeInfo, RestoreInfo, Mode

LEMMA UsePageWrite == ASSUME TypeInv, UseInv, NEW i \in count.load.pages, LML_PageWrite(i) PROVE UseInv'
<1>1. /\ pc = "idle" /\ pc' = "getlog" /\ UNCHANGED <<flash, bad, dataBlk, logBlk, lastUsed, free, flight>>
  BY DEF LML_PageWrite, tables
<1> QED BY <1>1, UseKeep DEF Merges, Known

LEMMA UseSwitch == ASSUME TypeInv, UseInv, pc \in {"idle", "getlog", "merge"}, PMM_SwitchMapTbl PROVE UseInv'
<1>1. UNCHANGED <<flash, bad, dataBlk, logBlk, lastUsed, free, pc, req, flight>>
  BY DEF PMM_SwitchMapTbl
<1> QED BY <1>1, UseKeep DEF Merges, Known

LEMMA UseCreateNewLogBlk == ASSUME TypeInv, UseInv, CreateNewLogBlk PROVE UseInv'
<1>1. /\ pc = "getlog" /\ pc' = "datainfo" /\ lastUsed' = None
      /\ UNCHANGED <<flash, bad, flight>>
  BY DEF CreateNewLogBlk
<1>2. PICK b \in free : free' = free \ {b} /\ logBlk' = b
  BY DEF CreateNewLogBlk
<1>3. Known /\ Mode' = "datainfo"
  BY <1>1 DEF Known, Mode
<1>4. Stored'
  BY <1>1, <1>2, <1>3, StoredSame DEF UseInv
<1>5. LogInfo'
  BY <1>1, <1>2, <1>3 DEF UseInv, Stored, FreeErased, LogInfo, FreshLog
<1> QED BY <1>1, <1>3, <1>4, <1>5 DEF UseInv, FlightEnds, MergeInfo, RestoreInfo

\* The first two roles, where control stands outside a merge.
LEMMA TwoBlocks ==
    ASSUME TypeInv, AccInv, pc \in {"datainfo", "loginfo", "program", "table"}
    PROVE  /\ dataBlk \in Phys /\ dataBlk \notin free \union bad /\ Known /\ ~clean /\ Mode = pc
           /\ logBlk # None => logBlk \in Phys /\ logBlk \notin free \union bad \union {dataBlk}
<1>1. Split(free, bad, dataBlk, logBlk, None, None, {}) /\ Mode = pc
  BY RolesAt DEF AccInv, Accounted
<1>2. dataBlk \in Phys /\ logBlk \in Phys \union {None} /\ dataBlk # None
  BY Typed, NotNone DEF TypeInv, BlocksNamed
<1> QED BY <1>1, <1>2 DEF Split, Roles, Known, AccInv, CleanQuiet

LEMMA UseWriteDataInfo ==
    ASSUME TypeInv, AccInv, UseInv, TypeInv', AccInv', WriteDataInfo PROVE UseInv'
<1>1. /\ pc = "datainfo" /\ UNCHANGED <<bad, dataBlk, logBlk, lastUsed, clean, req>>
  BY DEF WriteDataInfo
<1>2. /\ dataBlk \in Phys /\ dataBlk \notin free \union bad /\ Known /\ ~clean /\ Mode = "datainfo"
      /\ logBlk # None => logBlk \in Phys /\ logBlk # dataBlk
  BY <1>1, TwoBlocks
<1>3. lastUsed = None /\ (logBlk # None => flash[logBlk] = ErasedBlock)
  BY <1>1, <1>2 DEF TypeInv, PagesNamed, UseInv, LogInfo, FreshLog
<1>4. ASSUME pc' = "getlog", Stored', flash'[dataBlk][0].info, logBlk # None => flash'[logBlk] = ErasedBlock
      PROVE  UseInv'
  <2>1. Mode' = "getlog"
    BY <1>4 DEF Mode
  <2>2. LogInfo'
    BY <1>1, <1>3, <1>4, <2>1 DEF LogInfo, FreshLog
  <2> QED BY <1>4, <2>1, <2>2 DEF UseInv, FlightEnds, MergeInfo, RestoreInfo, Merges
<1>5. CASE flash[dataBlk][0].info
  <2>1. pc' = "getlog" /\ UNCHANGED <<flash, flight, free>>
    BY <1>5 DEF WriteDataInfo
  <2>2. Stored'
    BY <1>1, <1>2, <2>1, StoredSame DEF UseInv
  <2> QED BY <1>1, <1>3, <1>4, <1>5, <2>1, <2>2
<1>6. CASE ~flash[dataBlk][0].info
  <2> DEFINE content == [info |-> TRUE, status |-> FreeMark, lp |-> None, val |-> Junk]
  <2>1. CASE Program(dataBlk, 0, content) /\ pc' = "getlog" /\ UNCHANGED free
    <3>1. flash' = Programmed(dataBlk, 0, content) /\ flight' = OtherBanks(0) \union {[b |-> dataBlk, p |-> 0, user |-> FALSE]}
      BY <2>1 DEF Program
    <3>2. content \in Page /\ content.info /\ 0 \in Pages /\ Known'
      BY <2>1, ConstantPages, LoadOK, Geometry DEF TypeInv, Known
    <3>3. flash[dataBlk] = ErasedBlock
      BY <1>2, <1>6 DEF UseInv, Stored, Blank
    <3> HIDE DEF content
    <3>4. Stored' /\ ErasedStays(Phys \ {dataBlk}) /\ flash'[dataBlk][0].info
      BY <1>1, <1>2, <2>1, <3>1, <3>2, <3>3, ProgramKeeps DEF UseInv
    <3> QED BY <1>2, <1>3, <1>4, <2>1, <3>4 DEF ErasedStays
  <2>2. CASE LML_BadBlkManage(dataBlk, 0, "datainfo") /\ UNCHANGED <<flash, flight>>
    <3>1. Copied(pc) = 0 /\ VictimAt(pc) = dataBlk /\ pc \in Returned
      BY <1>1 DEF Copied, VictimAt, Returned
    <3> QED BY <1>1, <1>2, <2>2, <3>1, UseSpare
  <2> QED BY <1>6, <2>1, <2>2 DEF WriteDataInfo
<1> QED BY <1>5, <1>6

\* The log page after one in use is not page 0.
LEMMA NextIsLater ==
    ASSUME NEW last \in Pages, NEW i \in Pages
    PROVE  NextLogPage(last, i) > 0
<1> DEFINE a == i % BANKS
           c == last % BANKS
<1>1. a \in 0 .. BANKS - 1 /\ c \in 0 .. BANKS - 1 /\ BANKS \in Nat
  BY Remainder, Geometry DEF Pages
<1>2. NextLogPage(last, i) = IF a > c THEN last + (a - c) ELSE last + a + (BANKS - c)
  BY NotNone DEF NextLogPage
<1>3. last \in Nat
  BY DEF Pages
<1> HIDE DEF a, c
<1> QED BY <1>1, <1>2, <1>3

LEMMA UseGetLogPage == ASSUME TypeInv, AccInv, UseInv, TypeInv', AccInv', GetLogPage PROVE UseInv'
<1> DEFINE t == NextLogPage(lastUsed, req.lp)
<1>1. /\ pc = "getlog" /\ logBlk # None
      /\ UNCHANGED <<flash, bad, dataBlk, logBlk, free, flight>>
  BY DEF GetLogPage
<1>2. /\ lastUsed \in Pages \union {None} /\ req.lp \in Pages /\ Mode = "getlog" /\ Known
  BY <1>1, Typed DEF TypeInv, RecordsOK, Requests, PagesNamed, Mode, Known
<1>3. \/ pc' = "program" /\ lastUsed' = t /\ (lastUsed # None \/ t = 0)
      \/ pc' = "loginfo" /\ lastUsed = None /\ t # 0 /\ UNCHANGED <<req, lastUsed>>
      \/ pc' = "merge" /\ ~(t < PAGES) /\ UNCHANGED lastUsed
  <2>1. pc' # "fail"
    BY DEF AccInv
  <2> HIDE DEF t
  <2> QED BY <2>1, Zenon DEF GetLogPage, TakeLogPage, HasRoom, t
<1>4. /\ IF lastUsed = None THEN flash[logBlk] = ErasedBlock ELSE flash[logBlk][0].info
      /\ flash[dataBlk][0].info
  BY <1>1, <1>2 DEF UseInv, LogInfo, FreshLog
<1>5. lastUsed # None => t # 0 /\ t # None
  BY <1>2, NextIsLater, NextLogPageRange, NotNone
<1>6. lastUsed = None => t < PAGES
  <2>1. lastUsed = None => t < BANKS /\ t \in Nat
    BY <1>2, NextLogPageRange
  <2> HIDE DEF t
  <2> QED BY <2>1, Geometry
<1> HIDE DEF t
<1>7. Mode' = pc' /\ Known'
  BY <1>3 DEF Mode, Known
<1>8. LogInfo'
  <2>1. CASE pc' = "program" /\ lastUsed' = t /\ (lastUsed # None \/ t = 0)
    <3>1. 0 # None
      BY NotNone
    <3> QED BY <1>1, <1>4, <1>5, <1>7, <2>1, <3>1 DEF LogInfo, FreshLog
  <2>2. CASE pc' = "loginfo" /\ lastUsed = None /\ t # 0 /\ UNCHANGED <<req, lastUsed>>
    BY <1>1, <1>4, <1>7, <2>2 DEF LogInfo, FreshLog, t
  <2>3. CASE pc' = "merge" /\ ~(t < PAGES) /\ UNCHANGED lastUsed
    BY <1>1, <1>4, <1>6, <1>7, <2>3 DEF LogInfo, FreshLog
  <2> QED BY <1>3, <2>1, <2>2, <2>3
<1>9. Stored'
  BY <1>1, <1>2, StoredSame DEF UseInv
<1> QED BY <1>3, <1>7, <1>8, <1>9 DEF UseInv, FlightEnds, MergeInfo, RestoreInfo, Merges

\* The log block outside a merge.
LEMMA LogBlockThere ==
    ASSUME TypeInv, AccInv, UseInv, pc \in {"loginfo", "program", "table"}
    PROVE  /\ logBlk \in Phys /\ logBlk \notin free /\ logBlk # dataBlk /\ dataBlk \in Phys /\ Known /\ ~clean /\ Mode = pc
           /\ lastUsed \in Pages \union {None} /\ flash \in Blocks
           /\ IF FreshLog THEN flash[logBlk] = ErasedBlock ELSE flash[logBlk][0].info
           /\ flash[dataBlk][0].info
<1>1. logBlk # None
  BY DEF TypeInv, BlocksNamed, Mode
<1> QED BY <1>1, TwoBlocks, Typed DEF TypeInv, UseInv, LogInfo

LEMMA UseWriteLogInfo ==
    ASSUME TypeInv, AccInv, UseInv, TypeInv', AccInv', WriteLogInfo PROVE UseInv'
<1> DEFINE content == [info |-> TRUE, status |-> LogAge, lp |-> None, val |-> Junk]
           t == NextLogPage(lastUsed, req.lp)
<1>1. /\ pc = "loginfo" /\ UNCHANGED <<bad, dataBlk, logBlk, clean, req>>
  BY DEF WriteLogInfo
<1>2. /\ logBlk \in Phys /\ logBlk \notin free /\ logBlk # dataBlk /\ dataBlk \in Phys /\ Known /\ ~clean /\ Mode = "loginfo"
      /\ flash \in Blocks /\ flash[dataBlk][0].info
  BY <1>1, LogBlockThere
<1>3. lastUsed = None /\ t # 0 /\ flash[logBlk] = ErasedBlock
  BY <1>1, <1>2, LogBlockThere DEF UseInv, LogInfo, FreshLog
<1>4. CASE Program(logBlk, 0, content) /\ TakeLogPage /\ UNCHANGED free
  <2>1. flash' = Programmed(logBlk, 0, content) /\ flight' = OtherBanks(0) \union {[b |-> logBlk, p |-> 0, user |-> FALSE]}
    BY <1>4 DEF Program
  <2>2. pc' = "program" /\ lastUsed' = t
    BY <1>4 DEF TakeLogPage
  <2>3. content \in Page /\ content.info /\ 0 \in Pages /\ Known'
    BY <1>2, <2>2, LogAgeOK, Geometry DEF Page, Known
  <2> HIDE DEF content
  <2>4. Stored' /\ InfoStays /\ flash'[logBlk][0].info
    BY <1>1, <1>2, <1>3, <1>4, <2>1, <2>3, ProgramKeeps DEF UseInv
  <2>5. t # None
    <3>1. req.lp \in Pages
      BY <1>2 DEF TypeInv, RecordsOK, Requests, PagesNamed
    <3>2. t \in Nat
      BY <1>3, <3>1, NextLogPageRange
    <3> QED BY <3>2, NotNone
  <2>6. Mode' = "program"
    BY <2>2 DEF Mode
  <2> HIDE DEF t
  <2>7. LogInfo'
    BY <1>1, <1>2, <1>3, <2>2, <2>4, <2>5, <2>6 DEF LogInfo, FreshLog, InfoStays
  <2> QED BY <2>2, <2>4, <2>6, <2>7 DEF UseInv, FlightEnds, MergeInfo, RestoreInfo, Merges
<1>5. CASE LML_BadBlkManage(logBlk, 0, "loginfo") /\ UNCHANGED <<flash, flight, lastUsed>>
  <2>1. Copied(pc) = 0 /\ VictimAt(pc) = logBlk /\ pc \in Returned
    BY <1>1 DEF Copied, VictimAt, Returned
  <2> QED BY <1>1, <1>2, <1>5, <2>1, UseSpare
<1> QED BY <1>4, <1>5 DEF WriteLogInfo

LEMMA UseProgramPage ==
    ASSUME TypeInv, AccInv, UseInv, TypeInv', AccInv', ProgramPage PROVE UseInv'
<1> DEFINE content == [info |-> TRUE, status |-> IF lastUsed = 0 THEN LogAge ELSE DataMark, lp |-> req.lp, val |-> req.val]
<1>1. /\ pc = "program" /\ pc' = "idle" /\ UNCHANGED <<bad, dataBlk, logBlk, lastUsed, free>>
      /\ flash' = Programmed(logBlk, lastUsed, content)
      /\ flight' = OtherBanks(lastUsed) \union {[b |-> logBlk, p |-> lastUsed, user |-> TRUE]}
  BY DEF ProgramPage, tables
<1>2. /\ logBlk \in Phys /\ logBlk \notin free /\ dataBlk \in Phys /\ Known /\ Mode = "program"
      /\ flash \in Blocks /\ flash[dataBlk][0].info
      /\ lastUsed \in Pages
      /\ IF lastUsed = 0 THEN flash[logBlk] = ErasedBlock ELSE flash[logBlk][0].info
  BY <1>1, LogBlockThere DEF TypeInv, PagesNamed, FreshLog
<1>3. content \in Page /\ content.info
  <2>1. LogAge \in 0 .. 255 /\ DataMark \in 0 .. 255
    BY <1>2, LogAgeOK DEF DataMark
  <2>2. req.lp \in Pages \union {None} /\ req.val \in 0 .. count.load.writes
    BY DEF TypeInv, RecordsOK, Requests
  <2> QED BY <2>1, <2>2 DEF Page
<1>4. Known' /\ Mode' = "idle"
  BY <1>1 DEF Known, Mode
<1> HIDE DEF content
<1>5. /\ Stored' /\ InfoStays /\ flash'[logBlk][0].info
      /\ \A f \in flight' : f.user \/ f = [b |-> logBlk, p |-> lastUsed, user |-> TRUE]
  BY <1>1, <1>2, <1>3, <1>4, ProgramKeeps DEF UseInv
<1>6. lastUsed # None
  BY <1>2, NotNone
<1>7. LogInfo'
  BY <1>1, <1>2, <1>4, <1>5, <1>6 DEF LogInfo, FreshLog, InfoStays
<1> QED BY <1>1, <1>4, <1>5, <1>7 DEF UseInv, FlightEnds, MergeInfo, RestoreInfo, Merges

LEMMA UseSyncFails ==
    ASSUME TypeInv, AccInv, UseInv, TypeInv', AccInv', SyncFails PROVE UseInv'
<1>1. /\ pc = "program" /\ LML_BadBlkManage(logBlk, lastUsed, "program")
      /\ \E f \in flight : f.user /\ Ruin(f)
      /\ UNCHANGED <<bad, dataBlk, logBlk, lastUsed, clean, req>>
  BY DEF SyncFails
<1>2. ~clean /\ (lastUsed # 0 => flash[logBlk][0].info)
  BY <1>1, LogBlockThere DEF TypeInv, PagesNamed, FreshLog
<1>3. Copied(pc) = lastUsed /\ VictimAt(pc) = logBlk /\ pc \in Returned
  BY <1>1 DEF Copied, VictimAt, Returned
<1> QED BY <1>1, <1>2, <1>3, UseSpare

LEMMA UseCloseWritePage ==
    ASSUME TypeInv, AccInv, UseInv, TypeInv', AccInv', CloseWritePage PROVE UseInv'
<1>1. /\ pc = "idle" /\ (\E f \in flight : f.user) /\ UNCHANGED <<bad, dataBlk, logBlk, lastUsed, clean, req>>
  BY DEF CloseWritePage
<1>2. ~clean
  BY <1>1 DEF AccInv, CleanQuiet
<1>3. CASE flight' = {} /\ UNCHANGED <<flash, pc, free>>
  BY <1>1, <1>3, UseKeep DEF Merges, Known
<1>4. ASSUME NEW f \in flight, f.user, f.b = logBlk, f.p = lastUsed, Ruin(f), LML_BadBlkManage(logBlk, lastUsed + 1, "idle")
      PROVE  UseInv'
  <2>1. logBlk # None /\ lastUsed # None
    BY <1>4, Typed, NotNone DEF TypeInv, Flights
  <2>2. flash[logBlk][0].info
    BY <1>1, <2>1 DEF UseInv, LogInfo, FreshLog, Known, Mode
  <2>3. Copied(pc) = lastUsed + 1 /\ VictimAt(pc) = logBlk /\ pc \in Returned
    BY <1>1 DEF Copied, VictimAt, Returned
  <2> QED BY <1>1, <1>2, <1>4, <2>2, <2>3, UseSpare
<1> QED BY <1>3, <1>4 DEF CloseWritePage

LEMMA UseEvictPageMap == ASSUME TypeInv, UseInv, EvictPageMap PROVE UseInv'
<1>1. /\ pc = "idle" /\ pc' \in {"idle", "merge", "table"}
      /\ UNCHANGED <<flash, bad, dataBlk, logBlk, lastUsed, free, flight>>
  BY DEF EvictPageMap, Closed
<1> QED BY <1>1, UseKeep DEF Merges, Known

LEMMA UseWritePageMapTbl ==
    ASSUME TypeInv, AccInv, UseInv, TypeInv', AccInv', WritePageMapTbl PROVE UseInv'
<1> DEFINE content == [info |-> FALSE, status |-> TableMark, lp |-> None, val |-> Junk]
           p == lastUsed + 1
<1>1. /\ pc = "table" /\ UNCHANGED <<bad, dataBlk, logBlk, clean, req>>
  BY DEF WritePageMapTbl
<1>2. /\ logBlk \in Phys /\ logBlk \notin free /\ dataBlk \in Phys /\ Known /\ ~clean /\ Mode = "table"
      /\ flash[dataBlk][0].info
  BY <1>1, LogBlockThere
<1>3. lastUsed \in Pages /\ lastUsed # None /\ p \in Pages /\ p # 0 /\ p # None
  <2>1. lastUsed \in Pages /\ lastUsed # None /\ lastUsed + 1 < PAGES
    BY <1>2, Typed DEF TypeInv, PagesNamed
  <2> QED BY <2>1, Geometry, NotNone DEF Pages
<1>4. flash[logBlk][0].info
  BY <1>1, <1>2, <1>3, LogBlockThere DEF FreshLog
<1>5. CASE Program(logBlk, p, content) /\ lastUsed' = p /\ pc' = "idle" /\ UNCHANGED free
  <2>1. flash' = Programmed(logBlk, p, content) /\ flight' = OtherBanks(p) \union {[b |-> logBlk, p |-> p, user |-> FALSE]}
    BY <1>5 DEF Program
  <2>2. content \in Page /\ Known' /\ Mode' = "idle"
    BY <1>5, ConstantPages, LoadOK DEF TypeInv, Known, Mode
  <2> HIDE DEF content, p
  <2>3. /\ Stored' /\ InfoStays /\ flash'[logBlk][0].info
        /\ \A f \in flight' : f.user \/ f = [b |-> logBlk, p |-> p, user |-> FALSE]
    BY <1>1, <1>2, <1>3, <1>4, <1>5, <2>1, <2>2, ProgramKeeps DEF UseInv
  <2>4. LogInfo'
    BY <1>1, <1>2, <1>3, <1>5, <2>2, <2>3 DEF LogInfo, FreshLog, InfoStays
  <2> QED BY <1>3, <1>5, <2>2, <2>3, <2>4 DEF UseInv, FlightEnds, MergeInfo, RestoreInfo, Merges
<1>6. CASE LML_BadBlkManage(logBlk, p, "table") /\ UNCHANGED <<flash, flight, lastUsed>>
  <2>1. Copied(pc) = p /\ VictimAt(pc) = logBlk /\ pc \in Returned
    BY <1>1 DEF Copied, VictimAt, Returned
  <2> QED BY <1>1, <1>2, <1>4, <1>6, <2>1, UseSpare
<1> QED BY <1>5, <1>6 DEF WritePageMapTbl

LEMMA UseWriteBackMapTbl == ASSUME TypeInv, UseInv, WriteBackMapTbl PROVE UseInv'
<1>1. pc = "idle" /\ UNCHANGED <<flash, bad, dataBlk, logBlk, lastUsed, free, pc, req, flight>>
  BY DEF WriteBackMapTbl, Closed, tables
<1> QED BY <1>1, UseKeep DEF Merges, Known

LEMMA UseMergeOldest == ASSUME TypeInv, UseInv, MergeOldest PROVE UseInv'
<1>1. pc = "idle" /\ pc' = "merge" /\ UNCHANGED <<flash, bad, dataBlk, logBlk, lastUsed, free, flight>>
  BY DEF MergeOldest, Closed, tables
<1> QED BY <1>1, UseKeep DEF Merges, Known

-----------------------------------------------------------------------------
(* The merges.                                                              *)

LEMMA UseMergeLogBlk ==
    ASSUME TypeInv, AccInv, UseInv, TypeInv', AccInv', LML_MergeLogBlk PROVE UseInv'
<1>1. /\ pc = "merge" /\ UNCHANGED <<flash, bad, dataBlk, logBlk, lastUsed, req, flight>>
  BY Zenon DEF LML_MergeLogBlk
<1>2. /\ Mode = "merge" /\ Known /\ logBlk \in Phys /\ logBlk # None /\ lastUsed \in Pages \union {None}
      /\ free \subseteq Phys
  BY <1>1, Typed DEF Mode, Known, TypeInv, BlocksNamed
<1>3. lastUsed # None /\ flash[logBlk][0].info
  BY <1>1, <1>2 DEF UseInv, LogInfo, FreshLog
<1>4. lastUsed \in Nat
  BY <1>2, <1>3 DEF Pages
<1>5. ASSUME pc' \in Merges, free' \subseteq free, MergeInfo'
      PROVE  UseInv'
  <2>1. Mode' = pc' /\ Mode' \notin {"loginfo", "program"} /\ pc' \notin {"off", "scan", "idle", "erase", "restore"}
    BY <1>5 DEF Mode, Merges
  <2>2. Stored' /\ InfoStays /\ ErasedStays(Phys)
    BY <1>1, <1>2, <1>5, StoredSame DEF UseInv
  <2>3. LogInfo'
    BY <1>1, <1>2, <1>3, <2>1, <2>2, LogKeep DEF UseInv, FreshLog
  <2> QED BY <1>5, <2>1, <2>2, <2>3 DEF UseInv, FlightEnds, RestoreInfo
<1>6. CASE job' = Started("swap", lastUsed + 1, logBlk) /\ pc' = "swap" /\ UNCHANGED free
  <2>1. job'.p = lastUsed + 1 /\ job'.blk = logBlk
    BY <1>2, <1>4, <1>6, StartedOK DEF Merges
  <2>2. Mode' = "swap" /\ job'.p > 0
    BY <1>4, <1>6, <2>1 DEF Mode
  <2>3. MergeInfo'
    BY <1>1, <1>3, <1>6, <2>1, <2>2 DEF MergeInfo, Begun
  <2> QED BY <1>5, <1>6, <2>3 DEF Merges
<1>7. ASSUME NEW b \in free, free' = free \ {b}, pc' = job'.kind,
             \/ job' = [NoJob EXCEPT !.kind = "move", !.p = -1, !.blk = b]
             \/ job' = [NoJob EXCEPT !.kind = "simple", !.blk = b]
      PROVE  UseInv'
  <2>1. b \in Phys /\ flash[b] = ErasedBlock
    BY <1>2, <1>7 DEF UseInv, Stored, FreeErased
  <2>2. \/ pc' = "move" /\ job'.p = -1 /\ job'.dst = None /\ job'.blk = b
        \/ pc' = "simple" /\ job'.p = 0 /\ job'.blk = b
    BY <1>7 DEF NoJob
  <2>3. Mode' = pc' /\ ~(job'.p > 0)
    BY <2>2 DEF Mode
  <2>4. MergeInfo'
    BY <1>1, <2>1, <2>2, <2>3 DEF MergeInfo, Begun
  <2> QED BY <1>5, <1>7, <2>2, <2>4 DEF Merges
<1>8. pc' # "fail"
  BY DEF AccInv
<1>9. \/ /\ job' = [NoJob EXCEPT !.kind = "swap", !.p = lastUsed + 1, !.blk = logBlk] /\ pc' = "swap" /\ UNCHANGED free
      \/ \E b \in free : /\ free' = free \ {b} /\ pc' = job'.kind
                         /\ \/ job' = [NoJob EXCEPT !.kind = "move", !.p = -1, !.blk = b]
                            \/ job' = [NoJob EXCEPT !.kind = "simple", !.blk = b]
  BY <1>8, Zenon DEF LML_MergeLogBlk, GiveUp
<1> QED BY <1>6, <1>7, <1>9, Zenon DEF Started

\* The blocks of a merge that is copying.
LEMMA MergeBlocks ==
    ASSUME TypeInv, AccInv, UseInv, pc \in Merges
    PROVE  /\ Mode = pc /\ Known /\ ~clean /\ job \in Jobs /\ job.kind = pc /\ job.blk \in Phys /\ job.blk \notin free
           /\ flash \in Blocks /\ dataBlk \in Phys /\ logBlk \in Phys /\ flash[dataBlk][0].info /\ flash[logBlk][0].info
           /\ lastUsed # None /\ ~FreshLog
<1>1. /\ Mode = pc /\ Known /\ ~clean /\ pc \notin {"off", "scan", "restore", "erase"}
  BY DEF Mode, Known, Merges, AccInv, CleanQuiet
<1>2. job \in Jobs /\ job.kind = pc /\ job.blk # None /\ logBlk # None /\ dataBlk # None
  BY <1>1 DEF TypeInv, RecordsOK, BlocksNamed, Merges
<1>3. job.blk \in Phys /\ flash \in Blocks /\ dataBlk \in Phys /\ logBlk \in Phys
  BY <1>2, Typed DEF TypeInv, Jobs
<1>4. job.blk \notin free
  <2>1. Work = job.blk /\ Accounted
    BY <1>1 DEF Work, AccInv
  <2> QED BY <1>2, <2>1 DEF Accounted, Split, Roles
<1>5. lastUsed # None /\ ~FreshLog /\ flash[dataBlk][0].info /\ flash[logBlk][0].info
  BY <1>1, <1>2 DEF UseInv, LogInfo, FreshLog, Merges
<1> QED BY <1>1, <1>2, <1>3, <1>4, <1>5

\* A copy of a merge.
LEMMA UseCopied ==
    ASSUME TypeInv, AccInv, UseInv, pc \in Merges, NEW p \in Pages, NEW content \in Page,
           Program(job.blk, p, content), UNCHANGED <<bad, dataBlk, logBlk, lastUsed, clean, req, pc, free>>,
           p = 0 => content.info /\ flash[job.blk] = ErasedBlock,
           p # 0 => flash[job.blk][0].info,
           flash'[job.blk][0].info => MergeInfo'
    PROVE  UseInv'
<1>1. /\ Mode = pc /\ Known /\ job.blk \in Phys /\ job.blk \notin free /\ ~FreshLog
  BY MergeBlocks
<1>2. Mode' = Mode /\ Known' /\ pc' \notin {"idle", "erase", "restore"}
  BY <1>1 DEF Mode, Known, Merges
<1>3. flash' = Programmed(job.blk, p, content) /\ flight' = OtherBanks(p) \union {[b |-> job.blk, p |-> p, user |-> FALSE]}
  BY DEF Program
<1>4. Stored' /\ InfoStays /\ flash'[job.blk][0].info
  BY <1>1, <1>2, <1>3, ProgramKeeps DEF UseInv
<1>5. LogInfo'
  <2>1. Mode # "erase"
    BY <1>1 DEF Merges
  <2> QED BY <1>1, <1>2, <1>4, <2>1, LogKeep DEF UseInv
<1> QED BY <1>2, <1>4, <1>5 DEF UseInv, FlightEnds, RestoreInfo

LEMMA UseCopyFails ==
    ASSUME TypeInv, AccInv, UseInv, TypeInv', AccInv', pc \in Merges, CopyFails(Copied(pc)),
           UNCHANGED <<bad, dataBlk, logBlk, lastUsed, clean, req>>,
           Copied(pc) # 0 => flash[job.blk][0].info
    PROVE  UseInv'
<1>1. ~clean /\ job.kind = pc
  BY MergeBlocks
<1>2. VictimAt(pc) = job.blk /\ pc \in Returned
  BY DEF VictimAt, Merges, Returned
<1>3. LML_BadBlkManage(VictimAt(pc), Copied(pc), pc) /\ UNCHANGED <<flash, flight>>
  BY <1>1, <1>2 DEF CopyFails
<1> QED BY <1>1, <1>2, <1>3, UseSpare

LEMMA UseSwapCopy ==
    ASSUME TypeInv, AccInv, UseInv, TypeInv', AccInv', SwapCopy PROVE UseInv'
<1>1. /\ pc = "swap" /\ job.p < PAGES /\ pc \in Merges
      /\ UNCHANGED <<bad, dataBlk, logBlk, lastUsed, clean, req>>
  BY DEF SwapCopy, Merges
<1>2. /\ Mode = "swap" /\ job \in Jobs /\ job.blk \in Phys /\ flash \in Blocks /\ dataBlk \in Phys
      /\ job.p \in Nat /\ job.p > 0 /\ flash[job.blk][0].info
  BY <1>1, MergeBlocks DEF TypeInv, PagesNamed, UseInv, MergeInfo, Begun
<1>3. job.p \in Pages
  BY <1>1, <1>2, Geometry DEF Pages
<1>4. CASE Program(job.blk, job.p, flash[dataBlk][job.p]) /\ job' = [job EXCEPT !.p = @ + 1] /\ UNCHANGED <<pc, free>>
  <2>1. flash[dataBlk][job.p] \in Page
    BY <1>2, <1>3 DEF Blocks
  <2>2. job'.p = job.p + 1 /\ job'.blk = job.blk /\ job'.p > 0
    BY <1>2, <1>4 DEF Jobs
  <2>3. flash'[job.blk][0].info => MergeInfo'
    BY <1>1, <1>4, <2>2 DEF MergeInfo, Mode, Begun
  <2>4. job.p # 0
    BY <1>2
  <2> QED BY <1>1, <1>2, <1>3, <1>4, <2>1, <2>3, <2>4, UseCopied
<1>5. CASE CopyFails(job.p)
  <2>1. Copied(pc) = job.p
    BY <1>1 DEF Copied
  <2> QED BY <1>1, <1>2, <1>5, <2>1, UseCopyFails
<1> QED BY <1>4, <1>5 DEF SwapCopy

LEMMA UseSwapDone == ASSUME TypeInv, AccInv, UseInv, SwapDone PROVE UseInv'
<1>1. /\ pc = "swap" /\ pc \in Merges /\ pc' = "erase" /\ logBlk' = None /\ job' = [job EXCEPT !.toErase = <<dataBlk>>]
      /\ UNCHANGED <<flash, bad, free, flight>>
  BY DEF SwapDone, Merges
<1>2. Known /\ job \in Jobs /\ job.kind = "swap" /\ dataBlk \in Phys
  BY <1>1, MergeBlocks
<1>3. job'.kind = "swap" /\ job'.toErase = <<dataBlk>>
  BY <1>1, <1>2 DEF Jobs
<1>4. job'.toErase # <<>>
  BY <1>3
<1>5. Stored'
  BY <1>1, <1>2, StoredSame DEF UseInv
<1>6. Mode' = "erase"
  BY <1>1 DEF Mode
<1> QED BY <1>1, <1>3, <1>4, <1>5, <1>6 DEF UseInv, FlightEnds, LogInfo, MergeInfo, RestoreInfo

LEMMA UseMovePage0 ==
    ASSUME TypeInv, AccInv, UseInv, TypeInv', AccInv', MovePage0 PROVE UseInv'
<1>1. /\ pc = "move" /\ pc \in Merges /\ job.dst = None /\ (MoveNext = None \/ MoveNext % BANKS # 0)
      /\ UNCHANGED <<bad, dataBlk, logBlk, lastUsed, pmap, clean, req>>
  BY DEF MovePage0, NeedsPage0, Merges
<1>2. /\ Mode = "move" /\ job \in Jobs /\ job.blk \in Phys /\ flash \in Blocks /\ logBlk \in Phys /\ flash[logBlk][0].info
      /\ job.p = -1 /\ flash[job.blk] = ErasedBlock
  BY <1>1, MergeBlocks DEF UseInv, MergeInfo, Begun
<1>3. CASE Program(job.blk, 0, CopiedPage0(logBlk, 0, 0)) /\ job' = [job EXCEPT !.dst = 0] /\ UNCHANGED <<pc, free>>
  <2>1. CopiedPage0(logBlk, 0, 0) \in Page
    BY <1>2, CopiedPageOK, Geometry
  <2>2. CopiedPage0(logBlk, 0, 0).info
    <3>1. flash[logBlk][0] \in Page
      BY <1>2, Geometry DEF Blocks
    <3> QED BY <1>2, <3>1 DEF CopiedPage0, Page
  <2>3. job'.dst = 0 /\ job'.p = job.p /\ job'.blk = job.blk /\ 0 # None /\ 0 \in Pages
    BY <1>2, <1>3, NotNone, Geometry DEF Jobs
  <2>4. MoveNext' = MoveNext
    BY <1>1, <2>3 DEF MoveNext, ValidPages
  <2>5. flash'[job.blk][0].info => MergeInfo'
    BY <1>1, <1>3, <2>3, <2>4 DEF MergeInfo, Mode, Begun
  <2> QED BY <1>1, <1>2, <1>3, <2>1, <2>2, <2>3, <2>5, UseCopied
<1>4. CASE CopyFails(0)
  <2>1. Copied(pc) = 0
    BY <1>1 DEF Copied
  <2> QED BY <1>1, <1>2, <1>4, <2>1, UseCopyFails
<1> QED BY <1>3, <1>4 DEF MovePage0

\* Once page 0 of the new block is programmed, the move merge does not come back to it:
\* the pages of bank 0 are the first ones it moves.
LEMMA MovesOn ==
    ASSUME TypeInv, pc = "move", MergeInfo, MoveNext # None, job.dst # None
    PROVE  MoveTo(MoveNext) # 0
<1> DEFINE p == MoveNext
<1>1. p \in Pages /\ (job.p = -1 \/ MoveRank(p) > MoveRank(job.p))
  BY MoveNextOK DEF ValidPages
<1>2. BANKS \in Nat /\ BANKS > 0 /\ PAGES \in Nat
  BY Geometry
<1>3. CASE job.p = -1
  <2>1. p % BANKS # 0
    BY <1>3 DEF MergeInfo
  <2> QED BY <1>3, <2>1 DEF MoveTo
<1>4. CASE job.p # -1
  <2>1. job.p \in Pages /\ job.dst \in Nat
    BY <1>4 DEF TypeInv, PagesNamed, Moving
  <2>2. CASE job.p % BANKS = p % BANKS
    <3>1. MoveTo(p) = job.dst + BANKS
      BY <1>4, <2>2 DEF MoveTo
    <3> QED BY <1>2, <2>1, <3>1
  <2>3. CASE job.p % BANKS # p % BANKS
    <3>1. MoveTo(p) = p % BANKS
      BY <2>3 DEF MoveTo
    <3>2. ASSUME p % BANKS = 0
          PROVE  FALSE
      <4> PICK q \in Nat : q = p
        BY <1>1 DEF Pages
      <4> PICK o \in Nat : o = job.p
        BY <2>1 DEF Pages
      <4> PICK a \in Nat : a = job.p % BANKS
        BY <2>1, Remainder DEF Pages
      <4>1. MoveRank(p) = 0 * PAGES + q /\ MoveRank(job.p) = a * PAGES + o
        BY <3>2 DEF MoveRank
      <4>2. a # 0 /\ q < PAGES
        <5>1. a # 0
          BY <2>3, <3>2
        <5>2. q < PAGES
          BY <1>1, <1>2 DEF Pages
        <5> QED BY <5>1, <5>2
      <4>3. a * PAGES = PAGES + (a - 1) * PAGES /\ (a - 1) * PAGES \in Nat
        BY <1>2, <4>2
      <4> HIDE DEF p
      <4>4. 0 * PAGES + q = q
        BY <1>2
      <4>5. MoveRank(p) > MoveRank(job.p)
        BY <1>1, <1>4
      <4> QED BY <1>2, <4>1, <4>2, <4>3, <4>4, <4>5
    <3> QED BY <3>1, <3>2
  <2> QED BY <2>2, <2>3
<1> QED BY <1>3, <1>4

LEMMA UseMoveCopy ==
    ASSUME TypeInv, AccInv, UseInv, TypeInv', AccInv', MoveCopy PROVE UseInv'
<1> DEFINE p == MoveNext
           to == MoveTo(p)
           page == IF to = 0 THEN CopiedPage0(logBlk, pmap[p], 0) ELSE flash[logBlk][pmap[p]]
<1>1. /\ pc = "move" /\ MoveNext # None /\ ~NeedsPage0 /\ pc \in Merges
      /\ UNCHANGED <<bad, dataBlk, logBlk, lastUsed, clean, req>>
      /\ \/ /\ Program(job.blk, to, page)
            /\ job' = [job EXCEPT !.p = p, !.dst = to, !.last = IF to > @ THEN to ELSE @]
            /\ UNCHANGED <<pc, free>>
         \/ CopyFails(0)
  BY Zenon DEF MoveCopy, Merges
<1>2. /\ Mode = "move" /\ job \in Jobs /\ job.blk \in Phys /\ flash \in Blocks /\ logBlk \in Phys /\ flash[logBlk][0].info
  BY <1>1, MergeBlocks
<1>3. p \in Pages /\ p # None /\ p # -1 /\ pmap[p] \in Pages
  <2>1. p \in ValidPages
    BY <1>1, MoveNextOK
  <2>2. p \in Pages /\ pmap[p] \in Pages
    BY <2>1, Typed DEF TypeInv, ValidPages, Maps
  <2> QED BY <1>1, <2>2 DEF Pages
<1>4. to \in Pages /\ to # None
  <2>1. p \in ValidPages
    BY <1>1, MoveNextOK
  <2>2. to \in Nat /\ to < BANKS * Cardinality(ValidPages)
    BY <1>1, <2>1, MoveCounts
  <2>3. to + BANKS < PAGES
    BY <1>1, <1>2, <2>2, MoveRoom
  <2> QED BY <2>2, <2>3, Geometry, NotNone DEF Pages
<1>5. page \in Page
  <2> HIDE DEF to, p
  <2>1. CopiedPage0(logBlk, pmap[p], 0) \in Page
    BY <1>2, <1>3, CopiedPageOK
  <2>2. flash[logBlk][pmap[p]] \in Page
    BY <1>2, <1>3 DEF Blocks
  <2> QED BY <2>1, <2>2
<1>6. to = 0 => page.info /\ flash[job.blk] = ErasedBlock
  <2> HAVE to = 0
  <2>1. job.dst = None
    BY <1>1, MovesOn DEF UseInv
  <2>2. flash[job.blk] = ErasedBlock
    BY <1>2, <2>1 DEF UseInv, MergeInfo, Begun
  <2>3. page = CopiedPage0(logBlk, pmap[p], 0)
    OBVIOUS
  <2>4. flash[logBlk][pmap[p]] \in Page
    BY <1>2, <1>3 DEF Blocks
  <2> HIDE DEF page
  <2>5. page.info
    BY <1>2, <2>3, <2>4 DEF CopiedPage0, Page
  <2> QED BY <2>2, <2>5
<1>7. to # 0 => flash[job.blk][0].info
  <2> HAVE to # 0
  <2>1. job.dst # None
    <3> SUFFICES ASSUME job.dst = None
                 PROVE  FALSE
      OBVIOUS
    <3>1. p % BANKS = 0
      BY <1>1 DEF NeedsPage0
    <3>2. to = p % BANKS
      BY DEF MoveTo
    <3> QED BY <3>1, <3>2
  <2> QED BY <1>2, <2>1 DEF UseInv, MergeInfo, Begun
<1> HIDE DEF p, to, page
<1>8. CASE /\ Program(job.blk, to, page)
           /\ job' = [job EXCEPT !.p = p, !.dst = to, !.last = IF to > @ THEN to ELSE @]
           /\ UNCHANGED <<pc, free>>
  <2>1. job'.dst = to /\ job'.p = p /\ job'.blk = job.blk
    BY <1>2, <1>8 DEF Jobs
  <2>2. flash'[job.blk][0].info => MergeInfo'
    BY <1>1, <1>3, <1>4, <1>8, <2>1 DEF MergeInfo, Mode, Begun
  <2> QED BY <1>1, <1>4, <1>5, <1>6, <1>7, <1>8, <2>2, UseCopied
<1>9. CASE CopyFails(0)
  <2>1. Copied(pc) = 0
    BY <1>1 DEF Copied
  <2> QED BY <1>1, <1>9, <2>1, UseCopyFails
<1> QED BY <1>1, <1>8, <1>9

LEMMA UseMoveDone == ASSUME TypeInv, AccInv, UseInv, MoveDone PROVE UseInv'
<1>1. /\ pc = "move" /\ pc \in Merges /\ pc' = "erase" /\ MoveNext = None /\ ~NeedsPage0 /\ job' = [job EXCEPT !.toErase = <<logBlk>>]
      /\ UNCHANGED <<flash, bad, dataBlk, logBlk, lastUsed, free, flight>>
  BY DEF MoveDone, tables, Merges
<1>2. Mode = "move" /\ Known /\ job \in Jobs /\ logBlk \in Phys /\ flash[dataBlk][0].info
  BY <1>1, MergeBlocks
<1>3. job'.blk = job.blk /\ job'.toErase = <<logBlk>>
  BY <1>1, <1>2 DEF Jobs
<1>4. job'.toErase # <<>>
  BY <1>3
<1>5. flash[job.blk][0].info
  <2>1. job.dst # None
    BY <1>1 DEF NeedsPage0
  <2> QED BY <1>2, <2>1 DEF UseInv, MergeInfo, Begun
<1>6. Stored'
  BY <1>1, <1>2, StoredSame DEF UseInv
<1>7. Mode' = "erase"
  BY <1>1 DEF Mode
<1> QED BY <1>1, <1>2, <1>3, <1>4, <1>5, <1>6, <1>7 DEF UseInv, FlightEnds, LogInfo, MergeInfo, RestoreInfo

LEMMA UseSimpleCopy ==
    ASSUME TypeInv, AccInv, UseInv, TypeInv', AccInv', SimpleCopy PROVE UseInv'
<1> DEFINE inData == pmap[job.p] = None
           b == IF inData THEN dataBlk ELSE logBlk
           p == IF inData THEN job.p ELSE pmap[job.p]
           page == IF job.p = 0 THEN CopiedPage0(b, p, SeqPlus(inData)) ELSE flash[b][p]
<1>1. /\ pc = "simple" /\ pc \in Merges /\ job.p < PAGES
      /\ UNCHANGED <<bad, dataBlk, logBlk, lastUsed, clean, req>>
      /\ \/ /\ Program(job.blk, job.p, page) /\ job' = [job EXCEPT !.p = @ + 1]
            /\ UNCHANGED <<pc, free>>
         \/ CopyFails(job.p)
  BY Zenon DEF SimpleCopy, Merges
<1>2. /\ Mode = "simple" /\ job \in Jobs /\ job.blk \in Phys /\ flash \in Blocks /\ dataBlk \in Phys /\ logBlk \in Phys
      /\ flash[logBlk][0].info /\ flash[dataBlk][0].info /\ job.p \in Nat
      /\ IF job.p > 0 THEN flash[job.blk][0].info ELSE flash[job.blk] = ErasedBlock
  BY <1>1, MergeBlocks DEF TypeInv, PagesNamed, UseInv, MergeInfo, Begun
<1>3. job.p \in Pages
  BY <1>1, <1>2, Geometry DEF Pages
<1>4. b \in Phys /\ p \in Pages /\ flash[b][0].info
  BY <1>2, <1>3, Typed DEF TypeInv, Maps
<1>5. page \in Page /\ (job.p = 0 => page.info)
  <2>1. SeqPlus(inData) \in Nat
    BY DEF SeqPlus
  <2> HIDE DEF b, p, inData
  <2>2. CopiedPage0(b, p, SeqPlus(inData)) \in Page
    BY <1>2, <1>4, <2>1, CopiedPageOK
  <2>3. flash[b][p] \in Page
    BY <1>2, <1>4 DEF Blocks
  <2>4. CopiedPage0(b, p, SeqPlus(inData)).info
    BY <1>4, <2>3 DEF CopiedPage0, Page
  <2> QED BY <2>2, <2>3, <2>4
<1> HIDE DEF page
<1>6. CASE Program(job.blk, job.p, page) /\ job' = [job EXCEPT !.p = @ + 1] /\ UNCHANGED <<pc, free>>
  <2>1. job'.p = job.p + 1 /\ job'.blk = job.blk /\ job'.p > 0
    BY <1>2, <1>6 DEF Jobs
  <2>2. flash'[job.blk][0].info => MergeInfo'
    BY <1>1, <1>6, <2>1 DEF MergeInfo, Mode, Begun
  <2>3. (job.p = 0 => flash[job.blk] = ErasedBlock) /\ (job.p # 0 => flash[job.blk][0].info)
    BY <1>2
  <2> QED BY <1>1, <1>3, <1>5, <1>6, <2>2, <2>3, UseCopied
<1>7. CASE CopyFails(job.p)
  <2>1. Copied(pc) = job.p /\ (job.p # 0 => flash[job.blk][0].info)
    BY <1>1, <1>2 DEF Copied
  <2> QED BY <1>1, <1>7, <2>1, UseCopyFails
<1> QED BY <1>1, <1>6, <1>7

LEMMA UseSimpleDone == ASSUME TypeInv, AccInv, UseInv, SimpleDone PROVE UseInv'
<1>1. /\ pc = "simple" /\ pc \in Merges /\ pc' = "erase" /\ job' = [job EXCEPT !.toErase = <<dataBlk, logBlk>>]
      /\ UNCHANGED <<flash, bad, free, flight>>
  BY DEF SimpleDone, Merges
<1>2. Known /\ job \in Jobs /\ job.kind = "simple" /\ dataBlk \in Phys /\ logBlk \in Phys
  BY <1>1, MergeBlocks
<1>3. job'.kind = "simple" /\ job'.toErase = <<dataBlk, logBlk>>
  BY <1>1, <1>2 DEF Jobs
<1>4. job'.toErase # <<>>
  BY <1>3
<1>5. Stored'
  BY <1>1, <1>2, StoredSame DEF UseInv
<1>6. Mode' = "erase"
  BY <1>1 DEF Mode
<1> QED BY <1>1, <1>3, <1>4, <1>5, <1>6 DEF UseInv, FlightEnds, LogInfo, MergeInfo, RestoreInfo

LEMMA UseEraseBlk == ASSUME TypeInv, AccInv, UseInv, MaxEraseFails = 0, EraseBlk PROVE UseInv'
<1> DEFINE b == job.toErase[1]
<1>1. /\ pc = "erase" /\ job.toErase # <<>> /\ free' = free \union {b} /\ flash' = [flash EXCEPT ![b] = ErasedBlock]
      /\ job' = [job EXCEPT !.toErase = Tail(@)] /\ flight' = {}
      /\ UNCHANGED <<bad, dataBlk, logBlk, lastUsed, clean, pc>>
  BY NoEraseFails, Zenon DEF EraseBlk
<1>2. job \in Jobs /\ job.toErase \in Seq(Phys) /\ flash \in Blocks
  BY Typed DEF TypeInv, RecordsOK, Jobs
<1>3. job'.kind = job.kind /\ job'.blk = job.blk
  BY <1>1, <1>2 DEF Jobs
<1>4. b \in Phys
  BY <1>1, <1>2
<1>5. b \in Old
  <2>1. 1 \in 1 .. Len(job.toErase)
    BY <1>1, <1>2
  <2> QED BY <1>1, <2>1 DEF Old
<1> HIDE DEF b
<1>6. \A c \in Phys : flash'[c] = IF c = b THEN ErasedBlock ELSE flash[c]
  BY <1>1, <1>2, <1>4 DEF Blocks
<1>7. Known /\ Known' /\ Mode' = "erase"
  BY <1>1 DEF Known, Mode
<1>8. Stored'
  <2>1. free \subseteq Phys
    BY Typed DEF TypeInv
  <2>2. Blank'
    BY <1>1, <1>6 DEF UseInv, Stored, Blank
  <2>3. FreeErased'
    BY <1>1, <1>4, <1>6, <1>7, <2>1 DEF UseInv, Stored, FreeErased
  <2> QED BY <1>1, <2>2, <2>3 DEF Stored, FlightFree, Page0First
<1>9. job.kind = "move" => flash'[job.blk][0].info /\ flash'[dataBlk][0].info
  <2> HAVE job.kind = "move"
  <2>1. job.blk # None /\ dataBlk # None
    BY <1>1 DEF TypeInv, BlocksNamed
  <2>2. job.blk \in Phys /\ dataBlk \in Phys
    BY <1>2, <2>1, Typed DEF TypeInv, Jobs
  <2>3. dataBlk # b /\ job.blk # b
    <3>1. Work = job.blk /\ Accounted
      BY <1>1 DEF Work, Mode, AccInv
    <3> QED BY <1>5, <3>1 DEF Accounted, Split
  <2> QED BY <1>1, <1>6, <2>2, <2>3 DEF UseInv, MergeInfo
<1>10. MergeInfo'
  BY <1>1, <1>3, <1>7, <1>9 DEF MergeInfo
<1> QED BY <1>1, <1>7, <1>8, <1>10 DEF UseInv, FlightEnds, LogInfo, RestoreInfo

LEMMA UseMergeDone == ASSUME TypeInv, UseInv, MergeDone PROVE UseInv'
<1>1. /\ pc = "erase" /\ job.toErase = <<>> /\ pc' \in {"getlog", "table", "idle"}
      /\ IF job.kind = "move" THEN logBlk' = job.blk /\ lastUsed' = job.last ELSE logBlk' = None
      /\ UNCHANGED <<flash, bad, dataBlk, free, flight>>
  BY DEF MergeDone, AfterMerge
<1>2. flight = {} /\ Known /\ Known' /\ Mode' = pc'
  BY <1>1 DEF UseInv, FlightEnds, Known, Mode
<1>3. job.kind = "move" => /\ flash[job.blk][0].info /\ flash[dataBlk][0].info
                           /\ job.last # None
  BY <1>1, NotNone DEF UseInv, MergeInfo, TypeInv, RecordsOK, Jobs
<1>4. Stored'
  BY <1>1, <1>2, StoredSame DEF UseInv
<1>5. LogInfo'
  BY <1>1, <1>2, <1>3 DEF LogInfo, FreshLog
<1> QED BY <1>1, <1>2, <1>4, <1>5 DEF UseInv, FlightEnds, MergeInfo, RestoreInfo

-----------------------------------------------------------------------------
(* The replacement of a bad block.                                          *)

LEMMA RestoreBlocks ==
    ASSUME TypeInv, AccInv, UseInv, pc = "restore"
    PROVE  /\ Mode = bm.ret /\ bm.ret \in Returned /\ Known /\ ~clean /\ flash \in Blocks /\ bm \in BadJobs
           /\ bm.new \in Phys /\ bm.bad \in Phys /\ bm.new \notin free \union bad /\ bm.new # bm.bad
           /\ dataBlk \in Phys /\ dataBlk # bm.new
           /\ logBlk # None => logBlk \in Phys
           /\ logBlk # None /\ FreshLog => logBlk # bm.new /\ logBlk # dataBlk /\ bm.ret \in {"datainfo", "loginfo", "program"}
           /\ bm.ret \in Merges => job.blk \in Phys /\ job.blk # bm.new /\ job \in Jobs
<1>1. /\ Mode = bm.ret /\ bm \in BadJobs /\ bm.ret \in Returned /\ Known /\ ~clean /\ job \in Jobs
  BY DEF Mode, Known, TypeInv, RecordsOK, BadJobs, AccInv, CleanQuiet
<1>2. bm.new # None /\ bm.bad # None /\ dataBlk # None /\ (bm.ret \in Merges => job.blk # None)
  BY <1>1 DEF TypeInv, BlocksNamed
<1>3. bm.new \in Phys /\ bm.bad \in Phys /\ dataBlk \in Phys /\ (logBlk # None => logBlk \in Phys) /\ flash \in Blocks
      /\ (bm.ret \in Merges => job.blk \in Phys)
  BY <1>1, <1>2, Typed DEF TypeInv, BadJobs, Jobs
<1>4. Split(free, bad, dataBlk, Log, Work, bm.new, {}) /\ bm.bad = Victim
  BY DEF AccInv, Accounted, Spare, Old
<1>5. bm.ret \in Merges => Work = job.blk
  BY <1>1 DEF Work
<1>6. bm.ret # "swap" => Log = logBlk
  BY <1>1 DEF Log, Returned
<1>7. logBlk # None /\ FreshLog => bm.ret \in {"datainfo", "loginfo", "program"}
  BY <1>1 DEF UseInv, LogInfo, FreshLog, Returned
<1>8. bm.bad \in {dataBlk, Log, Work}
  BY <1>1, <1>4, <1>5, <1>6 DEF Victim, VictimAt, Returned, Merges
<1>9. bm.new # bm.bad
  BY <1>2, <1>4, <1>8 DEF Split, Roles
<1>10. dataBlk # bm.new /\ bm.new \notin free \union bad /\ (bm.ret \in Merges => job.blk # bm.new)
  BY <1>2, <1>4, <1>5 DEF Split, Roles
<1>11. logBlk # None /\ FreshLog => logBlk # bm.new /\ logBlk # dataBlk
  BY <1>4, <1>6, <1>7 DEF Split, Roles
<1> QED BY <1>1, <1>3, <1>7, <1>9, <1>10, <1>11

LEMMA MarkedInfo == MarkedBad[0].info
BY Geometry DEF MarkedBad

\* What a step inside the replacement leaves as it is.
LEMMA UseRestoring ==
    ASSUME TypeInv, AccInv, UseInv, pc = "restore", pc' = "restore", bm'.ret = bm.ret, bm'.bad = bm.bad, bm'.n = bm.n,
           UNCHANGED <<dataBlk, logBlk, lastUsed, clean, req, job>>,
           Stored', InfoStays, ErasedStays(Phys \ {bm.new}), Begun(bm.new, bm.p > 0)'
    PROVE  UseInv'
<1>1. Mode' = Mode /\ Mode # "erase"
  BY RestoreBlocks DEF Mode, Returned
<1>2. LogInfo'
  <2>1. FreshLog /\ logBlk # None => ErasedStays({logBlk})
    BY RestoreBlocks DEF ErasedStays
  <2> QED BY <1>1, <2>1, RestoreBlocks, LogKeep DEF UseInv
<1>3. MergeInfo'
  <2>1. Mode \in Merges => job.blk \in Phys \ {bm.new}
    BY RestoreBlocks
  <2> QED BY <1>1, <2>1 DEF UseInv, MergeInfo, Merges, Begun, InfoStays, ErasedStays
<1>4. RestoreInfo'
  <2>1. Copied(bm.ret)' = Copied(bm.ret)
    BY DEF Copied
  <2>2. bm.bad \in Phys
    BY RestoreBlocks
  <2> QED BY <2>1, <2>2 DEF UseInv, RestoreInfo, InfoStays
<1> QED BY <1>2, <1>3, <1>4 DEF UseInv, FlightEnds

LEMMA UseRestorePageData ==
    ASSUME TypeInv, AccInv, UseInv, RestorePageData PROVE UseInv'
<1> DEFINE content == flash[bm.bad][bm.p]
<1>1. /\ pc = "restore" /\ bm.p < bm.n /\ Program(bm.new, bm.p, content)
      /\ bm' = [bm EXCEPT !.p = @ + 1]
      /\ UNCHANGED <<bad, dataBlk, logBlk, lastUsed, free, clean, pc, req, job>>
  BY DEF RestorePageData, tables
<1>2. /\ bm \in BadJobs /\ bm.new \in Phys /\ bm.bad \in Phys /\ bm.new \notin free /\ Known /\ flash \in Blocks
  BY <1>1, RestoreBlocks
<1>3. bm.p \in Pages /\ bm.n > 0 /\ bm.p \in Nat
  BY <1>1, <1>2, Geometry DEF BadJobs, Pages
<1>4. content \in Page
  BY <1>2, <1>3 DEF Blocks
<1>5. /\ bm.p = 0 => content.info /\ flash[bm.new] = ErasedBlock
      /\ bm.p # 0 => flash[bm.new][0].info
  <2>1. ~(0 > 0) /\ (bm.p # 0 => bm.p > 0)
    BY <1>3
  <2> QED BY <1>1, <1>3, <2>1 DEF UseInv, RestoreInfo, Begun
<1>6. flash' = Programmed(bm.new, bm.p, content) /\ flight' = OtherBanks(bm.p) \union {[b |-> bm.new, p |-> bm.p, user |-> FALSE]}
  BY <1>1 DEF Program
<1>7. Known'
  BY <1>1 DEF Known
<1> HIDE DEF content
<1>8. Stored' /\ InfoStays /\ ErasedStays(Phys \ {bm.new}) /\ flash'[bm.new][0].info
  BY <1>1, <1>2, <1>3, <1>4, <1>5, <1>6, <1>7, ProgramKeeps DEF UseInv
<1>9. bm'.p = bm.p + 1 /\ bm'.ret = bm.ret /\ bm'.bad = bm.bad /\ bm'.n = bm.n /\ bm'.new = bm.new
  BY <1>1, <1>2 DEF BadJobs
<1>10. Begun(bm.new, bm.p > 0)'
  <2>1. bm'.p > 0
    BY <1>3, <1>9
  <2> QED BY <1>8, <1>9, <2>1 DEF Begun
<1> QED BY <1>1, <1>8, <1>9, <1>10, UseRestoring

LEMMA UseRestoreFails ==
    ASSUME TypeInv, AccInv, UseInv, TypeInv', AccInv', RestoreFails PROVE UseInv'
<1>1. /\ pc = "restore" /\ flash' = [flash EXCEPT ![bm.new] = MarkedBad] /\ bad' = bad \union {bm.new} /\ flight' = {}
      /\ LML_BadBlkManage(bm.bad, bm.n, bm.ret)
      /\ UNCHANGED <<dataBlk, logBlk, lastUsed, clean, req>>
  BY DEF RestoreFails
<1>2. PICK new \in free : /\ free' = free \ {new} /\ pc' = "restore" /\ job' = job
                          /\ bm' = [bad |-> bm.bad, n |-> bm.n, new |-> new, p |-> 0, ret |-> bm.ret]
  BY <1>1 DEF LML_BadBlkManage, GiveUp, AccInv
<1>3. /\ bm.new \in Phys /\ bm.new \notin free /\ Known /\ flash \in Blocks /\ free \subseteq Phys
  BY <1>1, RestoreBlocks, Typed DEF TypeInv
<1>4. \A c \in Phys : flash'[c] = IF c = bm.new THEN MarkedBad ELSE flash[c]
  BY <1>1, <1>3 DEF Blocks
<1>5. InfoStays /\ ErasedStays(Phys \ {bm.new})
  BY <1>4, MarkedInfo DEF InfoStays, ErasedStays
<1>6. Stored'
  <2>1. Blank'
    BY <1>1, <1>4 DEF UseInv, Stored, Blank
  <2>2. FreeErased'
    BY <1>2, <1>3, <1>4 DEF UseInv, Stored, FreeErased
  <2> QED BY <1>1, <2>1, <2>2 DEF Stored, FlightFree, Page0First
<1>7. bm'.ret = bm.ret /\ bm'.bad = bm.bad /\ bm'.n = bm.n /\ bm'.new = new /\ ~(bm'.p > 0)
  BY <1>2
<1>8. flash'[new] = ErasedBlock
  BY <1>2, <1>3, <1>4 DEF UseInv, Stored, FreeErased
<1>9. Begun(bm.new, bm.p > 0)'
  BY <1>7, <1>8 DEF Begun
<1> QED BY <1>1, <1>2, <1>5, <1>6, <1>7, <1>9, UseRestoring

LEMMA UseMarkBadBlk ==
    ASSUME TypeInv, AccInv, UseInv, TypeInv', MarkBadBlk PROVE UseInv'
<1>1. /\ pc = "restore" /\ bm.p = bm.n /\ pc' = bm.ret /\ bm' = NoBad /\ flight' = {}
      /\ flash' = [flash EXCEPT ![bm.bad] = MarkedBad] /\ bad' = bad \union {bm.bad}
      /\ dataBlk' = IF bm.ret = "datainfo" THEN bm.new ELSE dataBlk
      /\ logBlk' = IF bm.ret \in {"loginfo", "program", "idle", "table"} THEN bm.new ELSE logBlk
      /\ UNCHANGED <<lastUsed, free, clean, req>>
  BY DEF MarkBadBlk, Replaced
<1>2. /\ Mode = bm.ret /\ bm.ret \in Returned /\ Known /\ ~clean /\ flash \in Blocks
      /\ bm.new \in Phys /\ bm.bad \in Phys /\ bm.new \notin free \union bad /\ bm.new # bm.bad
      /\ dataBlk \in Phys /\ (logBlk # None => logBlk \in Phys)
      /\ (logBlk # None /\ FreshLog => logBlk # dataBlk /\ bm.ret \in {"datainfo", "loginfo", "program"})
      /\ (bm.ret \in Merges => job.blk \in Phys /\ job \in Jobs)
      /\ bm.n \in Nat
  BY <1>1, RestoreBlocks DEF BadJobs
<1>3. \A c \in Phys : flash'[c] = IF c = bm.bad THEN MarkedBad ELSE flash[c]
  BY <1>1, <1>2 DEF Blocks
<1>4. InfoStays
  BY <1>3, MarkedInfo DEF InfoStays
<1>5. pc' = bm.ret /\ Mode' = bm.ret /\ Known' /\ bm.ret \notin {"restore", "erase", "off", "scan", "getlog", "merge"}
  BY <1>1, <1>2 DEF Mode, Known, Returned
<1>6. Stored'
  <2>1. Blank'
    BY <1>1, <1>3 DEF UseInv, Stored, Blank
  <2>2. FreeErased'
    <3>1. bm.bad \notin free /\ free \subseteq Phys
      <4>1. Split(free, bad, dataBlk, Log, Work, bm.new, {}) /\ bm.bad = Victim
        BY <1>1 DEF AccInv, Accounted, Spare, Old, Known
      <4>2. bm.bad \in {dataBlk, Log, Work}
        BY <1>2, <4>1 DEF Victim, VictimAt, Returned, Merges, Log, Work
      <4>3. bm.bad # None
        BY <1>2, NotNone
      <4> QED BY <4>1, <4>2, <4>3, Typed DEF Split, Roles, TypeInv
    <3> QED BY <1>1, <1>2, <1>3, <3>1 DEF UseInv, Stored, FreeErased
  <2> QED BY <1>1, <2>1, <2>2 DEF Stored, FlightFree, Page0First
<1>7. IF bm.n > 0 THEN flash'[bm.new][0].info ELSE flash'[bm.new] = ErasedBlock
  BY <1>1, <1>2, <1>3 DEF UseInv, RestoreInfo, Begun
<1>8. bm.n = Copied(bm.ret) /\ bm.bad = Victim
  BY <1>1 DEF UseInv, RestoreInfo, AccInv
<1>9. LogInfo'
  <2>1. CASE bm.ret = "datainfo"
    <3>1. logBlk # None => flash'[logBlk] = flash[logBlk] \/ ~FreshLog
      BY <1>2, <1>3, <1>8, <2>1 DEF Victim, VictimAt
    <3>2. FreshLog' = FreshLog /\ logBlk' = logBlk
      BY <1>1, <1>2, <1>5, <2>1 DEF FreshLog
    <3> QED BY <1>1, <1>2, <1>4, <1>5, <2>1, <3>1, <3>2 DEF UseInv, LogInfo, InfoStays
  <2>2. CASE bm.ret \in {"loginfo", "program", "idle", "table"}
    <3>1. logBlk # None
      BY <1>2, <1>8, <2>2, NotNone DEF Victim, VictimAt
    <3>2. /\ bm.ret \in {"program", "idle", "table"} => lastUsed # None
          /\ flash'[dataBlk][0].info
      BY <1>2, <1>4, <2>2, <3>1 DEF UseInv, LogInfo, InfoStays
    <3>3. lastUsed # None => lastUsed \in Nat
      BY Typed DEF TypeInv, Pages
    <3>4. IF FreshLog' THEN flash'[bm.new] = ErasedBlock ELSE flash'[bm.new][0].info
      <4>1. CASE bm.ret = "loginfo"
        <5>1. lastUsed = None
          BY <1>2, <4>1 DEF UseInv, LogInfo
        <5>2. bm.n = 0
          BY <1>8, <4>1 DEF Copied
        <5>3. FreshLog'
          BY <1>1, <5>1 DEF FreshLog
        <5> QED BY <1>7, <5>2, <5>3
      <4>2. CASE bm.ret = "program"
        <5>1. bm.n = lastUsed /\ lastUsed # None
          BY <1>8, <3>2, <4>2 DEF Copied
        <5>2. FreshLog' <=> lastUsed = 0
          BY <1>1, <1>5, <4>2, <5>1 DEF FreshLog
        <5> QED BY <1>2, <1>7, <5>1, <5>2
      <4>3. CASE bm.ret \in {"idle", "table"}
        <5>1. bm.n = lastUsed + 1 /\ lastUsed # None
          BY <1>8, <3>2, <4>3 DEF Copied
        <5>2. bm.n > 0
          BY <3>3, <5>1
        <5>3. ~FreshLog'
          BY <1>1, <1>5, <4>3, <5>1 DEF FreshLog
        <5> QED BY <1>7, <5>2, <5>3
      <4> QED BY <2>2, <4>1, <4>2, <4>3
    <3>5. logBlk' = bm.new /\ dataBlk' = dataBlk
      BY <1>1, <2>2
    <3>6. bm.ret = "loginfo" => lastUsed = None /\ NextLogPage(lastUsed, req.lp) # 0
      BY <1>2 DEF UseInv, LogInfo
    <3> QED BY <1>1, <1>5, <2>2, <3>2, <3>4, <3>5, <3>6 DEF LogInfo
  <2>3. CASE bm.ret \in Merges
    <3>1. logBlk' = logBlk /\ dataBlk' = dataBlk
      BY <1>1, <2>3 DEF Merges
    <3>2. logBlk # None => lastUsed # None /\ flash[logBlk][0].info /\ flash[dataBlk][0].info
      BY <1>2, <2>3 DEF UseInv, LogInfo, Merges
    <3>3. logBlk # None => ~FreshLog'
      BY <1>1, <1>5, <2>3, <3>2 DEF FreshLog, Merges
    <3> QED BY <1>1, <1>2, <1>4, <1>5, <2>3, <3>1, <3>2, <3>3 DEF LogInfo, InfoStays, Merges
  <2> QED BY <1>2, <2>1, <2>2, <2>3 DEF Returned, Merges
<1>10. MergeInfo'
  <2>1. CASE bm.ret \in {"swap", "simple"}
    <3>1. job' = [job EXCEPT !.blk = bm.new] /\ job \in Jobs
      BY <1>2, <2>1 DEF MarkBadBlk, Merges
    <3>2. job'.blk = bm.new /\ job'.p = job.p /\ bm.n = job.p
      BY <1>8, <2>1, <3>1 DEF Jobs, Copied
    <3>3. bm.ret = "swap" => job.p > 0
      BY <1>2, <2>1 DEF UseInv, MergeInfo
    <3> QED BY <1>5, <1>7, <2>1, <3>2, <3>3 DEF MergeInfo, Begun
  <2>2. CASE bm.ret = "move"
    <3>1. job' = Redone(job, bm.new) /\ job \in Jobs
      BY <1>2, <2>2 DEF MarkBadBlk, Redone, Merges
    <3>2. job'.blk = bm.new /\ job'.p = -1
      BY <1>2, <3>1, RedoOK
    <3>3. job'.dst = None
      BY <3>1 DEF Redone, Jobs
    <3>4. flash'[bm.new] = ErasedBlock
      <4>1. bm.n = 0
        BY <1>8, <2>2 DEF Copied
      <4> QED BY <1>7, <4>1
    <3> QED BY <1>5, <2>2, <3>2, <3>3, <3>4 DEF MergeInfo, Begun
  <2>3. CASE bm.ret \notin Merges
    BY <1>5, <2>3 DEF MergeInfo, Merges
  <2> QED BY <2>1, <2>2, <2>3 DEF Merges
<1> QED BY <1>1, <1>5, <1>6, <1>9, <1>10 DEF UseInv, FlightEnds, RestoreInfo

-----------------------------------------------------------------------------
(* Power cuts, and the rebuild.                                             *)

\* A page whose program is gone is erased; the others keep what the driver reads of them.
Left(gone) ==
    /\ \A f \in gone, g \in flight : StartedAfter(g, f) => g \in gone
    /\ \A b \in Phys, p \in Pages :
          IF \E f \in gone : f.b = b /\ f.p = p THEN flash'[b][p] = Erased
          ELSE flash'[b][p].info = flash[b][p].info /\ (flash[b][p] = Erased => flash'[b][p] = Erased)

LEMMA CutLeaves ==
    ASSUME TypeInv, ErasesWhole, PowerCut
    PROVE  \/ \E gone \in SUBSET flight : Left(gone)
           \/ pc = "erase" /\ \E b \in Phys : flash' = [flash EXCEPT ![b] = ErasedBlock]
<1>1. flash \in Blocks /\ flight \in Flights
  BY Typed DEF TypeInv
<1>2. PICK gone \in SUBSET flight, ruined \in SUBSET {f \in flight : TearsAs(f) \in Torn} :
        LET at(b, p, s) == \E f \in s : f.b = b /\ f.p = p
            whole == [b \in Phys |-> [p \in Pages |->
                         CASE at(b, p, gone) -> Erased
                           [] ~at(b, p, gone) /\ at(b, p, ruined) -> [flash[b][p] EXCEPT !.val = Junk]
                           [] OTHER -> flash[b][p]]]
            torn(b, banks) == [p \in Pages |-> IF p % BANKS \in banks THEN Erased ELSE flash[b][p]]
        IN  /\ \A f \in gone, g \in flight : StartedAfter(g, f) => g \in gone
            /\ \/ flash' = whole
               \/ /\ "erase" \in Torn /\ pc = "erase" /\ job.toErase # <<>> /\ flight = {}
                  /\ \E banks \in SUBSET (0 .. BANKS - 1) :
                        flash' = [flash EXCEPT ![job.toErase[1]] = torn(job.toErase[1], banks)]
  BY DEF PowerCut
<1>3. \A f \in gone, g \in flight : StartedAfter(g, f) => g \in gone
  BY <1>2
<1>4. ASSUME flash' = [b \in Phys |-> [p \in Pages |->
                         CASE \E f \in gone : f.b = b /\ f.p = p -> Erased
                           [] /\ ~\E f \in gone : f.b = b /\ f.p = p
                              /\ \E f \in ruined : f.b = b /\ f.p = p -> [flash[b][p] EXCEPT !.val = Junk]
                           [] OTHER -> flash[b][p]]]
      PROVE  Left(gone)
  <2> DEFINE c(b, p) == CASE \E f \in gone : f.b = b /\ f.p = p -> Erased
                          [] /\ ~\E f \in gone : f.b = b /\ f.p = p
                             /\ \E f \in ruined : f.b = b /\ f.p = p -> [flash[b][p] EXCEPT !.val = Junk]
                          [] OTHER -> flash[b][p]
  <2> SUFFICES ASSUME NEW b \in Phys, NEW p \in Pages
               PROVE  IF \E f \in gone : f.b = b /\ f.p = p THEN flash'[b][p] = Erased
                      ELSE flash'[b][p].info = flash[b][p].info /\ (flash[b][p] = Erased => flash'[b][p] = Erased)
    BY <1>3 DEF Left
  <2>1. flash'[b][p] = c(b, p)
    <3>1. flash' = [d \in Phys |-> [q \in Pages |-> c(d, q)]]
      BY <1>4
    <3> HIDE DEF c
    <3> QED BY <3>1
  <2> PICK x : x = [flash[b][p] EXCEPT !.val = Junk]
    OBVIOUS
  <2> PICK y : y = flash[b][p]
    OBVIOUS
  <2> PICK A \in BOOLEAN : A <=> \E f \in gone : f.b = b /\ f.p = p
    OBVIOUS
  <2> PICK B \in BOOLEAN : B <=> \E f \in ruined : f.b = b /\ f.p = p
    OBVIOUS
  <2>2. c(b, p) = CASE A -> Erased [] ~A /\ B -> x [] OTHER -> y
    OBVIOUS
  <2>3. y \in Page
    BY <1>1 DEF Blocks
  <2>4. x = [y EXCEPT !.val = Junk]
    OBVIOUS
  <2>5. x.info = y.info /\ (y = Erased => x = Erased)
    BY <2>3, <2>4 DEF Page, Erased
  <2> HIDE DEF c
  <2> PICK z : z = c(b, p)
    OBVIOUS
  <2>6. z = CASE A -> Erased [] ~A /\ B -> x [] OTHER -> y
    BY <2>2
  <2>7. (A => z = Erased) /\ (~A => z = x \/ z = y)
    BY <2>6
  <2>8. IF A THEN flash'[b][p] = Erased ELSE flash'[b][p].info = y.info /\ (y = Erased => flash'[b][p] = Erased)
    <3>1. flash'[b][p] = z
      BY <2>1
    <3>2. CASE A
      BY <2>7, <3>1, <3>2
    <3>3. CASE ~A
      BY <2>5, <2>7, <3>1, <3>3
    <3> QED BY <3>2, <3>3
  <2> QED BY <2>8
<1>5. ASSUME "erase" \in Torn, pc = "erase", flight = {}, NEW banks \in SUBSET (0 .. BANKS - 1),
             flash' = [flash EXCEPT ![job.toErase[1]] =
                          [p \in Pages |-> IF p % BANKS \in banks THEN Erased ELSE flash[job.toErase[1]][p]]]
      PROVE  \/ \E s \in SUBSET flight : Left(s)
             \/ pc = "erase" /\ \E b \in Phys : flash' = [flash EXCEPT ![b] = ErasedBlock]
  <2> PICK b : b = job.toErase[1]
    OBVIOUS
  <2>1. BANKS = 1
    BY <1>5 DEF ErasesWhole
  <2>2. \A p \in Pages : p % BANKS = 0
    BY <2>1 DEF Pages
  <2>3. CASE 0 \in banks /\ b \in Phys
    <3>1. [p \in Pages |-> IF p % BANKS \in banks THEN Erased ELSE flash[b][p]] = ErasedBlock
      BY <2>2, <2>3 DEF ErasedBlock
    <3> QED BY <1>5, <2>3, <3>1
  <2>4. CASE 0 \notin banks \/ b \notin Phys
    <3>1. b \in Phys => [p \in Pages |-> IF p % BANKS \in banks THEN Erased ELSE flash[b][p]] = flash[b]
      BY <1>1, <2>2, <2>4 DEF Blocks
    <3>2. flash' = flash
      BY <1>1, <1>5, <3>1 DEF Blocks
    <3>3. Left({})
      BY <3>2 DEF Left
    <3> QED BY <3>3
  <2> QED BY <2>3, <2>4
<1>6. \/ Left(gone)
      \/ \E s \in SUBSET flight : Left(s)
      \/ pc = "erase" /\ \E b \in Phys : flash' = [flash EXCEPT ![b] = ErasedBlock]
  BY <1>2, <1>4, <1>5, Zenon
<1> QED BY <1>6

LEMMA UsePowerCut ==
    ASSUME TypeInv, AccInv, UseInv, ErasesWhole, PowerCut, TypeInv' PROVE UseInv'
<1>1. /\ pc # "off" /\ pc' = "off" /\ flight' = {}
      /\ UNCHANGED <<bad, dataBlk, logBlk, lastUsed, free, clean>>
  BY DEF PowerCut, tables
<1>2. flash \in Blocks /\ flight \in Flights /\ free \subseteq Phys
  BY Typed DEF TypeInv
<1>3. \A b \in Phys : flash'[b] \in [Pages -> Page']
  BY TypedNext DEF TypeInv, Blocks
<1>4. Mode' = "off" /\ (Known' <=> clean)
  BY <1>1 DEF Mode, Known
<1>5. clean => pc = "idle" /\ Mode = "idle" /\ \A f \in flight : f.p # 0
  BY <1>1 DEF AccInv, CleanQuiet, UseInv, FlightEnds, Mode
<1>6. ASSUME Blank', clean => InfoStays /\ ErasedStays(Phys)
      PROVE  UseInv'
  <2>1. FreeErased'
    BY <1>1, <1>2, <1>4, <1>6 DEF UseInv, Stored, FreeErased, ErasedStays, Known
  <2>2. LogInfo'
    <3>1. CASE clean
      <4>1. logBlk # None => ErasedStays({logBlk})
        BY <1>6, <3>1, Typed DEF TypeInv, ErasedStays
      <4>2. Mode' \notin {"loginfo", "program"} /\ Mode \notin {"datainfo", "getlog", "loginfo", "program"} /\ Known /\ Mode # "erase"
        BY <1>4, <1>5, <3>1 DEF Known
      <4> QED BY <1>1, <1>6, <3>1, <4>1, <4>2, LogKeep DEF UseInv
    <3>2. CASE ~clean
      BY <1>4, <3>2 DEF LogInfo
    <3> QED BY <3>1, <3>2
  <2> QED BY <1>1, <1>4, <1>6, <2>1, <2>2
       DEF UseInv, Stored, FlightFree, Page0First, FlightEnds, MergeInfo, RestoreInfo
<1>7. CASE \E gone \in SUBSET flight : Left(gone)
  <2>1. PICK gone \in SUBSET flight : Left(gone)
    BY <1>7
  <2>2. \A b \in Phys, p \in Pages : flash[b][p] = Erased => flash'[b][p] = Erased
    BY <2>1 DEF Left
  <2>3. ASSUME NEW b \in Phys, \A p \in Pages : flash'[b][p] = Erased
        PROVE  flash'[b] = ErasedBlock
    BY <1>3, <2>3 DEF ErasedBlock
  <2>4. ErasedStays(Phys)
    BY <2>2, <2>3, ErasedPage DEF ErasedStays
  <2>5. clean => InfoStays
    <3> SUFFICES ASSUME clean, NEW c \in Phys, flash[c][0].info
                 PROVE  flash'[c][0].info
      BY DEF InfoStays
    <3>1. ~\E f \in gone : f.b = c /\ f.p = 0
      BY <1>5
    <3>2. flash'[c][0].info = flash[c][0].info
      BY <2>1, <3>1, Geometry DEF Left
    <3> QED BY <3>2
  <2>6. Blank'
    <3> SUFFICES ASSUME NEW b \in Phys \ bad
                 PROVE  flash'[b][0].info \/ flash'[b] = ErasedBlock
      BY <1>1 DEF Blank
    <3>1. flash[b][0].info \/ flash[b] = ErasedBlock
      BY DEF UseInv, Stored, Blank
    <3>2. CASE flash[b] = ErasedBlock
      BY <2>4, <3>2 DEF ErasedStays
    <3>3. CASE flash[b][0].info /\ ~\E f \in gone : f.b = b /\ f.p = 0
      <4>1. flash'[b][0].info = flash[b][0].info
        BY <2>1, <3>3, Geometry DEF Left
      <4> QED BY <3>3, <4>1
    <3>4. CASE \E f \in gone : f.b = b /\ f.p = 0
      <4>1. PICK f \in gone : f.b = b /\ f.p = 0
        BY <3>4
      <4>2. ASSUME NEW q \in Pages
            PROVE  flash'[b][q] = Erased
        <5>1. CASE q = 0
          BY <2>1, <4>1, <5>1 DEF Left
        <5>2. CASE q # 0 /\ flash[b][q] = Erased
          BY <2>2, <5>2
        <5>3. CASE q # 0 /\ flash[b][q] # Erased
          <6>1. PICK g \in flight : g.b = b /\ g.p = q /\ StartedAfter(g, f)
            BY <4>1, <5>3 DEF UseInv, Stored, Page0First
          <6>2. g \in gone
            BY <2>1, <6>1 DEF Left
          <6> QED BY <2>1, <6>1, <6>2 DEF Left
        <5> QED BY <5>1, <5>2, <5>3
      <4> QED BY <2>3, <4>2
    <3> QED BY <3>1, <3>2, <3>3, <3>4
  <2> QED BY <1>6, <2>4, <2>5, <2>6
<1>8. CASE pc = "erase" /\ \E b \in Phys : flash' = [flash EXCEPT ![b] = ErasedBlock]
  <2>1. PICK b \in Phys : flash' = [flash EXCEPT ![b] = ErasedBlock]
    BY <1>8
  <2>2. \A c \in Phys : flash'[c] = IF c = b THEN ErasedBlock ELSE flash[c]
    BY <1>2, <2>1 DEF Blocks
  <2>3. Blank'
    BY <1>1, <2>2 DEF UseInv, Stored, Blank
  <2> QED BY <1>5, <1>6, <1>8, <2>3
<1> QED BY <1>7, <1>8, CutLeaves

LEMMA UseLoadTables == ASSUME TypeInv, AccInv, UseInv, LoadTables PROVE UseInv'
<1>1. /\ pc = "off" /\ clean /\ pc' = "idle"
      /\ UNCHANGED <<flash, bad, dataBlk, logBlk, lastUsed, free, req, flight>>
  BY DEF LoadTables
<1>2. Known /\ flight' = {}
  BY <1>1 DEF Known, AccInv, CleanQuiet
<1> QED BY <1>1, <1>2, UseKeep DEF Merges

LEMMA UseStartScan == ASSUME TypeInv, AccInv, UseInv, StartScan PROVE UseInv'
<1>1. /\ pc = "off" /\ pc' = "scan" /\ ~clean /\ UNCHANGED <<flash, bad, free, clean, flight>>
  BY DEF StartScan
<1>2. Mode' = "scan" /\ ~Known' /\ flight' = {}
  BY <1>1 DEF Mode, Known, AccInv, CleanQuiet
<1>3. Stored'
  BY <1>1, <1>2 DEF UseInv, Stored, Blank, FreeErased, FlightFree, Page0First
<1> QED BY <1>1, <1>2, <1>3 DEF UseInv, FlightEnds, LogInfo, MergeInfo, RestoreInfo

\* The block that loses against another one is erased.
LEMMA UseScanBlk == ASSUME TypeInv, AccInv, UseInv, MaxEraseFails = 0, ScanBlk PROVE UseInv'
<1>1. pc = "scan" /\ UNCHANGED <<clean, pc, flight>>
  BY DEF ScanBlk
<1>2. ~clean /\ flight' = {} /\ Mode' = "scan" /\ ~Known'
  BY <1>1 DEF AccInv, CleanQuiet, Mode, Known
<1>3. UNCHANGED bad /\ (flash' = flash \/ \E b : flash' = [flash EXCEPT ![b] = ErasedBlock])
  <2>1. CASE Scanned(flash, job.p)
    <3> DEFINE r == FillBlkToZoneTbl(flash, [data |-> dataBlk, log |-> logBlk], job.p)
    <3>1. UNCHANGED bad /\ flash' = IF r.loser = None THEN flash ELSE [flash EXCEPT ![r.loser] = ErasedBlock]
      BY <2>1, NoEraseFails, Zenon DEF ScanBlk
    <3> HIDE DEF r
    <3> QED BY <3>1
  <2>2. CASE ~Scanned(flash, job.p)
    BY <2>2 DEF ScanBlk
  <2> QED BY <2>1, <2>2
<1>4. \A b \in Phys : flash'[b] = flash[b] \/ flash'[b] = ErasedBlock
  <2>1. flash \in Blocks
    BY Typed DEF TypeInv
  <2>2. CASE flash' = flash
    BY <2>2
  <2>3. CASE \E b : flash' = [flash EXCEPT ![b] = ErasedBlock]
    BY <2>1, <2>3 DEF Blocks
  <2> QED BY <1>3, <2>2, <2>3
<1>5. Stored'
  <2>1. Blank'
    BY <1>3, <1>4 DEF UseInv, Stored, Blank
  <2> QED BY <1>2, <2>1 DEF Stored, FreeErased, FlightFree, Page0First
<1> QED BY <1>1, <1>2, <1>5 DEF UseInv, FlightEnds, LogInfo, MergeInfo, RestoreInfo

\* Every block without logical information becomes a free one.
LEMMA UseScanDone == ASSUME TypeInv, AccInv, UseInv, ScanDone PROVE UseInv'
<1> DEFINE blank == {b \in Phys : b \notin bad /\ ~flash[b][0].info}
<1>1. /\ pc = "scan" /\ job.p = BLOCKS /\ pc' = "idle"
      /\ lastUsed' = IF logBlk = None THEN None ELSE GetLastUsedPage(flash, logBlk)
      /\ UNCHANGED <<flash, bad, logBlk, flight>>
  BY DEF ScanDone
<1>2. PICK d \in IF dataBlk = None THEN blank ELSE {dataBlk} : dataBlk' = d /\ free' = blank \ {d}
  BY DEF ScanDone
<1>3. flight' = {} /\ Mode' = "idle"
  BY <1>1 DEF AccInv, CleanQuiet, Mode
<1>4. Stored'
  <2>1. Blank'
    BY <1>1 DEF UseInv, Stored, Blank
  <2>2. FreeErased'
    BY <1>1, <1>2 DEF UseInv, Stored, Blank, FreeErased
  <2> QED BY <1>3, <2>1, <2>2 DEF Stored, FlightFree, Page0First
<1>5. LogInfo'
  <2>1. logBlk # None => dataBlk # None /\ flash[logBlk][0].info /\ flash[dataBlk][0].info
    BY <1>1 DEF AccInv, ScanFound
  <2>2. logBlk # None => dataBlk' = dataBlk
    BY <1>2, <2>1
  <2>3. logBlk # None => lastUsed' # None
    BY <1>1, LastUsedPageOK, NotNone
  <2> QED BY <1>1, <1>3, <2>1, <2>2, <2>3 DEF LogInfo, FreshLog
<1> QED BY <1>1, <1>3, <1>4, <1>5 DEF UseInv, FlightEnds, MergeInfo, RestoreInfo

\* Every step but a power cut.
LEMMA UseKept ==
    ASSUME TypeInv, AccInv, UseInv, EnoughSpares, MaxEraseFails = 0, [Next]_vars, ~PowerCut
    PROVE  UseInv'
<1>1. TypeInv' /\ AccInv'
  BY TypesNext, AccNext
<1>2. CASE UNCHANGED vars
  <2>1. UNCHANGED <<flash, bad, dataBlk, logBlk, lastUsed, pmap, free, clean, pc, req, job, bm, flight>>
    BY <1>2 DEF vars, tables
  <2>2. Mode' = Mode /\ Known' = Known /\ FreshLog' = FreshLog /\ MoveNext' = MoveNext /\ Copied(bm.ret)' = Copied(bm.ret)
    BY <2>1 DEF Mode, Known, FreshLog, MoveNext, ValidPages, Copied
  <2>3. Stored' /\ FlightEnds'
    BY <2>1, <2>2 DEF UseInv, Stored, Blank, FreeErased, FlightFree, Page0First, FlightEnds
  <2>4. LogInfo' /\ MergeInfo' /\ RestoreInfo'
    BY <2>1, <2>2 DEF UseInv, LogInfo, MergeInfo, RestoreInfo, Begun
  <2> QED BY <2>3, <2>4 DEF UseInv
<1>3. CASE Call
  <2>1. LML_PageRead => UseInv'
    BY UseSwitch DEF LML_PageRead
  <2> QED BY <1>1, <1>3, <2>1, UsePageWrite, UseCloseWritePage, UseEvictPageMap, UseMergeOldest, UseWriteBackMapTbl DEF Call
<1>4. CASE Step
  <2>1. SwitchForWrite => UseInv'
    BY UseSwitch DEF SwitchForWrite
  <2>2. ~WriteFails /\ ~NoFreeBlk
    BY <1>1 DEF AccInv, WriteFails, NoFreeBlk, GiveUp
  <2> QED BY <1>1, <1>4, <2>1, <2>2, UseCreateNewLogBlk, UseWriteDataInfo, UseGetLogPage, UseWriteLogInfo,
             UseProgramPage, UseSyncFails, UseWritePageMapTbl, UseMergeLogBlk,
             UseSwapCopy, UseSwapDone, UseMovePage0, UseMoveCopy, UseMoveDone, UseSimpleCopy,
             UseSimpleDone, UseEraseBlk, UseMergeDone, UseRestorePageData, UseRestoreFails,
             UseMarkBadBlk, UseLoadTables, UseStartScan, UseScanBlk, UseScanDone DEF Step
<1> QED BY <1>2, <1>3, <1>4 DEF Next

LEMMA UseNext ==
    ASSUME TypeInv, AccInv, UseInv, EnoughSpares, MaxEraseFails = 0, ErasesWhole, [Next]_vars
    PROVE  UseInv'
BY UseKept, UsePowerCut, TypesNext, AccNext

-----------------------------------------------------------------------------
(* The theorem.                                                             *)

\* A block of the free block table is erased and not bad, so that _CreateNewLogBlk, the
\* merges and LML_BadBlkManage can program it as it is.  After a power cut the rebuild
\* calls every block free whose page 0 has no logical information: such a block holds
\* nothing, because page 0 is programmed first and its program has ended before any other
\* one of the block that a power cut could leave.
THEOREM FreeBlocksReady ==
    ASSUME EnoughSpares, MaxEraseFails = 0, ErasesWhole PROVE Spec => []FreeBlocksUsable
<1> DEFINE Inv == TypeInv /\ AccInv /\ UseInv
<1>1. ASSUME Inv, [Next]_vars PROVE Inv'
  BY <1>1, TypesNext, AccNext, UseNext
<1>2. Init => Inv
  BY TypesInit, AccInit, UseInit
<1>3. Inv => FreeBlocksUsable
  BY DEF FreeBlocksUsable, Known, AccInv, Accounted, Split, UseInv, Stored, FreeErased
<1> QED BY <1>1, <1>2, <1>3, PTL DEF Spec
=============================================================================
