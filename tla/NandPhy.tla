------------------------------ MODULE NandPhy -------------------------------
(***************************************************************************)
(* The physical operations of the NAND driver (physic/nand_phy.c,          *)
(* nand_simple_r.c, nand_simple_w.c) on super pages: a super page is the   *)
(* page of the same number in a block of each plane.                       *)
(*                                                                         *)
(* A page of a worn chip can be read at one level of the chip's reference  *)
(* voltage only.  A read that meets an ECC error sets the next level and   *)
(* tries again; the chip and RetryCount stay at the level that read, or go *)
(* back to the first one, depending on the maker.                          *)
(*                                                                         *)
(* What is known of the chips (NandStorageInfo) is a variable that never   *)
(* changes, so that one model has several kinds of chips.  An              *)
(* attempt to read a page, an erase, and a program of all planes are one   *)
(* step each.                                                              *)
(***************************************************************************)
EXTENDS Integers, FiniteSets

CONSTANTS
    STORAGES,     \* what the chips can do: entries of the tables of nand_id.c
    BANKS,        \* number of banks
    SUPERS,       \* super blocks of a bank
    PAGES,        \* PAGE_CNT_OF_PHY_BLK
    SECTS,        \* SECTOR_CNT_OF_SINGLE_PAGE
    MAX_PHY_OPS,  \* bound: operations
    MAX_FAULTS    \* bound: operations of the hardware that fail

VARIABLES
    info,        \* NandStorageInfo: rb, planes, offset, cycle, resets, copyback
    cells,       \* every page of the chips: what it holds and the level that reads it
    level,       \* level each chip is set to
    RetryCount,  \* the level the driver takes it for
    call,        \* the operation under way, or the last one
    buffer,      \* the caller's buffer, by sector of the super page
    book,        \* what the callers have stored in every super page
    stray,       \* super pages that a copy in two planes has missed or hit
    slipped,     \* chips that are not set to the level RetryCount
    opsLeft,     \* operations still to come
    faultsLeft   \* faults still to come

phyVars == <<info, cells, level, RetryCount, call, buffer, book, stray, slipped, opsLeft, faultsLeft>>

-----------------------------------------------------------------------------
(* Addresses.                                                               *)

\* _cal_real_chip: the chip select of a bank, by the way the chips are wired.
ChipOfBank(rb, bank) ==
    CASE rb = 0 /\ bank <= 2 -> IF bank > 0 THEN 7 ELSE 0
      [] rb = 1 /\ bank <= 1 -> bank
      [] rb = 2 /\ bank <= 2 -> bank
      [] rb = 3 /\ bank <= 2 -> bank * 2
      [] rb = 4 /\ bank <= 4 -> <<0, 2, 1, 3, 0>>[bank + 1]
      [] rb = 5 /\ bank <= 4 -> bank * 2
      [] rb = 8 /\ bank <= 8 -> <<0, 2, 1, 3, 4, 6, 5, 7, 0>>[bank + 1]
      [] OTHER -> 255

\* _cal_real_rb: the ready/busy line of a chip select.
RbOfChip(rb, chip) ==
    CASE rb \in {1, 2} -> chip
      [] rb \in {3, 4} -> chip \div 2
      [] rb \in {5, 8} -> (chip \div 2) % 2
      [] OTHER -> 0

RealChip(bank) == ChipOfBank(info.rb, bank)

\* Mutant: the blocks of the planes are not interleaved.
BlockInChipPlain(super) == IF info.planes > 1 THEN super * info.planes ELSE super

\* _cal_block_in_chip, for the one bank a chip has without internal interleave: the
\* block of the first plane.  The block of plane q follows q * offset blocks later.
BlockInChip(super) ==
    IF info.planes > 1 THEN super * info.planes - (super % info.offset) ELSE super

Planes == 0 .. info.planes - 1
PhyBlocks == 0 .. info.planes * SUPERS - 1
Chips == {RealChip(b) : b \in 0 .. BANKS - 1}
InPlane(super, q) == BlockInChip(super) + q * info.offset
SuperPages == (0 .. BANKS - 1) \X (0 .. SUPERS - 1) \X (0 .. PAGES - 1)
Cell(a, q) == cells[RealChip(a[1])][InPlane(a[2], q)][a[3]]

-----------------------------------------------------------------------------
(* The flash.  A page holds one plane's part of what was stored with an id. *)
(* at is the level that reads it, Never when none does.                     *)

Never == -1
Clean == [id |-> 0, part |-> 0, at |-> 0]
Spoilt == [id |-> -1, part |-> 0, at |-> Never]
Levels == 0 .. (IF info.cycle < 0 THEN 0 ELSE info.cycle)

\* What a sector is read as; Garbage stands for any wrong data.
Garbage == -1
Untouched == -2
Datum(id, q, s) == IF id <= 0 THEN id ELSE 100 * id + 10 * q + s

\* Return codes.  ret |= code makes of two codes that differ a third, which is
\* negative and none of them (10 | -12 is -2, 10 | -14 is -6, -12 | -14 is -10); FAIL
\* stands for those.
ECC_LIMIT == 10
FAIL == -1
ERR_ECC == -12
ERR_TIMEOUT == -14
Join(ret, code) == IF ret = code \/ code = 0 THEN ret ELSE IF ret = 0 THEN code ELSE FAIL

NoCall == [op |-> "none", src |-> <<0, 0, 0>>, dst |-> <<0, 0, 0>>, want |-> {}, plane |-> 0, k |-> 0,
           ret |-> 0, calm |-> TRUE]

Begin == /\ call.op \in {"none", "done"} /\ opsLeft > 0
         /\ opsLeft' = opsLeft - 1
Fault == faultsLeft > 0 /\ faultsLeft' = faultsLeft - 1

\* The pages `which` of the blocks of super page a become page[q] in plane q.
SetPages(a, which, page) ==
    cells' = [cells EXCEPT ![RealChip(a[1])] =
                 [b \in PhyBlocks |-> [p \in 0 .. PAGES - 1 |->
                     IF p \in which /\ \E q \in Planes : b = InPlane(a[2], q)
                     THEN page[CHOOSE q \in Planes : b = InPlane(a[2], q)] ELSE @[b][p]]]]

-----------------------------------------------------------------------------
(* PHY_BlockErase: one command for the blocks of all planes.                *)
BlockErase(bank, super) ==
    LET a == <<bank, super, 0>>
        inside == {x \in SuperPages : x[1] = bank /\ x[2] = super}
    IN  /\ Begin
        /\ \/ /\ SetPages(a, 0 .. PAGES - 1, [q \in Planes |-> Clean])
              /\ book' = [x \in SuperPages |-> IF x \in inside THEN 0 ELSE book[x]]
              /\ stray' = stray \ inside
              /\ UNCHANGED faultsLeft
           \/ /\ Fault
              /\ SetPages(a, 0 .. PAGES - 1, [q \in Planes |-> Spoilt])
              /\ book' = [x \in SuperPages |-> IF x \in inside THEN -1 ELSE book[x]]
              /\ UNCHANGED stray
        /\ call' = NoCall
        /\ UNCHANGED <<info, level, RetryCount, buffer, slipped>>

(* PHY_PageWrite: a program command for every plane; the last one starts    *)
(* them.  A plane that fails only shows in the status.  A page that is not  *)
(* clean is ruined.  `land` is the page the commands address, `id` what the *)
(* callers believe to be in a afterwards.                                   *)
Program(a, land, new, id) ==
    LET put(q) == IF Cell(<<a[1], a[2], land>>, q) = Clean THEN new[q] ELSE Spoilt
        known(n) == book' = [book EXCEPT ![a] = n]
    IN  \/ /\ SetPages(a, {land}, [q \in Planes |-> put(q)])
           /\ known(id)
           /\ UNCHANGED faultsLeft
        \/ \E bad \in SUBSET Planes \ {{}} :
              /\ Fault
              /\ SetPages(a, {land}, [q \in Planes |-> IF q \in bad THEN Spoilt ELSE put(q)])
              /\ known(-1)

PageWrite(a) ==
    /\ Begin
    /\ LET id == 2 + MAX_PHY_OPS - opsLeft
       IN \E at \in Levels :
             Program(a, a[3], [q \in Planes |-> [id |-> id, part |-> q, at |-> at]], id)
    /\ call' = NoCall
    /\ UNCHANGED <<info, level, RetryCount, buffer, stray, slipped>>

-----------------------------------------------------------------------------
(* PHY_PageRead: the sectors of the bitmap, plane after plane.  `want` is   *)
(* the bitmap.                                                              *)
AllSectors == 0 .. info.planes * SECTS - 1

StartRead(op, src, dst, want) ==
    /\ Begin
    /\ call' = [NoCall EXCEPT !.op = op, !.src = src, !.dst = dst, !.want = want,
                              !.calm = RealChip(src[1]) \notin slipped]
    /\ buffer' = [s \in AllSectors |-> Untouched]
    /\ UNCHANGED <<info, cells, level, RetryCount, book, stray, slipped, faultsLeft>>

Reading == call.op \in {"read", "copy"} /\ call.plane \in Planes
PlaneWant == {s \in call.want : s \div SECTS = call.plane}
InUse == RealChip(call.src[1])

\* A plane without a sector in the bitmap is left out.
SkipPlane ==
    /\ Reading /\ PlaneWant = {}
    /\ call' = [call EXCEPT !.plane = @ + 1]
    /\ UNCHANGED <<info, cells, level, RetryCount, buffer, book, stray, slipped, opsLeft, faultsLeft>>

\* RetryCount as the attempt finds it: makers whose chips go back to the first
\* level start from 0, and it wraps around.
Count ==
    LET c == IF call.k = 0 /\ info.resets THEN 0 ELSE RetryCount[InUse]
    IN IF c = info.cycle + 1 THEN 0 ELSE c

\* An attempt, with the randomizer and without: a clean page reads well at any level.
Attempts(cell, lv) == IF cell = Clean THEN {0} ELSE IF cell.at = lv THEN {0, ECC_LIMIT} ELSE {ERR_ECC}

\* _read_single_page or _read_sectors is through with the plane.
PlaneEnds(code, cell, right) ==
    /\ call' = [call EXCEPT !.plane = @ + 1, !.k = 0, !.ret = Join(@, code),
                            !.calm = @ /\ code \in {0, ECC_LIMIT, ERR_ECC}]
    /\ buffer' = [s \in AllSectors |->
                     IF s \notin PlaneWant THEN buffer[s]
                     ELSE IF right THEN Datum(cell.id, cell.part, s % SECTS) ELSE Garbage]

\* One round of the retry loop.  The first one reads at the level the chip is left
\* at, the others set the level RetryCount, which may fail.
ReadPlane ==
    /\ Reading /\ PlaneWant # {}
    /\ LET cell == Cell(call.src, call.plane)
           lv == IF call.k > 0 THEN Count ELSE level[InUse]
           set == IF call.k > 0 THEN slipped \ {InUse} ELSE slipped
           again(r) == r = ERR_ECC /\ call.k < info.cycle
           code(r) == IF info.cycle >= 0 /\ r = ECC_LIMIT THEN 0 ELSE r
           leave == /\ level' = [level EXCEPT ![InUse] = IF info.resets THEN 0 ELSE lv]
                    /\ RetryCount' = [RetryCount EXCEPT ![InUse] = Count]
                    /\ slipped' = IF info.resets THEN set \ {InUse} ELSE set
       IN \/ \E r \in Attempts(cell, lv) :
                /\ again(r)
                /\ RetryCount' = [RetryCount EXCEPT ![InUse] = Count + 1]
                /\ level' = [level EXCEPT ![InUse] = lv]
                /\ slipped' = set
                /\ call' = [call EXCEPT !.k = @ + 1]
                /\ UNCHANGED <<buffer, faultsLeft>>
          \/ \E r \in Attempts(cell, lv) :
                /\ ~again(r)
                /\ PlaneEnds(code(r), cell, r # ERR_ECC)
                /\ leave
                /\ UNCHANGED faultsLeft
          \/ /\ Fault /\ PlaneEnds(ERR_TIMEOUT, cell, FALSE) /\ leave
          \/ /\ call.k > 0
             /\ Fault /\ PlaneEnds(FAIL, cell, FALSE)
             /\ RetryCount' = [RetryCount EXCEPT ![InUse] = Count]
             /\ slipped' = slipped \cup {InUse}
             /\ UNCHANGED level
    /\ UNCHANGED <<info, cells, book, stray, opsLeft>>

\* An ECC error in every plane that was read is no error for the caller.
ReadCode == IF call.ret = ERR_ECC THEN 0 ELSE call.ret

ReadEnds ==
    /\ call.op = "read" /\ call.plane \notin Planes
    /\ call' = [call EXCEPT !.op = "done", !.ret = ReadCode]
    /\ UNCHANGED <<info, cells, level, RetryCount, buffer, book, stray, slipped, opsLeft, faultsLeft>>

-----------------------------------------------------------------------------
(* PHY_PageCopyback.  Pages of different parity, and those of a chip that   *)
(* cannot copy by itself, are read and written.                             *)

\* What the callers may take to be in the destination.
Copied(src) ==
    IF src \notin stray /\ \A q \in Planes : Cell(src, q).at \in Levels THEN book[src] ELSE -1

\* The page that is written after the read: wrong data gets an ECC of its own.
CopyWrites ==
    /\ call.op = "copy" /\ call.plane \notin Planes
    /\ IF ReadCode < 0
       THEN /\ call' = [NoCall EXCEPT !.ret = ReadCode]
            /\ UNCHANGED <<cells, book, faultsLeft>>
       ELSE /\ \E at \in Levels :
                  Program(call.dst, call.dst[3],
                          [q \in Planes |-> LET v == buffer[q * SECTS]
                                            IN IF v = 0 THEN Clean
                                               ELSE [id |-> IF v > 0 THEN v \div 100 ELSE v,
                                                     part |-> IF v > 0 THEN (v % 100) \div 10 ELSE 0, at |-> at]],
                          IF call.calm THEN Copied(call.src) ELSE -1)
            /\ call' = NoCall
    /\ UNCHANGED <<info, level, RetryCount, buffer, stray, slipped, opsLeft>>

\* Mutant: the copy of the wrong page's parity is left to the chip, too.
ByItselfAlways(src, dst) == info.copyback

ByItself(src, dst) == info.copyback /\ (src[3] + dst[3]) % 2 = 0

\* _single_copy_back, and _multi_copy_back, which programs the page of the source's
\* number.  The chip copies what it reads, with its errors.
CopyBack(src, dst) ==
    LET land == IF info.planes > 1 THEN src[3] ELSE dst[3]
    IN  /\ Begin
        /\ \/ /\ Program(dst, land, [q \in Planes |-> Cell(src, q)], Copied(src))
              /\ stray' = IF land = dst[3] THEN stray ELSE stray \cup {dst, <<dst[1], dst[2], land>>}
              /\ call' = NoCall
           \/ /\ Fault
              /\ call' = [NoCall EXCEPT !.ret = FAIL]
              /\ UNCHANGED <<cells, book, stray>>
        /\ UNCHANGED <<info, level, RetryCount, buffer, slipped>>

PageCopyback(src, dst) ==
    \/ ByItself(src, dst) /\ CopyBack(src, dst)
    \/ ~ByItself(src, dst) /\ StartRead("copy", src, dst, AllSectors)

-----------------------------------------------------------------------------
(* The callers store in a clean page behind the last one in use of a block, *)
(* read what is in use or follows it, and copy within a bank.               *)
Open(a) == \A p \in a[3] .. PAGES - 1 : book[<<a[1], a[2], p>>] = 0
Used(a) == a[3] > 0 => ~Open(<<a[1], a[2], a[3] - 1>>)

PhyInit ==
    /\ info \in STORAGES
    /\ \E at \in [Planes -> Levels \cup {Never}], lv \in IF info.resets THEN {0} ELSE Levels :
          /\ cells = [c \in Chips |-> [b \in PhyBlocks |-> [p \in 0 .. PAGES - 1 |->
                         IF c = RealChip(0) /\ p = 0 /\ \E q \in Planes : b = InPlane(0, q)
                         THEN LET q == CHOOSE q \in Planes : b = InPlane(0, q)
                              IN [id |-> 1, part |-> q, at |-> at[q]]
                         ELSE Clean]]]
          /\ level = [c \in Chips |-> IF c = RealChip(0) THEN lv ELSE 0]
    /\ RetryCount = level
    /\ book = [a \in SuperPages |-> IF a = <<0, 0, 0>> THEN 1 ELSE 0]
    /\ call = NoCall /\ buffer = [s \in AllSectors |-> Untouched]
    /\ stray = {} /\ slipped = {} /\ opsLeft = MAX_PHY_OPS /\ faultsLeft = MAX_FAULTS

PhyNext ==
    \/ \E bank \in 0 .. BANKS - 1, super \in 0 .. SUPERS - 1 : BlockErase(bank, super)
    \/ \E a \in SuperPages : Open(a) /\ Used(a) /\ PageWrite(a)
    \/ \E a \in SuperPages : \E want \in {AllSectors, {0}} :
          Used(a) /\ StartRead("read", a, a, want)
    \/ \E src, dst \in SuperPages :
          book[src] > 0 /\ Open(dst) /\ src[1] = dst[1] /\ PageCopyback(src, dst)
    \/ SkipPlane \/ ReadPlane \/ ReadEnds \/ CopyWrites

PhySpec == PhyInit /\ [][PhyNext]_phyVars

-----------------------------------------------------------------------------
(* Properties.                                                              *)

\* What the callers stored in a super page is in the page of this number in every
\* plane, each part in its own, and nothing else has changed it: no two super pages
\* of the banks share a page of a chip.
Placed ==
    \A a \in SuperPages \ stray : book[a] >= 0 =>
        \A q \in Planes : Cell(a, q).id = book[a] /\ (book[a] > 0 => Cell(a, q).part = q)

\* A read brings the sectors of the bitmap and no others.  Whatever levels earlier
\* reads have left the chips at, a page that some level reads is read: every level is
\* tried before the read gives up, unless a level could not be set.
ReadsAtSomeLevel ==
    call.op = "done" =>
        /\ \A s \in AllSectors \ call.want : buffer[s] = Untouched
        /\ call.calm =>
              LET readable == {s \in call.want : Cell(call.src, s \div SECTS).at \in Levels}
              IN  /\ book[call.src] >= 0 /\ call.src \notin stray =>
                        \A s \in readable : buffer[s] = Datum(book[call.src], s \div SECTS, s % SECTS)
                  /\ readable = call.want => call.ret \in {0, ECC_LIMIT}
=============================================================================
