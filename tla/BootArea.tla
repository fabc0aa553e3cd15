------------------------------ MODULE BootArea ------------------------------
(***************************************************************************)
(* The boot areas of the flash (bootarea_read and bootarea_write of        *)
(* nand_sunxi/src/physic/nand_phy.c): boot0 with pages of two sectors, and *)
(* boot1 behind it with whole pages.  There is no translation layer: a     *)
(* write erases every block of its range and programs it again, with what  *)
(* the block held outside of the range in between.                         *)
(*                                                                         *)
(* A sector is counted from the first one of boot0's pages, so that the    *)
(* area starts at sector LEAD of the flash.  A block's erase and each page *)
(* program are steps of their own.                                         *)
(***************************************************************************)
EXTENDS Integers

CONSTANTS
    PAGE_SECTORS,   \* sectcnt_in_page
    BLOCK_PAGES,    \* PAGE_CNT_OF_PHY_BLK
    LEAD_BLOCKS,    \* blocks before the area (0x200 pages for boot1)
    AREA_BLOCKS,    \* blocks of the area
    MAX_BOOT_CALLS  \* bound on the number of writes

ASSUME BootAssumption ==
    /\ {PAGE_SECTORS, BLOCK_PAGES, AREA_BLOCKS} \subseteq Nat \ {0}
    /\ {LEAD_BLOCKS, MAX_BOOT_CALLS} \subseteq Nat

PerBlock == PAGE_SECTORS * BLOCK_PAGES   \* sectcnt_in_block
LEAD == LEAD_BLOCKS * PerBlock
Sectors == 0 .. (LEAD_BLOCKS + AREA_BLOCKS) * PerBlock - 1
BlockOf(s) == s \div PerBlock
Ruined == -1                             \* erased, or torn by a failing operation

VARIABLES
    area,     \* content of every sector
    before,   \* the same when the current write was called
    boot      \* the write: its range, and the locals of bootarea_write

bootVars == <<area, before, boot>>

-----------------------------------------------------------------------------
(* bootarea_read: up to the end of a page, whole pages, and the rest.  A    *)
(* position k of the buffer comes from this sector.                         *)
ReadFrom(first, count, k) ==
    LET off == first % PAGE_SECTORS
        inFirst == IF off = 0 THEN 0 ELSE PAGE_SECTORS - off
        page == (first \div PAGE_SECTORS) + LEAD_BLOCKS * BLOCK_PAGES
    IN  IF k < inFirst THEN page * PAGE_SECTORS + off + k
        ELSE LET n == k - inFirst
                 skip == IF off = 0 THEN 0 ELSE 1
             IN (page + skip + (n \div PAGE_SECTORS)) * PAGE_SECTORS + (n % PAGE_SECTORS)

ReadArea(first, count) == [k \in 0 .. count - 1 |-> area[ReadFrom(first, count, k)]]

\* What the caller's buffer holds: each call writes values of its own.
Value(call, k) == 100 * call + k

-----------------------------------------------------------------------------
(* bootarea_write.                                                          *)

BootIdle == [at |-> "idle", call |-> 0, first |-> 0, count |-> 0, left |-> 0, off |-> 0,
             block |-> 0, page |-> 0, image |-> <<>>, status |-> "none"]

Write(first, count) ==
    /\ boot.at = "idle"
    /\ boot.call < MAX_BOOT_CALLS
    /\ boot' = [BootIdle EXCEPT !.at = "head", !.call = boot.call + 1, !.first = first, !.count = count,
                                !.left = count, !.block = BlockOf(first + LEAD)]
    /\ before' = area
    /\ UNCHANGED area

Start == (boot.first + LEAD) % PerBlock          \* bsector, the position in the first block
Inside == Start > 0 /\ Start + boot.count < PerBlock
FirstOf(block) == block * PerBlock - LEAD        \* the block's first sector, counted in the area

\* The block under way becomes `image`, and then `used` sectors of the buffer are
\* written; or the sectors around them could not be read and nothing is erased.
Rewrite(image, used) ==
    boot' = [boot EXCEPT !.at = "erase", !.image = image, !.page = 0, !.off = @ + used, !.left = @ - used]
ReadFails == boot' = [boot EXCEPT !.at = "idle", !.status = "failed"]

\* The write starts within a block: its beginning is read, and its end too when the
\* write does not reach it.
FromBuf(k) == Value(boot.call, boot.off + k)
MergeBegin ==
    /\ boot.at = "head" /\ Start > 0
    /\ LET head == ReadArea(FirstOf(boot.block), Start)
           rest == ReadArea(FirstOf(boot.block) + boot.count, PerBlock - Start - boot.count)
           used == IF Inside THEN boot.count ELSE PerBlock - Start
       IN  \/ Rewrite([s \in 0 .. PerBlock - 1 |->
                          IF s < Start THEN head[s]
                          ELSE IF s < Start + used THEN FromBuf(s - Start) ELSE rest[s - Start - used]], used)
           \/ ReadFails
    /\ UNCHANGED <<area, before>>

\* Whole blocks need nothing of what they held.
Aligned == boot.at = "next" \/ (boot.at = "head" /\ Start = 0)
WholeBlock ==
    /\ Aligned /\ boot.left >= PerBlock
    /\ Rewrite([s \in 0 .. PerBlock - 1 |-> FromBuf(s)], PerBlock)
    /\ UNCHANGED <<area, before>>

\* Mutant: the end of the block is taken from its beginning.
EndOf(n) == ReadArea(FirstOf(boot.block) + n, PerBlock - n)
BeginningOf(n) == ReadArea(FirstOf(boot.block), PerBlock - n)
MergeEndMisplaced ==
    /\ Aligned /\ boot.left \in 1 .. PerBlock - 1
    /\ LET n == boot.left
       IN  Rewrite([s \in 0 .. PerBlock - 1 |-> IF s < n THEN FromBuf(s) ELSE BeginningOf(n)[s - n]], n) \/ ReadFails
    /\ UNCHANGED <<area, before>>

MergeEnd ==
    /\ Aligned /\ boot.left \in 1 .. PerBlock - 1
    /\ LET n == boot.left
       IN  Rewrite([s \in 0 .. PerBlock - 1 |-> IF s < n THEN FromBuf(s) ELSE EndOf(n)[s - n]], n) \/ ReadFails
    /\ UNCHANGED <<area, before>>

Done == /\ Aligned /\ boot.left = 0
        /\ boot' = [boot EXCEPT !.at = "idle", !.status = "ok"]
        /\ UNCHANGED <<area, before>>

\* PHY_SimpleErase and the page programs of one block; a failure ends the write.
Put(block, content) ==
    area' = [s \in Sectors |-> IF s - block * PerBlock \in DOMAIN content
                               THEN content[s - block * PerBlock] ELSE area[s]]
OperationFails == boot' = [boot EXCEPT !.at = "idle", !.status = "failed"]

Erase ==
    /\ boot.at = "erase"
    /\ Put(boot.block, [s \in 0 .. PerBlock - 1 |-> Ruined])
    /\ boot' = [boot EXCEPT !.at = "program"] \/ OperationFails
    /\ UNCHANGED before

ProgramPage ==
    /\ boot.at = "program"
    /\ LET from == boot.page * PAGE_SECTORS
           last == boot.page = BLOCK_PAGES - 1
       IN  \/ /\ Put(boot.block, [s \in from .. from + PAGE_SECTORS - 1 |-> boot.image[s]])
              /\ boot' = [boot EXCEPT !.page = @ + 1,
                                      !.at = IF last THEN "next" ELSE @,
                                      !.block = IF last THEN @ + 1 ELSE @]
           \/ UNCHANGED area /\ OperationFails
    /\ UNCHANGED before

\* The power fails between two flash operations.
CutOff == /\ boot.at # "idle"
          /\ boot' = [boot EXCEPT !.at = "idle", !.status = "cut"]
          /\ UNCHANGED <<area, before>>

BootInit ==
    /\ area = [s \in Sectors |-> s]
    /\ before = area
    /\ boot = BootIdle

BootStep == MergeBegin \/ WholeBlock \/ MergeEnd \/ Done \/ Erase \/ ProgramPage

BootNext ==
    \/ \E first \in 0 .. AREA_BLOCKS * PerBlock - 1 :
          \E count \in 1 .. AREA_BLOCKS * PerBlock - first : Write(first, count)
    \/ BootStep
    \/ CutOff

BootSpec == BootInit /\ [][BootNext]_bootVars

-----------------------------------------------------------------------------
(* Properties.                                                              *)

Target == LEAD + boot.first .. LEAD + boot.first + boot.count - 1
Written == [s \in Sectors |-> IF s \in Target THEN Value(boot.call, s - LEAD - boot.first) ELSE before[s]]

\* After a write that returned 0 the flash holds the data in the range and what it
\* held everywhere else: "merge data to write with data from block" (bootarea_write).
WriteExact == boot.status = "ok" => area = Written

\* The same for the writes that do not begin and end within one block, for which the
\* code reads the end of the block from a wrong place; and whatever fails or is cut,
\* every block outside of the range, those of the other boot area among them, stays as it was,
\* and so does the block that comes next as long as it is not erased.
RangeOnly ==
    /\ Inside \/ WriteExact
    /\ \A s \in Sectors : \/ area[s] = before[s]
                          \/ BlockOf(s) \in {BlockOf(t) : t \in Target} /\ BlockOf(s) <= boot.block
=============================================================================
