------------------------------ MODULE MCDisks ------------------------------
(* The NAND controller, the identification of the chips, the physical      *)
(* operations on them, the search for the driver's tables, the boot areas  *)
(* of the flash, and the disk that the original boot.axf offers over USB.  *)
(* In each behaviour one of them runs and the others stay as they start.   *)
EXTENDS ZoneTables, UsbStorage, BootArea, NandScan, NandController

VARIABLE disks

vars == <<disks, zoneVars, storageVars, bootVars, phyVars, scanVars, nfcVars>>

-----------------------------------------------------------------------------
\* Every kind of SCSI command, and a write of no blocks.
ScsiCommands ==
    {[op |-> "plain", n |-> 0], [op |-> "short", n |-> 0], [op |-> "read", n |-> 2],
     [op |-> "write", n |-> 2], [op |-> "write", n |-> 0], [op |-> "unknown", n |-> 0]}

\* Chips of nand_id.c in small: two planes or one, a level of the reference voltage that
\* stays as the last read left it or goes back to the first one, or no choice of levels
\* and copies inside of the chip; every kind of wiring for two chips.
Chip(rb, planes, offset, cycle, resets, copyback) ==
    [rb |-> rb, planes |-> planes, offset |-> offset, cycle |-> cycle, resets |-> resets, copyback |-> copyback]

Storages ==
    {Chip(2, 2, 2, 1, FALSE, FALSE), Chip(5, 1, 1, 2, FALSE, FALSE), Chip(3, 1, 1, 1, TRUE, FALSE),
     Chip(4, 2, 1, -1, FALSE, TRUE), Chip(0, 1, 1, -1, FALSE, TRUE)}

\* Rows of the tables of Toshiba and Micron in nand_id.c: six known bytes, the same
\* chip with four, five, and three, which are found for no chip.
Tables ==
    [maker \in {152, 44} |->
        IF maker = 152
        THEN <<<<152, 218, AnyByte, 149, AnyByte, AnyByte>>, <<152, 215, 148, 50, AnyByte, AnyByte>>,
               <<152, 222, 148, 130, 118, AnyByte>>, <<152, 215, 148, 50, 118, 86>>>>
        ELSE <<<<44, 104, 4, 70, AnyByte, AnyByte>>, <<44, 104, 4, 74, AnyByte, AnyByte>>>>]

\* Boards with one kind of chip, in the combinations the modes stand for and in others,
\* and with a chip that differs in the third or the fifth byte.
Kinds == {<<152, 215, 148, 50, 118>>, <<152, 222, 148, 130, 118>>, <<152, 218, 16, 149, 0>>,
          <<44, 104, 4, 74, 169>>, <<1, 2, 3, 4, 5>>}
Boards == {{0}, {0, 1}, {0, 2}, {0, 7}, {0, 3}, 0 .. 2, 0 .. 3, {0, 2, 4, 6}, {0, 1, 4, 5}, Selects}
Board(k, s) == [c \in Selects |-> IF c \in s THEN k ELSE NoChip]
Mixed(k, j) == [Board(k, {0, 1}) EXCEPT ![2] = [k EXCEPT ![j] = 0]]

Wirings == {Board(k, s) : k \in Kinds, s \in Boards} \cup {Mixed(k, j) : k \in Kinds, j \in {3, 5}}

\* Controllers for chips of two page sizes, with and without the randomizer; boot0's
\* pages have the ECC mode of the data pages on the first, and bits of the page size of
\* the second are set for them.
Controller(ecc, size, random, ddr) == [ecc |-> ecc, size |-> size, random |-> random, ddr |-> ddr]

Controllers ==
    {Controller(8, 2, TRUE, FALSE), Controller(2, 4, TRUE, TRUE), Controller(1, 3, FALSE, FALSE)}

Accesses == <<"page", "1k", "seq">>

\* What a use of the device that ended with a power cut leaves: two zones with
\* one data block each (d, in this order), their table blocks (t) in the area, outside of it
\* or lost, at most one of them with tables that are up to date (v), whose data
\* block may be unwritten (u).
Places ==
    {t \in [Zones -> {0, 1, 2, None}] : t[0] # t[1] \/ t[0] = None}

Plans ==
    UNION {UNION {{[t |-> t, d |-> d, v |-> v, u |-> u] :
               d \in {d \in [Zones -> Blocks \ {t[0], t[1]}] : d[0] < d[1]},
               u \in SUBSET (v \cap {1})} :
               v \in {{}} \cup {{z} : z \in {z \in Zones : t[z] \in Area}}} : t \in Places}

\* The other blocks are free blocks of the zone that is up to date, blocks
\* nobody knows of, and at most one that is bad, holds something else, an older
\* table of zone 0 or an unfinished copy of its data.
Lost == 2
Broken == 3
Other == 4
Old == 5
Half == 6

FreeOf(o, z) == {b \in DOMAIN o : o[b] = z}

Others(p) ==
    {o \in [Blocks \ {p.t[0], p.t[1], p.d[0], p.d[1]} -> p.v \cup Lost .. Half] :
        /\ \A z \in p.v : Cardinality(FreeOf(o, z)) \in 1 .. 2
        /\ Cardinality({b \in DOMAIN o : o[b] > Lost}) <= 1
        /\ \A b \in FreeOf(o, Old) : p.t[0] # None /\ 0 \notin p.v /\ b \in Area
        /\ \A b \in FreeOf(o, Half) : 0 \notin p.v}

\* The table of a zone: its data block, then its free blocks.
Listing(p, o, z) ==
    LET rank(b) == Cardinality({c \in FreeOf(o, z) : c <= b})
    IN [j \in 0 .. SLOTS - 1 |->
           IF j = 0 THEN p.d[z] ELSE First({b \in FreeOf(o, z) : rank(b) = j})]

Layout(p, o) ==
    [b \in Blocks |->
        CASE b \in DOMAIN o -> (CASE o[b] <= Lost -> Blank [] o[b] = Broken -> Bad
                                  [] o[b] = Other -> Junk [] o[b] = Old -> Stale(0)
                                  [] o[b] = Half -> Part(0, 0))
          [] \E z \in p.v : b = p.t[z] -> LET z == CHOOSE z \in p.v : TRUE IN Table(z, Listing(p, o, z))
          [] \E z \in Zones \ p.v : b = p.t[z] -> Stale(CHOOSE z \in Zones : b = p.t[z])
          [] b \in {p.d[z] : z \in p.u} -> Blank
          [] OTHER -> DataOf(CHOOSE z \in Zones : b = p.d[z], 0)]

Layouts == UNION {{Layout(p, o) : o \in Others(p)} : p \in Plans}

-----------------------------------------------------------------------------
\* The driver when it does not run.
NoDriver ==
    /\ flash = [b \in Blocks |-> Blank] /\ die = NoDie /\ pst = [z \in Zones |-> None]
    /\ step = At("failed", 0) /\ odd = {} /\ written = {} /\ budget = [fails |-> 0, cuts |-> 0]

\* The chips when they are not used.
NoChips == info.rb = 0 /\ Cell(<<0, 0, 0>>, 0).at = 0
NoBoard == wired = Board(<<1, 2, 3, 4, 5>>, {0}) /\ tmpChipID[6] = 0

NoController == mode.ecc = 1

Init ==
    /\ disks \in {"format", "usb", "boot", "chips", "scan", "ndfc"}
    /\ StorageInit
    /\ BootInit
    /\ PhyInit
    /\ ScanInit
    /\ NfcInit
    /\ disks # "chips" => NoChips
    /\ disks # "scan" => NoBoard
    /\ disks # "ndfc" => NoController
    /\ IF disks = "format" THEN ZoneInit ELSE NoDriver

OnlyFormat == disks = "format" /\ UNCHANGED <<disks, storageVars, bootVars, phyVars, scanVars, nfcVars>>
OnlyUsb    == disks = "usb" /\ UNCHANGED <<disks, zoneVars, bootVars, phyVars, scanVars, nfcVars>>
OnlyBoot   == disks = "boot" /\ UNCHANGED <<disks, zoneVars, storageVars, phyVars, scanVars, nfcVars>>
OnlyChips  == disks = "chips" /\ UNCHANGED <<disks, zoneVars, storageVars, bootVars, scanVars, nfcVars>>
OnlyScan   == disks = "scan" /\ UNCHANGED <<disks, zoneVars, storageVars, bootVars, phyVars, nfcVars>>
OnlyNdfc   == disks = "ndfc" /\ UNCHANGED <<disks, zoneVars, storageVars, bootVars, phyVars, scanVars>>

Next ==
    \/ OnlyFormat /\ ZoneNext
    \/ OnlyUsb /\ StorageNext
    \/ OnlyBoot /\ BootNext
    \/ OnlyChips /\ PhyNext
    \/ OnlyScan /\ ScanNext
    \/ OnlyNdfc /\ NfcNext

\* The program that runs makes progress, and the host goes on with a transfer.
Fairness ==
    /\ WF_zoneVars(disks = "format" /\ FormatStep)
    /\ WF_storageVars(disks = "usb" /\ LoopStep)
    /\ WF_storageVars(disks = "usb" /\ pc # "left" /\ HostStep)

Spec == Init /\ [][Next]_vars /\ Fairness

-----------------------------------------------------------------------------
\* What is stored in the flash stays in its place: the boot areas outside of the range
\* that is written, and the super pages, which every read finds again.  The chips the
\* driver addresses are those that are there, and the controller decodes a page as it
\* was written.
FlashSound == RangeOnly /\ Placed /\ ReadsAtSomeLevel /\ ChipsFound /\ RegistersKept /\ Decodes

\* The start of the driver ends, and every SCSI command is answered.  As "disks" never
\* changes, this is FormatEnds and Answered, each for the behaviours of its program.
Ends ==
    (\/ disks = "format" /\ Searching
     \/ disks = "usb" /\ Waiting /\ Known)
      ~> (\/ disks = "format" /\ Formatted
          \/ disks = "usb" /\ (~Waiting \/ fault # {} \/ pc = "left"))
===========================================================================
