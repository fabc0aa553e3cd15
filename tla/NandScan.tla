------------------------------ MODULE NandScan ------------------------------
(***************************************************************************)
(* Identification of the NAND chips (scan/nand_scan.c).  The chip at the   *)
(* boot chip select is looked up in the table of its maker; every other    *)
(* chip select that answers with the same identification is counted; the   *)
(* wiring of the ready/busy lines follows from the selects in use.         *)
(*                                                                         *)
(* NFC_GetId reads five of the six bytes that are compared.  The sixth     *)
(* byte of tmpChipID is never written: it holds any value.  The results    *)
(* for the other chip selects are not looked at: a read that fails leaves  *)
(* the bytes of the chip before.                                           *)
(***************************************************************************)
EXTENDS NandPhy, Sequences

CONSTANTS
    TABLES,          \* rows of nand_id.c, by the maker's byte: six bytes each
    WIRINGS,         \* boards: the five bytes that each chip select answers with
    UNREAD,          \* values of the byte that is not read
    MAX_SCAN_FAULTS  \* bound: reads of an identification that fail

Selects == 0 .. 7
AnyByte == 255

\* Nothing is at a chip select: nothing drives the bus.
NoChip == <<255, 255, 255, 255, 255>>

VARIABLES
    wired,      \* the board
    tmpChipID,  \* the bytes read last
    scan        \* place, next chip select; row found, count and set of chips, rb mode, faults left

scanVars == <<wired, tmpChipID, scan>>

ScanInit ==
    /\ wired \in WIRINGS
    /\ \E x \in UNREAD : tmpChipID = <<0, 0, 0, 0, 0, x>>
    /\ scan = [pc |-> "boot", next |-> 0, row |-> 0, count |-> 1, connect |-> {0}, rb |-> 1,
               faults |-> MAX_SCAN_FAULTS]

-----------------------------------------------------------------------------
(* _SearchNandArchi.                                                        *)

Rows(maker) == IF maker \in DOMAIN TABLES THEN TABLES[maker] ELSE <<>>
Fits(row, id) == \A j \in 2 .. 6 : row[j] \in {id[j], AnyByte}
KnownBytes(row) == 1 + Cardinality({j \in 2 .. 6 : row[j] # AnyByte})

\* The rows that fit, with so many known bytes.
RowsKnowing(id, n) == {i \in DOMAIN Rows(id[1]) : Fits(Rows(id[1])[i], id) /\ KnownBytes(Rows(id[1])[i]) = n}
LastRow(s) == CHOOSE i \in s : \A j \in s : j <= i

\* The last row with the most known bytes, 0 without one.  A row of three known bytes
\* is in none of the slots.
SearchNandArchi(id) ==
    CASE RowsKnowing(id, 6) # {} -> LastRow(RowsKnowing(id, 6))
      [] RowsKnowing(id, 6) = {} /\ RowsKnowing(id, 5) # {} -> LastRow(RowsKnowing(id, 5))
      [] OTHER -> IF RowsKnowing(id, 4) = {} THEN 0 ELSE LastRow(RowsKnowing(id, 4))

-----------------------------------------------------------------------------
(* SCN_AnalyzeNandSystem.                                                   *)

GetId(select) == [j \in 1 .. 6 |-> IF j = 6 THEN tmpChipID[6] ELSE wired[select][j]]
ScanFault == scan.faults > 0

\* The boot chip: a failed reset or read and an unknown chip end the scan.
BootChip ==
    /\ scan.pc = "boot"
    /\ \/ /\ tmpChipID' = GetId(0)
          /\ LET row == SearchNandArchi(tmpChipID')
             IN scan' = IF row = 0 THEN [scan EXCEPT !.pc = "failed"]
                        ELSE [scan EXCEPT !.pc = "probe", !.next = 1, !.row = row]
       \/ /\ ScanFault
          /\ scan' = [scan EXCEPT !.pc = "failed", !.faults = @ - 1]
          /\ UNCHANGED tmpChipID
    /\ UNCHANGED wired

\* NandStorageInfo.NandChipId holds the row's bytes, not those of the chip.
FoundRow == Rows(wired[0][1])[scan.row]
SameChip(id) ==
    /\ \A j \in 1 .. 4 : id[j] = FoundRow[j]
    /\ \A j \in 5 .. 6 : FoundRow[j] \in {id[j], AnyByte}

\* The next chip select: the bytes are compared, whether they were read now or before.
Counted(s, id) ==
    [s EXCEPT !.count = IF SameChip(id) THEN @ + 1 ELSE @,
              !.connect = IF SameChip(id) THEN @ \cup {s.next} ELSE @,
              !.next = @ + 1,
              !.pc = IF s.next = 7 THEN "connect" ELSE @]

Probe ==
    /\ scan.pc = "probe"
    /\ \/ /\ tmpChipID' = GetId(scan.next)
          /\ scan' = Counted(scan, tmpChipID')
       \/ /\ ScanFault
          /\ UNCHANGED tmpChipID
          /\ scan' = [Counted(scan, tmpChipID) EXCEPT !.faults = @ - 1]
    /\ UNCHANGED wired

\* RbConnectMode, by the number of chips and their selects.
RbMode(count, connect) ==
    CASE count = 1 -> 1
      [] count = 2 /\ 1 \in connect -> 2
      [] count = 2 /\ 2 \in connect -> 3
      [] count = 2 /\ 7 \in connect -> 0
      [] count = 4 /\ connect = 0 .. 3 -> 4
      [] count = 4 /\ connect = {0, 2, 4, 6} -> 5
      [] count = 8 -> 8
      [] OTHER -> 255

\* A combination that no mode stands for ends the scan.
Connect ==
    /\ scan.pc = "connect"
    /\ LET mode == RbMode(scan.count, scan.connect)
       IN scan' = [scan EXCEPT !.rb = mode, !.pc = IF mode = 255 THEN "failed" ELSE "done"]
    /\ UNCHANGED <<wired, tmpChipID>>

ScanNext == BootChip \/ Probe \/ Connect

ScanSpec == ScanInit /\ [][ScanNext]_scanVars

-----------------------------------------------------------------------------
(* Properties.                                                              *)

\* The row that describes the chips is one that fits what was read, and none that fits
\* says more about the chip.
RowFits ==
    scan.row > 0 =>
        LET row == FoundRow
            id == [j \in 1 .. 6 |-> IF j = 6 THEN tmpChipID[6] ELSE wired[0][j]]
        IN /\ row[1] = id[1] /\ Fits(row, id)
           /\ \A i \in DOMAIN Rows(id[1]) :
                 Fits(Rows(id[1])[i], id) => KnownBytes(Rows(id[1])[i]) <= KnownBytes(row)

\* When every read succeeded, the chips that are counted are those of the boot chip's
\* kind, and all that are equal to it.
ChipsOfOneKind ==
    scan.pc \in {"connect", "done"} /\ scan.faults = MAX_SCAN_FAULTS =>
        /\ \A c \in scan.connect : \A j \in 1 .. 4 : wired[c][j] = wired[0][j]
        /\ \A c \in Selects : wired[c] = wired[0] => c \in scan.connect

\* The selects that PHY addresses for the banks are those of the chips that were
\* found, each for one bank, and each chip has one of the two ready/busy lines.
BanksReachChips ==
    scan.pc = "done" =>
        /\ scan.count = Cardinality(scan.connect)
        /\ {ChipOfBank(scan.rb, b) : b \in 0 .. scan.count - 1} = scan.connect
        /\ \A c \in scan.connect : RbOfChip(scan.rb, c) \in {0, 1}

ChipsFound == RowFits /\ ChipsOfOneKind /\ BanksReachChips
=============================================================================
