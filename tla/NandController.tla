--------------------------- MODULE NandController ---------------------------
(***************************************************************************)
(* The operations on the registers of the NAND controller (ndfc/nfc_r.c,   *)
(* nfc_w.c) and the ones of the physical layer that use them for a single  *)
(* page.  Data pages, the pages of boot0 ("1k") and those in sequential    *)
(* mode ("seq") each have an ECC mode, a page size and a randomizer seed   *)
(* of their own; the operations change the registers for their command and *)
(* put them back.  Each wait of an operation may time out.                 *)
(*                                                                         *)
(* What a page decodes to depends on the registers it was written with, so *)
(* that is all the model keeps of it.  The choice of the reference voltage *)
(* is in NandPhy; addresses, command codes and the DMA channel are left    *)
(* out.  Nothing in the program calls the operations in sequential mode,   *)
(* which nand_simple.h offers.                                             *)
(***************************************************************************)
EXTENDS Integers, FiniteSets

CONSTANTS
    MODES,        \* chips: EccMode, code of the page size, SUPPORT_RANDOM, double data rate
    ACCESS,       \* pages, and how each is written: "page", "1k" or "seq"
    MAX_NFC_OPS,  \* bound: operations
    MAX_TIMEOUTS  \* bound: waits that time out

VARIABLES
    mode,   \* the chip's entry of MODES; never changes
    ctl,    \* ECC mode, page size, randomizer, seed, ECC on, DMA, repeat mode, old ECC status
    sheet,  \* every page: the registers it was written with, and its wear
    sure,   \* pages written without a timeout, on a controller set as PHY_ChangeMode does
    upset,  \* operations that timed out since then
    lastRead, \* the last read: kind, code, and what it should have been
    spent   \* operations and timeouts so far

nfcVars == <<mode, ctl, sheet, sure, upset, lastRead, spent>>

-----------------------------------------------------------------------------
NoSeed == -1
BootSeed == -2
Line(kind) == kind \in {"1k", "seq"}     \* data and check bytes follow each other
CleanPage == [ecc |-> -1, size |-> 0, line |-> FALSE, seed |-> NoSeed, wear |-> "fresh"]
TornPage == [CleanPage EXCEPT !.wear = "bad"]

\* The registers as NFC_SetEccMode and NFC_ChangMode leave them.
AsSet(m) == [ecc |-> m.ecc, size |-> m.size, random |-> FALSE, seed |-> NoSeed, on |-> FALSE, dma |-> FALSE,
             repeat |-> FALSE, rest |-> "ok"]

Settled == ctl.ecc = mode.ecc /\ ctl.size = mode.size

\* NFC_SetRandomSeed and NFC_RandomEnable.  The seed of a data page is its number.
Randomized(c, kind, p) == [c EXCEPT !.random = TRUE, !.seed = IF Line(kind) THEN BootSeed ELSE p]
Plain(c) == [c EXCEPT !.random = FALSE]

\* For the pages of boot0 bits are set in the code of the page size.
Begun(c, kind) ==
    [c EXCEPT !.dma = TRUE, !.size = IF kind # "1k" THEN @ ELSE IF @ <= 3 THEN 3 ELSE 7]

EccOf(kind, ecc) == CASE kind = "seq" -> 1 [] kind = "1k" -> 8 [] OTHER -> ecc

Running(c, kind) == [Begun(c, kind) EXCEPT !.on = TRUE, !.ecc = EccOf(kind, @)]

\* The page that the chip gets, and the one that the controller expects of it.
Coded(c, kind, wear) ==
    LET r == Running(c, kind)
    IN [ecc |-> r.ecc, size |-> r.size, line |-> Line(kind), seed |-> IF c.random THEN c.seed ELSE NoSeed,
        wear |-> wear]

\* The waits of an operation: for room in the command FIFO, for the command's end, for DMA.
Outcomes == {"done", "fifo", "command", "dma"}
Timeouts(outs) == Cardinality({k \in DOMAIN outs : outs[k] # "done"})

Spends(kind, outs) ==
    /\ spent.ops < MAX_NFC_OPS
    /\ spent.timeouts + Timeouts(outs) <= MAX_TIMEOUTS
    /\ spent' = [ops |-> spent.ops + 1, timeouts |-> spent.timeouts + Timeouts(outs)]
    /\ upset' = IF Timeouts(outs) > 0 THEN upset \cup {kind} ELSE upset

NoRead == [kind |-> "none", code |-> "ok", due |-> "none"]

-----------------------------------------------------------------------------
(* NFC_Write, NFC_Write_Seq, NFC_Write_1K under _write_signle_page*.        *)

\* Only the first wait makes a write give up.  What happens to the command is not
\* looked at; the status of the chip is asked for later.
AfterWrite(c, kind, out) ==
    Plain(IF out = "fifo" THEN Begun(c, kind) ELSE [c EXCEPT !.on = FALSE, !.dma = FALSE])

WritePage(p) ==
    \E out \in Outcomes, wear \in {"fresh", "limit", "bad"} :
       LET kind == ACCESS[p]
           c == IF mode.random \/ kind = "1k" THEN Randomized(ctl, kind, p) ELSE ctl
           new == IF sheet[p] = CleanPage THEN Coded(c, kind, wear) ELSE TornPage
       IN  /\ Spends(kind, <<out>>)
           /\ \/ sheet' = [sheet EXCEPT ![p] = IF out = "fifo" THEN @ ELSE new]
              \/ out \in {"command", "dma"} /\ sheet' = [sheet EXCEPT ![p] = TornPage]
           /\ sure' = IF out = "done" /\ Settled /\ sheet[p] = CleanPage THEN sure \cup {p} ELSE sure \ {p}
           /\ ctl' = AfterWrite(c, kind, out)
           /\ lastRead' = NoRead
           /\ UNCHANGED mode

-----------------------------------------------------------------------------
(* _read_in_page_mode, _seq, _1K, _spare under NFC_Read*.                   *)

\* Erased pages pass as long as the randomizer is off (_enable_ecc).
PageCode(c, kind, page) ==
    CASE page = CleanPage -> IF c.random THEN "ecc" ELSE "ok"
      [] page # CleanPage /\ (page # Coded(c, kind, page.wear) \/ page.wear = "bad") -> "ecc"
      [] OTHER -> IF page.wear = "limit" THEN "limit" ELSE "ok"

\* _check_ecc for the sectors of the page.  The one of boot0's pages is checked
\* together with the others, whose status may be that of a read before.
CheckEcc(c, kind, page) ==
    LET codes == {PageCode(c, kind, page)} \cup (IF kind = "1k" THEN {c.rest} ELSE {})
    IN CASE "ecc" \in codes -> "ecc" [] codes = {"ok"} -> "ok" [] OTHER -> "limit"

CodeOfRead(c, kind, page, out) == IF out = "done" THEN CheckEcc(c, kind, page) ELSE "timeout"

\* The ECC mode and the page size are put back at the end only.
AfterRead(c, kind, out) ==
    LET stays == out = "command" \/ (out = "dma" /\ kind = "1k")
    IN [(IF out = "fifo" THEN Begun(c, kind) ELSE IF stays THEN Running(c, kind) ELSE c)
           EXCEPT !.on = FALSE, !.dma = FALSE]

\* The status of the other sectors that stays in the registers.
RestAfter(c, kind, out, code) ==
    CASE out = "fifo" \/ kind = "1k" -> {c.rest}
      [] out # "fifo" /\ kind \in {"page", "seq"} /\ code = "ok" -> {"ok"}
      [] OTHER -> {"ok", "limit", "ecc"}

\* _read_single_page*: once with the randomizer, and again without it when that fails:
\* in the modes of the boot area after any other code than 0, otherwise after an ECC error.
ReadAgain(kind, code) == IF Line(kind) THEN code # "ok" ELSE code = "ecc"

\* What a read of the page should find.  Pages in the modes of the boot area that have
\* as many errors as can be corrected are read again without the randomizer, and fail.
Due(p, kind) ==
    CASE ~Settled \/ (kind = "1k" /\ ctl.rest # "ok") -> "none"
      [] Settled /\ sheet[p] = CleanPage -> "ok"
      [] Settled /\ p \in sure /\ sheet[p].wear = "fresh" -> "ok"
      [] Settled /\ p \in sure /\ sheet[p].wear = "bad" -> "ecc"
      [] Settled /\ p \in sure /\ sheet[p].wear = "limit" /\ ~Line(kind) -> "limit"
      [] OTHER -> "none"

ReadPage(p, kind) ==
    \E out1, out2 \in Outcomes :
       LET random == mode.random \/ Line(kind)
           c1 == IF random THEN Randomized(ctl, kind, p) ELSE ctl
           code1 == CodeOfRead(c1, kind, sheet[p], out1)
           again == random /\ ReadAgain(kind, code1)
           due == IF {out1, out2} = {"done"} THEN Due(p, kind) ELSE "none"
       IN  /\ again \/ out2 = "done"
           /\ Spends(kind, <<out1, out2>>)
           /\ \E rest1 \in RestAfter(c1, kind, out1, code1) :
                 LET c2 == [Plain(AfterRead(c1, kind, out1)) EXCEPT !.rest = rest1]
                     code2 == CodeOfRead(c2, kind, sheet[p], out2)
                 IN \/ /\ ~again
                       /\ ctl' = c2
                       /\ lastRead' = [kind |-> kind, code |-> code1, due |-> due]
                    \/ /\ again
                       /\ \E rest2 \in RestAfter(c2, kind, out2, code2) :
                             ctl' = [AfterRead(c2, kind, out2) EXCEPT !.rest = rest2]
                       /\ lastRead' = [kind |-> kind, code |-> code2, due |-> due]
           /\ UNCHANGED <<mode, sheet, sure>>

-----------------------------------------------------------------------------
(* Commands without a page, and the start of the driver.                    *)

\* NFC_Erase of the page's block.
Erase1(p) ==
    \E out \in Outcomes \ {"dma"} :
       /\ Spends("erase", <<out>>)
       /\ \/ out # "fifo" /\ sheet' = [sheet EXCEPT ![p] = CleanPage]
          \/ out # "done" /\ UNCHANGED sheet
       /\ sure' = sure \ {p}
       /\ lastRead' = NoRead
       /\ UNCHANGED <<mode, ctl>>

\* NFC_GetStatus: repeated bytes are switched on for it.
GetStatus ==
    \E out \in Outcomes \ {"dma"} :
       /\ Spends("status", <<out>>)
       /\ ctl' = [ctl EXCEPT !.dma = @ /\ out = "fifo", !.repeat = mode.ddr /\ out # "done"]
       /\ lastRead' = NoRead
       /\ UNCHANGED <<mode, sheet, sure>>

\* PHY_ChangeMode: NFC_SetEccMode and NFC_ChangMode.
ChangeMode ==
    /\ spent.ops < MAX_NFC_OPS
    /\ spent' = [spent EXCEPT !.ops = @ + 1]
    /\ ctl' = [AsSet(mode) EXCEPT !.seed = ctl.seed, !.rest = ctl.rest]
    /\ upset' = {}
    /\ lastRead' = NoRead
    /\ UNCHANGED <<mode, sheet, sure>>

NfcInit ==
    /\ mode \in MODES
    /\ ctl = AsSet(mode)
    /\ sheet = [p \in DOMAIN ACCESS |-> CleanPage]
    /\ sure = {} /\ upset = {} /\ lastRead = NoRead
    /\ spent = [ops |-> 0, timeouts |-> 0]

NfcNext ==
    \/ \E p \in DOMAIN ACCESS : WritePage(p) \/ Erase1(p)
    \/ \E p \in DOMAIN ACCESS :
          \E kind \in IF ACCESS[p] = "page" THEN {"page", "spare"} ELSE {ACCESS[p]} : ReadPage(p, kind)
    \/ GetStatus
    \/ ChangeMode

-----------------------------------------------------------------------------
(* Properties.                                                              *)

\* Between operations the registers are as PHY_ChangeMode has set them, whatever fails:
\* only a timeout of a read in the modes of the boot area, or of a write of boot0's
\* pages, leaves an ECC mode or a page size behind, only a write or its end the DMA
\* bit, and only a status command the repetition.
RegistersKept ==
    /\ ~ctl.random /\ ~ctl.on
    /\ Settled \/ upset \cap {"1k", "seq"} # {}
    /\ ctl.dma => upset \cap {"page", "1k", "seq"} # {}
    /\ ctl.repeat => mode.ddr /\ "status" \in upset

\* A page is decoded as it was written, whatever kinds of pages were used in between
\* and before, erased pages are read without an error, and a page that cannot be
\* corrected is not passed.
Decodes == lastRead.due # "none" => lastRead.code = lastRead.due
=============================================================================
