----------------------------- MODULE SectorDisk -----------------------------
(***************************************************************************)
(* What the logic layer of the NAND driver promises its callers: a disk of *)
(* Pages, each of SPP sectors, on which one write call at a time is        *)
(* carried out page by page in ascending order.  `disk` is what a read     *)
(* returns and `media` what the flash holds, so their difference is what a *)
(* power cut loses.                                                        *)
(*                                                                         *)
(* A page being programmed is in `flight`, with the content it falls back  *)
(* to: a power cut may leave it new, old or Junk.  A program that fails    *)
(* may ruin the page it was aimed at, and no other page.                   *)
(***************************************************************************)
EXTENDS Naturals

CONSTANTS
    SPP,      \* sectors per logical page
    NPAGES,   \* logical pages of the volume
    Val,      \* sector contents a caller may write
    Junk      \* the content of a sector that cannot be read back

VARIABLES
    disk,     \* page -> sector -> content, as the next read returns it
    media,    \* page -> sector -> content, as the flash holds it
    flight,   \* pages under programming -> content before the program began
    call,     \* the write call: n first sector, c count, buf contents
    next,     \* the page the call writes next
    status    \* the call's outcome: "none", "busy", "ok" or "failed"

vars == <<disk, media, flight, call, next, status>>

Pages == 0 .. NPAGES - 1
Sects == 0 .. SPP - 1
Content == [Sects -> Val \union {Junk}]

\* The sectors of page p the call writes, and the page once they are written.
Covered(p) == {s \in Sects : call.n <= p * SPP + s /\ p * SPP + s < call.n + call.c}
Written(p) == [s \in Sects |-> IF s \in Covered(p) THEN call.buf[p * SPP + s - call.n]
                                                   ELSE disk[p][s]]

\* Content that is, sector by sector, what the page held or Junk.
Spoilt(page) == {[s \in Sects |-> IF s \in lost THEN Junk ELSE page[s]] : lost \in SUBSET Sects}

Init == /\ media \in [Pages -> Content]
        /\ disk = media
        /\ flight = <<>>
        /\ call = [n |-> 0, c |-> 0, buf |-> <<>>]
        /\ next = 0
        /\ status = "none"

\* Programming page p starts; any of the others may have completed.
Launch(p) == \E keep \in SUBSET (DOMAIN flight \ {p}) :
                flight' = [q \in keep \union {p} |-> IF q = p THEN media[p] ELSE flight[q]]

Settle == \E keep \in SUBSET DOMAIN flight : flight' = [q \in keep |-> flight[q]]

\* A call goes on, or gives up.
GoOn == /\ \/ status' = status
           \/ status = "busy" /\ status' = "failed"
        /\ UNCHANGED <<call, next>>

\* A call is accepted.  A call of no sectors is complete at once.
Begin == /\ status # "busy"
         /\ call'.n \in Nat
         /\ call'.c \in Nat
         /\ call'.buf \in [0 .. call'.c - 1 -> Val]
         /\ next' = call'.n \div SPP
         /\ status' = IF call'.c = 0 THEN "ok" ELSE "busy"
         /\ UNCHANGED <<disk, media, flight>>

\* The call succeeds when the page that holds its last sector is written.
Advance == /\ status = "busy"
           /\ next' = next + 1
           /\ status' = IF (next + 1) * SPP >= call.n + call.c THEN "ok" ELSE "busy"
           /\ UNCHANGED call

\* The next page of the call is written, in memory only.  A page beyond the
\* volume changes nothing in it.
Put == /\ Advance
       /\ disk' = IF next \in Pages THEN [disk EXCEPT ![next] = Written(next)] ELSE disk
       /\ UNCHANGED <<media, flight>>

\* The next page of the call is programmed: what it now holds is what was asked
\* for, or partly Junk.
PutThrough == /\ Advance
              /\ next \in Pages
              /\ \E page \in Spoilt(Written(next)) :
                    /\ disk' = [disk EXCEPT ![next] = page]
                    /\ media' = [media EXCEPT ![next] = page]
              /\ Launch(next)

\* Page p is programmed with what reads see of it, or is spoilt on the way.
Destage(p) == /\ \E page \in Spoilt(disk[p]) :
                    /\ disk' = [disk EXCEPT ![p] = page]
                    /\ media' = [media EXCEPT ![p] = page]
              /\ Launch(p)
              /\ GoOn

\* Programming page p failed and spoilt it; reads lose what of it was not kept
\* in memory.
Ruin(p) == /\ \E page \in Spoilt(media[p]) : media' = [media EXCEPT ![p] = page]
           /\ \E page \in Spoilt(disk[p]) : disk' = [disk EXCEPT ![p] = page]
           /\ Settle
           /\ GoOn

\* Programs complete.
Quiesce == /\ Settle
           /\ GoOn
           /\ UNCHANGED <<disk, media>>

\* What the flash may hold of page p once power is back.
AfterCut(p) == IF p \in DOMAIN flight THEN Spoilt(media[p]) \union {flight[p]} ELSE {media[p]}

PowerCut == /\ media' \in [Pages -> Content]
            /\ \A p \in Pages : media'[p] \in AfterCut(p)
            /\ disk' = media'
            /\ flight' = <<>>
            /\ status' = "none"
            /\ UNCHANGED <<call, next>>

Next == \/ Begin \/ Put \/ PutThrough \/ Quiesce \/ PowerCut
        \/ \E p \in Pages : Destage(p) \/ Ruin(p)

Spec == Init /\ [][Next]_vars

=============================================================================
