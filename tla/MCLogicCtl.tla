---------------------------- MODULE MCLogicCtl ----------------------------
(* Bounds for TLC: pages of two sectors, three pages, buffers whose every  *)
(* sector is distinct from every other ever written, and two kinds of      *)
(* flash.  Sound flash never reports ECC_LIMIT and sees two calls of any   *)
(* range; ageing flash may report it and sees three calls of a few ranges. *)
EXTENDS LogicCtl

VARIABLE ageing   \* which kind of flash this behaviour has

\* The k-th call writes 10(k+1), 10(k+1) + 1, ...
MCUserData(k, c) == {[j \in 0 .. c - 1 |-> 10 * (k + 1) + j]}

\* The ranges of up to two pages and a sector that end in the volume or one sector
\* beyond it; the empty one at the start and the end only.
AllRanges == {r \in [n : 0 .. DiskCap, c : 0 .. 2 * SPP + 1] :
                 r.n + r.c <= DiskCap + 1 /\ (r.c = 0 => r.n \in {0, DiskCap})}

\* One sector, two sectors across a page boundary, and a whole page.
FewRanges == {[n |-> 0, c |-> 1], [n |-> 1, c |-> 2], [n |-> 2, c |-> 2]}

MCVal == 0 .. 10 * (MaxCalls + 1) + DiskCap

\* The volume first holds sector p * SPP + s in sector s of page p.
MCInitialFlash == {[p \in Pages |-> [s \in Sects |-> p * SPP + s]]}

InFewRanges(call) == [n |-> call.n, c |-> call.c] \in FewRanges \union {[n |-> 0, c |-> 0]}
Allowed == IF ageing THEN InFewRanges(wr) /\ InFewRanges(rd)
                     ELSE calls <= 2 /\ onBehalf # "reclaim"

MCInit == Init /\ ageing \in BOOLEAN
MCNext == Next /\ UNCHANGED ageing /\ Allowed'
MCSpec == MCInit /\ [][MCNext]_<<vars, ageing>> /\ WF_vars(Step)

=============================================================================
