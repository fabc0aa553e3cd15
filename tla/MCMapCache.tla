----------------------------- MODULE MCMapCache -----------------------------
(***************************************************************************)
(* Instance of MapCache: three zones for two slots, so that tables are     *)
(* written back and fetched again; three logical blocks for two log blocks.*)
(* Zones and logical blocks are interchangeable.                           *)
(***************************************************************************)
EXTENDS MapCache, TLC

CONSTANTS z1, z2, z3, b1, b2, b3

MCZones == {z1, z2, z3}
MCBlocks == {b1, b2, b3}
Symmetry == Permutations(MCZones) \union Permutations(MCBlocks)

=============================================================================
