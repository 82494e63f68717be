----------------------------- MODULE MCSubQueue -----------------------------
(* Two consumers and three blocks of two cells.  The first block index has    *)
(* two slots and may double once.                                             *)
EXTENDS SubQueue, TLC

CONSTANTS c1, c2, b1, b2, b3

MCConsumers == {c1, c2}
MCBlocks == {b1, b2, b3}
BothKinds == BOOLEAN
ExplicitOnly == {TRUE}
Symmetry == Permutations(MCConsumers) \cup Permutations(MCBlocks)
=============================================================================
