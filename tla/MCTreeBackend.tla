---------------------------- MODULE MCTreeBackend ----------------------------
(***************************************************************************)
(* Blocks of 2 bytes, superblocks of 2 blocks, the second one near enough  *)
(* for the file to grow across it.                                         *)
(***************************************************************************)
EXTENDS TreeBackend

CONSTANTS x, y

MCIds == {x, y}
MCSymmetry == Permutations(MCIds)
=============================================================================
