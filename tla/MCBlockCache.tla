---------------------------- MODULE MCBlockCache ----------------------------
(***************************************************************************)
(* BlockCache on a small drive: more blocks than slots, so that evictions  *)
(* happen, and two sectors per block, so that blocks can be torn.  Blocks  *)
(* and sector contents are interchangeable; slots and sectors are not.     *)
(***************************************************************************)
EXTENDS BlockCache, TLC

Symmetry == Permutations(Block) \cup Permutations(Val)
=============================================================================
