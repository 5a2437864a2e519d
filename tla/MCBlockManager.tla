--------------------------- MODULE MCBlockManager ---------------------------
(* The block pool for TLC: three blocks of two slots, two requests. *)
EXTENDS BlockManager
=============================================================================
