------------------------- MODULE MCChunkPersistence -------------------------
(***************************************************************************)
(* Small instances of ChunkPersistence: one chunk with every feature, or   *)
(* two with fewer changes.                                                 *)
(***************************************************************************)
EXTENDS ChunkPersistence, TLC

CONSTANTS a, b

ChunkSymmetry == Permutations(Chunks)
=============================================================================
