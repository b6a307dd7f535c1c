---------------------------- MODULE MCChunkBuffer ---------------------------
(* The chunk buffer on every input of up to MaxInput bytes made of text,   *)
(* CR and LF, with every way the reader can cut it up.  Chunk objects are  *)
(* interchangeable, and no liveness is checked, so symmetry is sound.      *)
EXTENDS ChunkBuffer, TLC
MCBytes == {"x", "CR", "LF"}
ChunkSymmetry == Permutations(ChunkIds)
=============================================================================
