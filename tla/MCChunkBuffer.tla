--------------------------- MODULE MCChunkBuffer ---------------------------
(* Two producers, two FetchChunk threads and a buffer smaller than what is  *)
(* pushed, so that a push is clamped, two consumers race for one row, and a *)
(* row arrives after a done or a cancel.                                    *)
EXTENDS ChunkBuffer, TLC
=============================================================================
