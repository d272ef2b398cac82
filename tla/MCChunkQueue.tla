----------------------------- MODULE MCChunkQueue -----------------------------
(* ChunkQueue for one device whose heartbeat is an opener and a continuation *)
EXTENDS ChunkQueue
=============================================================================
