--------------------------- MODULE MCChunkPipeline ---------------------------
(* ChunkPipeline on small instances.                                       *)
EXTENDS ChunkPipeline, TLC

\* Chunks are interchangeable, and so are workers; used for safety only.
Symmetry == Permutations(Chunk) \cup Permutations(Worker)
=============================================================================
