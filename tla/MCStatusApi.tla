----------------------------- MODULE MCStatusApi -----------------------------
(* StatusApi on a small instance.                                          *)
EXTENDS StatusApi, TLC

\* Chunks are interchangeable.
Symmetry == Permutations(Chunk)
=============================================================================
