---------------------------- MODULE MCJobPipeline ----------------------------
(* JobPipeline on small instances.                                         *)
EXTENDS JobPipeline, TLC

\* For safety only.
Symmetry == Permutations(Orchestrator) \cup Permutations(Corrector)
               \cup Permutations(Request) \cup Permutations(Entry)
               \cup Permutations(Chunk)
=============================================================================
