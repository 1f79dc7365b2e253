-------------------------- MODULE MCCorrectionStage --------------------------
(* CorrectionStage on small instances.                                     *)
EXTENDS CorrectionStage, TLC

\* For safety only.
Symmetry == Permutations(Worker) \cup Permutations(Message) \cup Permutations(Text)
=============================================================================
