--------------------------- MODULE MCLeaseSemaphore ---------------------------
(* LeaseSemaphore on small instances.                                      *)
EXTENDS LeaseSemaphore, TLC

\* Workers are interchangeable; used for safety only.
Symmetry == Permutations(Worker)
=============================================================================
