--------------------------- MODULE MCQueueSuspend ---------------------------
(* Instances of QueueSuspend for TLC.                                        *)
EXTENDS QueueSuspend, TLC

Symmetry == Permutations(Threads)
=============================================================================
