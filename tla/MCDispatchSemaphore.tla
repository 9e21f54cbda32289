------------------------ MODULE MCDispatchSemaphore ------------------------
(* Instances of DispatchSemaphore for TLC.                                   *)
EXTENDS DispatchSemaphore, TLC

MCInitialValues == -1..1

Symmetry == Permutations(Threads) \cup Permutations(Ports)
=============================================================================
