----------------------------- MODULE MCObjcSync -----------------------------
(* Instances of ObjcSync for TLC.                                            *)
EXTENDS ObjcSync, TLC

Symmetry == Permutations(Threads) \cup Permutations(Objects)
=============================================================================
