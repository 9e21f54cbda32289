----------------------------- MODULE MCObjcWeak -----------------------------
(* Instances of ObjcWeak for TLC.                                            *)
EXTENDS ObjcWeak

CONSTANTS o1, o2

\* The table of nil lies between those of the two objects.
MCSideTables == [o \in Objects \cup {nil} |-> IF o = o1 THEN 1 ELSE IF o = nil THEN 2 ELSE 3]

\* One object is retained past what its isa holds.
MCMaxRetains == [o \in Objects |-> IF o = o1 THEN 5 ELSE 1]
=============================================================================
