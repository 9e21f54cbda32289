-------------------------- MODULE MCObjcInitialize --------------------------
(* An instance of ObjcInitialize for TLC.                                    *)
EXTENDS ObjcInitialize

CONSTANTS NSObject, OBObject, OFObject, OWController, NSValue

\* The hierarchy of the note at the head of objc-initialize.mm, with a class
\* that has no +initialize in the middle, and a class beside it.
MCsuperclass == [c \in Classes |->
  CASE c = NSObject -> nil
    [] c \in {OBObject, NSValue} -> NSObject
    [] c = OFObject -> OBObject
    [] c = OWController -> OFObject]

\* [OBObject initialize] comes to initialize a class far below it, which
\* messages classes above it and beside it; the class beside it messages it
\* too, so that two threads may initialize unrelated classes that cross.
MCMessages == [c \in Classes |->
  CASE c = OBObject -> {OWController}
    [] c = OWController -> {OBObject, NSValue}
    [] c = NSValue -> {OWController}
    [] OTHER -> {}]
=============================================================================
