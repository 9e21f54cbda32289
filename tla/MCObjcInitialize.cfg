SPECIFICATION FairSpec
CONSTANTS
  Threads = {t1, t2}
  nil = nil
  NSObject = NSObject
  OBObject = OBObject
  OFObject = OFObject
  OWController = OWController
  NSValue = NSValue
  Classes = {NSObject, OBObject, OFObject, OWController, NSValue}
  superclass <- MCsuperclass
  Trivial = {NSObject, OFObject}
  Messages <- MCMessages
INVARIANTS InitializedInOrder MessagesWait StateNotBroken
PROPERTIES MessagesArrive
CHECK_DEADLOCK FALSE
