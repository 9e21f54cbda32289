--------------------------- MODULE ObjcInitialize ---------------------------
(***************************************************************************)
(* The +initialize protocol (objc4 runtime objc-initialize.mm): the first  *)
(* message to a class sends it +initialize, superclasses first, on one     *)
(* thread; that thread may message the class meanwhile, others wait.  A    *)
(* +initialize method messages other classes, may throw, and may fork.     *)
(* The recursion of _class_initialize is a stack of frames, the current    *)
(* one first; a section under classInitLock is one step, and what is read  *)
(* without it is a step of its own.                                        *)
(***************************************************************************)
EXTENDS Naturals, Sequences, FiniteSets

CONSTANTS
  Threads, Classes, nil,
  superclass,   \* the superclass of each class, or nil
  Trivial,      \* classHasTrivialInitialize: no +initialize of its own
  Messages      \* the classes that +initialize of each class may message

ASSUME InitializeConstants ==
  /\ nil \notin Classes /\ superclass \in [Classes -> Classes \cup {nil}]
  /\ Trivial \subseteq Classes /\ Messages \in [Classes -> SUBSET Classes]
  /\ \A c \in Trivial : Messages[c] = {}
  /\ \A c \in Classes : superclass[c] = nil => c \in Trivial
  /\ \A c \in Classes : superclass[c] # c

VARIABLES
  flags,     \* RW_INITIALIZING and RW_INITIALIZED of each class
  mine,      \* initializingClasses: the list of each thread
  pending,   \* pendingInitializeMap: subclasses to finish after a class
  stack,     \* the calls of _class_initialize on each thread
  waiting,   \* the threads in classInitLock.wait()
  forked,    \* 0; in a child 1 with MultithreadedForkChild set, 2 without it
  sent,      \* history: how often each class got its own +initialize
  fatal      \* the error that has stopped the process, or "no"

vars == <<flags, mine, pending, stack, waiting, forked, sent, fatal>>

Frames == [cls : Classes, at : {"enter", "set", "run", "check", "check_done", "wait", "fork_child", "return"},
           todo : SUBSET Classes]

(* Every variable has its type.                                              *)
TypeOK ==
  /\ flags \in [Classes -> {"none", "initializing", "initialized"}]
  /\ mine \in [Threads -> SUBSET Classes] /\ pending \in [Classes -> SUBSET Classes]
  /\ stack \in [Threads -> Seq(Frames)] /\ waiting \subseteq Threads
  /\ forked \in {0, 1, 2} /\ sent \in [Classes -> Nat]

Init ==
  /\ flags = [c \in Classes |-> "none"] /\ mine = [t \in Threads |-> {}]
  /\ pending = [c \in Classes |-> {}] /\ stack = [t \in Threads |-> <<>>]
  /\ waiting = {} /\ forked = 0 /\ sent = [c \in Classes |-> 0] /\ fatal = "no"

isInitialized(c) == flags[c] = "initialized"
isInitializing(c) == flags[c] = "initializing"

Call(c) == [cls |-> c, at |-> "enter", todo |-> {}]
At(t, here) == /\ fatal = "no" /\ t \notin waiting
               /\ stack[t] # <<>> /\ Head(stack[t]).at = here
cls(t) == Head(stack[t]).cls
Goto(t, there) == stack' = [stack EXCEPT ![t][1].at = there]
Die(why) == fatal' = why

-----------------------------------------------------------------------------
(* lookUpImpOrForward, for a message to a class that is not initialized.     *)
objc_msgSend(t, c) ==
  /\ fatal = "no" /\ stack[t] = <<>> /\ ~isInitialized(c)
  /\ stack' = [stack EXCEPT ![t] = <<Call(c)>>]
  /\ UNCHANGED <<flags, mine, pending, waiting, forked, sent, fatal>>

\* Mutant: the class does not wait for its superclass.
mutant_super_later(t) ==
  /\ At(t, "enter") /\ Goto(t, "set")
  /\ UNCHANGED <<flags, mine, pending, waiting, forked, sent, fatal>>

(* The superclass first; the superclass's flags are read without the lock.   *)
_class_initialize(t) ==
  LET super == superclass[cls(t)]
      rest == [stack[t] EXCEPT ![1].at = "set"]
  IN
  /\ At(t, "enter")
  /\ stack' = [stack EXCEPT ![t] =
                 IF super # nil /\ ~isInitialized(super) THEN <<Call(super)>> \o rest ELSE rest]
  /\ UNCHANGED <<flags, mine, pending, waiting, forked, sent, fatal>>

_thisThreadIsInitializingClass(t, c) == c \in mine[t]

_setThisThreadIsInitializingClass(t, c) ==
  /\ mine' = [mine EXCEPT ![t] = @ \cup {c}]
  /\ IF c \in mine[t] THEN Die("already initializing") ELSE UNCHANGED fatal

(* RW_INITIALIZING is set, and then +initialize runs; or it was set already. *)
setInitializing(t) ==
  /\ At(t, "set")
  /\ IF flags[cls(t)] = "none"
       THEN /\ flags' = [flags EXCEPT ![cls(t)] = "initializing"]
            /\ _setThisThreadIsInitializingClass(t, cls(t))
            /\ IF forked = 1 THEN Goto(t, "fork_child") /\ UNCHANGED sent
               ELSE /\ stack' = [stack EXCEPT ![t][1].at = "run", ![t][1].todo = Messages[cls(t)]]
                    /\ sent' = [sent EXCEPT ![cls(t)] = @ + 1]
       ELSE Goto(t, "check") /\ UNCHANGED <<flags, mine, sent, fatal>>
  /\ UNCHANGED <<pending, waiting, forked>>

(* +initialize messages another class.                                       *)
callInitialize(t, c) ==
  LET rest == [stack[t] EXCEPT ![1].todo = @ \ {c}] IN
  /\ At(t, "run") /\ c \in Head(stack[t]).todo
  /\ stack' = [stack EXCEPT ![t] = IF isInitialized(c) THEN rest ELSE <<Call(c)>> \o rest]
  /\ UNCHANGED <<flags, mine, pending, waiting, forked, sent, fatal>>

-----------------------------------------------------------------------------
\* A class and what was waiting for it in the pending map, level by level.
Finishing(c) ==
  IF pending[c] = {} THEN {c}
  ELSE {d \in Classes : \A S \in SUBSET Classes :
          (c \in S /\ \A s \in S : pending[s] \subseteq S) => d \in S}

\* Mutant: the waiting threads are not notified.
mutant_no_notify(t, c) ==
  /\ flags' = [d \in Classes |-> IF d \in Finishing(c) THEN "initialized" ELSE flags[d]]
  /\ mine' = [mine EXCEPT ![t] = @ \ Finishing(c)]
  /\ pending' = [d \in Classes |-> IF d \in Finishing(c) THEN {} ELSE pending[d]]
  /\ IF Finishing(c) \subseteq mine[t] THEN UNCHANGED fatal ELSE Die("not initializing")
  /\ UNCHANGED waiting

_finishInitializing(t, c) ==
  /\ flags' = [d \in Classes |-> IF d \in Finishing(c) THEN "initialized" ELSE flags[d]]
  /\ waiting' = {}
  /\ mine' = [mine EXCEPT ![t] = @ \ Finishing(c)]
  /\ pending' = [d \in Classes |-> IF d \in Finishing(c) THEN {} ELSE pending[d]]
  /\ IF Finishing(c) \subseteq mine[t] THEN UNCHANGED fatal ELSE Die("not initializing")

(* The map holds a list; a class that came to it twice would be finished     *)
(* twice.                                                                    *)
_finishInitializingAfter(c, super) ==
  /\ pending' = [pending EXCEPT ![super] = @ \cup {c}]
  /\ IF c \in pending[super] THEN Die("pending twice") ELSE UNCHANGED fatal
  /\ UNCHANGED <<flags, mine, waiting>>

lockAndFinishInitializing(t, c) ==
  IF superclass[c] = nil \/ isInitialized(superclass[c])
    THEN _finishInitializing(t, c)
    ELSE _finishInitializingAfter(c, superclass[c])

(* +initialize returns.                                                      *)
InitializeReturns(t) ==
  /\ At(t, "run")
  /\ lockAndFinishInitializing(t, cls(t)) /\ Goto(t, "return")
  /\ UNCHANGED <<forked, sent>>

(* +initialize throws: the class is initialized all the same, the calls of   *)
(* _class_initialize that wanted it as a superclass are unwound, and the     *)
(* exception reaches the +initialize or the code below them.                 *)
Unwind(t) == LET s == stack[t] IN
  \E k \in 2..Len(s) + 1 :
    /\ \A i \in 2..k - 1 : s[i].at # "run"
    /\ k <= Len(s) => s[k].at = "run"
    /\ stack' = [stack EXCEPT ![t] = SubSeq(s, k, Len(s))]

InitializeThrows(t) ==
  /\ At(t, "run") /\ cls(t) \notin Trivial
  /\ lockAndFinishInitializing(t, cls(t)) /\ Unwind(t)
  /\ UNCHANGED <<forked, sent>>

-----------------------------------------------------------------------------
\* Mutant: INITIALIZED is looked at before INITIALIZING.
mutant_check_initialized_first(t) ==
  /\ At(t, "check")
  /\ Goto(t, IF isInitialized(cls(t)) THEN "return" ELSE "check_done")
  /\ UNCHANGED <<flags, mine, pending, waiting, forked, sent, fatal>>

\* Mutant: a thread that meets an initializing class goes on.
mutant_do_not_wait(t) ==
  /\ At(t, "check")
  /\ Goto(t, IF isInitializing(cls(t)) THEN "return" ELSE "check_done")
  /\ UNCHANGED <<flags, mine, pending, waiting, forked, sent, fatal>>

(* INITIALIZING was set or INITIALIZED was: INITIALIZING is read first.      *)
CheckInitializing(t) ==
  /\ At(t, "check")
  /\ IF ~isInitializing(cls(t)) THEN Goto(t, "check_done") /\ UNCHANGED <<mine, fatal>>
     ELSE IF _thisThreadIsInitializingClass(t, cls(t)) THEN Goto(t, "return") /\ UNCHANGED <<mine, fatal>>
     ELSE IF forked # 1 THEN Goto(t, "wait") /\ UNCHANGED <<mine, fatal>>
     ELSE _setThisThreadIsInitializingClass(t, cls(t)) /\ Goto(t, "fork_child")
  /\ UNCHANGED <<flags, pending, waiting, forked, sent>>

CheckInitialized(t) ==
  /\ At(t, "check_done")
  /\ IF isInitialized(cls(t)) THEN Goto(t, "return") /\ UNCHANGED fatal
     ELSE Die("buggy") /\ UNCHANGED stack
  /\ UNCHANGED <<flags, mine, pending, waiting, forked, sent>>

waitForInitializeToComplete(t) ==
  /\ At(t, "wait")
  /\ IF isInitialized(cls(t)) THEN Goto(t, "return") /\ UNCHANGED waiting
     ELSE waiting' = waiting \cup {t} /\ UNCHANGED stack
  /\ UNCHANGED <<flags, mine, pending, forked, sent, fatal>>

(* The message goes to the class, or _class_initialize to its caller.        *)
MessageSent(t) ==
  /\ At(t, "return")
  /\ stack' = [stack EXCEPT ![t] = Tail(@)]
  /\ UNCHANGED <<flags, mine, pending, waiting, forked, sent, fatal>>

-----------------------------------------------------------------------------
(* A thread forks, between its calls or in a +initialize that does anything: *)
(* in the child it is the only one, and the threads that come later are new. *)
(* DisableInitializeForkSafety, an option of the process, is read only here. *)
(* The fork of a process that never had a second thread changes nothing.     *)
_objc_atfork_child(t) ==
  /\ fatal = "no" /\ forked = 0 /\ (stack[t] = <<>> \/ (At(t, "run") /\ cls(t) \notin Trivial))
  /\ forked' \in {1, 2} /\ waiting' = {}
  /\ stack' = [u \in Threads |-> IF u = t THEN stack[u] ELSE <<>>]
  /\ mine' = [u \in Threads |-> IF u = t THEN mine[u] ELSE {}]
  /\ UNCHANGED <<flags, pending, sent, fatal>>

performForkChildInitialize(t) ==
  /\ At(t, "fork_child")
  /\ IF cls(t) \in Trivial
       THEN lockAndFinishInitializing(t, cls(t)) /\ Goto(t, "return")
       ELSE Die("after fork") /\ UNCHANGED <<flags, mine, pending, waiting, stack>>
  /\ UNCHANGED <<forked, sent>>

-----------------------------------------------------------------------------
Step(t) ==
  \/ _class_initialize(t) \/ setInitializing(t) \/ InitializeReturns(t) \/ InitializeThrows(t)
  \/ CheckInitializing(t) \/ CheckInitialized(t) \/ waitForInitializeToComplete(t)
  \/ MessageSent(t) \/ performForkChildInitialize(t)
  \/ \E c \in Classes : callInitialize(t, c)

Next == \E t \in Threads :
  Step(t) \/ _objc_atfork_child(t) \/ \E c \in Classes : objc_msgSend(t, c)

Spec == Init /\ [][Next]_vars
FairSpec == Spec /\ \A t \in Threads : WF_vars(Step(t))

-----------------------------------------------------------------------------
(* Classes are initialized in order (_class_initialize, _finishInitializing):*)
(* +initialize is sent to a class at most once; no class is initialized      *)
(* before its superclass, nor while its own +initialize runs; and what is    *)
(* initializing or initialized hangs together from the root, one thread      *)
(* holding both a class and the superclass that is not done yet.             *)
InitializedInOrder ==
  /\ TypeOK
  /\ \A c \in Classes : sent[c] <= 1
  /\ \A t \in Threads : \A i \in DOMAIN stack[t] :
       stack[t][i].at = "run" => isInitializing(stack[t][i].cls)
  /\ \A c \in {c \in Classes : superclass[c] # nil /\ flags[c] # "none"} :
       \/ isInitialized(superclass[c])
       \/ /\ isInitializing(superclass[c]) /\ isInitializing(c)
          /\ forked = 0 => \E t \in Threads : {c, superclass[c]} \subseteq mine[t]

(* A message goes on to a class, and a subclass to its own initialization,   *)
(* only once the class is initialized, or on the thread that initializes it. *)
MessagesWait == \A t \in Threads :
  (stack[t] # <<>> /\ Head(stack[t]).at = "return") =>
    isInitialized(cls(t)) \/ _thisThreadIsInitializingClass(t, cls(t))

(* The runtime never finds its own state broken: not the "buggy" class       *)
(* initialization of _class_initialize, no class missing from or twice in a  *)
(* thread's list or the pending map.  Only the stop after a fork is left,    *)
(* and it comes only in the child of a process with several threads.         *)
StateNotBroken == fatal = "no" \/ (fatal = "after fork" /\ forked = 1)

\* The pairs of classes with the second reached from the first along F.
Reach(F) ==
  {p \in Classes \X Classes : \A S \in SUBSET Classes :
     (p[1] \in S /\ \A s \in S : F[s] \subseteq S) => p[2] \in S}

Supers == [c \in Classes |-> {superclass[c]} \ {nil}]
Needs == [c \in Classes |-> Supers[c] \cup Messages[c]]

\* The classes whose initialization comes to need each other, though neither
\* is a superclass of the other.
Crossing ==
  LET Both(R) == {p \in R : <<p[2], p[1]>> \in R}
      Either(R) == R \cup {<<p[2], p[1]>> : p \in R}
  IN  Both(Reach(Needs)) \ Either(Reach(Supers))

Initializers(c) == {t \in Threads : c \in mine[t]}

\* Threads that wait for classes which only they themselves could finish.
Stuck(S) == \A t \in S :
  /\ stack[t] # <<>> /\ Head(stack[t]).at = "wait"
  /\ isInitializing(cls(t)) /\ Initializers(cls(t)) \subseteq S

Crossed(S) == \E t, u \in S : t # u /\ (mine[t] \X mine[u]) \cap Crossing # {}
Orphaned(S) == forked = 2 /\ \E t \in S : Initializers(cls(t)) = {}

(* A message to a class gets there or stops the process, with two exceptions *)
(* that waitForInitializeToComplete has.  Two threads that initialize        *)
(* unrelated classes whose +initialize need each other wait for each other;  *)
(* and with DisableInitializeForkSafety the child of a fork waits for a      *)
(* class that a thread left behind in the parent was initializing.  So the   *)
(* superclass rule leaves no cycle among a class and its subclasses, a class *)
(* queued behind its superclass is finished with it, no notification is      *)
(* missed, and with the fork check the child waits for nobody who is gone.   *)
MessagesArrive == \A t \in Threads :
  stack[t] # <<>> ~>
    \/ stack[t] = <<>> \/ fatal # "no"
    \/ \E S \in SUBSET Threads : t \in S /\ Stuck(S) /\ (Crossed(S) \/ Orphaned(S))
=============================================================================
