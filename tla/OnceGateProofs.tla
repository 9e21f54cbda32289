--------------------------- MODULE OnceGateProofs ---------------------------
(***************************************************************************)
(* Proofs about dispatch_once on a gate lock (module OnceGate), for any    *)
(* set of threads.                                                         *)
(***************************************************************************)
EXTENDS OnceGate, TLAPS

USE ZenonT(30)

\* The thread that won the gate and has not yet exchanged the word.
IsOwner(t) == pc[t] \in {"callout", "broadcast"}

(* The inductive invariant: the word, the history of the block and the       *)
(* program counters tell the same story.                                     *)
IInv ==
  /\ TypeOK
  /\ runs # "again"
  /\ (dgo_once = DLOCK_ONCE_UNLOCKED) <=> (runs = "never")
  /\ dgo_once[1] = NO_OWNER => dgo_once = DLOCK_ONCE_UNLOCKED
  /\ dgo_once[1] = ALL_ONES => dgo_once = DLOCK_ONCE_DONE
  /\ dgo_once = DLOCK_ONCE_DONE => runs = "done"
  /\ \A t \in Threads : dgo_once[1] = t <=> IsOwner(t)
  /\ \A t \in Threads : pc[t] = "callout" => runs = "running"
  /\ \A t \in Threads : pc[t] = "broadcast" => runs = "done"
  /\ \A t \in Threads : pc[t] = "wake" => dgo_once = DLOCK_ONCE_DONE
  /\ \A t \in Threads : pc[t] \in {"gate_wait", "ulock_wait", "asleep"}
                          => dgo_once # DLOCK_ONCE_UNLOCKED
  /\ \A t \in Threads : pc[t] \in {"ulock_wait", "asleep"}
                          => new_value[t][1] \in Threads /\ new_value[t][2] = 1
  /\ \A t \in Threads : pc[t] = "asleep" => dgo_once[2] = 1
  /\ SleepersWillBeWoken
  /\ CrashOnlyOnRecursion

LEMMA InitInv == Init => IInv
  BY SMTT(30), OwnerBits DEF Init, IInv, TypeOK, Words, PCs, IsOwner, DLOCK_ONCE_UNLOCKED,
     DLOCK_ONCE_DONE, SleepersWillBeWoken, CrashOnlyOnRecursion

LEMMA NextInv == IInv /\ [Next]_vars => IInv'
<1> SUFFICES ASSUME IInv, [Next]_vars PROVE IInv'
  OBVIOUS
<1> USE OwnerBits DEF TypeOK, Words, PCs, IsOwner, DLOCK_ONCE_UNLOCKED, DLOCK_ONCE_DONE,
        SleepersWillBeWoken, CrashOnlyOnRecursion, Goto
<1>1. CASE UNCHANGED vars
  BY <1>1 DEF IInv, vars
<1>2. ASSUME NEW t \in Threads, _dispatch_once(t) PROVE IInv'
  BY SMTT(30), <1>2 DEF IInv, _dispatch_once
<1>3. ASSUME NEW t \in Threads, dispatch_once_f_slow(t) PROVE IInv'
  BY SMTT(30), <1>3 DEF IInv, dispatch_once_f_slow
<1>4. ASSUME NEW t \in Threads, CalloutReturns(t) PROVE IInv'
  BY SMTT(30), <1>4 DEF IInv, CalloutReturns
<1>5. ASSUME NEW t \in Threads, CalloutRecurses(t) PROVE IInv'
  BY <1>5 DEF IInv, CalloutRecurses
<1>6. ASSUME NEW t \in Threads, _dispatch_once_gate_broadcast(t) PROVE IInv'
  BY SMTT(30), <1>6 DEF IInv, _dispatch_once_gate_broadcast
<1>7. ASSUME NEW t \in Threads, _dispatch_gate_broadcast_slow(t) PROVE IInv'
  BY <1>7 DEF IInv, _dispatch_gate_broadcast_slow
<1>8. ASSUME NEW t \in Threads, _dispatch_gate_wait_slow(t) PROVE IInv'
  BY SMTT(30), <1>8 DEF IInv, _dispatch_gate_wait_slow
<1>9. ASSUME NEW t \in Threads, ulock_wait(t) PROVE IInv'
  BY SMTT(30), <1>9 DEF IInv, ulock_wait
<1>10. ASSUME NEW t \in Threads, SpuriousWakeup(t) PROVE IInv'
  BY SMTT(30), <1>10 DEF IInv, SpuriousWakeup
<1> QED
  BY <1>1, <1>2, <1>3, <1>4, <1>5, <1>6, <1>7, <1>8, <1>9, <1>10 DEF Next, Step

LEMMA Invariance == Spec => []IInv
  BY InitInv, NextInv, PTL DEF Spec

(* The word of the predicate, the program counters and the expected values   *)
(* always have their types (OnceGate).                                       *)
THEOREM TypeCorrect == Spec => []TypeOK
<1>1. IInv => TypeOK
  BY DEF IInv
<1> QED
  BY Invariance, <1>1, PTL

(* No sleeper is forgotten by _dispatch_gate_broadcast_slow, for any number  *)
(* of threads.                                                               *)
THEOREM NoForgottenSleeper == Spec => []SleepersWillBeWoken
<1>1. IInv => SleepersWillBeWoken
  BY DEF IInv
<1> QED
  BY Invariance, <1>1, PTL

(* The ownership tests of the gate fail only for a block that calls          *)
(* dispatch_once on its own predicate.                                       *)
THEOREM OnlyRecursionCrashes == Spec => []CrashOnlyOnRecursion
<1>1. IInv => CrashOnlyOnRecursion
  BY DEF IInv
<1> QED
  BY Invariance, <1>1, PTL

-----------------------------------------------------------------------------
LEMMA RefinementStep == IInv /\ [Next]_vars => [Abstract!OnceNext]_(Abstract!once_vars)
<1> SUFFICES ASSUME IInv, [Next]_vars
             PROVE  Abstract!OnceNext \/ UNCHANGED Abstract!once_vars
  OBVIOUS
<1> DEFINE inside == {t \in Threads : pc[t] # "idle"}
<1> USE DEF IInv, TypeOK, PCs, Goto, Abstract!once_vars
<1>1. CASE UNCHANGED vars
  BY <1>1 DEF vars
<1>2. ASSUME NEW t \in Threads, _dispatch_once(t) PROVE Abstract!Enter(t)
  BY <1>2 DEF _dispatch_once, Abstract!Enter
<1>3. ASSUME NEW t \in Threads, dispatch_once_f_slow(t)
      PROVE  Abstract!Begin \/ UNCHANGED Abstract!once_vars
  <2>1. inside' = inside
    BY <1>3 DEF dispatch_once_f_slow
  <2>2. CASE dgo_once = DLOCK_ONCE_UNLOCKED
    BY <1>3, <2>1, <2>2 DEF dispatch_once_f_slow, Abstract!Begin
  <2>3. CASE dgo_once # DLOCK_ONCE_UNLOCKED
    BY <1>3, <2>1, <2>3 DEF dispatch_once_f_slow
  <2> QED
    BY <2>2, <2>3
<1>4. ASSUME NEW t \in Threads, CalloutReturns(t) PROVE Abstract!End
  BY <1>4 DEF CalloutReturns, Abstract!End
<1>5. ASSUME NEW t \in Threads, CalloutRecurses(t) PROVE UNCHANGED Abstract!once_vars
  BY <1>5 DEF CalloutRecurses
<1>6. ASSUME NEW t \in Threads, _dispatch_once_gate_broadcast(t)
      PROVE  Abstract!Return(t) \/ UNCHANGED Abstract!once_vars
  BY <1>6 DEF _dispatch_once_gate_broadcast, Abstract!Return
<1>7. ASSUME NEW t \in Threads, _dispatch_gate_broadcast_slow(t) PROVE Abstract!Return(t)
  BY <1>7 DEF _dispatch_gate_broadcast_slow, Abstract!Return
<1>8. ASSUME NEW t \in Threads, _dispatch_gate_wait_slow(t)
      PROVE  Abstract!Return(t) \/ UNCHANGED Abstract!once_vars
  BY <1>8 DEF _dispatch_gate_wait_slow, Abstract!Return
<1>9. ASSUME NEW t \in Threads, ulock_wait(t) \/ SpuriousWakeup(t)
      PROVE  UNCHANGED Abstract!once_vars
  BY SMTT(30), <1>9 DEF ulock_wait, SpuriousWakeup
<1> QED
  BY <1>1, <1>2, <1>3, <1>4, <1>5, <1>6, <1>7, <1>8, <1>9
     DEF Next, Step, Abstract!OnceNext

(* dispatch_once on a gate lock runs the block once and lets nobody return   *)
(* before it has run: the gate implements module Once.                       *)
THEOREM GateImplementsOnce == Spec => ImplementsOnce
<1>1. Init => Abstract!OnceInit
  BY DEF Init, Abstract!OnceInit
<1> QED
  BY <1>1, Invariance, RefinementStep, PTL DEF Spec, ImplementsOnce, Abstract!OnceSpec
=============================================================================
