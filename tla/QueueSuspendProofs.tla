------------------------- MODULE QueueSuspendProofs -------------------------
(***************************************************************************)
(* Proofs about UnfairLock and QueueSuspend for any number of threads, any *)
(* width of the inline and the side count and any number of suspensions,   *)
(* as long as setters are called with room left in the inline count.       *)
(***************************************************************************)
EXTENDS QueueSuspend, FiniteSetTheorems, TLAPS

USE ZenonT(30)

(* The invariant of the lock.  An unlocked word has no bits set, and a       *)
(* thread waits for a word that has the waiters bit.                         *)
LockInv ==
  /\ LockTypeOK /\ LockOwner /\ NoForgottenWaiter
  /\ dul_lock.owner = NO_OWNER => dul_lock = Unlocked
  /\ \A t \in Threads : lpc[t] \in {"wait", "asleep"} => lvalue[t].waiters = 1

LEMMA LockInvInit == LockInit => LockInv
  BY SMTT(30), UnfairLockConstants
  DEF LockInit, LockInv, LockTypeOK, LockOwner, NoForgottenWaiter, Sleepers, Words, Word,
      Unlocked, LockPCs

LEMMA LockInvNext == LockInv /\ [LockNext]_lock_vars => LockInv'
<1> SUFFICES ASSUME LockInv, [LockNext]_lock_vars PROVE LockInv'
  OBVIOUS
<1> USE UnfairLockConstants
    DEF LockInv, LockTypeOK, LockOwner, NoForgottenWaiter, Sleepers, WillWake, Words, Word,
        Unlocked, LockPCs, LockGoto
<1>1. ASSUME NEW t \in Threads, _dispatch_unfair_lock_lock(t) PROVE LockInv'
  BY SMTT(30), <1>1 DEF _dispatch_unfair_lock_lock
<1>2. ASSUME NEW t \in Threads, _dispatch_unfair_lock_trylock(t) PROVE LockInv'
  BY SMTT(30), <1>2 DEF _dispatch_unfair_lock_trylock
<1>3. ASSUME NEW t \in Threads, _dispatch_unfair_lock_unlock_had_failed_trylock(t)
      PROVE  LockInv'
  BY SMTT(30), <1>3 DEF _dispatch_unfair_lock_unlock_had_failed_trylock
<1>4. ASSUME NEW t \in Threads, _dispatch_unfair_lock_tryunlock(t) PROVE LockInv'
  BY SMTT(30), <1>4 DEF _dispatch_unfair_lock_tryunlock
<1>5. ASSUME NEW t \in Threads, _dispatch_unfair_lock_lock_slow(t) PROVE LockInv'
  BY SMTT(30), <1>5 DEF _dispatch_unfair_lock_lock_slow
<1>6. ASSUME NEW t \in Threads, __ulock_wait(t) PROVE LockInv'
  BY SMTT(30), <1>6 DEF __ulock_wait
<1>7. ASSUME NEW t \in Threads, WaitInterrupted(t) PROVE LockInv'
  BY SMTT(30), <1>7 DEF WaitInterrupted
<1>8. ASSUME NEW t \in Threads, WaitReturns(t) PROVE LockInv'
  BY SMTT(30), <1>8 DEF WaitReturns
<1>9. ASSUME NEW t \in Threads, _dispatch_unfair_lock_unlock_slow(t) PROVE LockInv'
  BY SMTT(30), <1>9 DEF _dispatch_unfair_lock_unlock_slow
<1>10. CASE UNCHANGED lock_vars
  BY <1>10 DEF lock_vars
<1> QED
  BY <1>1, <1>2, <1>3, <1>4, <1>5, <1>6, <1>7, <1>8, <1>9, <1>10 DEF LockNext, LockStep

(* The lock word names its one holder, and neither crash is met.             *)
THEOREM LockOwned == LockSpec => []LockOwner
<1>1. LockInv => LockOwner
  BY DEF LockInv
<1> QED
  BY LockInvInit, LockInvNext, <1>1, PTL DEF LockSpec

(* No thread sleeps on the lock unless somebody is bound to wake it.         *)
THEOREM WaitersRemembered == LockSpec => []NoForgottenWaiter
<1>1. LockInv => NoForgottenWaiter
  BY DEF LockInv
<1> QED
  BY LockInvInit, LockInvNext, <1>1, PTL DEF LockSpec

-----------------------------------------------------------------------------

Multiple(n) == \E k \in Nat : n = k * HALF
UnderLock == {"side_add", "side_sub", "suspend_unlock", "suspend_retry", "resume_unlock",
              "resume_retry", "override"}

Is(here, S) == IF here \in S THEN 1 ELSE 0

(* Where threads may be.                                                     *)
Places ==
  /\ \A t \in Threads : pc[t] \in UnderLock => lpc[t] = "held"
  /\ \A t \in Threads : pc[t] = "activate" => kind = "inactive"
  /\ \A t \in Threads : released = 1 => pc[t] \in {"idle", "consume_2"}
  /\ \A t, u \in Threads : ~(pc[t] = "finalize" /\ pc[u] = "setting")

(* One transfer at a time, under the side lock.                              *)
Transfer ==
  /\ Multiple(side)
  /\ \/ Adding = 0 /\ Subtracting = 0
     \/ Adding = 1 /\ Subtracting = 0
     \/ Adding = 0 /\ Subtracting = 1 /\ side >= HALF

(* A queue that needs activation turns into one being finalized, or finalized. *)
Phase ==
  /\ dq_state.i = 1 => dq_state.na = 1
  /\ kind = "active" => dq_state.na = 0 /\ finalized = 0 /\ Finalizing = 0
  /\ kind # "active" => finalized + Finalizing + dq_state.na = 1

References ==
  /\ refs = (1 - released) + (IF _dq_state_is_suspended(dq_state) THEN 2 ELSE 0)
              - 2 * Retaining + 2 * Consuming
  /\ Retaining <= 1
  /\ released = 1 => dq_state = Bits(0, 0, 0, 0) /\ free = 0

(* The inductive invariant, apart from LockInv, which the lock keeps alone.  *)
QueueInv ==
  /\ TypeOK /\ Places /\ Transfer /\ SuspensionsConserved /\ Phase /\ References
  /\ NoSpuriousCrash

-----------------------------------------------------------------------------
(* Arithmetic of the side count.                                             *)
LEMMA Multiples ==
  ASSUME NEW n \in Nat, Multiple(n)
  PROVE  /\ Multiple(n + HALF)
         /\ n # 0 => n >= HALF
         /\ n >= HALF => Multiple(n - HALF)
<1>1. HALF \in Nat /\ HALF > 1
  BY SMTT(30), QueueConstants
<1>2. PICK k \in Nat : n = k * HALF
  BY DEF Multiple
<1>3. (k + 1) * HALF = n + HALF /\ k + 1 \in Nat
  BY SMTT(30), <1>1, <1>2
<1>4. k # 0 => k - 1 \in Nat /\ (k - 1) * HALF = n - HALF
  BY SMTT(30), <1>1, <1>2
<1>5. k = 0 => n = 0
  BY SMTT(30), <1>1, <1>2
<1>6. k # 0 => n >= HALF
  <2> SUFFICES ASSUME k # 0 PROVE n >= HALF
    OBVIOUS
  <2>1. (k - 1) * HALF >= 0
    BY SMTT(30), <1>1
  <2> QED
    BY SMTT(30), <1>1, <1>2, <1>4, <2>1
<1>7. n >= HALF => k # 0
  BY SMTT(30), <1>1, <1>5
<1> QED
  BY <1>3, <1>4, <1>5, <1>6, <1>7 DEF Multiple

(* How many threads are at steps of S, before and after one thread moves.    *)
LEMMA CountMoves ==
  ASSUME NEW S, NEW t \in Threads, NEW q, pc \in [Threads -> PCs], Goto(t, q)
  PROVE  /\ Cardinality(InCall(S)) \in Nat
         /\ Cardinality(InCall(S))' = Cardinality(InCall(S))
              + (IF q \in S THEN 1 ELSE 0) - (IF pc[t] \in S THEN 1 ELSE 0)
<1>1. IsFiniteSet(InCall(S)) /\ Cardinality(InCall(S)) \in Nat
  BY UnfairLockConstants, FS_Subset, FS_CardinalityType DEF InCall
<1>2. CASE q \in S /\ pc[t] \notin S
  <2>1. InCall(S)' = InCall(S) \cup {t} /\ t \notin InCall(S)
    BY <1>2 DEF InCall, Goto
  <2>2. Cardinality(InCall(S) \cup {t}) = Cardinality(InCall(S)) + 1
    BY <1>1, <2>1, FS_AddElement
  <2> QED
    BY SMTT(30), <1>1, <1>2, <2>1, <2>2
<1>3. CASE q \notin S /\ pc[t] \in S
  <2>1. InCall(S)' = InCall(S) \ {t} /\ t \in InCall(S)
    BY <1>3 DEF InCall, Goto
  <2>2. Cardinality(InCall(S) \ {t}) = Cardinality(InCall(S)) - 1
    BY <1>1, <2>1, FS_RemoveElement
  <2> QED
    BY SMTT(30), <1>1, <1>3, <2>1, <2>2
<1>4. CASE q \in S <=> pc[t] \in S
  <2>1. InCall(S)' = InCall(S)
    BY <1>4 DEF InCall, Goto
  <2> QED
    BY SMTT(30), <1>1, <1>4, <2>1
<1> QED
  BY <1>2, <1>3, <1>4

LEMMA CountBounds ==
  ASSUME NEW S, NEW T \in SUBSET S
  PROVE  /\ Cardinality(InCall(S)) \in Nat /\ Cardinality(InCall(T)) \in Nat
         /\ Cardinality(InCall(T)) <= Cardinality(InCall(S))
         /\ \A t \in Threads : pc[t] \in S => Cardinality(InCall(S)) >= 1
         /\ (\A t \in Threads : pc[t] \notin S) => Cardinality(InCall(S)) = 0
         /\ \A t, u \in Threads :
              t # u /\ pc[t] \in S /\ pc[u] \in S => Cardinality(InCall(S)) >= 2
<1>1. IsFiniteSet(InCall(S)) /\ InCall(T) \in SUBSET InCall(S)
  BY UnfairLockConstants, FS_Subset DEF InCall
<1>2. /\ IsFiniteSet(InCall(T)) /\ Cardinality(InCall(T)) \in Nat
      /\ Cardinality(InCall(S)) \in Nat /\ Cardinality(InCall(T)) <= Cardinality(InCall(S))
  BY <1>1, FS_Subset, FS_CardinalityType
<1>3. ASSUME NEW t \in Threads, pc[t] \in S PROVE Cardinality(InCall(S)) >= 1
  <2>1. {t} \in SUBSET InCall(S) /\ Cardinality({t}) = 1
    BY <1>3, FS_Singleton DEF InCall
  <2> QED
    BY <1>1, <2>1, FS_Subset
<1>4. ASSUME \A t \in Threads : pc[t] \notin S PROVE Cardinality(InCall(S)) = 0
  <2>1. InCall(S) = {}
    BY <1>4 DEF InCall
  <2> QED
    BY <2>1, FS_EmptySet
<1>5. ASSUME NEW t \in Threads, NEW u \in Threads, t # u, pc[t] \in S, pc[u] \in S
      PROVE  Cardinality(InCall(S)) >= 2
  <2>1. IsFiniteSet({t}) /\ Cardinality({t}) = 1 /\ u \notin {t}
    BY <1>5, FS_Singleton
  <2>2. Cardinality({t} \cup {u}) = 2
    BY SMTT(30), <2>1, FS_AddElement
  <2>3. {t} \cup {u} \in SUBSET InCall(S)
    BY <1>5 DEF InCall
  <2> QED
    BY <1>1, <2>2, <2>3, FS_Subset
<1> QED
  BY <1>2, <1>3, <1>4, <1>5

LEMMA CountTypes ==
  /\ Undoing \in Nat /\ Adding \in Nat /\ Subtracting \in Nat /\ Finalizing \in Nat
  /\ Retaining \in Nat /\ Consuming \in Nat
  /\ Retaining <= Undoing /\ Finalizing <= Undoing
  BY CountBounds DEF Undoing, Adding, Subtracting, Finalizing, Retaining, Consuming, Undoers

LEMMA Counts ==
  ASSUME pc \in [Threads -> PCs], NEW t \in Threads, NEW q, Goto(t, q)
  PROVE  /\ Undoing' = Undoing + Is(q, Undoers) - Is(pc[t], Undoers)
         /\ Adding' = Adding + Is(q, {"side_add"}) - Is(pc[t], {"side_add"})
         /\ Subtracting' = Subtracting + Is(q, {"side_sub"}) - Is(pc[t], {"side_sub"})
         /\ Finalizing' = Finalizing + Is(q, {"finalize"}) - Is(pc[t], {"finalize"})
         /\ Retaining' = Retaining + Is(q, {"retain_2"}) - Is(pc[t], {"retain_2"})
         /\ Consuming' = Consuming + Is(q, {"consume_2"}) - Is(pc[t], {"consume_2"})
  BY CountMoves
  DEF Undoing, Adding, Subtracting, Finalizing, Retaining, Consuming, Is

LEMMA CountsStay ==
  ASSUME UNCHANGED pc
  PROVE  UNCHANGED <<Undoing, Adding, Subtracting, Finalizing, Retaining, Consuming>>
  BY DEF Undoing, Adding, Subtracting, Finalizing, Retaining, Consuming, InCall

-----------------------------------------------------------------------------
(* A step that leaves the lock alone and moves t to q keeps Places, if q is  *)
(* a place for t.                                                            *)
LEMMA PlacesKept ==
  ASSUME QueueInv, NEW t \in Threads, NEW q \in PCs, Goto(t, q),
         UNCHANGED <<lpc, kind, released>>,
         q \in UnderLock => lpc[t] = "held",
         q = "activate" => kind = "inactive",
         released = 1 => q \in {"idle", "consume_2"},
         q = "finalize" => \A u \in Threads : pc[u] # "setting",
         q = "setting" => \A u \in Threads : pc[u] # "finalize"
  PROVE  Places'
  BY DEF QueueInv, TypeOK, Places, Goto

LEMMA CallKept ==
  ASSUME QueueInv, LockInv, LockInv', NEW t \in Threads, NEW q \in PCs, Calling(t, q),
         q \in {"suspend", "resume", "activate"},
         q = "activate" => kind = "inactive",
         IF q = "resume" THEN free > 0 /\ free' = free - 1 ELSE free' = free
  PROVE  QueueInv'
<1>1. pc[t] = "idle" /\ released = 0 /\ Goto(t, q) /\ UNCHANGED <<lock_vars, queue_vars, kind, released, crash>>
  BY DEF Calling, At
<1>2. Places'
  BY SMTT(30), <1>1, PlacesKept DEF lock_vars, UnderLock, QueueInv, TypeOK
<1>3. TypeOK'
  BY SMTT(30), <1>1 DEF QueueInv, TypeOK, Goto, queue_vars, LockInv
<1>4. /\ UNCHANGED <<Adding, Subtracting, Finalizing, Retaining, Consuming>>
      /\ Undoing' = IF q = "resume" THEN Undoing + 1 ELSE Undoing
  <2>1. pc \in [Threads -> PCs]
    BY DEF QueueInv, TypeOK
  <2>2. CASE q = "resume"
    BY SMTT(30), <1>1, <2>1, <2>2, Counts, CountTypes DEF Is, Undoers
  <2>3. CASE q = "suspend"
    BY SMTT(30), <1>1, <2>1, <2>3, Counts, CountTypes DEF Is, Undoers
  <2>4. CASE q = "activate"
    BY SMTT(30), <1>1, <2>1, <2>4, Counts, CountTypes DEF Is, Undoers
  <2> QED
    BY <2>2, <2>3, <2>4
<1>5. Transfer' /\ Phase' /\ References'
  BY SMTT(30), <1>1, <1>4 DEF QueueInv, Transfer, Phase, References, queue_vars, TypeOK
<1>6. SuspensionsConserved'
  BY SMTT(30), <1>1, <1>4, CountTypes
  DEF QueueInv, SuspensionsConserved, Suspensions, SideTotal, queue_vars, TypeOK
<1> QED
  BY <1>1, <1>2, <1>3, <1>5, <1>6 DEF QueueInv, NoSpuriousCrash

(* dispatch_release finds nothing suspended.                                 *)
LEMMA ReleaseKept ==
  ASSUME QueueInv, LockInv, LockInv', NEW t \in Threads, dispatch_release(t)
  PROVE  QueueInv'
<1>1. \A u \in Threads : pc[u] \in {"idle", "consume_2"}
  BY DEF dispatch_release, At
<1>2. Undoing = 0 /\ Adding = 0 /\ Subtracting = 0 /\ Finalizing = 0 /\ Retaining = 0
  <2>1. \A u \in Threads : pc[u] \notin Undoers
    BY <1>1 DEF Undoers
  <2>2. \A u \in Threads : pc[u] \notin {"side_add"} /\ pc[u] \notin {"side_sub"}
    BY <1>1
  <2>3. \A u \in Threads : pc[u] \notin {"finalize"} /\ pc[u] \notin {"retain_2"}
    BY <1>1
  <2> QED
    BY <2>1, <2>2, <2>3, CountBounds DEF Undoing, Adding, Subtracting, Finalizing, Retaining
<1>3. dq_state = Bits(0, 0, 0, 0)
  <2>1. dq_state.na = 0 /\ dq_state.i = 0
    BY SMTT(30), <1>2 DEF dispatch_release, QueueInv, Phase, TypeOK
  <2>2. SideTotal = side
    BY SMTT(30), <1>2, QueueConstants DEF SideTotal, QueueInv, TypeOK
  <2>3. dq_state.sc = 0 /\ dq_state.ssc = 0
    BY SMTT(30), <1>2, <2>1, <2>2
    DEF dispatch_release, QueueInv, SuspensionsConserved, Suspensions, TypeOK, Full
  <2> QED
    BY <2>1, <2>3 DEF Bits, QueueInv, TypeOK
<1>4. /\ refs' = refs - 1 /\ released' = 1 /\ released = 0 /\ free = 0
      /\ UNCHANGED <<crash, lock_vars, dq_state, side, finalized, pc, kind, free>>
  BY <1>3 DEF dispatch_release, _dq_state_is_suspended
<1>5. UNCHANGED <<Undoing, Adding, Subtracting, Finalizing, Retaining, Consuming>>
  BY <1>4, CountsStay
<1>6. References' /\ refs' \in Nat
  BY SMTT(30), <1>2, <1>3, <1>4, <1>5, CountTypes
     DEF QueueInv, References, _dq_state_is_suspended
<1>7. TypeOK'
  BY <1>4, <1>6 DEF QueueInv, TypeOK, LockInv
<1>8. Places'
  BY <1>1, <1>4 DEF QueueInv, Places, lock_vars
<1>9. Transfer' /\ Phase' /\ SuspensionsConserved'
  BY <1>4, <1>5 DEF QueueInv, Transfer, Phase, SuspensionsConserved, Suspensions, SideTotal
<1> QED
  BY <1>4, <1>6, <1>7, <1>8, <1>9 DEF QueueInv, NoSpuriousCrash

(* A setter suspends an inactive queue, with room in the inline count.       *)
LEMMA SetterKept ==
  ASSUME SetterLimit < Full, QueueInv, LockInv, LockInv', NEW t \in Threads,
         _dispatch_queue_try_inactive_suspend(t)
  PROVE  QueueInv'
<1>1. /\ pc[t] = "idle" /\ released = 0 /\ dq_state.i = 1 /\ dq_state.sc < Full
      /\ dq_state' = [dq_state EXCEPT !.sc = @ + 1] /\ Goto(t, "setting")
      /\ crash' \in {crash, "too_many"}
      /\ UNCHANGED <<lock_vars, side, refs, finalized, kind, free, released>>
  <2>1. dq_state.sc \in Nat /\ dq_state.sc < Full /\ Full \in Nat
    BY SMTT(30), QueueConstants
       DEF _dispatch_queue_try_inactive_suspend, QueueInv, TypeOK, Full
  <2>2. (dq_state.sc + 1) % (Full + 1) = dq_state.sc + 1
    BY SMTT(30), <2>1
  <2> QED
    BY <2>1, <2>2 DEF _dispatch_queue_try_inactive_suspend, At
<1>2. /\ UNCHANGED <<Adding, Subtracting, Finalizing, Retaining, Consuming>>
      /\ Undoing' = Undoing + 1
  <2>1. pc \in [Threads -> PCs]
    BY DEF QueueInv, TypeOK
  <2> QED
    BY SMTT(30), <1>1, <2>1, Counts, CountTypes DEF Is, Undoers
<1>3. \A u \in Threads : pc[u] # "finalize"
  <2>1. Finalizing = 0
    BY SMTT(30), <1>1, CountTypes DEF QueueInv, Phase, TypeOK
  <2> QED
    BY SMTT(30), <2>1, CountBounds DEF Finalizing
<1>4. TypeOK'
  BY SMTT(30), <1>1, QueueConstants DEF QueueInv, TypeOK, LockInv, Goto, PCs, Full
<1>5. Places'
  BY SMTT(30), <1>1, <1>3, PlacesKept DEF lock_vars, UnderLock, PCs
<1>6. Transfer' /\ Phase'
  BY <1>1, <1>2 DEF QueueInv, Transfer, Phase, TypeOK
<1>7. References'
  BY SMTT(30), <1>1, <1>2 DEF QueueInv, References, TypeOK, _dq_state_is_suspended, Bits
<1>8. SuspensionsConserved'
  BY SMTT(30), <1>1, <1>2, CountTypes, QueueConstants
  DEF QueueInv, SuspensionsConserved, Suspensions, SideTotal, TypeOK, Full
<1> QED
  BY <1>1, <1>4, <1>5, <1>6, <1>7, <1>8 DEF QueueInv, NoSpuriousCrash

(* Two steps that change no count: a setter or a finalizer calls do_resume.  *)
LEMMA ToResumeKept ==
  ASSUME QueueInv, LockInv, LockInv', NEW t \in Threads,
         SetterResumes(t) \/ _dispatch_queue_resume_finalize_activation(t)
  PROVE  QueueInv'
<1>1. /\ pc[t] \in {"setting", "finalize"} /\ Goto(t, "resume")
      /\ finalized' = finalized + Is(pc[t], {"finalize"})
      /\ UNCHANGED <<lock_vars, dq_state, side, refs, kind, free, released, crash>>
  BY SMTT(30)
     DEF SetterResumes, _dispatch_queue_resume_finalize_activation, At, queue_vars, Is,
         QueueInv, TypeOK
<1>2. /\ UNCHANGED <<Undoing, Adding, Subtracting, Retaining, Consuming>>
      /\ Finalizing' = Finalizing - Is(pc[t], {"finalize"})
  <2>1. pc \in [Threads -> PCs]
    BY DEF QueueInv, TypeOK
  <2> QED
    BY SMTT(30), <1>1, <2>1, Counts, CountTypes DEF Is, Undoers
<1>3. TypeOK'
  BY SMTT(30), <1>1 DEF QueueInv, TypeOK, LockInv, Goto, PCs, Is
<1>4. released = 0
  BY <1>1 DEF QueueInv, Places, TypeOK
<1>5. Places'
  BY SMTT(30), <1>1, <1>4, PlacesKept DEF lock_vars, UnderLock, PCs
<1>6. Transfer' /\ Phase' /\ References'
  <2>1. pc[t] = "finalize" => Finalizing >= 1
    BY CountBounds DEF Finalizing
  <2> QED
    BY SMTT(30), <1>1, <1>2, <2>1, CountTypes
       DEF QueueInv, Transfer, Phase, References, TypeOK, Is
<1>7. SuspensionsConserved'
  BY <1>1, <1>2 DEF QueueInv, SuspensionsConserved, Suspensions, SideTotal
<1> QED
  BY <1>1, <1>3, <1>5, <1>6, <1>7 DEF QueueInv, NoSpuriousCrash

(* When nothing is suspended nothing is in transit.                          *)
LEMMA NotSuspended ==
  ASSUME QueueInv, ~_dq_state_is_suspended(dq_state)
  PROVE  Undoing = 0 /\ Retaining = 0 /\ Finalizing = 0
<1>1. dq_state.sc = 0 /\ dq_state.ssc = 0 /\ dq_state.i = 0
  BY SMTT(30) DEF _dq_state_is_suspended, Bits
<1>2. SideTotal <= 0
  BY SMTT(30), <1>1, CountTypes, QueueConstants
  DEF QueueInv, SuspensionsConserved, SideTotal, TypeOK
<1> QED
  BY SMTT(30), <1>1, <1>2, CountTypes, QueueConstants
  DEF QueueInv, SuspensionsConserved, Suspensions, SideTotal, TypeOK

(* dispatch_suspend: the rmw and the retain.                                 *)
LEMMA SuspendKept ==
  ASSUME QueueInv, LockInv, LockInv', NEW t \in Threads, _dispatch_queue_suspend(t)
  PROVE  QueueInv'
<1>1. /\ pc[t] = "suspend"
      /\ UNCHANGED <<lock_vars, side, refs, finalized, kind, released, crash>>
  BY DEF _dispatch_queue_suspend, At
<1>2. pc \in [Threads -> PCs] /\ released = 0
  BY <1>1 DEF QueueInv, TypeOK, Places
<1>3. CASE dq_state.sc = Full
  <2>1. Goto(t, "suspend_slow") /\ UNCHANGED <<dq_state, free>>
    BY <1>3 DEF _dispatch_queue_suspend
  <2>2. UNCHANGED <<Undoing, Adding, Subtracting, Finalizing, Retaining, Consuming>>
    BY SMTT(30), <1>1, <1>2, <2>1, Counts, CountTypes DEF Is, Undoers
  <2>3. TypeOK'
    BY <1>1, <2>1 DEF QueueInv, TypeOK, LockInv, Goto, PCs
  <2>4. Places'
    BY SMTT(30), <1>1, <1>2, <2>1, PlacesKept DEF lock_vars, UnderLock, PCs
  <2>5. Transfer' /\ Phase' /\ References' /\ SuspensionsConserved'
    BY <1>1, <2>1, <2>2
    DEF QueueInv, Transfer, Phase, References, SuspensionsConserved, Suspensions, SideTotal
  <2> QED
    BY <1>1, <2>3, <2>4, <2>5 DEF QueueInv, NoSpuriousCrash
<1>4. CASE dq_state.sc # Full /\ _dq_state_is_suspended(dq_state)
  <2>1. /\ dq_state' = [dq_state EXCEPT !.sc = @ + 1] /\ Goto(t, "idle")
        /\ free' = free + 1
    BY <1>4 DEF _dispatch_queue_suspend
  <2>2. UNCHANGED <<Undoing, Adding, Subtracting, Finalizing, Retaining, Consuming>>
    BY SMTT(30), <1>1, <1>2, <2>1, Counts, CountTypes DEF Is, Undoers
  <2>3. TypeOK'
    BY SMTT(30), <1>1, <1>4, <2>1, QueueConstants
       DEF QueueInv, TypeOK, LockInv, Goto, PCs, Full
  <2>4. Places'
    BY <1>1, <1>2, <2>1, PlacesKept DEF lock_vars, UnderLock, PCs
  <2>5. Transfer' /\ Phase'
    BY <1>1, <2>1, <2>2 DEF QueueInv, TypeOK, Transfer, Phase
  <2>6. _dq_state_is_suspended(dq_state)'
    BY SMTT(30), <2>1, QueueConstants DEF QueueInv, TypeOK, _dq_state_is_suspended, Bits, Full
  <2>7. References'
    BY <1>1, <1>2, <1>4, <2>2, <2>6 DEF QueueInv, References, _dq_state_is_suspended
  <2>8. SuspensionsConserved'
    <3>1. SideTotal' = SideTotal /\ SideTotal \in Int
      BY SMTT(30), <1>1, <2>2, CountTypes, QueueConstants DEF SideTotal, QueueInv, TypeOK
    <3> QED
      BY SMTT(30), <1>1, <2>1, <2>2, <3>1, CountTypes, QueueConstants
      DEF QueueInv, TypeOK, SuspensionsConserved, Suspensions, Full
  <2> QED
    BY <1>1, <2>3, <2>4, <2>5, <2>7, <2>8 DEF QueueInv, NoSpuriousCrash
<1>5. CASE dq_state.sc # Full /\ ~_dq_state_is_suspended(dq_state)
  <2>1. /\ dq_state' = [dq_state EXCEPT !.sc = @ + 1] /\ Goto(t, "retain_2")
        /\ free' = free
    BY <1>5 DEF _dispatch_queue_suspend
  <2>2. /\ UNCHANGED <<Adding, Subtracting, Finalizing, Consuming>>
        /\ Undoing' = Undoing + 1 /\ Retaining' = Retaining + 1
    BY SMTT(30), <1>1, <1>2, <2>1, Counts, CountTypes DEF Is, Undoers
  <2>3. TypeOK'
    BY SMTT(30), <1>1, <1>5, <2>1, QueueConstants
       DEF QueueInv, TypeOK, LockInv, Goto, PCs, Full
  <2>4. Places'
    BY SMTT(30), <1>1, <1>2, <2>1, PlacesKept DEF lock_vars, UnderLock, PCs
  <2>5. Transfer' /\ Phase'
    BY <1>1, <2>1, <2>2 DEF QueueInv, TypeOK, Transfer, Phase
  <2>6. _dq_state_is_suspended(dq_state)'
    BY SMTT(30), <2>1, QueueConstants DEF QueueInv, TypeOK, _dq_state_is_suspended, Bits, Full
  <2>7. References'
    BY SMTT(30), <1>1, <1>2, <1>5, <2>2, <2>6, NotSuspended, CountTypes
       DEF QueueInv, References, TypeOK
  <2>8. SuspensionsConserved'
    <3>1. SideTotal' = SideTotal /\ SideTotal \in Int
      BY SMTT(30), <1>1, <2>2, CountTypes, QueueConstants DEF SideTotal, QueueInv, TypeOK
    <3> QED
      BY SMTT(30), <1>1, <2>1, <2>2, <3>1, CountTypes, QueueConstants
      DEF QueueInv, TypeOK, SuspensionsConserved, Suspensions, Full
  <2> QED
    BY <1>1, <2>3, <2>4, <2>5, <2>7, <2>8 DEF QueueInv, NoSpuriousCrash
<1> QED
  BY <1>3, <1>4, <1>5

LEMMA ReferencesKept ==
  ASSUME QueueInv, LockInv, LockInv', NEW t \in Threads, SuspendRetain(t) \/ ResumeConsume(t)
  PROVE  QueueInv'
<1>1. /\ Goto(t, "idle")
      /\ UNCHANGED <<lock_vars, dq_state, side, finalized, kind, released, crash>>
      /\ \/ pc[t] = "retain_2" /\ refs' = refs + 2 /\ free' = free + 1
         \/ pc[t] = "consume_2" /\ refs' = refs - 2 /\ free' = free
  BY DEF SuspendRetain, ResumeConsume, At
<1>2. pc \in [Threads -> PCs]
  BY DEF QueueInv, TypeOK
<1>3. /\ UNCHANGED <<Adding, Subtracting, Finalizing>>
      /\ Undoing' = Undoing - Is(pc[t], {"retain_2"})
      /\ Retaining' = Retaining - Is(pc[t], {"retain_2"})
      /\ Consuming' = Consuming - Is(pc[t], {"consume_2"})
  BY SMTT(30), <1>1, <1>2, Counts, CountTypes DEF Is, Undoers
<1>4. /\ pc[t] = "retain_2" => Retaining >= 1
      /\ pc[t] = "consume_2" => Consuming >= 1
  BY CountBounds DEF Retaining, Consuming
<1>5. pc[t] = "retain_2" => released = 0 /\ _dq_state_is_suspended(dq_state)
  BY SMTT(30), <1>4, NotSuspended DEF QueueInv, TypeOK, Places
<1>6. Retaining >= 1 => _dq_state_is_suspended(dq_state)
  BY SMTT(30), NotSuspended
<1>7. References' /\ refs' \in Nat
  BY SMTT(30), <1>1, <1>3, <1>4, <1>5, <1>6, CountTypes DEF QueueInv, References, TypeOK, Is
<1>8. TypeOK'
  BY SMTT(30), <1>1, <1>7 DEF QueueInv, TypeOK, LockInv, Goto, PCs
<1>9. Places'
  BY <1>1, PlacesKept DEF lock_vars, UnderLock, PCs
<1>10. Transfer' /\ Phase'
  BY <1>1, <1>3 DEF QueueInv, Transfer, Phase
<1>11. SuspensionsConserved'
  BY SMTT(30), <1>1, <1>3, CountTypes
  DEF QueueInv, SuspensionsConserved, Suspensions, SideTotal, TypeOK, Is
<1> QED
  BY <1>1, <1>7, <1>8, <1>9, <1>10, <1>11 DEF QueueInv, NoSpuriousCrash

-----------------------------------------------------------------------------
(* Only the holder of the side lock moves suspensions.                       *)
LEMMA Alone ==
  ASSUME QueueInv, LockInv, NEW t \in Threads, lpc[t] = "held",
         pc[t] \notin {"side_add", "side_sub"}
  PROVE  Adding = 0 /\ Subtracting = 0 /\ SideTotal = side
<1>1. ASSUME NEW u \in Threads, pc[u] \in {"side_add", "side_sub"} PROVE FALSE
  <2>1. lpc[u] = "held"
    BY <1>1 DEF QueueInv, Places, UnderLock
  <2>2. u = t
    BY <2>1 DEF LockInv, LockOwner
  <2> QED
    BY <1>1, <2>2
<1>2. Adding = 0
  BY <1>1, CountBounds DEF Adding
<1>3. Subtracting = 0
  BY <1>1, CountBounds DEF Subtracting
<1> QED
  BY SMTT(30), <1>2, <1>3, QueueConstants DEF SideTotal, QueueInv, TypeOK

(* The steps of suspend_slow and resume_slow under the side lock.            *)
LEMMA SuspendSlowKept ==
  ASSUME QueueInv, LockInv, LockInv', NEW t \in Threads, _dispatch_queue_suspend_slow(t)
  PROVE  QueueInv'
<1>1. /\ pc[t] = "suspend_slow" /\ lpc[t] = "held"
      /\ UNCHANGED <<lock_vars, side, refs, finalized, kind, free, released, crash>>
  BY DEF _dispatch_queue_suspend_slow, Holding
<1>2. pc \in [Threads -> PCs] /\ released = 0
  BY <1>1 DEF QueueInv, TypeOK, Places
<1>3. Adding = 0 /\ Subtracting = 0 /\ SideTotal = side
  BY <1>1, Alone
<1>4. CASE dq_state.sc < HALF - 1
  <2>1. Goto(t, "suspend_retry") /\ UNCHANGED dq_state
    BY <1>4 DEF _dispatch_queue_suspend_slow
  <2>2. UNCHANGED <<Undoing, Adding, Subtracting, Finalizing, Retaining, Consuming>>
    BY SMTT(30), <1>1, <1>2, <2>1, Counts, CountTypes DEF Is, Undoers
  <2>3. TypeOK'
    BY <1>1, <2>1 DEF QueueInv, TypeOK, LockInv, Goto, PCs
  <2>4. Places'
    BY SMTT(30), <1>1, <1>2, <2>1, PlacesKept DEF lock_vars, UnderLock, PCs
  <2>5. Transfer' /\ Phase' /\ References' /\ SuspensionsConserved'
    BY <1>1, <2>1, <2>2
    DEF QueueInv, Transfer, Phase, References, SuspensionsConserved, Suspensions, SideTotal
  <2> QED
    BY <1>1, <2>3, <2>4, <2>5 DEF QueueInv, NoSpuriousCrash
<1>5. CASE dq_state.sc >= HALF - 1
  <2>1. /\ dq_state' = [dq_state EXCEPT !.sc = @ - (HALF - 1),
                                        !.ssc = IF side = 0 THEN 1 ELSE @]
        /\ Goto(t, "side_add")
    BY SMTT(30), <1>5, QueueConstants DEF _dispatch_queue_suspend_slow, QueueInv, TypeOK, Full
  <2>2. /\ UNCHANGED <<Subtracting, Finalizing, Retaining, Consuming>>
        /\ Undoing' = Undoing + 1 /\ Adding' = 1
    BY SMTT(30), <1>1, <1>2, <1>3, <2>1, Counts, CountTypes DEF Is, Undoers
  <2>3. dq_state.ssc = 1 <=> side > 0
    BY <1>3 DEF QueueInv, SuspensionsConserved
  <2>4. /\ dq_state'.sc = dq_state.sc - (HALF - 1) /\ dq_state'.ssc = 1
        /\ dq_state'.i = dq_state.i /\ dq_state'.na = dq_state.na
    BY SMTT(30), <2>1, <2>3, QueueConstants DEF QueueInv, TypeOK
  <2>5. TypeOK'
    <3>1. dq_state' \in [sc : 0..Full, ssc : {0, 1}, i : {0, 1}, na : {0, 1}]
      <4>1. dq_state'.sc \in 0..Full /\ dq_state'.ssc \in {0, 1}
        BY SMTT(30), <1>5, <2>4, QueueConstants DEF QueueInv, TypeOK, Full
      <4> QED
        BY <2>1, <2>4, <4>1 DEF QueueInv, TypeOK
    <3> QED
      BY <1>1, <2>1, <3>1 DEF QueueInv, TypeOK, LockInv, Goto, PCs
  <2>6. Places'
    BY SMTT(30), <1>1, <1>2, <2>1, PlacesKept DEF lock_vars, UnderLock, PCs
  <2>7. Transfer' /\ Phase'
    BY <1>1, <1>3, <2>2, <2>4 DEF QueueInv, Transfer, Phase
  <2>8. _dq_state_is_suspended(dq_state) /\ _dq_state_is_suspended(dq_state)'
    BY SMTT(30), <1>5, <2>4, QueueConstants DEF _dq_state_is_suspended, Bits
  <2>9. References'
    BY SMTT(30), <1>1, <1>2, <2>2, <2>8 DEF QueueInv, References
  <2>10. SuspensionsConserved'
    <3>1. SideTotal' = side + HALF
      BY SMTT(30), <1>1, <1>3, <2>2, QueueConstants DEF SideTotal, QueueInv, TypeOK
    <3> QED
      BY SMTT(30), <1>1, <1>3, <2>2, <2>4, <3>1, CountTypes, QueueConstants
      DEF QueueInv, TypeOK, SuspensionsConserved, Suspensions, Full
  <2> QED
    BY <1>1, <2>5, <2>6, <2>7, <2>9, <2>10 DEF QueueInv, NoSpuriousCrash
<1> QED
  BY SMTT(30), <1>4, <1>5, QueueConstants DEF QueueInv, TypeOK, Full

LEMMA ResumeSlowKept ==
  ASSUME QueueInv, LockInv, LockInv', NEW t \in Threads, _dispatch_queue_resume_slow(t)
  PROVE  QueueInv'
<1>1. /\ pc[t] = "resume_slow" /\ lpc[t] = "held"
      /\ UNCHANGED <<lock_vars, side, refs, finalized, kind, free, released, crash>>
  BY DEF _dispatch_queue_resume_slow, Holding
<1>2. pc \in [Threads -> PCs] /\ released = 0
  BY <1>1 DEF QueueInv, TypeOK, Places
<1>3. Adding = 0 /\ Subtracting = 0 /\ SideTotal = side
  BY <1>1, Alone
<1>4. CASE side = 0 \/ dq_state.sc + (HALF - 1) > Full
  <2>1. Goto(t, "resume_retry") /\ UNCHANGED dq_state
    BY <1>4 DEF _dispatch_queue_resume_slow
  <2>2. UNCHANGED <<Undoing, Adding, Subtracting, Finalizing, Retaining, Consuming>>
    BY SMTT(30), <1>1, <1>2, <2>1, Counts, CountTypes DEF Is, Undoers
  <2>3. TypeOK'
    BY <1>1, <2>1 DEF QueueInv, TypeOK, LockInv, Goto, PCs
  <2>4. Places'
    BY SMTT(30), <1>1, <1>2, <2>1, PlacesKept DEF lock_vars, UnderLock, PCs
  <2>5. Transfer' /\ Phase' /\ References' /\ SuspensionsConserved'
    BY <1>1, <2>1, <2>2
    DEF QueueInv, Transfer, Phase, References, SuspensionsConserved, Suspensions, SideTotal
  <2> QED
    BY <1>1, <2>3, <2>4, <2>5 DEF QueueInv, NoSpuriousCrash
<1>5. CASE ~(side = 0 \/ dq_state.sc + (HALF - 1) > Full)
  <2>1. /\ dq_state' = [dq_state EXCEPT !.sc = @ + (HALF - 1),
                                        !.ssc = IF side = HALF THEN 0 ELSE @]
        /\ Goto(t, "side_sub")
    BY <1>5 DEF _dispatch_queue_resume_slow
  <2>2. /\ UNCHANGED <<Adding, Finalizing, Retaining, Consuming>>
        /\ Undoing' = Undoing - 1 /\ Subtracting' = 1
    BY SMTT(30), <1>1, <1>2, <1>3, <2>1, Counts, CountTypes DEF Is, Undoers
  <2>3. dq_state.ssc = 1 /\ side >= HALF
    BY SMTT(30), <1>3, <1>5, Multiples DEF QueueInv, SuspensionsConserved, TypeOK, Transfer
  <2>4. /\ dq_state'.sc = dq_state.sc + (HALF - 1)
        /\ dq_state'.ssc = (IF side = HALF THEN 0 ELSE 1)
        /\ dq_state'.i = dq_state.i /\ dq_state'.na = dq_state.na
    BY <2>1, <2>3, QueueConstants DEF QueueInv, TypeOK
  <2>5. TypeOK'
    <3>1. dq_state' \in [sc : 0..Full, ssc : {0, 1}, i : {0, 1}, na : {0, 1}]
      <4>1. dq_state'.sc \in 0..Full /\ dq_state'.ssc \in {0, 1}
        BY SMTT(30), <1>5, <2>4, QueueConstants DEF QueueInv, TypeOK, Full
      <4> QED
        BY <2>1, <2>4, <4>1 DEF QueueInv, TypeOK
    <3> QED
      BY <1>1, <2>1, <3>1 DEF QueueInv, TypeOK, LockInv, Goto, PCs
  <2>6. Places'
    BY SMTT(30), <1>1, <1>2, <2>1, PlacesKept DEF lock_vars, UnderLock, PCs
  <2>7. Transfer' /\ Phase'
    BY <1>1, <1>3, <2>2, <2>3, <2>4 DEF QueueInv, Transfer, Phase
  <2>8. _dq_state_is_suspended(dq_state) /\ _dq_state_is_suspended(dq_state)'
    BY SMTT(30), <1>5, <2>3, <2>4, QueueConstants
       DEF _dq_state_is_suspended, Bits, QueueInv, TypeOK, Full
  <2>9. References'
    BY SMTT(30), <1>1, <1>2, <2>2, <2>8 DEF QueueInv, References
  <2>10. SuspensionsConserved'
    <3>1. SideTotal' = side - HALF
      BY SMTT(30), <1>1, <1>3, <2>2, QueueConstants DEF SideTotal, QueueInv, TypeOK
    <3> QED
      BY SMTT(30), <1>1, <1>3, <2>2, <2>3, <2>4, <3>1, CountTypes, QueueConstants
      DEF QueueInv, TypeOK, SuspensionsConserved, Suspensions, Full
  <2> QED
    BY <1>1, <2>5, <2>6, <2>7, <2>9, <2>10 DEF QueueInv, NoSpuriousCrash
<1> QED
  BY <1>4, <1>5

(* The side count itself.                                                    *)
LEMMA SideKept ==
  ASSUME QueueInv, LockInv, LockInv', NEW t \in Threads, SideAdd(t) \/ SideSub(t)
  PROVE  QueueInv'
<1>1. /\ pc[t] \in {"side_add", "side_sub"} /\ lpc[t] = "held"
      /\ UNCHANGED <<lock_vars, dq_state, refs, finalized, kind, free, released>>
  BY DEF SideAdd, SideSub, Holding
<1>2. pc \in [Threads -> PCs] /\ released = 0
  BY <1>1 DEF QueueInv, TypeOK, Places
<1>3. CASE SideAdd(t) /\ side + HALF > UINT32_MAX
  <2>1. crash' = "too_many" /\ UNCHANGED <<side, pc>>
    BY <1>3 DEF SideAdd
  <2>2. UNCHANGED <<Undoing, Adding, Subtracting, Finalizing, Retaining, Consuming>>
    BY <2>1, CountsStay
  <2>3. TypeOK' /\ Places'
    BY <1>1, <2>1 DEF QueueInv, TypeOK, LockInv, Places, lock_vars
  <2>4. Transfer' /\ Phase' /\ References' /\ SuspensionsConserved'
    BY <1>1, <2>1, <2>2
    DEF QueueInv, Transfer, Phase, References, SuspensionsConserved, Suspensions, SideTotal
  <2> QED
    BY <2>1, <2>3, <2>4 DEF QueueInv, NoSpuriousCrash
<1>4. CASE SideAdd(t) /\ ~(side + HALF > UINT32_MAX)
  <2>1. /\ pc[t] = "side_add" /\ Goto(t, "suspend_unlock") /\ side' = side + HALF
        /\ UNCHANGED crash
    BY <1>4 DEF SideAdd, Holding
  <2>2. Adding >= 1
    BY <2>1, CountBounds DEF Adding
  <2>3. /\ UNCHANGED <<Undoing, Subtracting, Finalizing, Retaining, Consuming>>
        /\ Adding = 1 /\ Adding' = 0 /\ Subtracting = 0
    BY SMTT(30), <1>2, <2>1, <2>2, Counts, CountTypes DEF Is, Undoers, QueueInv, Transfer
  <2>4. TypeOK'
    BY SMTT(30), <1>1, <1>4, <2>1, QueueConstants DEF QueueInv, TypeOK, LockInv, Goto, PCs
  <2>5. Places'
    BY SMTT(30), <1>1, <1>2, <2>1, PlacesKept DEF lock_vars, UnderLock, PCs
  <2>6. Transfer'
    BY SMTT(30), <2>1, <2>3, Multiples DEF QueueInv, TypeOK, Transfer
  <2>7. SideTotal' = SideTotal
    BY SMTT(30), <2>1, <2>3, QueueConstants DEF SideTotal, QueueInv, TypeOK
  <2>8. Phase' /\ References' /\ SuspensionsConserved'
    BY <1>1, <2>3, <2>7 DEF QueueInv, Phase, References, SuspensionsConserved, Suspensions
  <2> QED
    BY <2>1, <2>4, <2>5, <2>6, <2>8 DEF QueueInv, NoSpuriousCrash
<1>5. CASE SideSub(t)
  <2>1. /\ pc[t] = "side_sub" /\ Goto(t, "resume_unlock") /\ side' = side - HALF
        /\ UNCHANGED crash
    BY <1>5 DEF SideSub, Holding
  <2>2. Subtracting >= 1
    BY <2>1, CountBounds DEF Subtracting
  <2>3. /\ UNCHANGED <<Undoing, Adding, Finalizing, Retaining, Consuming>>
        /\ Adding = 0 /\ Subtracting' = 0 /\ Subtracting = 1 /\ side >= HALF
    BY SMTT(30), <1>2, <2>1, <2>2, Counts, CountTypes DEF Is, Undoers, QueueInv, Transfer
  <2>4. TypeOK'
    BY SMTT(30), <1>1, <2>1, <2>3, QueueConstants DEF QueueInv, TypeOK, LockInv, Goto, PCs
  <2>5. Places'
    BY SMTT(30), <1>1, <1>2, <2>1, PlacesKept DEF lock_vars, UnderLock, PCs
  <2>6. Transfer'
    BY SMTT(30), <2>1, <2>3, Multiples DEF QueueInv, TypeOK, Transfer
  <2>7. SideTotal' = SideTotal
    BY SMTT(30), <2>1, <2>3, QueueConstants DEF SideTotal, QueueInv, TypeOK
  <2>8. Phase' /\ References' /\ SuspensionsConserved'
    BY <1>1, <2>3, <2>7 DEF QueueInv, Phase, References, SuspensionsConserved, Suspensions
  <2> QED
    BY <2>1, <2>4, <2>5, <2>6, <2>8 DEF QueueInv, NoSpuriousCrash
<1> QED
  BY <1>3, <1>4, <1>5

-----------------------------------------------------------------------------
(* The value of the side total where the ssc bit is clear.                   *)
LEMMA NoSideTotal ==
  ASSUME QueueInv
  PROVE  /\ SideTotal \in Nat
         /\ dq_state.ssc = 0 => SideTotal = 0
<1>1. SideTotal \in Nat
  BY SMTT(30), QueueConstants DEF QueueInv, Transfer, SideTotal, TypeOK
<1> QED
  BY SMTT(30), <1>1 DEF QueueInv, SuspensionsConserved, TypeOK

(* The step that starts the activation, by dispatch_activate or the last     *)
(* resume: no other call answers for a suspension.                           *)
LEMMA StartFinalizeKept ==
  ASSUME QueueInv, LockInv, LockInv', NEW t \in Threads, Goto(t, "finalize"),
         dq_state' = Bits(1, 0, 0, 0), dq_state.na = 1, dq_state.ssc = 0, kind # "active",
         \/ pc[t] = "activate" /\ dq_state = Bits(0, 0, 1, 1) /\ kind = "inactive"
         \/ pc[t] = "resume" /\ dq_state = Bits(1, 0, 0, 1)
         \/ pc[t] = "resume" /\ dq_state = Bits(0, 0, 1, 1) /\ kind = "source",
         UNCHANGED <<lock_vars, side, refs, finalized, kind, free, released, crash>>
  PROVE  QueueInv'
<1>1. pc \in [Threads -> PCs] /\ released = 0
  BY DEF QueueInv, TypeOK, Places
<1>2. /\ UNCHANGED <<Adding, Subtracting, Retaining, Consuming>>
      /\ Undoing' = Undoing + Is(pc[t], {"activate"}) /\ Finalizing' = Finalizing + 1
  BY SMTT(30), <1>1, Counts, CountTypes DEF Is, Undoers
<1>3. SideTotal' = SideTotal /\ SideTotal = 0
  BY <1>2, NoSideTotal DEF SideTotal
<1>4. Suspensions = IF pc[t] = "activate" THEN 0 ELSE 1
  BY SMTT(30), <1>3 DEF QueueInv, SuspensionsConserved, Bits
<1>5. ASSUME NEW u \in Threads, pc[u] = "setting" PROVE FALSE
  <2>1. Undoing >= 1
    BY SMTT(30), <1>5, CountBounds DEF Undoing, Undoers
  <2>2. pc[t] = "resume" => Undoing >= 2
    <3> SUFFICES ASSUME pc[t] = "resume" PROVE Undoing >= 2
      OBVIOUS
    <3>1. t # u /\ pc[t] \in Undoers /\ pc[u] \in Undoers
      BY <1>5 DEF Undoers
    <3> QED
      BY <3>1, CountBounds DEF Undoing
  <2> QED
    BY SMTT(30), <1>4, <2>1, <2>2, CountTypes DEF Suspensions, QueueInv, TypeOK
<1>6. TypeOK'
  BY SMTT(30), QueueConstants DEF QueueInv, TypeOK, LockInv, Goto, PCs, Bits, Full
<1>7. Places'
  BY SMTT(30), <1>1, <1>5, PlacesKept DEF lock_vars, UnderLock, PCs
<1>8. Transfer'
  BY <1>2 DEF QueueInv, Transfer
<1>9. Phase'
  BY SMTT(30), <1>2, CountTypes DEF QueueInv, Phase, TypeOK, Bits
<1>10. References'
  BY SMTT(30), <1>1, <1>2 DEF QueueInv, References, _dq_state_is_suspended, Bits
<1>11. SuspensionsConserved'
  <2>1. Suspensions' = 1
    BY SMTT(30), <1>2, <1>4, CountTypes DEF Suspensions, Is, QueueInv, TypeOK
  <2> QED
    BY SMTT(30), <1>3, <2>1 DEF SuspensionsConserved, Bits
<1> QED
  BY <1>6, <1>7, <1>8, <1>9, <1>10, <1>11 DEF QueueInv, NoSpuriousCrash

LEMMA ActivateKept ==
  ASSUME QueueInv, LockInv, LockInv', NEW t \in Threads, ResumeActivate(t)
  PROVE  QueueInv'
<1>1. /\ pc[t] = "activate" /\ crash = "no"
      /\ UNCHANGED <<lock_vars, side, refs, finalized, kind, free, released>>
  BY DEF ResumeActivate, At
<1>2. pc \in [Threads -> PCs] /\ released = 0 /\ kind = "inactive"
  BY <1>1 DEF QueueInv, TypeOK, Places
<1>3. CASE dq_state = Bits(0, 0, 1, 1)
  <2>1. dq_state' = Bits(1, 0, 0, 0) /\ Goto(t, "finalize") /\ UNCHANGED crash
    BY <1>3 DEF ResumeActivate
  <2>2. dq_state.na = 1 /\ dq_state.ssc = 0
    BY <1>3 DEF Bits
  <2> QED
    BY <1>1, <1>2, <1>3, <2>1, <2>2, StartFinalizeKept
<1>4. CASE dq_state # Bits(0, 0, 1, 1)
  <2>1. /\ Goto(t, "idle") /\ crash' = "no"
        /\ dq_state' = [dq_state EXCEPT !.i = 0]
    <3>1. CASE dq_state.i = 1
      <4>1. dq_state' = [dq_state EXCEPT !.i = 0] /\ Goto(t, "idle")
        BY <1>4, <3>1 DEF ResumeActivate
      <4>2. dq_state'.na = 1
        BY <3>1, <4>1 DEF QueueInv, Phase, TypeOK
      <4>3. _dq_state_is_suspended(dq_state')
        BY SMTT(30), <4>2 DEF _dq_state_is_suspended, Bits
      <4> QED
        BY <1>4, <3>1, <4>1, <4>3 DEF ResumeActivate
    <3>2. CASE dq_state.i # 1
      <4>1. Goto(t, "idle") /\ UNCHANGED <<dq_state, crash>>
        BY <1>4, <3>2 DEF ResumeActivate
      <4>2. [dq_state EXCEPT !.i = 0] = dq_state
        BY <3>2 DEF QueueInv, TypeOK
      <4> QED
        BY <1>1, <4>1, <4>2
    <3> QED
      BY <3>1, <3>2
  <2>2. UNCHANGED <<Undoing, Adding, Subtracting, Finalizing, Retaining, Consuming>>
    BY SMTT(30), <1>1, <1>2, <2>1, Counts, CountTypes DEF Is, Undoers
  <2>3. /\ dq_state'.sc = dq_state.sc /\ dq_state'.ssc = dq_state.ssc
        /\ dq_state'.na = dq_state.na /\ dq_state'.i = 0
    BY <2>1 DEF QueueInv, TypeOK
  <2>4. TypeOK'
    BY <1>1, <2>1 DEF QueueInv, TypeOK, LockInv, Goto, PCs
  <2>5. Places'
    BY <1>1, <1>2, <2>1, PlacesKept DEF lock_vars, UnderLock, PCs
  <2>6. Transfer' /\ Phase' /\ SuspensionsConserved'
    BY SMTT(30), <1>1, <1>2, <2>2, <2>3
    DEF QueueInv, Transfer, Phase, SuspensionsConserved, Suspensions, SideTotal
  <2>7. _dq_state_is_suspended(dq_state)' <=> _dq_state_is_suspended(dq_state)
    BY SMTT(30), <2>1, <2>3 DEF _dq_state_is_suspended, Bits, QueueInv, TypeOK, Phase
  <2>8. References'
    BY SMTT(30), <1>1, <1>2, <2>2, <2>7 DEF QueueInv, References
  <2> QED
    BY <2>1, <2>4, <2>5, <2>6, <2>8 DEF QueueInv, NoSpuriousCrash
<1> QED
  BY <1>3, <1>4

LEMMA ResumeKept ==
  ASSUME QueueInv, LockInv, LockInv', NEW t \in Threads, _dispatch_queue_resume(t)
  PROVE  QueueInv'
<1>1. /\ pc[t] = "resume" /\ crash = "no"
      /\ UNCHANGED <<lock_vars, side, refs, finalized, kind, free, released>>
  BY DEF _dispatch_queue_resume, At
<1>2. pc \in [Threads -> PCs] /\ released = 0 /\ Undoing >= 1
  BY SMTT(30), <1>1, CountBounds DEF QueueInv, TypeOK, Places, Undoing, Undoers
<1>3. CASE dq_state = Bits(1, 0, 0, 1) \/ (kind = "source" /\ dq_state = Bits(0, 0, 1, 1))
  <2>1. dq_state' = Bits(1, 0, 0, 0) /\ Goto(t, "finalize") /\ UNCHANGED crash
    BY <1>3 DEF _dispatch_queue_resume
  <2>2. dq_state.na = 1 /\ dq_state.ssc = 0 /\ kind # "active"
    BY SMTT(30), <1>3 DEF Bits, QueueInv, Phase
  <2> QED
    BY <1>1, <1>2, <1>3, <2>1, <2>2, StartFinalizeKept
<1>4. ~(dq_state.sc = 0 /\ dq_state.ssc = 0) \/ (kind = "source" /\ dq_state = Bits(0, 0, 1, 1))
  <2> SUFFICES ASSUME dq_state.sc = 0, dq_state.ssc = 0
               PROVE  kind = "source" /\ dq_state = Bits(0, 0, 1, 1)
    OBVIOUS
  <2>1. SideTotal = 0
    BY NoSideTotal
  <2>2. kind = "source" /\ dq_state.i = 1
    BY SMTT(30), <1>2, <2>1, CountTypes DEF QueueInv, SuspensionsConserved, Suspensions, TypeOK
  <2> QED
    BY <2>2 DEF QueueInv, Phase, TypeOK, Bits
<1> DEFINE Other ==
             ~(dq_state = Bits(1, 0, 0, 1) \/ (kind = "source" /\ dq_state = Bits(0, 0, 1, 1)))
<1>5. CASE Other /\ dq_state.sc = 0
  <2>1. Goto(t, "resume_slow") /\ UNCHANGED <<dq_state, crash>>
    BY <1>4, <1>5 DEF _dispatch_queue_resume
  <2>2. UNCHANGED <<Undoing, Adding, Subtracting, Finalizing, Retaining, Consuming>>
    BY SMTT(30), <1>1, <1>2, <2>1, Counts, CountTypes DEF Is, Undoers
  <2>3. TypeOK'
    BY <1>1, <2>1 DEF QueueInv, TypeOK, LockInv, Goto, PCs
  <2>4. Places'
    BY SMTT(30), <1>1, <1>2, <2>1, PlacesKept DEF lock_vars, UnderLock, PCs
  <2>5. Transfer' /\ Phase' /\ References' /\ SuspensionsConserved'
    BY <1>1, <2>1, <2>2
    DEF QueueInv, Transfer, Phase, References, SuspensionsConserved, Suspensions, SideTotal
  <2> QED
    BY <2>1, <2>3, <2>4, <2>5 DEF QueueInv, NoSpuriousCrash
<1>6. CASE Other /\ dq_state.sc # 0
  <2> DEFINE q == IF _dq_state_is_suspended(dq_state') THEN "idle" ELSE "consume_2"
  <2>1. dq_state' = [dq_state EXCEPT !.sc = @ - 1] /\ Goto(t, q) /\ UNCHANGED crash
    BY <1>6 DEF _dispatch_queue_resume
  <2>2. /\ dq_state'.sc = dq_state.sc - 1 /\ dq_state'.ssc = dq_state.ssc
        /\ dq_state'.na = dq_state.na /\ dq_state'.i = dq_state.i
    BY <2>1 DEF QueueInv, TypeOK
  <2>3. /\ UNCHANGED <<Adding, Subtracting, Finalizing, Retaining>>
        /\ Undoing' = Undoing - 1
        /\ Consuming' = Consuming + (IF _dq_state_is_suspended(dq_state') THEN 0 ELSE 1)
    <3>1. CASE _dq_state_is_suspended(dq_state')
      BY SMTT(30), <1>1, <1>2, <2>1, <3>1, Counts, CountTypes DEF Is, Undoers
    <3>2. CASE ~_dq_state_is_suspended(dq_state')
      <4>1. Goto(t, "consume_2")
        BY <2>1, <3>2
      <4> QED
        BY SMTT(30), <1>1, <1>2, <3>2, <4>1, Counts, CountTypes DEF Is, Undoers
    <3> QED
      BY <3>1, <3>2
  <2>4. TypeOK'
    BY SMTT(30), <1>1, <1>6, <2>1, QueueConstants
       DEF QueueInv, TypeOK, LockInv, Goto, PCs, Full
  <2>5. Places'
    BY <1>1, <1>2, <2>1, PlacesKept DEF lock_vars, UnderLock, PCs
  <2>6. Transfer' /\ Phase'
    BY <1>1, <2>2, <2>3 DEF QueueInv, Transfer, Phase
  <2>7. References'
    <3>1. _dq_state_is_suspended(dq_state)
      BY SMTT(30), <1>6 DEF _dq_state_is_suspended, Bits
    <3> QED
      BY SMTT(30), <1>1, <1>2, <2>3, <3>1, CountTypes DEF QueueInv, References, TypeOK
  <2>8. SuspensionsConserved'
    <3>1. SideTotal' = SideTotal
      BY <1>1, <2>3 DEF SideTotal
    <3>2. Suspensions' = Suspensions - 1
      BY SMTT(30), <1>1, <2>3, CountTypes DEF Suspensions, QueueInv, TypeOK
    <3>3. dq_state.sc \in Int /\ dq_state.i \in Int /\ Suspensions \in Int /\ SideTotal \in Int
      BY SMTT(30), NoSideTotal, CountTypes, QueueConstants
         DEF Suspensions, QueueInv, TypeOK, Full
    <3> QED
      BY SMTT(30), <1>1, <2>2, <3>1, <3>2, <3>3 DEF QueueInv, SuspensionsConserved
  <2> QED
    BY <1>1, <2>1, <2>4, <2>5, <2>6, <2>7, <2>8 DEF QueueInv, NoSpuriousCrash
<1> QED
  BY <1>3, <1>5, <1>6

-----------------------------------------------------------------------------
(* Steps of the side lock.  A thread whose place is under the lock loses it  *)
(* only by its own unlock.                                                   *)
LEMMA StillHeld ==
  ASSUME LockInv, NEW t \in Threads, LockStep(t) \/ WaitInterrupted(t),
         NEW u \in Threads, lpc[u] = "held"
  PROVE  lpc'[u] = "held"
  BY DEF LockInv, LockTypeOK, LockStep, WaitInterrupted, _dispatch_unfair_lock_lock_slow,
         __ulock_wait, WaitReturns, _dispatch_unfair_lock_unlock_slow, LockGoto, Sleepers

LEMMA InLockKept ==
  ASSUME QueueInv, LockInv, LockInv', NEW t \in Threads, InLock(t) \/ Interrupt(t) \/ SideLock(t)
  PROVE  QueueInv'
<1>1. UNCHANGED <<queue_vars, pc, kind, free, released, crash>>
  BY DEF InLock, Interrupt, SideLock
<1>2. UNCHANGED <<Undoing, Adding, Subtracting, Finalizing, Retaining, Consuming>>
  BY <1>1, CountsStay
<1>3. TypeOK'
  BY <1>1 DEF QueueInv, TypeOK, LockInv, queue_vars
<1>4. ASSUME NEW u \in Threads, pc[u] \in UnderLock PROVE lpc'[u] = "held"
  <2>1. lpc[u] = "held"
    BY <1>4 DEF QueueInv, Places
  <2>2. CASE InLock(t) \/ Interrupt(t)
    BY <2>1, <2>2, StillHeld DEF InLock, Interrupt
  <2>3. CASE SideLock(t)
    <3>1. lpc[t] = "out" /\ \E there : LockGoto(t, there)
      BY <2>3 DEF SideLock, _dispatch_unfair_lock_lock, At
    <3> QED
      BY <2>1, <3>1 DEF LockGoto, LockInv, LockTypeOK
  <2> QED
    BY <2>2, <2>3
<1>5. Places'
  <2>1. Places /\ pc' = pc /\ kind' = kind /\ released' = released
    BY <1>1 DEF QueueInv
  <2> QED
    BY <2>1, <1>4 DEF Places
<1>6. Transfer' /\ Phase' /\ References' /\ SuspensionsConserved'
  BY <1>1, <1>2 DEF QueueInv, Transfer, Phase, References, SuspensionsConserved, Suspensions,
                    SideTotal, queue_vars
<1> QED
  BY <1>1, <1>3, <1>5, <1>6 DEF QueueInv, NoSpuriousCrash

(* A thread enters or leaves the places under the lock.                      *)
LEMMA UnlockKept ==
  ASSUME QueueInv, LockInv, LockInv', NEW t \in Threads, SideUnlock(t)
  PROVE  QueueInv'
<1> DEFINE q == CASE pc[t] = "suspend_retry" -> "suspend"
                  [] pc[t] = "resume_retry" -> "resume"
                  [] OTHER -> "idle"
<1>1. /\ pc[t] \in {"suspend_unlock", "suspend_retry", "resume_unlock", "resume_retry"}
      /\ Goto(t, q) /\ free' = free + Is(pc[t], {"suspend_unlock"})
      /\ UNCHANGED <<queue_vars, kind, released, crash>> /\ \E there : LockGoto(t, there)
  BY SMTT(30)
     DEF SideUnlock, _dispatch_unfair_lock_unlock_had_failed_trylock, Is, QueueInv, TypeOK
<1>2. /\ q \in {"suspend", "resume", "idle"} /\ (q = "resume" <=> pc[t] = "resume_retry")
      /\ pc \in [Threads -> PCs] /\ released = 0
  BY <1>1 DEF QueueInv, TypeOK, Places
<1> HIDE DEF q
<1>3. /\ UNCHANGED <<Adding, Subtracting, Finalizing, Retaining, Consuming>>
      /\ Undoing' = Undoing - Is(pc[t], {"suspend_unlock"})
  BY SMTT(30), <1>1, <1>2, Counts, CountTypes DEF Is, Undoers
<1>4. TypeOK'
  <2>1. TypeOK /\ LockTypeOK'
    BY DEF QueueInv, LockInv
  <2>2. pc' \in [Threads -> PCs]
    BY <1>1, <1>2 DEF Goto, PCs
  <2>3. free' \in Nat
    BY SMTT(30), <1>1, <2>1 DEF TypeOK, Is
  <2>4. UNCHANGED <<dq_state, side, refs, finalized, kind, released, crash>>
    BY <1>1 DEF queue_vars
  <2> QED
    BY <2>1, <2>2, <2>3, <2>4 DEF TypeOK
<1>5. Places'
  BY <1>1, <1>2 DEF QueueInv, Places, LockInv, LockTypeOK, LockGoto, Goto, UnderLock
<1>6. Transfer' /\ Phase' /\ References'
  BY SMTT(30), <1>1, <1>2, <1>3 DEF QueueInv, Transfer, Phase, References, queue_vars
<1>7. SuspensionsConserved'
  <2>1. SideTotal' = SideTotal /\ Suspensions' = Suspensions
    BY SMTT(30), <1>1, <1>3, CountTypes
       DEF SideTotal, Suspensions, queue_vars, QueueInv, TypeOK, Is
  <2> QED
    BY <1>1, <2>1 DEF QueueInv, SuspensionsConserved, queue_vars
<1> QED
  BY <1>1, <1>4, <1>5, <1>6, <1>7 DEF QueueInv, NoSpuriousCrash

LEMMA OverrideKept ==
  ASSUME QueueInv, LockInv, LockInv', NEW t \in Threads,
         OverrideTrylock(t) \/ OverrideTryunlock(t)
  PROVE  QueueInv'
<1>1. /\ pc[t] \in {"idle", "override"} /\ released = 0
      /\ UNCHANGED <<queue_vars, kind, free, released, crash>>
  BY DEF OverrideTrylock, OverrideTryunlock, At, Holding, QueueInv, Places, TypeOK
<1>2. PICK q \in {"idle", "override"} :
        /\ Goto(t, q) /\ (q = "override" => lpc'[t] = "held")
        /\ \E there : LockGoto(t, there) \/ UNCHANGED lpc
  <2>1. CASE OverrideTrylock(t)
    BY <2>1 DEF OverrideTrylock, _dispatch_unfair_lock_trylock, LockGoto, LockInv, LockTypeOK
  <2>2. CASE OverrideTryunlock(t)
    BY <2>2 DEF OverrideTryunlock, _dispatch_unfair_lock_tryunlock, LockGoto, LockInv,
                LockTypeOK, Holding
  <2> QED
    BY <2>1, <2>2
<1>3. UNCHANGED <<Undoing, Adding, Subtracting, Finalizing, Retaining, Consuming>>
  <2>1. pc \in [Threads -> PCs]
    BY DEF QueueInv, TypeOK
  <2> QED
    BY SMTT(30), <1>1, <1>2, <2>1, Counts, CountTypes DEF Is, Undoers
<1>4. TypeOK'
  BY <1>1, <1>2 DEF QueueInv, TypeOK, LockInv, Goto, PCs, queue_vars
<1>5. Places'
  <2>1. /\ pc'[t] = q /\ (q = "override" => lpc'[t] = "held")
        /\ \A u \in Threads \ {t} : pc'[u] = pc[u] /\ lpc'[u] = lpc[u]
    BY <1>2 DEF QueueInv, TypeOK, LockInv, LockTypeOK, LockGoto, Goto
  <2>2. \A u \in Threads : pc'[u] \in UnderLock => lpc'[u] = "held"
    BY <2>1 DEF QueueInv, Places, UnderLock
  <2>3. \A u \in Threads : pc'[u] \in {"activate", "finalize", "setting"} => pc[u] = pc'[u]
    BY <2>1
  <2> QED
    BY SMTT(30), <1>1, <2>2, <2>3 DEF QueueInv, Places
<1>6. Transfer' /\ Phase' /\ References' /\ SuspensionsConserved'
  BY <1>1, <1>3 DEF QueueInv, Transfer, Phase, References, SuspensionsConserved, Suspensions,
                    SideTotal, queue_vars
<1> QED
  BY <1>1, <1>4, <1>5, <1>6 DEF QueueInv, NoSpuriousCrash

-----------------------------------------------------------------------------
(* The queue uses its side lock as the lock's specification allows.          *)
LEMMA LockSteps == [Next]_vars => [LockNext]_lock_vars
<1> SUFFICES ASSUME [Next]_vars PROVE [LockNext]_lock_vars
  OBVIOUS
<1>1. CASE UNCHANGED vars
  BY <1>1 DEF vars
<1>2. ASSUME NEW t \in Threads, Call(t) PROVE [LockNext]_lock_vars
  BY <1>2 DEF Call, dispatch_suspend, dispatch_resume, dispatch_activate, Calling,
     dispatch_release, _dispatch_queue_try_inactive_suspend, OverrideTrylock, LockNext
<1>3. ASSUME NEW t \in Threads, Step(t) PROVE [LockNext]_lock_vars
  BY <1>3 DEF Step, SetterResumes, _dispatch_queue_suspend, SuspendRetain, SideLock,
     _dispatch_queue_suspend_slow, SideAdd, _dispatch_queue_resume_slow, SideSub, SideUnlock,
     ResumeActivate, _dispatch_queue_resume, _dispatch_queue_resume_finalize_activation,
     ResumeConsume, OverrideTryunlock, InLock, LockNext
<1>4. ASSUME NEW t \in Threads, Interrupt(t) PROVE [LockNext]_lock_vars
  BY <1>4 DEF Interrupt, LockNext
<1> QED
  BY <1>1, <1>2, <1>3, <1>4 DEF Next

LEMMA QueueInvInit == Init => QueueInv
<1> SUFFICES ASSUME Init PROVE QueueInv
  OBVIOUS
<1>1. \A t \in Threads : pc[t] = "idle"
  BY DEF Init
<1>2. /\ Undoing = 0 /\ Adding = 0 /\ Subtracting = 0 /\ Finalizing = 0 /\ Retaining = 0
      /\ Consuming = 0
  <2>1. \A t \in Threads : pc[t] \notin Undoers
    BY <1>1 DEF Undoers
  <2>2. \A t \in Threads : pc[t] \notin {"side_add"} /\ pc[t] \notin {"side_sub"}
    BY <1>1
  <2>3. \A t \in Threads : /\ pc[t] \notin {"finalize"} /\ pc[t] \notin {"retain_2"}
                           /\ pc[t] \notin {"consume_2"}
    BY <1>1
  <2> QED
    BY <2>1, <2>2, <2>3, CountBounds
    DEF Undoing, Adding, Subtracting, Finalizing, Retaining, Consuming
<1>3. TypeOK
  BY SMTT(30), LockInvInit, QueueConstants DEF Init, TypeOK, LockInv, Bits, PCs, Full
<1>4. Places
  BY <1>1 DEF Init, Places, UnderLock
<1>5. Transfer
  BY SMTT(30), <1>2, QueueConstants DEF Init, Transfer, Multiple
<1>6. Phase
  BY SMTT(30), <1>2 DEF Init, Phase, Bits
<1>7. References
  BY SMTT(30), <1>2 DEF Init, References, Bits, _dq_state_is_suspended
<1>8. SuspensionsConserved
  <2>1. SideTotal = 0
    BY SMTT(30), <1>2, QueueConstants DEF Init, SideTotal
  <2> QED
    BY SMTT(30), <1>2, <2>1 DEF Init, SuspensionsConserved, Suspensions, Bits
<1> QED
  BY <1>3, <1>4, <1>5, <1>6, <1>7, <1>8 DEF Init, QueueInv, NoSpuriousCrash

LEMMA QueueInvNext ==
  ASSUME SetterLimit < Full, QueueInv, LockInv, LockInv', [Next]_vars PROVE QueueInv'
<1>1. CASE UNCHANGED vars
  <2>1. UNCHANGED <<Undoing, Adding, Subtracting, Finalizing, Retaining, Consuming>>
    BY <1>1, CountsStay DEF vars
  <2>2. TypeOK' /\ Places'
    BY <1>1 DEF QueueInv, TypeOK, Places, vars, queue_vars, lock_vars, LockInv
  <2>3. Transfer' /\ Phase' /\ References' /\ NoSpuriousCrash'
    BY <1>1, <2>1 DEF QueueInv, Transfer, Phase, References, NoSpuriousCrash, vars, queue_vars
  <2>4. SuspensionsConserved'
    BY <1>1, <2>1 DEF QueueInv, SuspensionsConserved, SideTotal, Suspensions, vars, queue_vars
  <2> QED
    BY <2>2, <2>3, <2>4 DEF QueueInv
<1>2. ASSUME NEW t \in Threads, Call(t) PROVE QueueInv'
  <2>1. CASE dispatch_suspend(t) \/ dispatch_resume(t) \/ dispatch_activate(t)
    BY <2>1, CallKept DEF dispatch_suspend, dispatch_resume, dispatch_activate, PCs
  <2> QED
    BY <1>2, <2>1, ReleaseKept, SetterKept, OverrideKept DEF Call
<1>3. ASSUME NEW t \in Threads, Step(t) \/ Interrupt(t) PROVE QueueInv'
  BY <1>3, ToResumeKept, SuspendKept, ReferencesKept, SuspendSlowKept, ResumeSlowKept,
     SideKept,
     ActivateKept, ResumeKept, InLockKept, UnlockKept, OverrideKept DEF Step
<1> QED
  BY <1>1, <1>2, <1>3 DEF Next

LEMMA QueueInvHolds == SetterLimit < Full => (Spec => [](QueueInv /\ LockInv))
<1> SUFFICES ASSUME SetterLimit < Full PROVE Spec => [](QueueInv /\ LockInv)
  OBVIOUS
<1>1. Init => QueueInv /\ LockInv
  BY QueueInvInit, LockInvInit DEF Init
<1>2. QueueInv /\ LockInv /\ [Next]_vars => (QueueInv /\ LockInv)'
  BY QueueInvNext, LockSteps, LockInvNext
<1> QED
  BY <1>1, <1>2, PTL DEF Spec

-----------------------------------------------------------------------------
(* No thread sleeps for ever on the side lock for want of a wake: the queue  *)
(* code only takes the steps of UnfairLock, with any number of threads.      *)
THEOREM SideLockWakes == Spec => []NoForgottenWaiter
<1>1. Spec => LockSpec
  BY LockSteps, PTL DEF Spec, LockSpec, Init
<1> QED
  BY <1>1, WaitersRemembered, PTL

(* The fields of dq_state, the side count and the references keep within     *)
(* their widths, though suspend and resume only test for carry and borrow.   *)
THEOREM QueueTypeCorrect == SetterLimit < Full => (Spec => []TypeOK)
<1>1. QueueInv => TypeOK
  BY DEF QueueInv
<1> QED
  BY <1>1, QueueInvHolds, PTL

(* No suspension is lost or counted twice between sc and the side count.     *)
THEOREM NoSuspensionLost == SetterLimit < Full => (Spec => []SuspensionsConserved)
<1>1. QueueInv => SuspensionsConserved
  BY DEF QueueInv
<1> QED
  BY <1>1, QueueInvHolds, PTL

(* Clients that balance their calls meet no over-resume, no invalid state    *)
(* and no release of a suspended object.                                     *)
THEOREM BalancedClientsSafe == SetterLimit < Full => (Spec => []NoSpuriousCrash)
<1>1. QueueInv => NoSpuriousCrash
  BY DEF QueueInv
<1> QED
  BY <1>1, QueueInvHolds, PTL

(* The activation finalizer runs once, before the queue can run and never    *)
(* beside a setter.                                                          *)
THEOREM ActivationOnce == SetterLimit < Full => (Spec => []ActivatedOnce)
<1>1. QueueInv => ActivatedOnce
  <2> SUFFICES ASSUME QueueInv PROVE ActivatedOnce
    OBVIOUS
  <2>1. finalized + Finalizing <= 1
    BY SMTT(30), CountTypes DEF QueueInv, Phase, TypeOK
  <2>2. \A t, u \in Threads : ~(pc[t] = "finalize" /\ pc[u] = "setting")
    BY DEF QueueInv, Places
  <2>3. ASSUME kind # "active", ~_dq_state_is_suspended(dq_state) PROVE finalized = 1
    <3>1. Finalizing = 0 /\ dq_state.na = 0
      BY SMTT(30), <2>3, NotSuspended DEF _dq_state_is_suspended, Bits
    <3> QED
      BY SMTT(30), <2>3, <3>1 DEF QueueInv, Phase, TypeOK
  <2> QED
    BY <2>1, <2>2, <2>3 DEF ActivatedOnce
<1> QED
  BY <1>1, QueueInvHolds, PTL

(* The two references of a suspended queue keep it alive to the end of the   *)
(* last call on it.                                                          *)
THEOREM QueueAlive == SetterLimit < Full => (Spec => []QueueOutlivesCalls)
<1>1. QueueInv => QueueOutlivesCalls
  <2> SUFFICES ASSUME QueueInv PROVE QueueOutlivesCalls
    OBVIOUS
  <2>1. refs = (1 - released) + (IF _dq_state_is_suspended(dq_state) THEN 2 ELSE 0)
                 - 2 * Retaining + 2 * Consuming
    BY DEF QueueInv, References
  <2>2. ASSUME refs = 0, NEW t \in Threads PROVE pc[t] = "idle"
    <3>1. released = 1
      BY SMTT(30), <2>1, <2>2, CountTypes DEF QueueInv, TypeOK
    <3>2. ~_dq_state_is_suspended(dq_state) /\ pc[t] \in {"idle", "consume_2"}
      BY <3>1 DEF QueueInv, References, Places, _dq_state_is_suspended
    <3>3. Consuming = 0
      BY SMTT(30), <2>1, <2>2, <3>1, <3>2, NotSuspended, CountTypes
    <3>4. pc[t] = "consume_2" => Consuming >= 1
      BY CountBounds DEF Consuming
    <3> QED
      BY SMTT(30), <3>2, <3>3, <3>4
  <2> QED
    BY <2>1, <2>2 DEF QueueOutlivesCalls
<1> QED
  BY <1>1, QueueInvHolds, PTL
=============================================================================
