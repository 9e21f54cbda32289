---------------------------- MODULE QueueSuspend ----------------------------
(***************************************************************************)
(* dispatch_suspend, dispatch_resume and dispatch_activate on a queue or a *)
(* source (libdispatch src/queue.c, inline_internal.h): the suspension     *)
(* fields of dq_state, the side count that takes what does not fit, the    *)
(* activation that runs its finalizer once, and the two references a       *)
(* suspended queue holds.  The side count is under dq_sidelock, which is   *)
(* an UnfairLock.  The fields of dq_state below na (barrier, width, drain  *)
(* lock) are left out: no carry or borrow crosses them.                    *)
(***************************************************************************)
EXTENDS UnfairLock, Integers

CONSTANTS
  HALF,          \* DISPATCH_QUEUE_SUSPEND_HALF: sc holds 2 * HALF - 1
  UINT32_MAX,    \* the largest dq_side_suspend_cnt
  MaxSuspends,   \* bound: suspensions at a time
  SetterLimit    \* bound: the largest sc at which a setter is called

ASSUME QueueConstants ==
  /\ HALF \in Nat \ {0, 1} /\ UINT32_MAX \in Nat
  /\ MaxSuspends \in Nat /\ SetterLimit \in Nat

VARIABLES
  dq_state,      \* sc, ssc (HAS_SIDE_SUSPEND_CNT), i (INACTIVE), na (NEEDS_ACTIVATION)
  side,          \* dq_side_suspend_cnt
  refs,          \* do_ref_cnt, one of them for all external references
  pc,            \* where each thread is in a call on the queue
  kind,          \* "active" or "inactive" at creation, or a legacy "source"
  finalized,     \* how often the activation finalizer has run
  free,          \* history: suspensions nobody has begun to resume
  released,      \* 1 once the last external reference is gone
  crash          \* the DISPATCH_CLIENT_CRASH that ended the process

queue_vars == <<dq_state, side, refs, finalized>>
vars == <<lock_vars, queue_vars, pc, kind, free, released, crash>>

Full == 2 * HALF - 1
Bits(sc, ssc, i, na) == [sc |-> sc, ssc |-> ssc, i |-> i, na |-> na]
PCs == {"idle", "suspend", "retain_2", "suspend_slow", "side_add", "resume", "consume_2",
        "resume_slow", "side_sub", "suspend_unlock", "suspend_retry", "resume_unlock",
        "resume_retry", "activate", "finalize", "setting", "override"}

TypeOK ==
  /\ LockTypeOK
  /\ dq_state \in [sc : 0..Full, ssc : {0, 1}, i : {0, 1}, na : {0, 1}]
  /\ side \in 0..UINT32_MAX /\ refs \in Nat /\ pc \in [Threads -> PCs]
  /\ kind \in {"active", "inactive", "source"} /\ finalized \in Nat /\ free \in Nat
  /\ released \in {0, 1}
  /\ crash \in {"no", "over_resume", "invalid", "too_many", "suspended"}

\* _dispatch_queue_init.  A legacy source is activated by dispatch_resume, as
\* if it had been created suspended.
Init ==
  /\ LockInit
  /\ kind \in {"active", "inactive", "source"}
  /\ dq_state = IF kind = "active" THEN Bits(0, 0, 0, 0) ELSE Bits(0, 0, 1, 1)
  /\ refs = IF kind = "active" THEN 1 ELSE 3
  /\ side = 0 /\ finalized = 0 /\ released = 0 /\ crash = "no"
  /\ pc = [t \in Threads |-> "idle"]
  /\ free = IF kind = "source" THEN 1 ELSE 0

_dq_state_is_suspended(dq) == dq # Bits(0, 0, 0, 0)

\* A thread outside the lock's code, and one that holds the lock.
At(t, here) == crash = "no" /\ pc[t] = here /\ lpc[t] = "out"
Holding(t, here) == crash = "no" /\ pc[t] = here /\ lpc[t] = "held"
Goto(t, there) == pc' = [pc EXCEPT ![t] = there]

-----------------------------------------------------------------------------
(***************************************************************************)
(* The calls.  Clients balance: a suspension is resumed once, after the    *)
(* call that made it has returned; the queue is released when it is active *)
(* and no call is in progress, save for a resume past its last test.       *)
(***************************************************************************)
Calling(t, there) ==
  /\ At(t, "idle") /\ released = 0
  /\ Goto(t, there)
  /\ UNCHANGED <<lock_vars, queue_vars, kind, released, crash>>

InCall(there) == {t \in Threads : pc[t] \in there}
Suspending == InCall({"suspend", "retain_2", "suspend_slow", "side_add", "suspend_unlock",
                      "suspend_retry"})

dispatch_suspend(t) ==
  /\ dq_state.sc + side + Cardinality(Suspending) < MaxSuspends
  /\ Calling(t, "suspend") /\ UNCHANGED free

dispatch_resume(t) == free > 0 /\ free' = free - 1 /\ Calling(t, "resume")

dispatch_activate(t) == kind = "inactive" /\ Calling(t, "activate") /\ UNCHANGED free

\* _dispatch_queue_xref_dispose and the release of the internal reference.
dispatch_release(t) ==
  /\ At(t, "idle") /\ released = 0 /\ free = 0
  /\ kind = "active" \/ finalized > 0
  /\ \A u \in Threads : At(u, "idle") \/ At(u, "consume_2")
  /\ IF _dq_state_is_suspended(dq_state)
       THEN crash' = "suspended" /\ UNCHANGED <<refs, released>>
       ELSE refs' = refs - 1 /\ released' = 1 /\ UNCHANGED crash
  /\ UNCHANGED <<lock_vars, dq_state, side, finalized, pc, kind, free>>

\* _dispatch_queue_try_inactive_suspend, for dispatch_set_target_queue and the
\* setters of source handlers.  The addition is not checked for overflow; a
\* side count ends the process.
_dispatch_queue_try_inactive_suspend(t) ==
  /\ At(t, "idle") /\ released = 0
  /\ dq_state.i = 1 /\ dq_state.sc <= SetterLimit
  /\ dq_state' = [dq_state EXCEPT !.sc = (@ + 1) % (Full + 1)]
  /\ crash' = IF dq_state.ssc = 1 THEN "too_many" ELSE crash
  /\ Goto(t, "setting")
  /\ UNCHANGED <<lock_vars, side, refs, finalized, kind, free, released>>

\* The setter has changed the queue and calls do_resume.
SetterResumes(t) ==
  /\ At(t, "setting")
  /\ Goto(t, "resume")
  /\ UNCHANGED <<lock_vars, queue_vars, kind, free, released, crash>>

-----------------------------------------------------------------------------
\* Mutants of _dispatch_queue_suspend: no test for overflow; no retain.
mutant_suspend_unchecked(t) ==
  /\ At(t, "suspend")
  /\ dq_state' = [dq_state EXCEPT !.sc = @ + 1]
  /\ Goto(t, IF _dq_state_is_suspended(dq_state) THEN "idle" ELSE "retain_2")
  /\ free' = IF _dq_state_is_suspended(dq_state) THEN free + 1 ELSE free
  /\ UNCHANGED <<lock_vars, side, refs, finalized, kind, released, crash>>
mutant_suspend_without_retain(t) ==
  /\ At(t, "suspend") /\ dq_state.sc < Full
  /\ dq_state' = [dq_state EXCEPT !.sc = @ + 1]
  /\ Goto(t, "idle") /\ free' = free + 1
  /\ UNCHANGED <<lock_vars, side, refs, finalized, kind, released, crash>>

(* _dispatch_queue_suspend: one rmw, then a retain if it was not suspended.  *)
_dispatch_queue_suspend(t) ==
  /\ At(t, "suspend")
  /\ IF dq_state.sc = Full
       THEN Goto(t, "suspend_slow") /\ UNCHANGED <<dq_state, free>>
       ELSE /\ dq_state' = [dq_state EXCEPT !.sc = @ + 1]
            /\ IF _dq_state_is_suspended(dq_state)
                 THEN Goto(t, "idle") /\ free' = free + 1
                 ELSE Goto(t, "retain_2") /\ UNCHANGED free
  /\ UNCHANGED <<lock_vars, side, refs, finalized, kind, released, crash>>

SuspendRetain(t) ==
  /\ At(t, "retain_2")
  /\ refs' = refs + 2 /\ free' = free + 1
  /\ Goto(t, "idle")
  /\ UNCHANGED <<lock_vars, dq_state, side, finalized, kind, released, crash>>

\* _dispatch_queue_suspend_slow and _dispatch_queue_resume_slow: both take the
\* side lock, move HALF suspensions, one less or more, and unlock.
SideLock(t) ==
  /\ At(t, "suspend_slow") \/ At(t, "resume_slow")
  /\ _dispatch_unfair_lock_lock(t)
  /\ UNCHANGED <<queue_vars, pc, kind, free, released, crash>>

\* Mutant: the suspension of the call itself is forgotten.
mutant_transfer_half(t) ==
  /\ Holding(t, "suspend_slow")
  /\ IF dq_state.sc < HALF
       THEN Goto(t, "suspend_retry") /\ UNCHANGED dq_state
       ELSE /\ dq_state' = [dq_state EXCEPT !.sc = @ - HALF, !.ssc = 1]
            /\ Goto(t, "side_add")
  /\ UNCHANGED <<lock_vars, side, refs, finalized, kind, free, released, crash>>

_dispatch_queue_suspend_slow(t) ==
  /\ Holding(t, "suspend_slow")
  /\ IF dq_state.sc < HALF - 1
       THEN Goto(t, "suspend_retry") /\ UNCHANGED dq_state
       ELSE /\ dq_state' = [dq_state EXCEPT !.sc = @ - (HALF - 1),
                                            !.ssc = IF side = 0 THEN 1 ELSE @]
            /\ Goto(t, "side_add")
  /\ UNCHANGED <<lock_vars, side, refs, finalized, kind, free, released, crash>>

SideAdd(t) ==
  /\ Holding(t, "side_add")
  /\ IF side + HALF > UINT32_MAX
       THEN crash' = "too_many" /\ UNCHANGED <<side, pc>>
       ELSE side' = side + HALF /\ Goto(t, "suspend_unlock") /\ UNCHANGED crash
  /\ UNCHANGED <<lock_vars, dq_state, refs, finalized, kind, free, released>>

_dispatch_queue_resume_slow(t) ==
  /\ Holding(t, "resume_slow")
  /\ IF side = 0 \/ dq_state.sc + (HALF - 1) > Full
       THEN Goto(t, "resume_retry") /\ UNCHANGED dq_state
       ELSE /\ dq_state' = [dq_state EXCEPT !.sc = @ + (HALF - 1),
                                            !.ssc = IF side = HALF THEN 0 ELSE @]
            /\ Goto(t, "side_sub")
  /\ UNCHANGED <<lock_vars, side, refs, finalized, kind, free, released, crash>>

SideSub(t) ==
  /\ Holding(t, "side_sub")
  /\ side' = side - HALF
  /\ Goto(t, "resume_unlock")
  /\ UNCHANGED <<lock_vars, dq_state, refs, finalized, kind, free, released, crash>>

\* The unlock, and the return or the call of do_suspend or do_resume.
SideUnlock(t) ==
  /\ crash = "no"
  /\ pc[t] \in {"suspend_unlock", "suspend_retry", "resume_unlock", "resume_retry"}
  /\ _dispatch_unfair_lock_unlock_had_failed_trylock(t)
  /\ Goto(t, CASE pc[t] = "suspend_retry" -> "suspend"
               [] pc[t] = "resume_retry" -> "resume"
               [] OTHER -> "idle")
  /\ free' = IF pc[t] = "suspend_unlock" THEN free + 1 ELSE free
  /\ UNCHANGED <<queue_vars, kind, released, crash>>

-----------------------------------------------------------------------------
\* Mutant: activation does not wait for the suspensions of setters.
mutant_activate_at_once(t) ==
  /\ At(t, "activate")
  /\ IF dq_state.i = 1 /\ dq_state.sc < Full
       THEN /\ dq_state' = [dq_state EXCEPT !.sc = @ + 1, !.i = 0, !.na = 0]
            /\ Goto(t, "finalize")
       ELSE Goto(t, "idle") /\ UNCHANGED dq_state
  /\ UNCHANGED <<lock_vars, side, refs, finalized, kind, free, released, crash>>

\* _dispatch_queue_resume(dq, true).
ResumeActivate(t) ==
  /\ At(t, "activate")
  /\ IF dq_state = Bits(0, 0, 1, 1)
       THEN dq_state' = Bits(1, 0, 0, 0) /\ Goto(t, "finalize") /\ UNCHANGED crash
     ELSE IF dq_state.i = 1
       THEN /\ dq_state' = [dq_state EXCEPT !.i = 0]
            /\ crash' = IF _dq_state_is_suspended(dq_state') THEN "no" ELSE "invalid"
            /\ Goto(t, "idle")
     ELSE Goto(t, "idle") /\ UNCHANGED <<dq_state, crash>>
  /\ UNCHANGED <<lock_vars, side, refs, finalized, kind, free, released>>

\* Mutant: an inline count of zero is taken for an over-resume.
mutant_resume_without_side(t) ==
  /\ At(t, "resume")
  /\ IF dq_state.sc = 0
       THEN crash' = "over_resume" /\ UNCHANGED <<dq_state, pc>>
       ELSE /\ dq_state' = [dq_state EXCEPT !.sc = @ - 1]
            /\ Goto(t, IF _dq_state_is_suspended(dq_state') THEN "idle" ELSE "consume_2")
            /\ UNCHANGED crash
  /\ UNCHANGED <<lock_vars, side, refs, finalized, kind, free, released>>

\* _dispatch_queue_resume(dq, false).
_dispatch_queue_resume(t) ==
  /\ At(t, "resume")
  /\ IF dq_state = Bits(1, 0, 0, 1)
       THEN dq_state' = Bits(1, 0, 0, 0) /\ Goto(t, "finalize") /\ UNCHANGED crash
     ELSE IF kind = "source" /\ dq_state = Bits(0, 0, 1, 1)
       THEN dq_state' = Bits(1, 0, 0, 0) /\ Goto(t, "finalize") /\ UNCHANGED crash
     ELSE IF dq_state.sc = 0 /\ dq_state.ssc = 0
       THEN crash' = "over_resume" /\ UNCHANGED <<dq_state, pc>>
     ELSE IF dq_state.sc = 0
       THEN Goto(t, "resume_slow") /\ UNCHANGED <<dq_state, crash>>
     ELSE /\ dq_state' = [dq_state EXCEPT !.sc = @ - 1]
          /\ Goto(t, IF _dq_state_is_suspended(dq_state') THEN "idle" ELSE "consume_2")
          /\ UNCHANGED crash
  /\ UNCHANGED <<lock_vars, side, refs, finalized, kind, free, released>>

\* _dispatch_queue_resume_finalize_activation: the finalizer, then do_resume.
_dispatch_queue_resume_finalize_activation(t) ==
  /\ At(t, "finalize")
  /\ finalized' = finalized + 1
  /\ Goto(t, "resume")
  /\ UNCHANGED <<lock_vars, dq_state, side, refs, kind, free, released, crash>>

\* The wakeup with DISPATCH_WAKEUP_CONSUME_2, or _dispatch_release_2.
ResumeConsume(t) ==
  /\ At(t, "consume_2")
  /\ refs' = refs - 2
  /\ Goto(t, "idle")
  /\ UNCHANGED <<lock_vars, dq_state, side, finalized, kind, free, released, crash>>

\* _dispatch_queue_class_wakeup_with_override_slow: a thread that raised the
\* QoS of the queue tries the side lock, and gives up or holds it for a while.
OverrideTrylock(t) ==
  /\ At(t, "idle") /\ released = 0
  /\ _dispatch_unfair_lock_trylock(t)
  /\ Goto(t, IF dul_lock.owner = NO_OWNER THEN "override" ELSE "idle")
  /\ UNCHANGED <<queue_vars, kind, free, released, crash>>

OverrideTryunlock(t) ==
  /\ Holding(t, "override")
  /\ _dispatch_unfair_lock_tryunlock(t)
  /\ Goto(t, IF dul_lock.failed = 1 THEN "override" ELSE "idle")
  /\ UNCHANGED <<queue_vars, kind, free, released, crash>>

-----------------------------------------------------------------------------
Call(t) ==
  \/ dispatch_suspend(t) \/ dispatch_resume(t) \/ dispatch_activate(t) \/ dispatch_release(t)
  \/ _dispatch_queue_try_inactive_suspend(t) \/ OverrideTrylock(t)

InLock(t) == crash = "no" /\ LockStep(t) /\ UNCHANGED <<queue_vars, pc, kind, free, released, crash>>

Interrupt(t) ==
  crash = "no" /\ WaitInterrupted(t) /\ UNCHANGED <<queue_vars, pc, kind, free, released, crash>>

Step(t) ==
  \/ SetterResumes(t) \/ _dispatch_queue_suspend(t) \/ SuspendRetain(t) \/ SideLock(t)
  \/ _dispatch_queue_suspend_slow(t) \/ SideAdd(t) \/ _dispatch_queue_resume_slow(t)
  \/ SideSub(t) \/ SideUnlock(t) \/ ResumeActivate(t) \/ _dispatch_queue_resume(t)
  \/ _dispatch_queue_resume_finalize_activation(t) \/ ResumeConsume(t) \/ OverrideTryunlock(t)
  \/ InLock(t)

Next == \E t \in Threads : Call(t) \/ Step(t) \/ Interrupt(t)

Spec == Init /\ [][Next]_vars

(* A thread in a call keeps running; only a thread asleep in the kernel, and *)
(* a client between calls, may stay where they are.                          *)
FairSpec == Spec /\ \A t \in Threads : WF_vars(Step(t))

-----------------------------------------------------------------------------
(* How many threads are at a step; Undoers are those that answer for a       *)
(* suspension of their own.                                                  *)
Undoers == {"retain_2", "side_add", "suspend_unlock", "resume", "resume_slow",
            "resume_retry", "finalize", "setting"}
Undoing == Cardinality(InCall(Undoers))
Adding == Cardinality(InCall({"side_add"}))
Subtracting == Cardinality(InCall({"side_sub"}))
Finalizing == Cardinality(InCall({"finalize"}))
Retaining == Cardinality(InCall({"retain_2"}))
Consuming == Cardinality(InCall({"consume_2"}))

(* Suspensions that have taken effect and are still to be undone: those that *)
(* clients hold or are resuming, a setter's and an activation's own.         *)
Suspensions == free + Undoing

(* The side count once the transfer in progress is complete.                 *)
SideTotal == side + HALF * (Adding - Subtracting)

(* Inline and side count together are the suspensions in effect, whatever    *)
(* suspends, resumes, transfers, setters and activations interleave; a       *)
(* legacy source that is inactive counts as suspended once.  The ssc bit     *)
(* tells whether there is a side count (suspend_slow, resume_slow).          *)
SuspensionsConserved ==
  /\ dq_state.sc + SideTotal + (IF kind = "source" THEN dq_state.i ELSE 0) = Suspensions
  /\ dq_state.ssc = 1 <=> SideTotal > 0

(* Balanced clients meet no crash of the suspension code (over-resume,       *)
(* invalid state, release of a suspended object) but those for more          *)
(* suspensions than the side count, or a setter, can handle.                 *)
NoSpuriousCrash == crash \in {"no", "too_many"}

(* The activation finalizer runs once, before the queue is ever runnable,    *)
(* and never while a setter changes the queue in place ("Step (1) above      *)
(* cannot happen if such a setter has locked the object", queue.c).          *)
ActivatedOnce ==
  /\ finalized + Finalizing <= 1
  /\ \A t, u \in Threads : ~(pc[t] = "finalize" /\ pc[u] = "setting")
  /\ kind # "active" /\ ~_dq_state_is_suspended(dq_state) => finalized = 1

(* A suspended queue holds two references, taken and consumed outside the    *)
(* rmw that suspends or resumes it; they keep it alive until the last resume *)
(* has made its wakeup (rdar://8181908).                                     *)
QueueOutlivesCalls ==
  /\ refs = (1 - released) + (IF _dq_state_is_suspended(dq_state) THEN 2 ELSE 0)
              - 2 * Retaining + 2 * Consuming
  /\ refs = 0 => \A t \in Threads : pc[t] = "idle"

(* What _dispatch_queue_try_inactive_suspend says of a setter on an object   *)
(* that is still inactive: it takes 128 suspensions, four times HALF, before *)
(* one of them ends in a crash.                                              *)
SettersSafeBelowLimit == crash = "no" \/ Suspensions >= 4 * HALF

(* Unless new calls keep coming, every call returns: no retry loop and no    *)
(* sleep on the side lock lasts for ever.                                    *)
CallsReturn ==
  \/ []<><<\E t \in Threads : Call(t)>>_vars
  \/ \A t \in Threads : []<>(At(t, "idle") \/ crash # "no")
=============================================================================
