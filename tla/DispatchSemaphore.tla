------------------------- MODULE DispatchSemaphore -------------------------
(***************************************************************************)
(* dispatch_semaphore_t (libdispatch src/semaphore.c): a counting          *)
(* semaphore whose count is a user-space word changed by atomic            *)
(* operations, with a kernel semaphore (module Sema4) entered only when    *)
(* the count says that a thread has to block or to be woken.               *)
(***************************************************************************)
EXTENDS Sema4, Integers, FiniteSets

CONSTANTS
  InitialValues,   \* arguments of dispatch_semaphore_create
  LONG_MAX,        \* the largest value of the C type long
  MaxAborts        \* bound: how often kernel waits are interrupted in all

LONG_MIN == -LONG_MAX - 1

ASSUME SemaphoreConstants ==
  /\ IsFiniteSet(Threads)
  /\ LONG_MAX \in Nat /\ Cardinality(Threads) <= LONG_MAX
  /\ InitialValues \subseteq -1..LONG_MAX
  /\ MaxAborts \in Nat

VARIABLES
  dsema_value,   \* the count; when negative, minus the threads that wait
  dsema_orig,    \* the count the semaphore was created with
  status,        \* the object is absent or alive, or a DISPATCH_CLIENT_CRASH
                 \* ended the process: signal overflowed, disposed in use
  pc,            \* where each thread is
  timeout,       \* the timeout argument of each thread's last wait
  aborts,        \* interrupted kernel waits so far
  permits        \* history: creation value + signals - successful waits

own_vars == <<dsema_value, dsema_orig, status, pc, timeout, aborts,
              permits>>
vars == <<sema4_vars, own_vars>>

Timeouts == {"now", "finite", "forever"}

PCs == {"idle",                         \* outside the semaphore functions
        "signal_slow", "signal_create", "signal_post",
        "wait_slow", "wait_create",
        "timedwait", "timedwait_blocked",  \* in _dispatch_sema4_timedwait
        "undo",                            \* timed out: give the count back
        "wait", "wait_blocked"}            \* in _dispatch_sema4_wait

TypeOK ==
  /\ Sema4TypeOK
  /\ dsema_value \in LONG_MIN..LONG_MAX
  /\ dsema_orig \in 0..LONG_MAX
  /\ status \in {"absent", "alive", "overflow", "in_use"}
  /\ pc \in [Threads -> PCs]
  /\ timeout \in [Threads -> Timeouts]
  /\ aborts \in 0..MaxAborts
  /\ permits \in Int

Init ==
  /\ Sema4Init
  /\ dsema_value = 0 /\ dsema_orig = 0
  /\ status = "absent"
  /\ pc = [t \in Threads |-> "idle"]
  /\ timeout = [t \in Threads |-> "forever"]
  /\ aborts = 0
  /\ permits = 0

Running == status = "alive"
Goto(t, to) == pc' = [pc EXCEPT ![t] = to]

\* Threads that decremented the count below zero and have not returned.
SlowWaiters ==
  {t \in Threads : pc[t] \in {"wait_slow", "wait_create", "timedwait",
                    "timedwait_blocked", "undo", "wait", "wait_blocked"}}

\* Threads whose increment owes a kernel signal to some slow waiter.
Signallers ==
  {t \in Threads : pc[t] \in {"signal_slow", "signal_create", "signal_post"}}

-----------------------------------------------------------------------------
(***************************************************************************)
(* Creation and disposal                                                   *)
(***************************************************************************)

\* dispatch_semaphore_create; a negative value is refused.
dispatch_semaphore_create(value) ==
  /\ status = "absent"
  /\ value >= 0
  /\ status' = "alive"
  /\ dsema_value' = value /\ dsema_orig' = value /\ permits' = value
  /\ sema' = MACH_PORT_NULL
  /\ UNCHANGED <<cache, live, count, waitq, pc, timeout, aborts>>

\* _dispatch_semaphore_dispose, run by thread t, which drops the last
\* reference: no other thread is still inside a call.
_dispatch_semaphore_dispose(t) ==
  /\ Running
  /\ \A u \in Threads : pc[u] = "idle"
  /\ IF dsema_value < dsema_orig
       THEN status' = "in_use" /\ UNCHANGED sema4_vars
       ELSE status' = "absent" /\ sema4_dispose(t)
  /\ UNCHANGED <<dsema_value, dsema_orig, pc, timeout, aborts, permits>>

-----------------------------------------------------------------------------
(***************************************************************************)
(* dispatch_semaphore_signal                                               *)
(***************************************************************************)

\* Mutant of dispatch_semaphore_signal: the overflow is not tested.
mutant_signal_unchecked(t) ==
  LET value == IF dsema_value = LONG_MAX THEN LONG_MIN ELSE dsema_value + 1
  IN /\ Running /\ pc[t] = "idle"
     /\ dsema_value' = value
     /\ permits' = permits + 1
     /\ Goto(t, IF value > 0 THEN "idle" ELSE "signal_slow")
     /\ UNCHANGED <<sema4_vars, dsema_orig, status, timeout, aborts>>

\* Mutant of dispatch_semaphore_signal: >= 0 instead of > 0 on the fast path.
mutant_signal_off_by_one(t) ==
  LET value == IF dsema_value = LONG_MAX THEN LONG_MIN ELSE dsema_value + 1
  IN /\ Running /\ pc[t] = "idle"
     /\ dsema_value' = value
     /\ permits' = permits + 1
     /\ status' = IF value = LONG_MIN THEN "overflow" ELSE status
     /\ Goto(t, IF value >= 0 \/ value = LONG_MIN THEN "idle" ELSE "signal_slow")
     /\ UNCHANGED <<sema4_vars, dsema_orig, timeout, aborts>>

\* The atomic increment and the tests of its result; the increment of
\* LONG_MAX wraps to LONG_MIN, which is detected and ends the process.
dispatch_semaphore_signal(t) ==
  LET value == IF dsema_value = LONG_MAX THEN LONG_MIN ELSE dsema_value + 1
  IN /\ Running /\ pc[t] = "idle"
     /\ dsema_value' = value
     /\ permits' = permits + 1
     /\ status' = IF value = LONG_MIN THEN "overflow" ELSE status
     /\ Goto(t, IF value > 0 \/ value = LONG_MIN THEN "idle" ELSE "signal_slow")
     /\ UNCHANGED <<sema4_vars, dsema_orig, timeout, aborts>>

\* _dispatch_semaphore_signal_slow: the test of _dispatch_sema4_create.
SignalTestCreated(t) ==
  /\ Running /\ pc[t] = "signal_slow"
  /\ Goto(t, IF sema4_is_created THEN "signal_post" ELSE "signal_create")
  /\ UNCHANGED <<sema4_vars, dsema_value, dsema_orig, status, timeout, aborts,
                 permits>>

SignalCreate(t) ==
  /\ Running /\ pc[t] = "signal_create"
  /\ sema4_create_slow(t)
  /\ Goto(t, "signal_post")
  /\ UNCHANGED <<dsema_value, dsema_orig, status, timeout, aborts,
                 permits>>

\* _dispatch_sema4_signal(&dsema->dsema_sema, 1): the kernel hands the signal
\* to the first blocked thread, whose dispatch_semaphore_wait returns 0.
SignalPost(t) ==
  /\ Running /\ pc[t] = "signal_post"
  /\ sema \in Ports
  /\ semaphore_signal(sema)
  /\ pc' = [u \in Threads |-> IF u \in {t} \cup Woken(sema) THEN "idle" ELSE pc[u]]
  /\ permits' = permits - Cardinality(Woken(sema))
  /\ UNCHANGED <<dsema_value, dsema_orig, status, timeout, aborts>>

-----------------------------------------------------------------------------
(***************************************************************************)
(* dispatch_semaphore_wait                                                 *)
(***************************************************************************)

\* The atomic decrement; a result below zero enters the slow path.
dispatch_semaphore_wait(t, to) ==
  /\ Running /\ pc[t] = "idle"
  /\ dsema_value' = dsema_value - 1
  /\ timeout' = [timeout EXCEPT ![t] = to]
  /\ IF dsema_value' >= 0
       THEN permits' = permits - 1 /\ UNCHANGED pc
       ELSE Goto(t, "wait_slow") /\ UNCHANGED permits
  /\ UNCHANGED <<sema4_vars, dsema_orig, status, aborts>>

\* Where _dispatch_semaphore_wait_slow goes once the port exists.
SlowPath(t) == CASE timeout[t] = "finite"  -> "timedwait"
                 [] timeout[t] = "now"     -> "undo"
                 [] timeout[t] = "forever" -> "wait"

WaitTestCreated(t) ==
  /\ Running /\ pc[t] = "wait_slow"
  /\ Goto(t, IF sema4_is_created THEN SlowPath(t) ELSE "wait_create")
  /\ UNCHANGED <<sema4_vars, dsema_value, dsema_orig, status, timeout, aborts,
                 permits>>

WaitCreate(t) ==
  /\ Running /\ pc[t] = "wait_create"
  /\ sema4_create_slow(t)
  /\ Goto(t, SlowPath(t))
  /\ UNCHANGED <<dsema_value, dsema_orig, status, timeout, aborts,
                 permits>>

\* The kernel wait of _dispatch_sema4_timedwait or _dispatch_sema4_wait:
\* consume a posted signal and return 0, or block.
KernelWait(t) ==
  /\ Running /\ pc[t] \in {"timedwait", "wait"}
  /\ sema \in Ports
  /\ \/ /\ semaphore_take(sema)
        /\ Goto(t, "idle")
        /\ permits' = permits - 1
     \/ /\ semaphore_block(sema, t)
        /\ Goto(t, IF pc[t] = "wait" THEN "wait_blocked" ELSE "timedwait_blocked")
        /\ UNCHANGED permits
  /\ UNCHANGED <<dsema_value, dsema_orig, status, timeout, aborts>>

\* The deadline of _dispatch_sema4_timedwait passes while the thread is
\* blocked, or had passed when it called and no signal was posted.
KernelTimeout(t) ==
  /\ Running
  /\ \/ pc[t] = "timedwait_blocked" /\ semaphore_unblock(t)
     \/ /\ pc[t] = "timedwait" /\ sema \in Ports /\ count[sema] = 0
        /\ UNCHANGED sema4_vars
  /\ Goto(t, "undo")
  /\ UNCHANGED <<dsema_value, dsema_orig, status, timeout, aborts,
                 permits>>

\* Mutant of KernelAborted: an interrupted wait is taken for a signal.
mutant_aborted_is_success(t) ==
  /\ Running /\ pc[t] \in {"timedwait_blocked", "wait_blocked"}
  /\ aborts < MaxAborts
  /\ aborts' = aborts + 1
  /\ semaphore_unblock(t)
  /\ Goto(t, "idle")
  /\ permits' = permits - 1
  /\ UNCHANGED <<dsema_value, dsema_orig, status, timeout>>

\* KERN_ABORTED: the loops of both kernel waits call the kernel again.
KernelAborted(t) ==
  /\ Running /\ pc[t] \in {"timedwait_blocked", "wait_blocked"}
  /\ aborts < MaxAborts
  /\ aborts' = aborts + 1
  /\ semaphore_unblock(t)
  /\ Goto(t, IF pc[t] = "wait_blocked" THEN "wait" ELSE "timedwait")
  /\ UNCHANGED <<dsema_value, dsema_orig, status, timeout, permits>>

\* Mutant of UndoDecrement: the decrement is undone without testing the count.
mutant_undo_always(t) ==
  /\ Running /\ pc[t] = "undo"
  /\ dsema_value' = dsema_value + 1 /\ Goto(t, "idle")
  /\ UNCHANGED <<sema4_vars, dsema_orig, status, timeout, aborts, permits>>

\* The compare-and-swap loop that undoes the decrement after a timeout; when
\* the count is no longer negative a signal is on its way, and the thread
\* waits for it.
UndoDecrement(t) ==
  /\ Running /\ pc[t] = "undo"
  /\ IF dsema_value < 0
       THEN dsema_value' = dsema_value + 1 /\ Goto(t, "idle")
       ELSE Goto(t, "wait") /\ UNCHANGED dsema_value
  /\ UNCHANGED <<sema4_vars, dsema_orig, status, timeout, aborts,
                 permits>>

-----------------------------------------------------------------------------
\* The steps a thread inside a call takes on its own.
Step(t) ==
  \/ SignalTestCreated(t) \/ SignalCreate(t) \/ SignalPost(t)
  \/ WaitTestCreated(t) \/ WaitCreate(t) \/ KernelWait(t) \/ UndoDecrement(t)

Next ==
  \/ \E value \in InitialValues : dispatch_semaphore_create(value)
  \/ \E t \in Threads :
       \/ _dispatch_semaphore_dispose(t)
       \/ dispatch_semaphore_signal(t)
       \/ \E to \in Timeouts : dispatch_semaphore_wait(t, to)
       \/ Step(t)
       \/ KernelTimeout(t)
       \/ KernelAborted(t)

Spec == Init /\ [][Next]_vars

\* A thread that can run is eventually scheduled, and deadlines pass.  No
\* thread has to call the semaphore functions.
Fairness ==
  \A t \in Threads : WF_vars(Step(t)) /\ WF_vars(KernelTimeout(t))

FairSpec == Spec /\ Fairness

-----------------------------------------------------------------------------
Deficit == IF dsema_value < 0 THEN -dsema_value ELSE 0
Tokens == IF sema \in Ports THEN count[sema] ELSE 0

(* Signal conservation (semaphore.c, _dispatch_semaphore_signal_slow and     *)
(* _dispatch_semaphore_wait_slow): every thread on the slow path of wait is  *)
(* matched by exactly one of a negative unit of the count, a signaller that  *)
(* has yet to post, and a signal posted to the kernel.  A timed-out waiter   *)
(* that undoes too much or too little breaks it for the others.              *)
SignalConservation ==
  Running =>
    Cardinality(SlowWaiters) = Deficit + Cardinality(Signallers) + Tokens

(* Never more successful waits than the creation value plus the signals     *)
(* (dispatch_semaphore_wait), however timeouts race with signals.            *)
NoOverAdmission == permits >= 0

(* No lost wake-up: when all threads are outside the functions or blocked    *)
(* in the kernel, a thread is blocked only if no permit is left.             *)
NoStrandedWaiter ==
  (/\ Running
   /\ \A t \in Threads : pc[t] \in {"idle", "wait_blocked", "timedwait_blocked"}
   /\ \E t \in Threads : pc[t] # "idle")
  => permits = 0

(* Ports and threads agree (_dispatch_sema4_create_slow): threads block on  *)
(* the installed port only, and a port that waits in a thread's cache for    *)
(* its next object carries no left-over signal and no thread.                *)
PortDiscipline ==
  /\ \A p \in Ports : waitq[p] # <<>> => p = sema
  /\ \A t \in Threads :
       cache[t] \in Ports =>
         /\ cache[t] \in live /\ cache[t] # sema
         /\ count[cache[t]] = 0 /\ waitq[cache[t]] = <<>>

(* A waiter is not left behind for ever while permits are available: it is   *)
(* infinitely often gone, or no permit is left.                              *)
WaitersAdmitted ==
  \A t \in Threads :
    []<>(\/ t \notin SlowWaiters \/ permits = 0 \/ ~ Running)

(* What semaphore.h says of a timeout other than DISPATCH_TIME_FOREVER:      *)
(* the call returns, at the latest when the timeout has occurred.            *)
TimedWaitReturns ==
  \A t \in Threads :
    (t \in SlowWaiters /\ timeout[t] # "forever") ~> (t \notin SlowWaiters \/ ~ Running)

=============================================================================
