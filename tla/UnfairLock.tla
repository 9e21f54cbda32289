----------------------------- MODULE UnfairLock -----------------------------
(***************************************************************************)
(* dispatch_unfair_lock_s (libdispatch shims/lock.h, lock.c), the lock     *)
(* behind dq_sidelock, in the build that has the kernel's UL_UNFAIR_LOCK.  *)
(* The word holds the owner, DLOCK_WAITERS_BIT and                         *)
(* DLOCK_FAILED_TRYLOCK_BIT.  An unlock clears all of it, so the bit that  *)
(* says that threads sleep has to be set again by whoever is woken.        *)
(***************************************************************************)
EXTENDS Naturals, FiniteSets

CONSTANTS Threads, NO_OWNER

ASSUME UnfairLockConstants == NO_OWNER \notin Threads /\ IsFiniteSet(Threads)

VARIABLES
  dul_lock,   \* the lock word
  lpc,        \* where each thread is in the lock's code; "out", or "held"
  lvalue,     \* the value a thread gives to __ulock_wait, until it returns
  lnext       \* DLOCK_WAITERS_BIT of next in lock_slow, until it is used

lock_vars == <<dul_lock, lpc, lvalue, lnext>>

Words == [owner : Threads \cup {NO_OWNER}, waiters : {0, 1}, failed : {0, 1}]
Word(t, w) == [owner |-> t, waiters |-> w, failed |-> 0]
Unlocked == Word(NO_OWNER, 0)
LockPCs == {"out", "slow", "wait", "asleep", "woken", "held", "wake", "crashed"}

LockTypeOK ==
  /\ dul_lock \in Words /\ lpc \in [Threads -> LockPCs]
  /\ lvalue \in [Threads -> Words] /\ lnext \in [Threads -> {0, 1}]

LockInit ==
  /\ dul_lock = Unlocked /\ lpc = [t \in Threads |-> "out"]
  /\ lvalue = [t \in Threads |-> Unlocked] /\ lnext = [t \in Threads |-> 0]

LockGoto(t, there) == lpc' = [lpc EXCEPT ![t] = there]
Sleepers == {t \in Threads : lpc[t] = "asleep"}

-----------------------------------------------------------------------------
\* A cmpxchg of an unlocked word, or the slow path.
_dispatch_unfair_lock_lock(t) ==
  /\ lpc[t] = "out"
  /\ IF dul_lock = Unlocked
       THEN dul_lock' = Word(t, 0) /\ LockGoto(t, "held")
       ELSE LockGoto(t, "slow") /\ UNCHANGED dul_lock
  /\ UNCHANGED <<lvalue, lnext>>

\* One turn of the loop: take the lock, or set the waiters bit and go to wait.
_dispatch_unfair_lock_lock_slow(t) ==
  /\ lpc[t] = "slow"
  /\ IF dul_lock.owner = NO_OWNER
       THEN /\ dul_lock' = Word(t, lnext[t])
            /\ LockGoto(t, "held")
            /\ UNCHANGED lvalue
       ELSE /\ dul_lock' = [dul_lock EXCEPT !.waiters = 1]
            /\ LockGoto(t, IF dul_lock.owner = t THEN "crashed" ELSE "wait")
            /\ lvalue' = [lvalue EXCEPT ![t] = dul_lock']
  /\ lnext' = [lnext EXCEPT ![t] = 0]

\* The kernel's compare-and-sleep.  A wait that does not sleep (the word has
\* another value, or reading it faults) may report other waiters or not.
__ulock_wait(t) ==
  /\ lpc[t] = "wait"
  /\ \/ /\ dul_lock = lvalue[t]
        /\ LockGoto(t, "asleep")
        /\ UNCHANGED <<lvalue, lnext>>
     \/ /\ LockGoto(t, "slow")
        /\ lvalue' = [lvalue EXCEPT ![t] = Unlocked]
        /\ \E others \in {0, 1} : /\ others = 1 => Sleepers # {}
                                 /\ lnext' = [lnext EXCEPT ![t] = others]
  /\ UNCHANGED dul_lock

\* EINTR: _dlock_syscall_switch makes the same call again.
WaitInterrupted(t) ==
  /\ lpc[t] = "asleep"
  /\ LockGoto(t, "wait")
  /\ UNCHANGED <<dul_lock, lvalue, lnext>>

\* A woken thread returns, with ENOTEMPTY if it leaves others asleep.
WaitReturns(t) ==
  /\ lpc[t] = "woken"
  /\ LockGoto(t, "slow")
  /\ lvalue' = [lvalue EXCEPT ![t] = Unlocked]
  /\ lnext' = [lnext EXCEPT ![t] = IF Sleepers = {} THEN 0 ELSE 1]
  /\ UNCHANGED dul_lock

\* Mutant: the waiters bit is lost with the word.
mutant_unlock_without_wake(t) ==
  /\ lpc[t] = "held"
  /\ dul_lock' = Unlocked /\ LockGoto(t, "out")
  /\ UNCHANGED <<lvalue, lnext>>

\* The xchg, and the test of unlock_slow for a wake.
_dispatch_unfair_lock_unlock_had_failed_trylock(t) ==
  /\ lpc[t] = "held"
  /\ dul_lock' = Unlocked
  /\ LockGoto(t, IF dul_lock.owner # t THEN "crashed"
                 ELSE IF dul_lock.waiters = 1 THEN "wake" ELSE "out")
  /\ UNCHANGED <<lvalue, lnext>>

\* unlock_slow calls __ulock_wake: one sleeper wakes, if there is any.
_dispatch_unfair_lock_unlock_slow(t) ==
  /\ lpc[t] = "wake"
  /\ IF Sleepers = {}
       THEN LockGoto(t, "out")
       ELSE \E s \in Sleepers : lpc' = [lpc EXCEPT ![t] = "out", ![s] = "woken"]
  /\ UNCHANGED <<dul_lock, lvalue, lnext>>

_dispatch_unfair_lock_trylock(t) ==
  /\ lpc[t] = "out"
  /\ IF dul_lock.owner = NO_OWNER
       THEN dul_lock' = Word(t, 0) /\ LockGoto(t, "held")
       ELSE dul_lock' = [dul_lock EXCEPT !.failed = 1] /\ UNCHANGED lpc
  /\ UNCHANGED <<lvalue, lnext>>

\* Keeps the lock, and says so, when a trylock failed in the meantime.
_dispatch_unfair_lock_tryunlock(t) ==
  /\ lpc[t] = "held"
  /\ IF dul_lock.failed = 1
       THEN dul_lock' = [dul_lock EXCEPT !.failed = 0] /\ UNCHANGED lpc
       ELSE /\ dul_lock' = Unlocked
            /\ LockGoto(t, IF dul_lock.waiters = 1 THEN "wake" ELSE "out")
  /\ UNCHANGED <<lvalue, lnext>>

\* What a thread does inside the lock's code, once it has called it.
LockStep(t) ==
  \/ _dispatch_unfair_lock_lock_slow(t) \/ __ulock_wait(t) \/ WaitReturns(t)
  \/ _dispatch_unfair_lock_unlock_slow(t)

LockNext ==
  \E t \in Threads :
    \/ _dispatch_unfair_lock_lock(t) \/ _dispatch_unfair_lock_trylock(t)
    \/ _dispatch_unfair_lock_unlock_had_failed_trylock(t)
    \/ _dispatch_unfair_lock_tryunlock(t) \/ LockStep(t) \/ WaitInterrupted(t)

LockSpec == LockInit /\ [][LockNext]_lock_vars

-----------------------------------------------------------------------------
(* The word names the one thread that holds the lock, and no thread meets    *)
(* either crash of the lock's code.                                          *)
LockOwner == \A t \in Threads : (dul_lock.owner = t <=> lpc[t] = "held") /\ lpc[t] # "crashed"

(* A thread that will wake another one, or set the waiters bit: it is about  *)
(* to call __ulock_wake, it has been woken, or it knows of other waiters.    *)
WillWake(t) == lpc[t] \in {"wake", "woken"} \/ (lpc[t] = "slow" /\ lnext[t] = 1)

(* While threads sleep on the word, the waiters bit is set or some thread is *)
(* bound to wake one or to set the bit (lock_slow's next, unlock_slow).      *)
NoForgottenWaiter ==
  Sleepers # {} => dul_lock.waiters = 1 \/ \E t \in Threads : WillWake(t)
=============================================================================
