---------------------------- MODULE ThreadEvent ----------------------------
(***************************************************************************)
(* dispatch_thread_event_t (libdispatch src/shims/lock.h, lock.c, on       *)
(* kernels with __ulock_wait): a one-shot event that one thread waits for  *)
(* and one thread signals.  Each thread owns one event, on its stack.      *)
(* The modules that extend this one add the program counters.              *)
(***************************************************************************)
EXTENDS Naturals

CONSTANTS
  Threads,
  UINT32_MAX     \* the value of an event that is waited on, not signalled

ASSUME MaxValue == UINT32_MAX \in Nat /\ UINT32_MAX > 2

VARIABLES
  dte_value,     \* 1: signalled; UINT32_MAX: waited on; 0: neither or both
  asleep         \* the threads asleep in the kernel on their own event

event_vars == <<dte_value, asleep>>

EventTypeOK == dte_value \in [Threads -> 0..UINT32_MAX] /\ asleep \subseteq Threads

EventInit == dte_value = [t \in Threads |-> 0] /\ asleep = {}

\* _dispatch_thread_event_init
event_init(t) == dte_value' = [dte_value EXCEPT ![t] = 0] /\ UNCHANGED asleep

\* _dispatch_thread_event_wait: the decrement of a 32-bit counter; true when
\* the event had been signalled.
event_dec(t) ==
  /\ dte_value' = [dte_value EXCEPT ![t] = IF @ = 0 THEN UINT32_MAX ELSE @ - 1]
  /\ UNCHANGED asleep
event_signalled(t) == dte_value[t] = 1

\* _dispatch_thread_event_signal: the increment; 0 to 1 needs no wake-up.
event_inc(t) ==
  /\ dte_value' = [dte_value EXCEPT ![t] = IF @ = UINT32_MAX THEN 0 ELSE @ + 1]
  /\ UNCHANGED asleep
event_needs_wake(t) == dte_value[t] # 0

\* _dispatch_thread_event_signal_slow: wake a sleeper on the address.
event_wake(t) == asleep' = asleep \ {t} /\ UNCHANGED dte_value

\* __ulock_wait: sleep if the value is still UINT32_MAX, else return.
event_sleep(t) ==
  /\ asleep' = IF dte_value[t] = UINT32_MAX THEN asleep \cup {t} ELSE asleep
  /\ UNCHANGED dte_value

\* The kernel ends the wait without a wake-up (EFAULT, interruption).
event_spurious(t) == t \in asleep /\ asleep' = asleep \ {t} /\ UNCHANGED dte_value
=============================================================================
