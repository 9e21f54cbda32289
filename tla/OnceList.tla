------------------------------ MODULE OnceList ------------------------------
(***************************************************************************)
(* dispatch_once as built without gate locks (libdispatch src/once.c, the  *)
(* #else branch): the predicate heads a list of waiter records, each on    *)
(* the stack of the thread that waits, and the thread that ran the block   *)
(* signals them from the newest to the oldest.  A thread stands for its    *)
(* own record (dow), so a thread outside the call has no record.           *)
(***************************************************************************)
EXTENDS ThreadEvent

CONSTANTS NULL, DISPATCH_ONCE_DONE

ASSUME PredicateWords ==
  NULL # DISPATCH_ONCE_DONE /\ {NULL, DISPATCH_ONCE_DONE} \cap Threads = {}

VARIABLES
  val,           \* the predicate: NULL, the newest record, or DONE
  dow_next,      \* the record that was newest before this one
  dow_thread,    \* the thread that runs the block, or NULL if not known
  next,          \* the local variable next of each thread
  event,         \* the event the running thread is about to signal
  overrides,     \* waiters that hold a priority override on dow_thread
  crashed,       \* the crash or failed assertion that ended the process
  runs,          \* history: "never", "running", "done", or "again"
  pc

frame_vars == <<dow_next, dow_thread, next, event>>
vars == <<event_vars, val, frame_vars, overrides, crashed, runs, pc>>

Waiting == {"init", "cas", "copy_thread", "link", "override", "event_wait",
            "wait_slow", "ulock_wait", "override_end", "destroy"}
Running == {"set_thread", "callout", "xchg_done", "pop", "signal", "signal_slow"}
PCs == {"idle", "tryenter"} \cup Waiting \cup Running

TypeOK ==
  /\ EventTypeOK
  /\ val \in Threads \cup {NULL, DISPATCH_ONCE_DONE}
  /\ dow_next \in [Threads -> Threads \cup {NULL}]
  /\ dow_thread \in [Threads -> Threads \cup {NULL}]
  /\ next \in [Threads -> Threads \cup {NULL, DISPATCH_ONCE_DONE}]
  /\ event \in [Threads -> Threads \cup {NULL}]
  /\ overrides \subseteq Threads
  /\ crashed \in {"no", "corrupt_event", "event_not_final"}
  /\ runs \in {"never", "running", "done", "again"}
  /\ pc \in [Threads -> PCs]

Init ==
  /\ EventInit
  /\ val = NULL
  /\ dow_next = [t \in Threads |-> NULL] /\ dow_thread = [t \in Threads |-> NULL]
  /\ next = [t \in Threads |-> NULL] /\ event = [t \in Threads |-> NULL]
  /\ overrides = {} /\ crashed = "no" /\ runs = "never"
  /\ pc = [t \in Threads |-> "idle"]

At(t, at) == crashed = "no" /\ pc[t] = at
Goto(t, to) == pc' = [pc EXCEPT ![t] = to]

-----------------------------------------------------------------------------
\* _dispatch_once: the inline test of the predicate; the record is zeroed.
_dispatch_once(t) ==
  /\ At(t, "idle") /\ val # DISPATCH_ONCE_DONE
  /\ dow_next' = [dow_next EXCEPT ![t] = NULL]
  /\ dow_thread' = [dow_thread EXCEPT ![t] = NULL]
  /\ Goto(t, "tryenter")
  /\ UNCHANGED <<event_vars, val, next, event, overrides, crashed, runs>>

\* Mutant of dispatch_once_f_slow: a store decided by the earlier load.
mutant_enter_by_store(t) ==
  /\ At(t, "tryenter")
  /\ val' = t /\ Goto(t, "set_thread")
  /\ runs' = IF runs = "never" THEN "running" ELSE "again"
  /\ UNCHANGED <<event_vars, frame_vars, overrides, crashed>>

\* dispatch_once_f_slow: the compare-and-swap of NULL and its two outcomes.
dispatch_once_f_slow(t) ==
  /\ At(t, "tryenter")
  /\ IF val = NULL
       THEN /\ val' = t /\ Goto(t, "set_thread")
            /\ runs' = IF runs = "never" THEN "running" ELSE "again"
       ELSE Goto(t, "init") /\ UNCHANGED <<val, runs>>
  /\ UNCHANGED <<event_vars, frame_vars, overrides, crashed>>

SetThread(t) ==
  /\ At(t, "set_thread")
  /\ dow_thread' = [dow_thread EXCEPT ![t] = t]
  /\ Goto(t, "callout")
  /\ UNCHANGED <<event_vars, val, dow_next, next, event, overrides, crashed, runs>>

\* _dispatch_client_callout: the block runs and returns.
Callout(t) ==
  /\ At(t, "callout") /\ Goto(t, "xchg_done")
  /\ runs' = IF runs = "running" THEN "done" ELSE runs
  /\ UNCHANGED <<event_vars, val, frame_vars, overrides, crashed>>

_dispatch_once_xchg_done(t) ==
  /\ At(t, "xchg_done")
  /\ val' = DISPATCH_ONCE_DONE
  /\ next' = [next EXCEPT ![t] = val]
  /\ Goto(t, IF val = t THEN "idle" ELSE "pop")
  /\ UNCHANGED <<event_vars, dow_next, dow_thread, event, overrides, crashed, runs>>

\* Mutant of PopWaiter: a link that is not stored yet ends the list.
mutant_pop_without_waiting(t) ==
  /\ At(t, "pop")
  /\ event' = [event EXCEPT ![t] = next[t]]
  /\ next' = [next EXCEPT ![t] = IF dow_next[@] = NULL THEN t ELSE dow_next[@]]
  /\ Goto(t, "signal")
  /\ UNCHANGED <<event_vars, val, dow_next, dow_thread, overrides, crashed, runs>>

\* Mutant of PopWaiter: next = tmp before event = &next->dow_event.
mutant_event_after_next(t) ==
  /\ At(t, "pop") /\ dow_next[next[t]] # NULL
  /\ event' = [event EXCEPT ![t] = dow_next[next[t]]]
  /\ next' = [next EXCEPT ![t] = dow_next[next[t]]]
  /\ Goto(t, "signal")
  /\ UNCHANGED <<event_vars, val, dow_next, dow_thread, overrides, crashed, runs>>

\* _dispatch_wait_until(next->dow_next): the link is read before the signal.
PopWaiter(t) ==
  /\ At(t, "pop") /\ dow_next[next[t]] # NULL
  /\ event' = [event EXCEPT ![t] = next[t]]
  /\ next' = [next EXCEPT ![t] = dow_next[next[t]]]
  /\ Goto(t, "signal")
  /\ UNCHANGED <<event_vars, val, dow_next, dow_thread, overrides, crashed, runs>>

\* The while (next != tail) of the thread that ran the block.
AfterSignal(t) == IF next[t] = t THEN "idle" ELSE "pop"

_dispatch_thread_event_signal(t) ==
  /\ At(t, "signal")
  /\ event_inc(event[t])
  /\ Goto(t, IF event_needs_wake(event[t]) THEN "signal_slow" ELSE AfterSignal(t))
  /\ UNCHANGED <<val, frame_vars, overrides, crashed, runs>>

_dispatch_thread_event_signal_slow(t) ==
  /\ At(t, "signal_slow")
  /\ event_wake(event[t])
  /\ Goto(t, AfterSignal(t))
  /\ UNCHANGED <<val, frame_vars, overrides, crashed, runs>>

-----------------------------------------------------------------------------
\* The waiter's _dispatch_thread_event_init and its load of the predicate.
InitEvent(t) ==
  /\ At(t, "init")
  /\ event_init(t)
  /\ next' = [next EXCEPT ![t] = val]
  /\ Goto(t, "cas")
  /\ UNCHANGED <<val, dow_next, dow_thread, event, overrides, crashed, runs>>

\* The for (;;) loop: DONE ends it, a successful swap pushes the record.
PushWaiter(t) ==
  /\ At(t, "cas")
  /\ \/ next[t] = DISPATCH_ONCE_DONE /\ Goto(t, "destroy") /\ UNCHANGED <<val, next>>
     \/ /\ next[t] # DISPATCH_ONCE_DONE /\ val = next[t]
        /\ val' = t /\ Goto(t, "copy_thread") /\ UNCHANGED next
     \/ /\ next[t] # DISPATCH_ONCE_DONE /\ val # next[t]
        /\ next' = [next EXCEPT ![t] = val] /\ UNCHANGED <<val, pc>>
  /\ UNCHANGED <<event_vars, dow_next, dow_thread, event, overrides, crashed, runs>>

\* dow.dow_thread = next->dow_thread
CopyThread(t) ==
  /\ At(t, "copy_thread")
  /\ dow_thread' = [dow_thread EXCEPT ![t] = dow_thread[next[t]]]
  /\ Goto(t, "link")
  /\ UNCHANGED <<event_vars, val, dow_next, next, event, overrides, crashed, runs>>

\* dow.dow_next = next
LinkRecord(t) ==
  /\ At(t, "link")
  /\ dow_next' = [dow_next EXCEPT ![t] = next[t]]
  /\ Goto(t, IF dow_thread[t] = NULL THEN "event_wait" ELSE "override")
  /\ UNCHANGED <<event_vars, val, dow_thread, next, event, overrides, crashed, runs>>

_dispatch_thread_override_start(t) ==
  /\ At(t, "override")
  /\ overrides' = overrides \cup {t}
  /\ Goto(t, "event_wait")
  /\ UNCHANGED <<event_vars, val, frame_vars, crashed, runs>>

\* Mutant of AfterWait: the override is not taken back.
mutant_no_override_end(t) == "destroy"

\* What follows _dispatch_thread_event_wait.
AfterWait(t) == IF dow_thread[t] = NULL THEN "destroy" ELSE "override_end"

_dispatch_thread_event_wait(t) ==
  /\ At(t, "event_wait")
  /\ event_dec(t)
  /\ Goto(t, IF event_signalled(t) THEN AfterWait(t) ELSE "wait_slow")
  /\ UNCHANGED <<val, frame_vars, overrides, crashed, runs>>

\* _dispatch_thread_event_wait_slow: return on 0, crash on a corrupt value.
_dispatch_thread_event_wait_slow(t) ==
  /\ At(t, "wait_slow") /\ t \notin asleep
  /\ crashed' = IF dte_value[t] \in {0, UINT32_MAX} THEN "no" ELSE "corrupt_event"
  /\ Goto(t, IF dte_value[t] = 0 THEN AfterWait(t) ELSE "ulock_wait")
  /\ UNCHANGED <<event_vars, val, frame_vars, overrides, runs>>

_dispatch_ulock_wait(t) ==
  /\ At(t, "ulock_wait")
  /\ event_sleep(t)
  /\ Goto(t, "wait_slow")
  /\ UNCHANGED <<val, frame_vars, overrides, crashed, runs>>

SpuriousWakeup(t) ==
  /\ At(t, "wait_slow")
  /\ event_spurious(t)
  /\ UNCHANGED <<val, frame_vars, overrides, crashed, pc, runs>>

_dispatch_thread_override_end(t) ==
  /\ At(t, "override_end")
  /\ overrides' = overrides \ {t}
  /\ Goto(t, "destroy")
  /\ UNCHANGED <<event_vars, val, frame_vars, crashed, runs>>

\* _dispatch_thread_event_destroy asserts that the event is in its final state.
_dispatch_thread_event_destroy(t) ==
  /\ At(t, "destroy")
  /\ crashed' = IF dte_value[t] = 0 THEN "no" ELSE "event_not_final"
  /\ Goto(t, "idle")
  /\ UNCHANGED <<event_vars, val, frame_vars, overrides, runs>>

-----------------------------------------------------------------------------
Step(t) ==
  \/ dispatch_once_f_slow(t) \/ SetThread(t) \/ Callout(t)
  \/ _dispatch_once_xchg_done(t) \/ PopWaiter(t)
  \/ _dispatch_thread_event_signal(t) \/ _dispatch_thread_event_signal_slow(t)
  \/ InitEvent(t) \/ PushWaiter(t) \/ CopyThread(t) \/ LinkRecord(t)
  \/ _dispatch_thread_override_start(t) \/ _dispatch_thread_event_wait(t)
  \/ _dispatch_thread_event_wait_slow(t) \/ _dispatch_ulock_wait(t)
  \/ _dispatch_thread_override_end(t) \/ _dispatch_thread_event_destroy(t)

Next == \E t \in Threads : _dispatch_once(t) \/ Step(t) \/ SpuriousWakeup(t)

Spec == Init /\ [][Next]_vars

\* Every thread inside the call is scheduled, and the block terminates.
FairSpec == Spec /\ \A t \in Threads : WF_vars(Step(t))

-----------------------------------------------------------------------------
(* dispatch_once keeps its promise: the list implements module Once, where   *)
(* the block runs once and nobody returns before it has run.                 *)
Abstract == INSTANCE Once WITH
  status <- runs, inside <- {t \in Threads : pc[t] # "idle"}
ImplementsOnce == Abstract!OnceSpec

(* The record another thread reads or writes still exists: nobody follows    *)
(* dow_next, copies dow_thread or signals the event of a thread that has     *)
(* returned from dispatch_once_f_slow and popped its stack frame.  And its   *)
(* event is signalled exactly once per wait (dispatch_thread_event_t): no    *)
(* wait finds a corrupt value, and the event is final when it is destroyed.  *)
RecordsExist ==
  /\ crashed = "no"
  /\ \A t \in Threads :
       /\ pc[t] \in {"pop", "copy_thread"} => pc[next[t]] # "idle"
       /\ pc[t] = "signal" => pc[event[t]] # "idle"

(* A waiter boosts only the thread that runs the block, and takes the boost  *)
(* back before it returns (_dispatch_thread_override_start and _end).        *)
OverridesBalanced ==
  /\ \A t \in overrides : pc[t] \in Waiting /\ dow_thread[t] # NULL
  /\ \A t, u \in overrides : dow_thread[t] = dow_thread[u]

(* Every call returns, if the block does (dispatch_once_f_slow).             *)
CallsReturn == \A t \in Threads : pc[t] # "idle" ~> pc[t] = "idle"
=============================================================================
