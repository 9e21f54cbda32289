------------------------------ MODULE OnceGate ------------------------------
(***************************************************************************)
(* dispatch_once as built on systems with unfair-lock waits                *)
(* (libdispatch src/once.c, DISPATCH_GATE_USE_FOR_DISPATCH_ONCE): the      *)
(* predicate is a gate lock (src/shims/lock.h, src/shims/lock.c) on whose  *)
(* address waiters sleep in the kernel (__ulock_wait).                     *)
(***************************************************************************)
EXTENDS Naturals

CONSTANTS
  Threads,
  NO_OWNER,     \* the owner bits of DLOCK_ONCE_UNLOCKED
  ALL_ONES      \* the owner bits of DLOCK_ONCE_DONE, the identity of no thread

ASSUME OwnerBits == NO_OWNER # ALL_ONES /\ {NO_OWNER, ALL_ONES} \cap Threads = {}

VARIABLES
  dgo_once,     \* the predicate: owner bits and DLOCK_WAITERS_BIT
  pc,           \* where each thread is
  new_value,    \* the word each thread in _dispatch_gate_wait_slow expects
  runs,         \* history: "never", "running", "done", or "again"
  crashed       \* the DISPATCH_CLIENT_CRASH that ended the process, if any

vars == <<dgo_once, pc, new_value, runs, crashed>>

Words == (Threads \cup {NO_OWNER, ALL_ONES}) \X {0, 1}
DLOCK_ONCE_UNLOCKED == <<NO_OWNER, 0>>
DLOCK_ONCE_DONE == <<ALL_ONES, 1>>

PCs == {"idle",                 \* outside dispatch_once
        "tryenter",             \* read a predicate other than DONE
        "callout",              \* runs the block
        "broadcast", "wake",    \* in _dispatch_once_gate_broadcast
        "gate_wait",            \* in _dispatch_gate_wait_slow, before the rmw
        "ulock_wait", "asleep"} \* and in the kernel

TypeOK ==
  /\ dgo_once \in Words
  /\ pc \in [Threads -> PCs]
  /\ new_value \in [Threads -> Words]
  /\ runs \in {"never", "running", "done", "again"}
  /\ crashed \in {"no", "recursive", "not_owner"}

Init ==
  /\ dgo_once = DLOCK_ONCE_UNLOCKED
  /\ pc = [t \in Threads |-> "idle"]
  /\ new_value = [t \in Threads |-> DLOCK_ONCE_UNLOCKED]
  /\ runs = "never"
  /\ crashed = "no"

Goto(t, to) == pc' = [pc EXCEPT ![t] = to]

-----------------------------------------------------------------------------
\* _dispatch_once: the inline test of the predicate.
_dispatch_once(t) ==
  /\ crashed = "no" /\ pc[t] = "idle"
  /\ dgo_once # DLOCK_ONCE_DONE
  /\ Goto(t, "tryenter")
  /\ UNCHANGED <<dgo_once, new_value, runs, crashed>>

\* Mutant of dispatch_once_f_slow: a store decided by the earlier load.
mutant_enter_by_store(t) ==
  /\ crashed = "no" /\ pc[t] = "tryenter"
  /\ dgo_once' = <<t, 0>>
  /\ Goto(t, "callout")
  /\ runs' = IF runs = "never" THEN "running" ELSE "again"
  /\ UNCHANGED <<new_value, crashed>>

\* dispatch_once_f_slow: _dispatch_once_gate_tryenter and its two outcomes.
dispatch_once_f_slow(t) ==
  /\ crashed = "no" /\ pc[t] = "tryenter"
  /\ IF dgo_once = DLOCK_ONCE_UNLOCKED
       THEN /\ dgo_once' = <<t, 0>>
            /\ Goto(t, "callout")
            /\ runs' = IF runs = "never" THEN "running" ELSE "again"
       ELSE Goto(t, "gate_wait") /\ UNCHANGED <<dgo_once, runs>>
  /\ UNCHANGED <<new_value, crashed>>

\* _dispatch_client_callout: the block returns ...
CalloutReturns(t) ==
  /\ crashed = "no" /\ pc[t] = "callout"
  /\ runs' = IF runs = "running" THEN "done" ELSE runs
  /\ Goto(t, "broadcast")
  /\ UNCHANGED <<dgo_once, new_value, crashed>>

\* ... or calls dispatch_once on its own predicate, which the gate detects.
CalloutRecurses(t) ==
  /\ crashed = "no" /\ pc[t] = "callout"
  /\ dgo_once' = <<dgo_once[1], 1>>
  /\ crashed' = "recursive"
  /\ UNCHANGED <<pc, new_value, runs>>

\* _dispatch_once_gate_broadcast: the exchange and the test of the old word,
\* with the ownership test of _dispatch_gate_broadcast_slow.
_dispatch_once_gate_broadcast(t) ==
  /\ crashed = "no" /\ pc[t] = "broadcast"
  /\ dgo_once' = DLOCK_ONCE_DONE
  /\ crashed' = IF dgo_once[1] = t THEN "no" ELSE "not_owner"
  /\ Goto(t, IF dgo_once = <<t, 0>> THEN "idle" ELSE "wake")
  /\ UNCHANGED <<new_value, runs>>

\* Mutant of _dispatch_gate_broadcast_slow: ULF_WAKE_ALL is forgotten.
mutant_wake_one(t) ==
  /\ crashed = "no" /\ pc[t] = "wake"
  /\ \/ \E u \in Threads : /\ pc[u] = "asleep"
                          /\ pc' = [pc EXCEPT ![t] = "idle", ![u] = "gate_wait"]
     \/ (\A u \in Threads : pc[u] # "asleep") /\ Goto(t, "idle")
  /\ UNCHANGED <<dgo_once, new_value, runs, crashed>>

\* _dispatch_gate_broadcast_slow: wake every thread asleep on the word.
_dispatch_gate_broadcast_slow(t) ==
  /\ crashed = "no" /\ pc[t] = "wake"
  /\ pc' = [u \in Threads |-> IF u = t THEN "idle"
                              ELSE IF pc[u] = "asleep" THEN "gate_wait" ELSE pc[u]]
  /\ UNCHANGED <<dgo_once, new_value, runs, crashed>>

\* _dispatch_gate_wait_slow: return when the word is DONE, else set the
\* waiters bit; only the owner itself must not wait.
_dispatch_gate_wait_slow(t) ==
  /\ crashed = "no" /\ pc[t] = "gate_wait"
  /\ IF dgo_once = DLOCK_ONCE_DONE
       THEN Goto(t, "idle") /\ UNCHANGED <<dgo_once, new_value, crashed>>
       ELSE /\ dgo_once' = <<dgo_once[1], 1>>
            /\ new_value' = [new_value EXCEPT ![t] = <<dgo_once[1], 1>>]
            /\ crashed' = IF dgo_once[1] = t THEN "recursive" ELSE "no"
            /\ Goto(t, "ulock_wait")
  /\ UNCHANGED runs

\* Mutant of ulock_wait: sleep without comparing the word.
mutant_sleep_blindly(t) ==
  /\ crashed = "no" /\ pc[t] = "ulock_wait"
  /\ Goto(t, "asleep")
  /\ UNCHANGED <<dgo_once, new_value, runs, crashed>>

\* __ulock_wait: sleep if the word still has the expected value.
ulock_wait(t) ==
  /\ crashed = "no" /\ pc[t] = "ulock_wait"
  /\ Goto(t, IF dgo_once = new_value[t] THEN "asleep" ELSE "gate_wait")
  /\ UNCHANGED <<dgo_once, new_value, runs, crashed>>

\* Mutant of SpuriousWakeup: any return of the kernel wait counts as DONE.
mutant_no_recheck(t) ==
  /\ crashed = "no" /\ pc[t] = "asleep"
  /\ Goto(t, "idle")
  /\ UNCHANGED <<dgo_once, new_value, runs, crashed>>

\* The kernel may end the wait without a wake-up (EFAULT, interruption).
SpuriousWakeup(t) ==
  /\ crashed = "no" /\ pc[t] = "asleep"
  /\ Goto(t, "gate_wait")
  /\ UNCHANGED <<dgo_once, new_value, runs, crashed>>

-----------------------------------------------------------------------------
\* The steps of a thread inside dispatch_once that returns from its block.
Step(t) ==
  \/ dispatch_once_f_slow(t) \/ CalloutReturns(t)
  \/ _dispatch_once_gate_broadcast(t) \/ _dispatch_gate_broadcast_slow(t)
  \/ _dispatch_gate_wait_slow(t) \/ ulock_wait(t)

Next == \E t \in Threads :
          _dispatch_once(t) \/ Step(t) \/ CalloutRecurses(t) \/ SpuriousWakeup(t)

Spec == Init /\ [][Next]_vars

\* Every thread inside the call is scheduled, and the block terminates.
FairSpec == Spec /\ \A t \in Threads : WF_vars(Step(t))

-----------------------------------------------------------------------------
(* dispatch_once keeps its promise: the gate implements module Once, where   *)
(* the block runs once and nobody returns before it has run.                 *)
Abstract == INSTANCE Once WITH
  status <- runs, inside <- {t \in Threads : pc[t] # "idle"}
ImplementsOnce == Abstract!OnceSpec

(* No sleeper is forgotten (_dispatch_gate_broadcast_slow): once the word is *)
(* DONE, a thread sleeps only while the broadcast still has its wake to do.  *)
SleepersWillBeWoken ==
  (dgo_once = DLOCK_ONCE_DONE /\ \E t \in Threads : pc[t] = "asleep")
    => \E t \in Threads : pc[t] = "wake"

(* The only crash is the recursive call: no other thread is ever told that   *)
(* it locks recursively or that it broadcasts a gate it does not own.        *)
CrashOnlyOnRecursion ==
  crashed # "no" => \E t \in Threads : pc[t] = "callout" /\ dgo_once[1] = t

(* Every call returns, if the block does (dispatch_once_f_slow).             *)
CallsReturn ==
  \A t \in Threads : pc[t] # "idle" ~> (pc[t] = "idle" \/ crashed # "no")
=============================================================================
