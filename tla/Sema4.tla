------------------------------- MODULE Sema4 -------------------------------
(***************************************************************************)
(* The kernel semaphore that a dispatch semaphore or a dispatch group      *)
(* embeds: _dispatch_sema4_t of libdispatch (src/shims/lock.c), its port   *)
(* taken lazily from libplatform's per-thread semaphore cache              *)
(* (os_get_cached_semaphore), and the Mach semaphore behind the port       *)
(* (xnu osfmk/kern/sync_sema.c).  The modules that extend this one add the *)
(* program counters of the threads and compose these steps into actions.   *)
(***************************************************************************)
EXTENDS Naturals, Sequences

CONSTANTS
  Threads,          \* the threads that use the object
  Ports,            \* names the kernel may give to semaphore ports
  MACH_PORT_NULL,   \* the port field before the first slow-path call
  MACH_PORT_DEAD    \* the port field of a disposed object

ASSUME PortNames ==
  MACH_PORT_NULL # MACH_PORT_DEAD /\ {MACH_PORT_NULL, MACH_PORT_DEAD} \cap Ports = {}

VARIABLES
  sema,    \* the object's _dispatch_sema4_t: a port, NULL or DEAD
  cache,   \* __TSD_SEMAPHORE_CACHE of each thread: a port or NULL
  live,    \* the semaphore ports that exist in the kernel
  count,   \* posted signals no waiter has consumed, per port
  waitq    \* threads blocked in the kernel, in FIFO order, per port

sema4_vars == <<sema, cache, live, count, waitq>>

Sema4TypeOK ==
  /\ sema \in Ports \cup {MACH_PORT_NULL, MACH_PORT_DEAD}
  /\ cache \in [Threads -> Ports \cup {MACH_PORT_NULL}]
  /\ live \in SUBSET Ports
  /\ count \in [Ports -> Nat]
  /\ waitq \in [Ports -> Seq(Threads)]

Sema4Init ==
  /\ sema = MACH_PORT_NULL
  /\ cache = [t \in Threads |-> MACH_PORT_NULL]
  /\ live = {}
  /\ count = [p \in Ports |-> 0]
  /\ waitq = [p \in Ports |-> <<>>]

Members(q) == {q[i] : i \in DOMAIN q}

\* The queue q without its member t.
Without(q, t) ==
  [j \in 1..Len(q) - 1 |-> IF \E i \in 1..j : q[i] = t THEN q[j + 1] ELSE q[j]]

InKernel(t) == \E p \in Ports : t \in Members(waitq[p])

-----------------------------------------------------------------------------
(***************************************************************************)
(* Ports: their kernel objects, libplatform's cache, _dispatch_sema4_t.    *)
(***************************************************************************)

\* semaphore_create: the names a new semaphore, of count 0, may get.
semaphore_create == Ports \ live

\* semaphore_destroy; the name may be MACH_PORT_NULL, which destroys nothing.
semaphore_destroy(p) ==
  /\ live' = live \ {p}
  /\ count' = [q \in Ports |-> IF q = p THEN 0 ELSE count[q]]
  /\ UNCHANGED waitq

\* os_get_cached_semaphore: thread t's cached port, else a new one.
os_get_cached_semaphore(t) ==
  IF cache[t] # MACH_PORT_NULL THEN {cache[t]} ELSE semaphore_create

\* os_put_cached_semaphore: p displaces the port in t's cache.
os_put_cached_semaphore(t, p) ==
  /\ cache' = [cache EXCEPT ![t] = p]
  /\ semaphore_destroy(cache[t])

sema4_is_created == sema # MACH_PORT_NULL

\* Mutant of sema4_create_slow: a plain store instead of the compare-and-swap.
mutant_create_store(t) ==
  \E tmp \in os_get_cached_semaphore(t) :
    /\ live' = live \cup {tmp}
    /\ sema' = tmp
    /\ cache' = [cache EXCEPT ![t] = MACH_PORT_NULL]
    /\ UNCHANGED <<count, waitq>>

\* _dispatch_sema4_create_slow: publish a port by compare-and-swap; the loser
\* of the race puts its port back into its (just emptied) cache.
sema4_create_slow(t) ==
  \E tmp \in os_get_cached_semaphore(t) :
    /\ live' = live \cup {tmp}
    /\ IF sema = MACH_PORT_NULL
         THEN /\ sema' = tmp
              /\ cache' = [cache EXCEPT ![t] = MACH_PORT_NULL]
         ELSE /\ cache' = [cache EXCEPT ![t] = tmp]
              /\ UNCHANGED sema
    /\ UNCHANGED <<count, waitq>>

\* _dispatch_sema4_dispose by thread t: a created port goes to t's cache.
sema4_dispose(t) ==
  IF ~ sema4_is_created
    THEN UNCHANGED sema4_vars
    ELSE sema' = MACH_PORT_DEAD /\ os_put_cached_semaphore(t, sema)

-----------------------------------------------------------------------------
(***************************************************************************)
(* The Mach semaphore.  Its count of -1 ("we don't keep an actual count")  *)
(* is count = 0 here, whether or not a thread is still queued.             *)
(***************************************************************************)

\* The thread semaphore_signal(p) hands the signal to, if one is queued.
Woken(p) == IF waitq[p] = <<>> THEN {} ELSE {Head(waitq[p])}

semaphore_signal(p) ==
  /\ IF waitq[p] = <<>>
       THEN count' = [count EXCEPT ![p] = @ + 1] /\ UNCHANGED waitq
       ELSE waitq' = [waitq EXCEPT ![p] = Tail(@)] /\ UNCHANGED count
  /\ UNCHANGED <<sema, cache, live>>

\* semaphore_wait(p), when a signal was posted before the wait.
semaphore_take(p) ==
  /\ count[p] > 0
  /\ count' = [count EXCEPT ![p] = @ - 1]
  /\ UNCHANGED <<sema, cache, live, waitq>>

\* semaphore_wait(p), when thread t has to block.
semaphore_block(p, t) ==
  /\ count[p] = 0
  /\ waitq' = [waitq EXCEPT ![p] = Append(@, t)]
  /\ UNCHANGED <<sema, cache, live, count>>

\* Thread t leaves the kernel without a signal: its deadline passed
\* (KERN_OPERATION_TIMED_OUT) or the wait was interrupted (KERN_ABORTED).
semaphore_unblock(t) ==
  /\ InKernel(t)
  /\ waitq' = [p \in Ports |-> IF t \in Members(waitq[p]) THEN Without(waitq[p], t)
                               ELSE waitq[p]]
  /\ UNCHANGED <<sema, cache, live, count>>

=============================================================================
