# A verification of the concurrency and lifetime runtime

The repository collects the open-source releases of Apple's low-level libraries.
This directory keeps TLA+ specifications of the part of them that is hard to get
right and hard to test: the synchronisation primitives of **libdispatch**, the
kernel and **libplatform** services they stand on, and the locks, reference
counts, weak references and class initialization of the **Objective-C runtime**. The specifications are
translated from the C, C++ and Objective-C++ sources; TLC checks them on small
instances and TLAPS proves the central results for any number of threads.

## 1. Inventory

| part | source | state | operations | what is hard |
|---|---|---|---|---|
| kernel semaphore `_dispatch_sema4_t` | libdispatch `shims/lock.c`, libplatform `os/semaphore_private.h`, xnu `sync_sema.c` | port field, per-thread port cache, kernel count, wait queue | lazy create, dispose, signal, wait, timed wait | two threads create at once, recycled ports, interrupted waits |
| dispatch semaphore | libdispatch `semaphore.c` | `dsema_value`, `dsema_orig` | create, dispose, signal, wait | a timeout races a signal, `LONG_MAX` |
| dispatch group | libdispatch `semaphore.c` | `dg_value`, `dg_waiters`, notify list, reference count | enter, leave, wake, wait, notify, dispose | concurrent wakes, reuse of a group, last release inside `leave` |
| dispatch once | libdispatch `once.c`, `shims/lock.[ch]` | predicate word, or list of waiter frames | call, callout, broadcast, wait | lost wake-up, frames on the stacks of threads that return |
| unfair lock, thread event | libdispatch `shims/lock.[ch]` | lock word, event word | lock, trylock, tryunlock, unlock; signal, wait | waiters bit inherited by the next owner |
| `@synchronized` | objc4 `objc-sync.mm` | `SyncData` list, per-thread caches, `threadCount` | `objc_sync_enter`, `objc_sync_exit`, thread exit | a `SyncData` is recycled for another object |
| weak references | objc4 `objc-weak.mm`, `NSObject.mm` | weak table, side-table locks | store, load, move, clear at dealloc | load races dealloc, two locks in order |
| reference counts | objc4 `objc-object.h`, `NSObject.mm` | `extra_rc`, `has_sidetable_rc`, side table | retain, release, try-retain, dealloc | overflow to and underflow from the side table |
| autorelease pools | objc4 `NSObject.mm` | page list, pool stack | push, add, pop | pages kept and killed |
| `+initialize`, `+load` | objc4 `objc-initialize.mm`, `objc-loadmethod.mm` | class state, pending lists | initialise, wait, call | two threads wait for each other's classes, a fork leaves a class half initialized |
| blocks | libclosure `runtime.cpp` | flag word with reference count | copy, release, byref copy and release | latching count, deallocating bit |
| os locks | libplatform `os/lock.c` | lock word | unfair, handoff, nospin, spin locks; `os_once` | as for the unfair lock |
| queues, sources, mach channels, io, data | libdispatch `queue.c`, `source.c`, `mach.c`, `io.c`, `data.c` | `dq_state`, item lists | push, drain, suspend, resume, barrier sync | one state word packs suspension, width, barrier, role, QoS and owner |
| pthread mutexes, conditions, rwlocks | libpthread `src` | sequence words | lock, unlock, wait, signal | half of the protocol is in the kernel extension |
| CoreFoundation, Libc, libmalloc, rest of xnu | | | | not part of this project (section 7) |

## 2. How the parts stand on each other

Kernel semaphores carry dispatch semaphores and dispatch groups (`Sema4` under
`DispatchSemaphore` and `DispatchGroup`). Thread events carry the list build of
`dispatch_once` (`ThreadEvent` under `OnceList`). The unfair lock guards the side suspend
count of a queue (`UnfairLock` under `QueueSuspend`). Reference counts and weak references
share the isa and the side table with its lock (`ObjcRefcount` under `ObjcWeak`). Both
builds of `dispatch_once` implement one abstract specification, `Once`. `ObjcSync` and
`ObjcInitialize` stand on plain mutexes and monitors, which are not modelled on their own.

What would come next: the item list, barrier and drain parts of `dq_state`;
`dispatch_apply`; the reference counts of blocks; autorelease pools; proofs for `ObjcWeak`.

## 3. Modules

All modules take the interleaving view: a step is one atomic operation of the code, or
the code between two of them when it touches only the thread's own variables. The memory
model is sequentially consistent; the barriers the code names (`relaxed`, `acquire`,
`release`) are not told apart. A thread's position in the code is its `pc`; a call ends
when `pc` is `idle` again. A `DISPATCH_CLIENT_CRASH` or `_objc_fatal` is a value of a
variable (`status`, `crashed`, `fatal`) after which nothing happens.

| module | extends | models |
|---|---|---|
| `Sema4` | | the port of a `_dispatch_sema4_t`, the per-thread port cache, the Mach semaphore |
| `DispatchSemaphore` | `Sema4` | `dispatch_semaphore_t` |
| `DispatchGroup` | `Sema4` | `dispatch_group_t` |
| `Once` | | abstract: one block, run once, before anybody returns |
| `OnceGate` | instance of `Once` | `dispatch_once` on a gate lock |
| `ThreadEvent` | | `dispatch_thread_event_s` on `__ulock_wait` |
| `OnceList` | `ThreadEvent`, instance of `Once` | `dispatch_once` on a list of waiter records |
| `UnfairLock` | | `dispatch_unfair_lock_s` on `__ulock_wait` |
| `QueueSuspend` | `UnfairLock` | suspension and activation of a queue or a source |
| `ObjcSync` | | `objc_sync_enter`, `objc_sync_exit` |
| `ObjcRefcount` | | retain, release and deallocation with a nonpointer isa |
| `ObjcWeak` | `ObjcRefcount` | `__weak` variables |
| `ObjcInitialize` | | the `+initialize` protocol |
| `...Proofs`, `DispatchGroupInvariant` | the module each names (`DispatchGroup`) | theorems; the first half of the invariant of `DispatchGroup` |
| `MC...` | the module each names | constants and symmetry sets for TLC; `MCDispatchGroupReuse` adds a history variable |

**Sema4.** `sema` is the port field, `MACH_PORT_NULL` until the first slow path and
`MACH_PORT_DEAD` after disposal. `sema4_create_slow` takes a port from the thread's cache
or a new one from the kernel and installs it by compare-and-swap; the loser's port goes
back to its cache. The Mach semaphore has a count of posted signals and a FIFO queue. A
signal to a queued thread is a hand-off: the thread leaves the queue in the same step,
as `semaphore_signal_internal` does under the semaphore's lock. A wait ends without a
signal by timeout or interruption (`semaphore_unblock`). The module has no next-state
relation of its own: the two modules above it combine its steps with their program counters.

**DispatchSemaphore.** `dispatch_semaphore_signal` and `dispatch_semaphore_wait` are the
atomic update with the tests of its result. The slow paths follow as
`SignalTestCreated`, `SignalCreate`, `SignalPost` and `WaitTestCreated`, `WaitCreate`,
`KernelWait`, `KernelTimeout`, `KernelAborted`, `UndoDecrement`. `dsema_value` is a `long`
of width `LONG_MAX`, and its increment wraps. A timeout is one of `now`, `finite` and
`forever`; a finite deadline may pass at any moment. The semaphore can be disposed and
created again, which recycles its port through the caches. `permits` is a history
variable.

**DispatchGroup.** `dispatch_group_enter`, `dispatch_group_leave`, `dispatch_group_wait`,
`dispatch_group_notify` and the steps of `_dispatch_group_wake`, one per atomic operation,
run by whoever finds the group empty. The notify list is the `os_mpsc` list of
`inline_internal.h`: the producer exchanges the tail first and stores the link, or the
head, later. The reference count is that of `_dispatch_retain` and `_dispatch_release_n`.
A client makes calls while it holds its reference, or balances an enter
(`dispatch_group_leave` with `Entered > 0`), as a work item of the group would.
A call of `dispatch_group_wait` that returns at once changes no state and is no step.

**OnceGate.** The word is a pair of owner bits and `DLOCK_WAITERS_BIT`. A sleeping thread
sleeps on the word as `__ulock_wait` does: only if the word has the value it expects, and
possibly ending without a wake-up. `CalloutRecurses` is the recursive call, which the
gate detects.

**OnceList, ThreadEvent.** Every waiter has a record on its own stack, identified with its
thread; it exists until the thread's call returns. The link of a record is
stored after the record is published, and the signalling thread waits for it. The events
of the records are counters that wrap at `UINT32_MAX`. The list build does not detect a
recursive call (the source says that it deadlocks), and the model's block makes none.

**ObjcSync.** `id2data` is followed through its three stages: the one-entry fast cache, the
`SyncCache`, and the shared list under its lock. `threadCount` is decremented without that
lock, as in the code, and the mutex of a `SyncData` is released afterwards. The module
describes the objects that fall on one of the striped lists, since stripes share nothing
but the per-thread caches. `@synchronized(nil)` does nothing and is left out. The usage `CHECK`
of `id2data` has no caller.

**UnfairLock.** The word is the owner with the waiters and the failed-trylock bit. The
fast paths are one compare-and-swap; `_dispatch_unfair_lock_lock_slow` is one turn of its
loop. The kernel part is `__ulock_wait`: compare the word and sleep, possibly returning
without a wake-up. An unlock clears the whole word, and the thread it wakes sets the waiters
bit again when it takes the lock. The module has no clients of its own.

**QueueSuspend.** `dq_state` is reduced to the inline count `sc`, the bit that says that the
side count is in use, and the two activation bits. `dispatch_suspend` and `dispatch_resume`
are atomic loops on the word; their slow paths move `HALF` suspensions between the word and
`side` under the side lock, and start again when the word has changed. `refs` counts the
references of a suspended or inactive queue. Setters suspend an inactive queue by
`_dispatch_queue_try_inactive_suspend`. The override code, which only tries the side lock,
is there because a failed attempt leaves a bit for the owner. Clients balance their calls.

**ObjcRefcount, ObjcWeak.** The isa is a record of `extra_rc` and the three bits that
deallocation reads. An exclusive load and store is one step; what is stored against a value
loaded earlier (the borrow of `rootRelease`) is several. `free` is a history variable: the
references no call is using. A call takes one, so a client never touches an object it has
no reference to, except through a weak variable. `storeWeak` reads the location, takes one or
two side-table locks in address order, compares the location again and does the rest in one
step under the locks. An object that is freed may be allocated again at the same address.
`-dealloc` may store its own object into a weak variable.

**ObjcInitialize.** A thread's recursion of `_class_initialize` is a stack of frames. A section
under `classInitLock` is one step; `isInitializing` and `isInitialized` outside it are
separate reads. A `+initialize` messages the classes `Messages` gives it, in any order, and
returns, throws, or forks. A fork keeps one thread and all state; `MultithreadedForkChild` is set
in the child unless the process runs with `DisableInitializeForkSafety` (`forked` 1 or 2). The
classes of `Messages` that a `+initialize` does message, and the option, are left open.

## 4. Runs

Counts of states are distinct states, up to symmetry where the run uses it.

| run | instance | shows |
|---|---|---|
| `semaphore` | 2 threads, 3 ports, `LONG_MAX` 2, one interruption, weak fairness; 65016 states | `SignalConservation`, `NoOverAdmission`, `NoStrandedWaiter`, `PortDiscipline`; `WaitersAdmitted`: nobody stays blocked while permits are left |
| `semaphore_timed` | as above, no interruption | violation of `TimedWaitReturns`, below |
| `group` | 2 threads, 2 notify blocks, timed and untimed waits, weak fairness; 410245 states | `NoUseAfterFree`, `WaitersConserved`, `GroupAtRest`, `NotifyListSafe`, `EmptyGroupDrains` |
| `group_reuse` | 3 threads, 1 notify block | violation of `NotifySawEmpty`, below |
| `once_gate` | 4 threads, weak fairness; 4693 states | `SleepersWillBeWoken`, `CrashOnlyOnRecursion`, `ImplementsOnce`, `CallsReturn` |
| `once_list` | 3 threads, `UINT32_MAX` 3, weak fairness; 8843 states | `RecordsExist`, `OverridesBalanced`, `ImplementsOnce`, `CallsReturn` |
| `sync` | 2 threads, 3 objects, nesting 3, one exit without enter; 1591385 states | `MutualExclusion`, `OneDataPerObject`, `ThreadCountConserved`, `LockCountsAgree` |
| `sync_bad_exit` | 2 threads, 1 object | violation of `ThreadCountIsUsers`, below |
| `queue_suspend` | 2 threads, an inline count of 2 bits, 8 suspensions, weak fairness; 32815 states | `NoForgottenWaiter`, `SuspensionsConserved`, `NoSpuriousCrash`, `ActivatedOnce`, `QueueOutlivesCalls`, `CallsReturn` |
| `queue_setter` | as above, setters called on a full count | violation of `SettersSafeBelowLimit`, below |
| `objc_weak` | 2 threads, 2 objects, 1 weak variable, an inline count of 2 bits, weak fairness; 432291 states | `RetainsConserved`, `WeakTableExact`, `NoDanglingAccess`, `CallsReturn` |
| `initialize` | 2 threads, 5 classes, a fork, weak fairness; 186288 states | `InitializedInOrder`, `MessagesWait`, `StateNotBroken`, `MessagesArrive` |

`semaphore`, `queue_suspend` and `objc_weak` also check their module's `TypeOK`. `WaitersConserved`,
`RecordsExist`, `LockCountsAgree` and `InitializedInOrder` contain the types of theirs.

**Where code and documentation differ.**

- `semaphore_timed`: `semaphore.h` says that a wait with a timeout "Returns zero on success, or
  non-zero if the timeout occurred." A thread that timed out and then finds the count no
  longer negative waits for the signal that must be on its way, without a deadline
  (`semaphore.c:143`). A thread that calls `dispatch_semaphore_wait` later can take that signal
  in the kernel first. The timed-out call is then one of the ordinary waiters and stays until
  somebody signals again. The count itself stays correct (`SignalConservation`).
- `group_reuse`: `group.h` says that a notify block is submitted "once all blocks associated with
  the dispatch group have completed". The wake takes the notify list some time after the
  count was zero. When the group is entered again in between, a block added after that
  is submitted while the new work is still in the group.
- `sync_bad_exit`: `objc-sync.mm:36` calls `threadCount` the "number of THREADS using this block".
  An `objc_sync_exit` without an enter, on an object some other thread has used, increments
  it and returns an error without taking the increment back: in the run one thread is inside,
  and the count is two. When that thread has left, one remains, and the `SyncData` is never
  recycled. `ThreadCountConserved` shows that this is the only discrepancy.
- `queue_setter`: the comment at `inline_internal.h:1084` describes the crash of a setter called
  on an inactive object with "128+" suspensions. The inline count has 6 bits and the addition
  at line 1080 is not checked: with 63 suspensions it wraps to zero without that crash, and
  a balanced resume crashes later. Below that limit the code is right (section 6).

## 5. Bounds and fairness

- *Threads.* Two give a signaller and a waiter, a load and a deallocation, or an owner and
  a thread that comes in between; the races the sources describe need no more, save those
  of `dispatch_once` and of group reuse, which have three or four. Results that are proved
  (section 6) do not depend on the number.
- *Ports.* One more than threads for the semaphore, so that a thread can always create one;
  as many as threads for the single group of `group`.
- *LONG_MAX, UINT32_MAX.* Small enough that the overflow of a count is reached. The code's
  waiters cannot outnumber `LONG_MAX`, nor can the model's (`SemaphoreConstants`).
- *Interruptions.* `MaxAborts` bounds interrupted kernel waits of the semaphore; elsewhere
  they are unbounded. The initial values include -1, which creation refuses.
- *ObjcSync.* An object never has two `SyncData`, so `MaxData`, one for each object, is
  enough. `CacheSlots` is smaller than in the code so that the cache has
  to grow when a thread is inside three objects. `MaxDepth` and `MaxBadExits` bound what the client does.
- *QueueSuspend.* `HALF` is 2 instead of 32. `MaxSuspends` lets the side count take two
  halves. `SetterLimit` is the largest inline count at which a setter is called. With two threads
  the side lock has one sleeper at a time; `NoForgottenWaiter` is proved for any number.
- *ObjcWeak.* `RC_HALF` is 2, so `extra_rc` holds 3. `MaxRetains` lets one object overflow into
  the side table; the other has one reference at a time. The side table of nil lies
  between those of the objects in the lock order.
- *ObjcInitialize.* The hierarchy is that of the note at the head of `objc-initialize.mm`
  about a deadlock in an earlier version, with one class beside it that messages it and is
  messaged by it. A process forks at most once: a second fork could only remove threads again.
- *Symmetry* is used only in runs without temporal properties. Deadlock is not checked:
  a process may end by a crash the code detects, or leave a thread waiting for a
  signal that no client owes.
- *Fairness* is weak fairness of `Step(t)` for each thread: a runnable thread that is inside a
  call is scheduled eventually, and a `dispatch_once` block or a `+initialize` method ends. For the semaphore, deadlines
  pass (`KernelTimeout`). No thread is obliged to make a call, and spurious wake-ups and
  interruptions are never required. Strong fairness is nowhere assumed: `WaitersAdmitted` does
  not promise a turn to a waiter that others overtake, only that it is not left behind
  while permits stay available. `CallsReturn` of `QueueSuspend` and `ObjcWeak` says that calls return
  unless new calls come for ever, since their retries and their locks promise no turn.

## 6. Proofs

TLAPS checks every theorem to its leaves. Each safety result follows from an inductive
invariant of its proof module; a theorem holds for every value of the constants that the
named assumptions allow, bounds included.

**Semaphore** (`DispatchSemaphoreProofs`; any finite set of threads no larger than `LONG_MAX`,
any ports, any bound on interruptions). `SignalConservation` is not inductive: a signal handed
to a thread, or a thread that leaves the kernel's queue, keeps the balance only if the queue
holds exactly the blocked threads, once each, and only on the installed port. `IInv`
therefore adds:

- `QueueInv`: blocked threads and kernel queues agree; a queue with threads has no signal
  left; other ports are at rest;
- `PortInv`: a port is installed or in one thread's cache, never in two places;
- `PermitsInv`: `permits` is the count plus the threads on the slow path.

`NextType`, `NextPorts`, `NextQueues` and `NextBalance` each preserve one conjunct, action by
action. The cardinalities change by one element at a time (lemma `Card`); the first lemmas say what
removing a member does to a queue without repetitions. Theorems: `TypeCorrect`,
`SignalsConserved`, `NeverOverAdmits`, `NoLostWakeup`, `PortsDisciplined`.

**Group** (`DispatchGroupInvariant`, `DispatchGroupProofs`; any finite set of threads, any ports, any set of notify blocks,
any width of long, any number of groups one after the other). None of the four properties is
inductive, and no two are independent: a group may be freed because of who holds its references, the
references depend on who owns the notify list, and the wake-ups on all of it. `IInv` has a part
for each piece of state that several threads change at once:

- `FrameInv`: which locals a thread uses at which `pc`;
- `QueueInv`, as for the semaphore, and `WaiterInv`, the balance of `WaitersConserved`;
- `RefInv`: the references are those of the client, of a positive count, of each leave that made
  it zero, of the notify list and of each wake that took a list. An enter and a notify take
  theirs one step after the exchange; `EnterInv` and `OwnerInv` say that one thread at a time
  is in between, and `StatusInv` that a group whose last reference goes has nobody left in it;
- `PushedInv`, `FirstInv`, `LinkInv`, `TailInv`: the lists. `Linked` counts a link as there
  from the exchange of the tail on, before it is stored. A block has one successor
  and one predecessor, no block is first of two lists, and nothing follows a tail;
- `ReachInv`: a block that was not submitted is first of a list or follows another one, and links do
  not lead in circles: there is a rank that grows along them, which stands in for
  an induction over the list;
- `WakeInv`: of a list or of waiters in an empty group somebody is bound to take care.

At rest the block of least rank that was not submitted would be first of a list, and nobody holds one;
with the wake-ups this gives `GroupAtRest`. Theorems: `Invariance`, `GroupMemory`,
`WaitersMatched`, `NotifyOnce`, `RestingGroup`.

**dispatch_once on a gate** (`OnceGateProofs`; any set of threads). `IInv` says that the owner
bits name exactly the thread in the callout or before the broadcast, that the word and the
history of the block agree, and that a sleeper's waiters bit is set. Theorems: `TypeCorrect`,
`NoForgottenSleeper`, `OnlyRecursionCrashes`, and `GateImplementsOnce`, the refinement of `Once`.

**dispatch_once on a list** (`OnceListProofs`; any set of threads, any counter width). `IInv` says
that there is one owner until the exchange, that the predicate and the history of the block
agree, and that an event different from what its own
waiter left in it means that the exchange has been made: a woken waiter may return because
only the thread that stored `DONE` signals. Theorems: `TypeCorrect` and `ListImplementsOnce`.
That no record is touched after its thread has returned needs `ListInv` besides: the pointers
(the predicate, the links of the listed records and the runner's `next`) reach listed records or
the tail, no two of them the same one (`Chain`), so a record that the runner takes off the list is
out of everybody else's reach and its event is signalled once; and all records
that remember a runner remember the same thread (`Boosts`).
Theorems: `RecordsLive`, `BoostsBalanced`.

**Unfair lock and queue suspension** (`QueueSuspendProofs`; any finite set of threads, any
`HALF`, any bound on suspensions). `LockInv` says that the owner bits name the thread that holds
the lock, that an unlocked word has no bits set, and that a thread that waits did so on a word with the
waiters bit. Lemma `LockSteps` shows that each step of the queue is a step of
the lock or leaves it alone, so `LockInv` holds in both modules. `QueueInv` adds to the balance of
suspensions:

- `Places`: who moves suspensions holds the side lock; only the thread that drops
  the last references is in a call of a released queue;
- `Transfer`: the side count is a multiple of `HALF` and one transfer is under way at most;
- `Phase`: the activation bits, the finalizing thread and `finalized` agree;
- `References`: the queue keeps the references its suspensions and its activation stand for.

Theorems: `LockOwned`, `WaitersRemembered`, `SideLockWakes`; and, as long as setters are called
with room in the inline count (`SetterLimit < Full`, the limit of run `queue_setter`),
`QueueTypeCorrect`, `NoSuspensionLost`, `BalancedClientsSafe`, `ActivationOnce`, `QueueAlive`.

**`+initialize`** (`ObjcInitializeProofs`; any threads, any
class hierarchy, any messages between `+initialize` methods). The order of initialization is a
statement about flags; what keeps it is who is responsible for a class. `IInv` says that a frame
below the top of a stack waits for its superclass or runs `+initialize` (`Stacks`); that a frame past its first step
has its superclass initialized or on its own thread's list (`Tops`); that
a class on a thread's list is running `+initialize` on that thread, is being made up
for after a fork, or waits in the pending map for a superclass on the same list (`Opens`,
`Holders`, `Pending`); and that an initialized class has an initialized superclass (`Order`). The
child of a fork is the hard part: two threads may then have one class on their lists.
`_finishInitializing` is a recursion over the pending map; the proof uses that the set it
finishes contains what waits for its members, and that each member but the first waits for
another (`FinishingClosed`). Theorems:
`InitializeOrder`, `MessagesWaitForInitialize`, `InitializeStateSound`.

**`@synchronized`** (`ObjcSyncProofs`; any finite set of threads,
any objects, any nesting, any number of exits without an enter). `MutualExclusion` follows
from lock counts that agree with the mutex, which follows from caches that never name
a recycled `SyncData`, which follows from exact thread counts. `SyncInv` has them all at once:

- `CacheOK`: no `SyncData` is twice in a thread's caches;
- `Place`: what a thread in `id2data` has learnt of the list, for as long as it relies on it;
- `Counts`: a cached lock count is the client's nesting and the depth of the mutex, but for the
  step between the count and the mutex;
- `Debts`: the owner of a mutex has it in its cache or is about to unlock it;
- `Listed`, `Free`, `OneDataPerObject`, `ThreadCountConserved` of the shared list.

A step of one thread keeps what the invariant says of another when it stays within `Frame`: it
changes the list only under the list's lock, gives a `SyncData` to another object only if
nobody uses it, and touches no mutex of others (lemma `OthersKept`). The rest is one lemma per
step. Theorems: `SynchronizedExcludes`, `OneLockPerObject`, `ThreadCountsExact`,
`LockCountsSound`.

Assumptions: that the special values of ports, owner bits, predicate words and nil are distinct
from one another and from ordinary ones (`PortNames`, `OwnerBits`, `PredicateWords`,
`UnfairLockConstants`, `InitializeConstants`, `SyncConstants`); the ranges of the numeric constants
(`SemaphoreConstants`, `GroupConstants`, `MaxValue`, `QueueConstants`, `SyncConstants`); that a root class has a trivial
`+initialize` and no class is its own superclass (`InitializeConstants`).

Only model-checked:

- all liveness (`WaitersAdmitted`, `EmptyGroupDrains`, `MessagesArrive`, `CallsReturn` of four
  modules), which is out of the prover's reach;
- `ObjcWeak` and `ObjcRefcount` (`RetainsConserved`, `WeakTableExact`, `NoDanglingAccess`): the
  balance of references is a sum over calls in three dozen places, and every one of them
  changes with the isa, the side table and the weak table at once;
- how far `MessagesArrive` goes. `objc-initialize.mm` waits without a deadline (line 583), so two
  threads that initialize unrelated classes whose `+initialize` message each other stop for good
  (`Crossed`), and so does the child of a fork in a process with
  `DisableInitializeForkSafety` that needs a class whose thread stayed in the parent (`Orphaned`).
  Both occur in the instance. The property says that these are the only ways a message can
  be stuck, and that there are none within one chain of superclasses;
- the four violations, whose counterexamples are TLC's.

## 7. Not modelled

- Of the modelled parts: weak memory order; the POSIX, futex and Win32 builds of
  `_dispatch_sema4_t` and thread events; the LIFO policy; a thread that exits while it holds
  a `@synchronized` lock (`_destroySyncCache`); the queue that a notify block or
  `dispatch_group_async` is submitted to; the saturation of a side-table count
  (`SIDE_TABLE_RC_PINNED`), which takes some 2^61 retains;
  the retry of `storeWeak` that initializes the class of the new object.
- The parts that section 2 says would come next.
- Sources, mach channels, io and data of libdispatch: they stand on queues and on kernel
  events. Vouchers, tracing and the allocator: bookkeeping for other services.
- pthread mutexes, conditions and work queues: half of each protocol is in the kernel extension.
- Method caches and message dispatch: readers without locks, in assembly.
- libmalloc, CoreFoundation, Libc and xnu apart from the Mach semaphore: sequential libraries
  and a kernel, each a project of its own.
