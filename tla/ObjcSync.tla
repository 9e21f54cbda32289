------------------------------ MODULE ObjcSync ------------------------------
(***************************************************************************)
(* @synchronized of the Objective-C runtime (objc4 runtime/objc-sync.mm):  *)
(* objc_sync_enter and objc_sync_exit find the SyncData of an object in    *)
(* the thread's one-entry fast cache, in its SyncCache, or in the shared   *)
(* list, where a SyncData no thread uses is given to another object.  The  *)
(* module describes the objects that share one of the striped lists.       *)
(***************************************************************************)
EXTENDS Naturals, Sequences, FiniteSets, Functions

CONSTANTS
  Threads,
  Objects,      \* objects whose address falls on the same list
  NULL,
  CacheSlots,   \* slots of a new SyncCache (4 in the code)
  MaxData,      \* bound: SyncData allocated in all
  MaxDepth,     \* bound: an enter begins with fewer than these not exited
  MaxBadExits   \* bound: objc_sync_exit calls without an enter

ASSUME SyncConstants ==
  /\ IsFiniteSet(Threads) /\ NULL \notin Threads \cup Objects
  /\ CacheSlots \in Nat \ {0} /\ MaxData \in Nat /\ MaxDepth \in Nat /\ MaxBadExits \in Nat

VARIABLES
  list,          \* the SyncData of the list, newest last
  object,        \* SyncData.object
  threadCount,   \* SyncData.threadCount
  mutex,         \* SyncData.mutex: its owner and how often it is locked
  lock,          \* the thread that holds SyncList.lock
  fast,          \* the fast cache of each thread: SYNC_DATA and SYNC_COUNT keys
  cache,         \* SyncCache.list[0 .. used - 1] of each thread
  allocated,     \* SyncCache.allocated, 0 without a cache
  held,          \* history: enters minus exits that returned success
  leaked,        \* history: threadCount increments of failed exits
  badExits,      \* failed exits so far
  fatal,         \* the _objc_fatal that ended the process
  pc, local      \* where each thread is; object, why, result, p, firstUnused

list_vars == <<list, object, threadCount>>
cache_vars == <<fast, cache, allocated>>
ghost_vars == <<held, leaked, badExits>>
vars == <<list_vars, mutex, lock, cache_vars, ghost_vars, fatal, pc, local>>

Data == 1..MaxData
Items == [data : Data, lockCount : Nat \ {0}]
NoItem == [data |-> 0, lockCount |-> 0]
PCs == {"idle", "id2data", "decrement", "lock", "walk", "unlock", "save", "mutex_lock",
        "try_unlock"}
Locals == [obj : Objects \cup {NULL}, why : {"ACQUIRE", "RELEASE"}, result : Data \cup {0},
           p : Nat, firstUnused : Data \cup {0}]

TypeOK ==
  /\ list \in Seq(Data)
  /\ object \in [Data -> Objects \cup {NULL}] /\ threadCount \in [Data -> Nat]
  /\ mutex \in [Data -> [owner : Threads \cup {NULL}, depth : Nat]]
  /\ lock \in Threads \cup {NULL}
  /\ fast \in [Threads -> Items \cup {NoItem}] /\ cache \in [Threads -> Seq(Items)]
  /\ allocated \in [Threads -> Nat]
  /\ held \in [Threads -> [Objects -> Nat]] /\ leaked \in [Data -> Nat]
  /\ badExits \in 0..MaxBadExits /\ fatal \in {"no", "buggy_cache", "buggy"}
  /\ pc \in [Threads -> PCs] /\ local \in [Threads -> Locals]

Init ==
  /\ list = <<>>
  /\ object = [d \in Data |-> NULL] /\ threadCount = [d \in Data |-> 0]
  /\ mutex = [d \in Data |-> [owner |-> NULL, depth |-> 0]]
  /\ lock = NULL
  /\ fast = [t \in Threads |-> NoItem] /\ cache = [t \in Threads |-> <<>>]
  /\ allocated = [t \in Threads |-> 0]
  /\ held = [t \in Threads |-> [o \in Objects |-> 0]]
  /\ leaked = [d \in Data |-> 0] /\ badExits = 0 /\ fatal = "no"
  /\ pc = [t \in Threads |-> "idle"]
  /\ local = [t \in Threads |-> [obj |-> NULL, why |-> "ACQUIRE", result |-> 0,
                                 p |-> 0, firstUnused |-> 0]]

At(t, at) == fatal = "no" /\ pc[t] = at
Goto(t, to) == pc' = [pc EXCEPT ![t] = to]
Call(t, o, why) ==
  /\ local' = [local EXCEPT ![t] = [obj |-> o, why |-> why, result |-> 0,
                                    p |-> 0, firstUnused |-> 0]]
  /\ Goto(t, "id2data")
Return(t) ==
  /\ local' = [local EXCEPT ![t] = [obj |-> NULL, why |-> "ACQUIRE", result |-> 0,
                                    p |-> 0, firstUnused |-> 0]]
  /\ Goto(t, "idle")

-----------------------------------------------------------------------------
\* The enters that are not exited yet, of all threads.
Nesting == FoldFunction(+, 0, [t \in Threads |-> FoldFunction(+, 0, held[t])])

objc_sync_enter(t, o) ==
  /\ At(t, "idle") /\ Nesting < MaxDepth
  /\ Call(t, o, "ACQUIRE")
  /\ UNCHANGED <<list_vars, mutex, lock, cache_vars, ghost_vars, fatal>>

\* An exit that matches an enter, or one that does not.
objc_sync_exit(t, o) ==
  /\ At(t, "idle")
  /\ IF held[t][o] > 0
       THEN held' = [held EXCEPT ![t][o] = @ - 1] /\ UNCHANGED badExits
       ELSE badExits < MaxBadExits /\ badExits' = badExits + 1 /\ UNCHANGED held
  /\ Call(t, o, "RELEASE")
  /\ UNCHANGED <<list_vars, mutex, lock, cache_vars, leaked, fatal>>

-----------------------------------------------------------------------------
(***************************************************************************)
(* id2data.  A hit in a cache needs no lock; a miss walks the list, one    *)
(* SyncData per step, under SyncList.lock.                                 *)
(***************************************************************************)
Matches(t, item) == item # NoItem /\ object[item.data] = local[t].obj
Slots(t) == {i \in DOMAIN cache[t] : Matches(t, cache[t][i])}

\* Mutant of Updated: a nested enter is not counted.
mutant_nested_uncounted(t, item) ==
  IF local[t].why = "ACQUIRE" THEN item
  ELSE IF item.lockCount = 1 THEN NoItem
  ELSE [item EXCEPT !.lockCount = @ - 1]

\* What a hit leaves of its item.
Updated(t, item) ==
  IF local[t].why = "ACQUIRE" THEN [item EXCEPT !.lockCount = @ + 1]
  ELSE IF item.lockCount = 1 THEN NoItem
  ELSE [item EXCEPT !.lockCount = @ - 1]

\* What a hit does besides.
Hit(t, item) ==
  /\ fatal' = IF threadCount[item.data] = 0 THEN "buggy_cache" ELSE "no"
  /\ local' = [local EXCEPT ![t].result = item.data]
  /\ Goto(t, IF local[t].why = "ACQUIRE" THEN "mutex_lock"
             ELSE IF Updated(t, item) = NoItem THEN "decrement" ELSE "try_unlock")

FastCacheHit(t) ==
  /\ At(t, "id2data") /\ Matches(t, fast[t])
  /\ Hit(t, fast[t])
  /\ fast' = [fast EXCEPT ![t] = Updated(t, @)]
  /\ UNCHANGED <<list_vars, mutex, lock, cache, allocated, ghost_vars>>

\* fetch_cache(NO): a full cache is doubled, a missing one is not created.
fetch_cache(t) ==
  allocated' = [allocated EXCEPT ![t] = IF @ = Len(cache[t]) THEN 2 * @ ELSE @]

\* An emptied slot is filled with the last item: cache->list[--cache->used].
CacheHit(t) ==
  /\ At(t, "id2data") /\ ~ Matches(t, fast[t])
  /\ fetch_cache(t)
  /\ \E i \in Slots(t) :
       LET list_t == cache[t]
           last == Len(list_t)
           item == Updated(t, list_t[i])
       IN /\ \A j \in Slots(t) : i <= j
          /\ Hit(t, list_t[i])
          /\ cache' = [cache EXCEPT ![t] =
                         IF item # NoItem THEN [list_t EXCEPT ![i] = item]
                         ELSE SubSeq([list_t EXCEPT ![i] = list_t[last]], 1, last - 1)]
  /\ UNCHANGED <<list_vars, mutex, lock, fast, ghost_vars>>

\* Mutant of DecrementThreadCount: the SyncData is never given up.
mutant_no_decrement(t) ==
  /\ At(t, "decrement") /\ Goto(t, "try_unlock")
  /\ UNCHANGED <<list_vars, mutex, lock, cache_vars, ghost_vars, fatal, local>>

\* OSAtomicDecrement32Barrier(&result->threadCount), without the lock.
DecrementThreadCount(t) ==
  /\ At(t, "decrement")
  /\ threadCount' = [threadCount EXCEPT ![local[t].result] = @ - 1]
  /\ Goto(t, "try_unlock")
  /\ UNCHANGED <<list, object, mutex, lock, cache_vars, ghost_vars, fatal, local>>

CacheMiss(t) ==
  /\ At(t, "id2data") /\ ~ Matches(t, fast[t]) /\ Slots(t) = {}
  /\ fetch_cache(t)
  /\ Goto(t, "lock")
  /\ UNCHANGED <<list_vars, mutex, lock, fast, cache, ghost_vars, fatal, local>>

\* Mutant of SpinLock: the list is walked without the lock.
mutant_walk_unlocked(t) ==
  /\ At(t, "lock")
  /\ local' = [local EXCEPT ![t].p = Len(list)]
  /\ Goto(t, "walk")
  /\ UNCHANGED <<list_vars, mutex, lock, cache_vars, ghost_vars, fatal>>

SpinLock(t) ==
  /\ At(t, "lock") /\ lock = NULL
  /\ lock' = t
  /\ local' = [local EXCEPT ![t].p = Len(list)]
  /\ Goto(t, "walk")
  /\ UNCHANGED <<list_vars, mutex, cache_vars, ghost_vars, fatal>>

\* Mutant of WalkList: the walk ends at the first unused SyncData.
mutant_stop_at_unused(t) ==
  LET p == list[local[t].p]
  IN /\ At(t, "walk") /\ local[t].p > 0
     /\ IF object[p] = local[t].obj
          THEN /\ threadCount' = [threadCount EXCEPT ![p] = @ + 1]
               /\ local' = [local EXCEPT ![t].result = p]
               /\ Goto(t, "unlock")
          ELSE /\ local' = [local EXCEPT ![t].p = IF threadCount[p] = 0 THEN 0 ELSE @ - 1,
                                         ![t].firstUnused = IF threadCount[p] = 0 THEN p ELSE @]
               /\ UNCHANGED <<threadCount, pc>>
     /\ UNCHANGED <<list, object, mutex, lock, cache_vars, ghost_vars, fatal>>

\* The loop over the list: a match is taken, the first unused one remembered.
WalkList(t) ==
  LET p == list[local[t].p]
  IN /\ At(t, "walk") /\ local[t].p > 0
     /\ IF object[p] = local[t].obj
          THEN /\ threadCount' = [threadCount EXCEPT ![p] = @ + 1]
               /\ local' = [local EXCEPT ![t].result = p]
               /\ Goto(t, "unlock")
          ELSE /\ local' = [local EXCEPT ![t].p = @ - 1,
                                         ![t].firstUnused = IF @ = 0 /\ threadCount[p] = 0
                                                              THEN p ELSE @]
               /\ UNCHANGED <<threadCount, pc>>
     /\ UNCHANGED <<list, object, mutex, lock, cache_vars, ghost_vars, fatal>>

\* The end of the list: give up, reuse the unused SyncData, or allocate one.
EndOfList(t) ==
  LET why == local[t].why
      d == IF local[t].firstUnused # 0 THEN local[t].firstUnused ELSE Len(list) + 1
  IN /\ At(t, "walk") /\ local[t].p = 0
     /\ IF why = "RELEASE"
          THEN UNCHANGED <<list_vars, local>>
          ELSE /\ d \in Data
               /\ object' = [object EXCEPT ![d] = local[t].obj]
               /\ threadCount' = [threadCount EXCEPT ![d] = 1]
               /\ list' = IF d > Len(list) THEN Append(list, d) ELSE list
               /\ local' = [local EXCEPT ![t].result = d]
     /\ Goto(t, "unlock")
     /\ UNCHANGED <<mutex, lock, cache_vars, ghost_vars, fatal>>

SpinUnlock(t) ==
  /\ At(t, "unlock")
  /\ lock' = NULL
  /\ Goto(t, "save")
  /\ UNCHANGED <<list_vars, mutex, cache_vars, ghost_vars, fatal, local>>

\* After done: an exit fails; an enter puts its SyncData into a cache, which
\* fetch_cache(YES) creates if there is none.
ExitFails(t) ==
  /\ At(t, "save") /\ local[t].why = "RELEASE"
  /\ leaked' = IF local[t].result = 0 THEN leaked
               ELSE [leaked EXCEPT ![local[t].result] = @ + 1]
  /\ Return(t)
  /\ UNCHANGED <<list_vars, mutex, lock, cache_vars, held, badExits, fatal>>

SaveInCache(t) ==
  LET item == [data |-> local[t].result, lockCount |-> 1]
  IN /\ At(t, "save") /\ local[t].why = "ACQUIRE"
     /\ fatal' = IF object[local[t].result] = local[t].obj THEN "no" ELSE "buggy"
     /\ IF fast[t] = NoItem
          THEN fast' = [fast EXCEPT ![t] = item] /\ UNCHANGED <<cache, allocated>>
          ELSE /\ cache' = [cache EXCEPT ![t] = Append(@, item)]
               /\ allocated' = [allocated EXCEPT ![t] = IF @ = 0 THEN CacheSlots ELSE @]
               /\ UNCHANGED fast
     /\ Goto(t, "mutex_lock")
     /\ UNCHANGED <<list_vars, mutex, lock, ghost_vars, local>>

-----------------------------------------------------------------------------
\* data->mutex.lock(), the recursive mutex of objc_sync_enter.
MutexLock(t) ==
  LET d == local[t].result
  IN /\ At(t, "mutex_lock") /\ mutex[d].owner \in {t, NULL}
     /\ mutex' = [mutex EXCEPT ![d] = [owner |-> t, depth |-> @.depth + 1]]
     /\ held' = [held EXCEPT ![t][local[t].obj] = @ + 1]
     /\ Return(t)
     /\ UNCHANGED <<list_vars, lock, cache_vars, leaked, badExits, fatal>>

\* data->mutex.tryUnlock(), which fails for a thread that is not the owner.
MutexTryUnlock(t) ==
  LET d == local[t].result
  IN /\ At(t, "try_unlock")
     /\ mutex' = IF mutex[d].owner # t THEN mutex
                 ELSE IF mutex[d].depth = 1
                   THEN [mutex EXCEPT ![d] = [owner |-> NULL, depth |-> 0]]
                 ELSE [mutex EXCEPT ![d].depth = @ - 1]
     /\ Return(t)
     /\ UNCHANGED <<list_vars, lock, cache_vars, ghost_vars, fatal>>

Step(t) ==
  \/ FastCacheHit(t) \/ CacheHit(t) \/ DecrementThreadCount(t) \/ CacheMiss(t)
  \/ SpinLock(t) \/ WalkList(t) \/ EndOfList(t) \/ SpinUnlock(t)
  \/ ExitFails(t) \/ SaveInCache(t) \/ MutexLock(t) \/ MutexTryUnlock(t)

Next == \E t \in Threads : Step(t) \/ \E o \in Objects : objc_sync_enter(t, o)
                                                         \/ objc_sync_exit(t, o)

Spec == Init /\ [][Next]_vars

-----------------------------------------------------------------------------
(* The items of both caches of a thread.                                     *)
Cached(t) == ({fast[t]} \ {NoItem}) \cup {cache[t][i] : i \in DOMAIN cache[t]}

(* The threads that use a SyncData: it is in a cache of theirs, or they are  *)
(* about to put it there or to give it up.                                   *)
Users(d) == {t \in Threads : \/ \E item \in Cached(t) : item.data = d
                             \/ /\ local[t].result = d
                                /\ pc[t] \in {"unlock", "save", "decrement"}}

(* At most one thread is between objc_sync_enter and objc_sync_exit on an    *)
(* object, although SyncData move from object to object.                     *)
MutualExclusion ==
  \A o \in Objects, t, u \in Threads : held[t][o] > 0 /\ held[u][o] > 0 => t = u

(* "Spinlock prevents multiple threads from creating multiple locks for the  *)
(* same new object" (id2data): an object never has two SyncData.             *)
OneDataPerObject ==
  \A i, j \in DOMAIN list : object[list[i]] = object[list[j]] => i = j

(* threadCount is the number of threads that use the SyncData, plus the      *)
(* increments of failed exits, in spite of the unlocked decrements (id2data).*)
ThreadCountConserved ==
  \A d \in Data : threadCount[d] = Cardinality(Users(d)) + leaked[d]

(* Between calls, the lock counts of a thread's caches, its nesting and the  *)
(* depth of the mutexes agree and no other mutex is left locked; id2data's   *)
(* own consistency checks have not failed, and no SyncCache is written past  *)
(* its end (fetch_cache makes room before it is known whether a slot will be *)
(* needed).                                                                  *)
LockCountsAgree ==
  /\ TypeOK /\ fatal = "no"
  /\ \A t \in Threads : Len(cache[t]) <= allocated[t]
  /\ \A t \in Threads : pc[t] = "idle" =>
       /\ \A item \in Cached(t) : /\ item.lockCount = held[t][object[item.data]]
                                  /\ mutex[item.data] = [owner |-> t, depth |-> item.lockCount]
       /\ \A d \in Data : mutex[d].owner = t => \E item \in Cached(t) : item.data = d

(* What the declaration of threadCount says, "number of THREADS using this   *)
(* block", read when no call is in progress.                                 *)
ThreadCountIsUsers ==
  (\A t \in Threads : pc[t] = "idle")
    => \A d \in Data : threadCount[d] = Cardinality(Users(d))
=============================================================================
