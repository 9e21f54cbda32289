------------------------------ MODULE ObjcWeak ------------------------------
(***************************************************************************)
(* Weak references (objc4 runtime NSObject.mm, objc-weak.mm) on top of the *)
(* reference counts.  The weak table keeps, for each object, the locations *)
(* that point to it; the side table's lock guards it, and a location is    *)
(* read before that lock is known.  What one thread does under the locks   *)
(* of the tables involved is one step.  The hash table is a set; every     *)
(* class is initialized and retains the default way; addresses of freed    *)
(* objects are used again.                                                 *)
(***************************************************************************)
EXTENDS ObjcRefcount, FiniteSetsExt

CONSTANT Locations   \* the addresses of the __weak variables

ASSUME LocationsAssumption == nil \notin Locations

VARIABLES
  loc,         \* the contents of each location
  referrers,   \* the weak entry of each object: the locations registered
  storage,     \* the __weak variables that are initialized
  location,    \* the location of each thread's call, or nil
  old,         \* oldObj, as storeWeak has read it
  call         \* which template arguments storeWeak has

weak_vars == <<loc, referrers, storage, location, old, call>>
vars == <<rc_vars, weak_vars>>

Calls == {"none", "store", "or_nil", "init", "destroy"}
WeakPCs == {"store_read", "store_lock", "store_lock_second", "store_locked",
            "load_read", "load_lock", "load_locked", "load_add"}

(* Every variable has its type.                                              *)
TypeOK ==
  /\ RefcountTypeOK /\ pc \in [Threads -> RetainPCs \cup WeakPCs]
  /\ loc \in [Locations -> Objects \cup {nil}] /\ referrers \in [Objects -> SUBSET Locations]
  /\ storage \subseteq Locations /\ location \in [Threads -> Locations \cup {nil}]
  /\ old \in [Threads -> Objects \cup {nil}] /\ call \in [Threads -> Calls]

Init ==
  /\ RefcountInit
  /\ loc = [l \in Locations |-> nil] /\ referrers = [o \in Objects |-> {}]
  /\ storage = {} /\ location = [t \in Threads |-> nil]
  /\ old = [t \in Threads |-> nil] /\ call = [t \in Threads |-> "none"]

-----------------------------------------------------------------------------
(* The calls.  Initializing and destroying a variable does not run at the    *)
(* same time as another use of it.                                           *)
Unused(l) == \A u \in Threads : location[u] # l
HaveOld(t) == call[t] # "init"
HaveNew(t) == call[t] # "destroy"

Enter(t, l, c) == location' = [location EXCEPT ![t] = l] /\ call' = [call EXCEPT ![t] = c]

CallStore(t, l, c, newObj) ==
  /\ Enter(t, l, c)
  /\ IF newObj # nil THEN Using(t, newObj, "store_read")
     ELSE /\ At(t, "idle") /\ Goto(t, "store_read")
          /\ UNCHANGED <<isa_vars, slock, obj, oldisa, free, error>>

objc_storeWeak(t, l, newObj) ==
  /\ l \in storage /\ CallStore(t, l, "store", newObj)
  /\ UNCHANGED <<loc, referrers, storage, old>>

objc_initWeak(t, l, newObj) ==
  /\ l \notin storage /\ Unused(l)
  /\ IF newObj = nil
       THEN /\ At(t, "idle") /\ loc' = [loc EXCEPT ![l] = nil] /\ storage' = storage \cup {l}
            /\ UNCHANGED <<rc_vars, location, call>>
       ELSE CallStore(t, l, "init", newObj) /\ UNCHANGED <<loc, storage>>
  /\ UNCHANGED <<referrers, old>>

objc_destroyWeak(t, l) ==
  /\ l \in storage /\ Unused(l) /\ CallStore(t, l, "destroy", nil)
  /\ storage' = storage \ {l}
  /\ UNCHANGED <<loc, referrers, old>>

(* -dealloc stores its own object, which is no longer retained.              *)
objc_storeWeakOrNil(t, l) ==
  /\ At(t, "dealloc") /\ l \in storage
  /\ Enter(t, l, "or_nil") /\ Goto(t, "store_read")
  /\ UNCHANGED <<isa_vars, slock, obj, oldisa, free, error, loc, referrers, storage, old>>

objc_loadWeakRetained(t, l) ==
  /\ At(t, "idle") /\ l \in storage /\ \A o \in Objects : HasRoom(o, 0)
  /\ location' = [location EXCEPT ![t] = l] /\ Goto(t, "load_read")
  /\ UNCHANGED <<isa_vars, slock, obj, oldisa, free, error, loc, referrers, storage, old, call>>

-----------------------------------------------------------------------------
(* storeWeak.                                                                *)
ReadOld(t) ==
  /\ At(t, "store_read")
  /\ old' = [old EXCEPT ![t] = IF HaveOld(t) THEN loc[location[t]] ELSE nil]
  /\ Goto(t, "store_lock")
  /\ UNCHANGED <<isa_vars, slock, obj, oldisa, free, error, loc, referrers, storage, location, call>>

\* The tables storeWeak locks.
LockSet(t) == {SideTables[o] : o \in (IF HaveOld(t) THEN {old[t]} ELSE {})
                                     \cup (IF HaveNew(t) THEN {obj[t]} ELSE {})}

TakeLock(t, s) == slock[s] = nil /\ slock' = [slock EXCEPT ![s] = t]

\* Mutant: the table of the old value is locked first, whatever its address.
mutant_old_first(t) ==
  /\ \/ /\ At(t, "store_lock")
        /\ TakeLock(t, SideTables[IF HaveOld(t) THEN old[t] ELSE obj[t]])
        /\ Goto(t, IF Cardinality(LockSet(t)) = 2 THEN "store_lock_second" ELSE "store_locked")
     \/ At(t, "store_lock_second") /\ TakeLock(t, SideTables[obj[t]]) /\ Goto(t, "store_locked")
  /\ UNCHANGED <<isa_vars, obj, oldisa, free, error, weak_vars>>

(* The table with the lower address comes first.                             *)
lockTwo(t) ==
  /\ \/ /\ At(t, "store_lock") /\ TakeLock(t, Min(LockSet(t)))
        /\ Goto(t, IF Cardinality(LockSet(t)) = 2 THEN "store_lock_second" ELSE "store_locked")
     \/ At(t, "store_lock_second") /\ TakeLock(t, Max(LockSet(t))) /\ Goto(t, "store_locked")
  /\ UNCHANGED <<isa_vars, obj, oldisa, free, error, weak_vars>>

unlockTwo(t) == slock' = [s \in Tables |-> IF s \in LockSet(t) THEN nil ELSE slock[s]]

weak_unregister_no_lock(refs, o, l) == [x \in Objects |-> IF x = o THEN refs[x] \ {l} ELSE refs[x]]
UnknownReferrer(o, l) == o # nil /\ referrers[o] # {} /\ l \notin referrers[o]

(* Whether weak_register_no_lock accepts the object.                         *)
Viable(o) == o # nil /\ isa[o].deallocating = 0

\* Mutant: the location is not looked at again under the locks.
mutant_no_recheck(t) == FALSE

OldChanged(t) == HaveOld(t) /\ loc[location[t]] # old[t]

(* The end of storeWeak: the variable's storage is not changed without a new *)
(* value; the caller has its reference back.                                 *)
FinishStore(t) ==
  LET l == location[t] o == obj[t]
      stored == IF Viable(o) THEN o ELSE nil
      kept == IF HaveOld(t) THEN weak_unregister_no_lock(referrers, old[t], l) ELSE referrers
  IN
  /\ error' = IF HaveNew(t) /\ o # nil /\ stored = nil /\ call[t] # "or_nil" THEN "deallocating"
              ELSE IF HaveOld(t) /\ UnknownReferrer(old[t], l) THEN "unregister" ELSE error
  /\ referrers' = IF stored # nil THEN [kept EXCEPT ![o] = @ \cup {l}] ELSE kept
  /\ isa' = IF stored # nil THEN [isa EXCEPT ![o].weakly_referenced = 1] ELSE isa
  /\ loc' = IF HaveNew(t) THEN [loc EXCEPT ![l] = stored] ELSE loc
  /\ storage' = IF call[t] = "init" THEN storage \cup {l} ELSE storage
  /\ location' = [location EXCEPT ![t] = nil] /\ call' = [call EXCEPT ![t] = "none"]
  /\ IF call[t] = "or_nil" THEN Goto(t, "dealloc") /\ UNCHANGED <<obj, free>>
     ELSE Return(t) /\ free' = IF o # nil THEN [free EXCEPT ![o] = @ + 1] ELSE free

storeWeak(t) ==
  /\ At(t, "store_locked") /\ unlockTwo(t) /\ old' = [old EXCEPT ![t] = nil]
  /\ IF OldChanged(t)
       THEN Goto(t, "store_read") /\ UNCHANGED <<isa, obj, free, error, loc, referrers, storage, location, call>>
       ELSE FinishStore(t)
  /\ UNCHANGED <<refcnts, heap, oldisa>>

-----------------------------------------------------------------------------
(* objc_loadWeakRetained.                                                    *)
LoadDone(t) == Return(t) /\ location' = [location EXCEPT ![t] = nil]

LoadRead(t) ==
  /\ At(t, "load_read")
  /\ IF loc[location[t]] = nil THEN LoadDone(t)
     ELSE /\ obj' = [obj EXCEPT ![t] = loc[location[t]]] /\ Goto(t, "load_lock")
          /\ UNCHANGED location
  /\ UNCHANGED <<isa_vars, slock, oldisa, free, error, loc, referrers, storage, old, call>>

LoadLock(t) ==
  /\ At(t, "load_lock") /\ lock(t, obj[t]) /\ Goto(t, "load_locked")
  /\ UNCHANGED <<isa_vars, obj, oldisa, free, error, weak_vars>>

\* Mutant: the object is used as it was read without the lock.
mutant_load_no_recheck(t) == FALSE

LoadChanged(t) == loc[location[t]] # obj[t]

(* Retry when the location has changed, else rootTryRetain, which reads the  *)
(* isa of an object that nothing retains.                                    *)
rootTryRetain(t) ==
  /\ At(t, "load_locked")
  /\ error' = IF LoadChanged(t) \/ obj[t] \in heap THEN error ELSE "freed"
  /\ IF LoadChanged(t)
       THEN /\ unlock(obj[t]) /\ Goto(t, "load_read") /\ obj' = [obj EXCEPT ![t] = nil]
            /\ UNCHANGED <<isa, free, location>>
     ELSE IF isa[obj[t]].deallocating = 1 THEN unlock(obj[t]) /\ LoadDone(t) /\ UNCHANGED <<isa, free>>
     ELSE IF isa[obj[t]].extra_rc < RC_MAX
       THEN AddRC(obj[t], 1) /\ unlock(obj[t]) /\ Frees(obj[t], 1) /\ LoadDone(t)
     ELSE HalfInline(obj[t]) /\ Goto(t, "load_add") /\ UNCHANGED <<slock, obj, free, location>>
  /\ UNCHANGED <<refcnts, heap, oldisa, loc, referrers, storage, old, call>>

LoadAdd(t) ==
  /\ At(t, "load_add")
  /\ sidetable_addExtraRC_nolock(obj[t]) /\ unlock(obj[t])
  /\ Frees(obj[t], 1) /\ LoadDone(t)
  /\ UNCHANGED <<isa, heap, oldisa, error, loc, referrers, storage, old, call>>

-----------------------------------------------------------------------------
weak_clear_no_lock(o) ==
  /\ loc' = [l \in Locations |-> IF l \in referrers[o] /\ loc[l] = o THEN nil ELSE loc[l]]
  /\ error' = IF \E l \in referrers[o] : loc[l] \notin {o, nil} THEN "clear" ELSE error
  /\ referrers' = [referrers EXCEPT ![o] = {}]

(* Both halves of it, under one lock.                                        *)
clearDeallocating_slow(t) ==
  /\ EraseRefcnts(t)
  /\ IF isa[obj[t]].weakly_referenced = 1 THEN weak_clear_no_lock(obj[t])
     ELSE UNCHANGED <<loc, error, referrers>>
  /\ UNCHANGED <<storage, location, old, call>>

-----------------------------------------------------------------------------
RetainCall(t) == \E o \in Objects : retain(t, o) \/ release(t, o) \/ initIsa(t, o)
WeakCall(t) == \E l \in Locations :
  \/ \E o \in Objects \cup {nil} : objc_storeWeak(t, l, o) \/ objc_initWeak(t, l, o)
  \/ objc_destroyWeak(t, l) \/ objc_loadWeakRetained(t, l) \/ objc_storeWeakOrNil(t, l)
Call(t) == (RetainCall(t) /\ UNCHANGED weak_vars) \/ WeakCall(t)

Step(t) ==
  \/ (RefcountStep(t) /\ UNCHANGED weak_vars)
  \/ ReadOld(t) \/ lockTwo(t) \/ storeWeak(t)
  \/ LoadRead(t) \/ LoadLock(t) \/ rootTryRetain(t) \/ LoadAdd(t) \/ clearDeallocating_slow(t)

Next == \E t \in Threads : Call(t) \/ Step(t)
Spec == Init /\ [][Next]_vars
FairSpec == Spec /\ \A t \in Threads : WF_vars(Step(t))

-----------------------------------------------------------------------------
On(o, pcs) == {t \in Threads : obj[t] = o /\ pc[t] \in pcs}
Adders == {"retain_add", "load_add"}
Borrowers == {"borrow_store", "borrow_load", "borrow_again", "put_back"}
Retainers == {"retain", "retain_lock", "retain_locked", "retain_add"}
Releasers == {"release", "release_lock", "release_locked"} \cup Borrowers
Deallocators == {"dealloc", "clear_lock", "clear", "destroy"}
Storers == {"store_read", "store_lock", "store_lock_second", "store_locked"}
Storing(o) == {t \in On(o, Storers) : call[t] # "or_nil"}
Destroying(o) == On(o, Deallocators) \cup (On(o, Storers) \ Storing(o))

\* The count that is stored, with the halves on their way.
RetainCount(o) == isa[o].extra_rc + 1 + refcnts[o]
                  + RC_HALF * Cardinality(On(o, Adders \cup Borrowers))
\* The references that clients have, or are about to be given.
References(o) == free[o] + Cardinality(On(o, Retainers \cup Releasers)) + Cardinality(Storing(o))
                 + Cardinality(On(o, Adders))

(* No retain is lost and none is invented, whatever moves between the isa    *)
(* and the side table meanwhile (rootRetain, rootRelease): an object's count *)
(* is the references there are; when there are none, exactly one thread is   *)
(* deallocating it; and a freed object leaves nothing in the side table.     *)
RetainsConserved == \A o \in Objects :
  /\ (o \in heap /\ isa[o].deallocating = 0) =>
       /\ RetainCount(o) = References(o)
       /\ References(o) > 0 /\ Destroying(o) = {}
  /\ (o \in heap /\ isa[o].deallocating = 1) =>
       RetainCount(o) = 1 /\ References(o) = 0 /\ Cardinality(Destroying(o)) = 1
  /\ o \notin heap => refcnts[o] = 0 /\ References(o) = 0 /\ Destroying(o) = {}

Active(l) == l \in storage \/ \E t \in Threads : location[t] = l /\ call[t] = "destroy"

(* The weak table (storeWeak, weak_clear_no_lock) lists a location under an  *)
(* object exactly as long as the location points to it; the object is then   *)
(* allocated and its isa says so, or its memory would go without the         *)
(* locations becoming nil.                                                   *)
WeakTableExact == \A o \in Objects :
  /\ referrers[o] = {l \in Locations : loc[l] = o /\ Active(l)}
  /\ referrers[o] # {} => o \in heap /\ isa[o].weakly_referenced = 1

(* The isa is read only of an object that is allocated, also where the only  *)
(* reference is a weak one (objc_loadWeakRetained, after it has compared the *)
(* location under the lock), and correct clients meet none of the errors:    *)
(* no over-release, no store of a deallocating object, no unknown location.  *)
NoDanglingAccess ==
  /\ error = "no"
  /\ \A t \in Threads : pc[t] \notin {"load_lock", "load_locked"} => obj[t] \in heap \cup {nil}

(* Unless new calls keep coming, every call returns: the two locks of        *)
(* storeWeak never close a cycle of waiting threads, and the retries of a    *)
(* load, a store and a borrow end.                                           *)
CallsReturn ==
  \/ []<><<\E t \in Threads : Call(t)>>_vars
  \/ \A t \in Threads : []<>(pc[t] = "idle" \/ error # "no")
=============================================================================
