---------------------------- MODULE ObjcRefcount ----------------------------
(***************************************************************************)
(* Reference counts of objects with a nonpointer isa (objc4 runtime        *)
(* objc-object.h, NSObject.mm).  The isa holds extra_rc, one less than the *)
(* count; what does not fit goes to the side table in halves, under the    *)
(* side table's lock, while other threads keep changing the isa.  An       *)
(* os_atomic loop is one step; a store that may fail against a value read  *)
(* earlier is a step of its own.  Associated objects, C++ destructors and  *)
(* raw isas are left out.                                                  *)
(***************************************************************************)
EXTENDS Integers, FiniteSets

CONSTANTS
  Threads, Objects, nil,
  SideTables,   \* the side table of each object and of nil, by lock address
  RC_HALF,      \* extra_rc holds 2 * RC_HALF - 1
  MaxRetains    \* bound: references to each object

ASSUME RefcountConstants ==
  /\ IsFiniteSet(Threads) /\ nil \notin Threads \cup Objects
  /\ SideTables \in [Objects \cup {nil} -> Nat]
  /\ RC_HALF \in Nat \ {0} /\ MaxRetains \in [Objects -> Nat]

VARIABLES
  isa,       \* the isa of each object
  refcnts,   \* its count in the side table; 0 is also no entry
  heap,      \* the objects that are allocated
  slock,     \* the holder of each side table's lock, or nil
  pc,        \* where each thread is
  obj,       \* the object of its call, or nil
  oldisa,    \* the isa it has loaded, while it borrows
  free,      \* history: references to each object that no call is using
  error      \* an error the runtime reports, or "no"

isa_vars == <<isa, refcnts, heap>>
rc_vars == <<isa_vars, slock, pc, obj, oldisa, free, error>>

Tables == {SideTables[o] : o \in Objects \cup {nil}}
RC_MAX == 2 * RC_HALF - 1
Isas == [extra_rc : 0..RC_MAX, has_sidetable_rc : {0, 1}, deallocating : {0, 1},
         weakly_referenced : {0, 1}]
NewIsa == [extra_rc |-> 0, has_sidetable_rc |-> 0, deallocating |-> 0, weakly_referenced |-> 0]
RetainPCs == {"idle", "retain", "retain_lock", "retain_locked", "retain_add", "release",
              "release_lock", "release_locked", "borrow_store", "borrow_load", "borrow_again",
              "put_back", "dealloc", "clear_lock", "clear", "destroy"}

RefcountTypeOK ==
  /\ isa \in [Objects -> Isas] /\ refcnts \in [Objects -> Nat] /\ heap \subseteq Objects
  /\ slock \in [Tables -> Threads \cup {nil}] /\ obj \in [Threads -> Objects \cup {nil}]
  /\ oldisa \in [Threads -> Isas] /\ free \in [Objects -> Nat]

RefcountInit ==
  /\ isa = [o \in Objects |-> NewIsa] /\ refcnts = [o \in Objects |-> 0] /\ heap = {}
  /\ slock = [s \in Tables |-> nil] /\ pc = [t \in Threads |-> "idle"]
  /\ obj = [t \in Threads |-> nil] /\ oldisa = [t \in Threads |-> NewIsa]
  /\ free = [o \in Objects |-> 0] /\ error = "no"

At(t, here) == error = "no" /\ pc[t] = here
Goto(t, there) == pc' = [pc EXCEPT ![t] = there]
Return(t) == Goto(t, "idle") /\ obj' = [obj EXCEPT ![t] = nil]
Frees(o, n) == free' = [free EXCEPT ![o] = @ + n]

lock(t, o) == slock[SideTables[o]] = nil /\ slock' = [slock EXCEPT ![SideTables[o]] = t]
unlock(o) == slock' = [slock EXCEPT ![SideTables[o]] = nil]

-----------------------------------------------------------------------------
\* An object is allocated, possibly where another one was.
initIsa(t, o) ==
  /\ At(t, "idle") /\ o \notin heap
  /\ heap' = heap \cup {o} /\ isa' = [isa EXCEPT ![o] = NewIsa] /\ Frees(o, 1)
  /\ UNCHANGED <<refcnts, slock, pc, obj, oldisa, error>>

(* A call uses one reference to its object: retain and the weak calls give   *)
(* it back, release does not.                                                *)
Using(t, o, there) ==
  /\ At(t, "idle") /\ free[o] > 0 /\ Frees(o, -1)
  /\ Goto(t, there) /\ obj' = [obj EXCEPT ![t] = o]
  /\ UNCHANGED <<isa_vars, slock, oldisa, error>>

HasRoom(o, n) == free[o] + Cardinality({u \in Threads : obj[u] = o}) + n <= MaxRetains[o]
retain(t, o) == HasRoom(o, 1) /\ Using(t, o, "retain")
release(t, o) == Using(t, o, "release")

-----------------------------------------------------------------------------
AddRC(o, n) == isa' = [isa EXCEPT ![o].extra_rc = @ + n]
HalfInline(o) == isa' = [isa EXCEPT ![o].extra_rc = RC_HALF, ![o].has_sidetable_rc = 1]

\* Mutant: off by one, the carry is not seen.
mutant_carry_unseen(t) ==
  /\ At(t, "retain")
  /\ IF isa[obj[t]].extra_rc <= RC_MAX
       THEN AddRC(obj[t], 1) /\ Frees(obj[t], 2) /\ Return(t)
       ELSE Goto(t, "retain_lock") /\ UNCHANGED <<isa, free, obj>>
  /\ UNCHANGED <<refcnts, heap, slock, oldisa, error>>

(* rootRetain(false, false).                                                 *)
rootRetain(t) ==
  /\ At(t, "retain")
  /\ IF isa[obj[t]].extra_rc < RC_MAX
       THEN AddRC(obj[t], 1) /\ Frees(obj[t], 2) /\ Return(t)
       ELSE Goto(t, "retain_lock") /\ UNCHANGED <<isa, free, obj>>
  /\ UNCHANGED <<refcnts, heap, slock, oldisa, error>>

sidetable_lock(t) ==
  /\ \/ At(t, "retain_lock") /\ Goto(t, "retain_locked")
     \/ At(t, "release_lock") /\ Goto(t, "release_locked")
     \/ At(t, "clear_lock") /\ Goto(t, "clear")
  /\ lock(t, obj[t])
  /\ UNCHANGED <<isa_vars, obj, oldisa, free, error>>

(* rootRetain(false, true), once it has the lock.                            *)
rootRetain_overflow(t) ==
  /\ At(t, "retain_locked")
  /\ IF isa[obj[t]].extra_rc < RC_MAX
       THEN AddRC(obj[t], 1) /\ Frees(obj[t], 2) /\ Return(t) /\ unlock(obj[t])
       ELSE HalfInline(obj[t]) /\ Goto(t, "retain_add") /\ UNCHANGED <<free, obj, slock>>
  /\ UNCHANGED <<refcnts, heap, oldisa, error>>

sidetable_addExtraRC_nolock(o) == refcnts' = [refcnts EXCEPT ![o] = @ + RC_HALF]

RetainAdd(t) ==
  /\ At(t, "retain_add")
  /\ sidetable_addExtraRC_nolock(obj[t]) /\ unlock(obj[t])
  /\ Frees(obj[t], 2) /\ Return(t)
  /\ UNCHANGED <<isa, heap, oldisa, error>>

-----------------------------------------------------------------------------
(* The deallocating store at the end of rootRelease.                         *)
Deallocate(t) ==
  IF isa[obj[t]].deallocating = 1
    THEN error' = "overrelease" /\ UNCHANGED <<isa, pc>>
    ELSE /\ isa' = [isa EXCEPT ![obj[t]].deallocating = 1]
         /\ Goto(t, "dealloc") /\ UNCHANGED error

(* rootRelease(true, false).                                                 *)
rootRelease(t) ==
  /\ At(t, "release")
  /\ \/ isa[obj[t]].extra_rc > 0 /\ AddRC(obj[t], -1) /\ Return(t) /\ UNCHANGED error
     \/ /\ isa[obj[t]].extra_rc = 0 /\ isa[obj[t]].has_sidetable_rc = 1
        /\ Goto(t, "release_lock") /\ UNCHANGED <<isa, obj, error>>
     \/ /\ isa[obj[t]].extra_rc = 0 /\ isa[obj[t]].has_sidetable_rc = 0
        /\ Deallocate(t) /\ UNCHANGED obj
  /\ UNCHANGED <<refcnts, heap, slock, oldisa, free>>

(* rootRelease(true, true) with the lock: decrement, borrow or deallocate.   *)
rootRelease_underflow(t) ==
  /\ At(t, "release_locked")
  /\ IF isa[obj[t]].extra_rc > 0
       THEN /\ AddRC(obj[t], -1) /\ Return(t) /\ unlock(obj[t])
            /\ UNCHANGED <<refcnts, oldisa, error>>
     ELSE IF isa[obj[t]].has_sidetable_rc = 1 /\ refcnts[obj[t]] > 0
       THEN /\ oldisa' = [oldisa EXCEPT ![t] = isa[obj[t]]]
            /\ refcnts' = [refcnts EXCEPT ![obj[t]] = @ - RC_HALF]
            /\ Goto(t, "borrow_store") /\ UNCHANGED <<isa, obj, slock, error>>
     ELSE Deallocate(t) /\ unlock(obj[t]) /\ UNCHANGED <<refcnts, obj, oldisa>>
  /\ UNCHANGED <<heap, free>>

Borrowed(t) == Return(t) /\ unlock(obj[t]) /\ oldisa' = [oldisa EXCEPT ![t] = NewIsa]

\* Mutant: the borrowed count is stored whatever the isa has become.
mutant_borrow_blindly(t) ==
  /\ At(t, "borrow_store")
  /\ isa' = [isa EXCEPT ![obj[t]].extra_rc = RC_HALF - 1] /\ Borrowed(t)
  /\ UNCHANGED <<refcnts, heap, free, error>>

(* The inline count becomes what was borrowed, less the release.             *)
BorrowStore(t) ==
  /\ At(t, "borrow_store")
  /\ IF isa[obj[t]] = oldisa[t]
       THEN isa' = [isa EXCEPT ![obj[t]].extra_rc = RC_HALF - 1] /\ Borrowed(t)
       ELSE Goto(t, "borrow_load") /\ UNCHANGED <<isa, obj, slock, oldisa>>
  /\ UNCHANGED <<refcnts, heap, free, error>>

BorrowLoad(t) ==
  /\ At(t, "borrow_load")
  /\ oldisa' = [oldisa EXCEPT ![t] = isa[obj[t]]]
  /\ Goto(t, "borrow_again")
  /\ UNCHANGED <<isa_vars, slock, obj, free, error>>

(* The second try adds to a count that has changed, if it does not overflow. *)
BorrowAgain(t) ==
  /\ At(t, "borrow_again")
  /\ IF isa[obj[t]] = oldisa[t] /\ oldisa[t].extra_rc + RC_HALF - 1 <= RC_MAX
       THEN AddRC(obj[t], RC_HALF - 1) /\ Borrowed(t)
       ELSE /\ Goto(t, "put_back") /\ oldisa' = [oldisa EXCEPT ![t] = NewIsa]
            /\ UNCHANGED <<isa, obj, slock>>
  /\ UNCHANGED <<refcnts, heap, free, error>>

PutBack(t) ==
  /\ At(t, "put_back")
  /\ sidetable_addExtraRC_nolock(obj[t])
  /\ Goto(t, "release_locked")
  /\ UNCHANGED <<isa, heap, slock, obj, oldisa, free, error>>

-----------------------------------------------------------------------------
(* -dealloc comes to rootDealloc.                                            *)
rootDealloc(t) ==
  /\ At(t, "dealloc")
  /\ Goto(t, IF isa[obj[t]].weakly_referenced = 0 /\ isa[obj[t]].has_sidetable_rc = 0
               THEN "destroy" ELSE "clear_lock")
  /\ UNCHANGED <<isa_vars, slock, obj, oldisa, free, error>>

(* clearDeallocating_slow, but for the weak table.                           *)
EraseRefcnts(t) ==
  /\ At(t, "clear")
  /\ refcnts' = [refcnts EXCEPT ![obj[t]] = IF isa[obj[t]].has_sidetable_rc = 1 THEN 0 ELSE @]
  /\ unlock(obj[t]) /\ Goto(t, "destroy")
  /\ UNCHANGED <<isa, heap, obj, oldisa, free>>

object_dispose(t) ==
  /\ At(t, "destroy")
  /\ heap' = heap \ {obj[t]}
  /\ Return(t)
  /\ UNCHANGED <<isa, refcnts, slock, oldisa, free, error>>

RefcountStep(t) ==
  \/ rootRetain(t) \/ sidetable_lock(t) \/ rootRetain_overflow(t) \/ RetainAdd(t)
  \/ rootRelease(t) \/ rootRelease_underflow(t) \/ BorrowStore(t) \/ BorrowLoad(t)
  \/ BorrowAgain(t) \/ PutBack(t) \/ rootDealloc(t) \/ object_dispose(t)
=============================================================================
