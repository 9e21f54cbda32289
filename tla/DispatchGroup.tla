--------------------------- MODULE DispatchGroup ---------------------------
(***************************************************************************)
(* dispatch_group_t (libdispatch src/semaphore.c): enter and leave count   *)
(* the work in the group, wait blocks on a kernel semaphore (module Sema4) *)
(* until the count is zero, notify queues a block to submit then.  The     *)
(* thread whose leave brings the count to zero, and any thread that finds  *)
(* it zero, runs _dispatch_group_wake; several may run it at once.         *)
(* The group keeps itself alive: it holds a reference to itself while the  *)
(* count is positive and one while its notify list is not empty.           *)
(***************************************************************************)
EXTENDS Sema4, Integers, FiniteSets

CONSTANTS
  Blocks,      \* notification blocks (dispatch_continuation_t)
  NULL,        \* the null pointer of the notify list
  Timeouts,    \* kinds of timeout waits are called with, besides NOW
  LONG_MAX,    \* the largest value of the C type long
  MaxGroups    \* bound: groups created in all

ASSUME GroupConstants ==
  /\ IsFiniteSet(Threads) /\ NULL \notin Blocks
  /\ Timeouts \subseteq {"finite", "forever"}
  /\ LONG_MAX \in Nat \ {0} /\ MaxGroups \in Nat

VARIABLES
  dg_value,         \* enters minus leaves
  dg_waiters,       \* threads that registered to be woken
  dg_notify_head, dg_notify_tail, do_next,   \* the multi-producer notify list
  do_ref_cnt,       \* internal references minus one
  do_xref_cnt,      \* the client's references minus one
  status,           \* of the object, or the crash that ended the process
  submitted,        \* how often each block went to its queue
  pushed,           \* the blocks given to dispatch_group_notify
  groups,           \* groups created so far
  pc,               \* where each thread is
  frame             \* the local variables of each thread

count_vars == <<dg_value, dg_waiters>>
list_vars == <<dg_notify_head, dg_notify_tail, do_next, submitted, pushed>>
ref_vars == <<do_ref_cnt, do_xref_cnt, status, groups>>
vars == <<sema4_vars, count_vars, list_vars, ref_vars, pc, frame>>

Links == Blocks \cup {NULL}
Statuses == {"absent", "alive", "too_many_enters", "unbalanced_leave",
             "over_release", "in_use"}
WakePCs == {"wake_head", "wake_tail", "wake_waiters", "wake_test", "wake_create",
            "wake_signal", "wake_notify", "wake_release"}
PCs == WakePCs \cup
       {"idle", "enter_retain", "wait_check", "wait_register", "wait_recheck",
        "wait_test", "wait_create", "timedwait", "timedwait_blocked", "undo",
        "wait", "wait_blocked", "notify_link", "notify_retain", "notify_head",
        "notify_check"}

\* Locals: head, tail, rval and needs_release of _dispatch_group_wake, the pc
\* of its caller, the timeout of wait, the node and the predecessor of notify.
Frames == [head : Links, tail : Links, rval : Nat, needs_release : {0, 1},
           caller : {"idle", "wait_test"}, timeout : {"finite", "forever"},
           dsn : Links, prev : Links]
EmptyFrame == [head |-> NULL, tail |-> NULL, rval |-> 0,
               needs_release |-> 0, caller |-> "idle", timeout |-> "forever",
               dsn |-> NULL, prev |-> NULL]

TypeOK ==
  /\ Sema4TypeOK
  /\ dg_value \in -1..LONG_MAX + 1 /\ dg_waiters \in 0..Cardinality(Threads)
  /\ dg_notify_head \in Links /\ dg_notify_tail \in Links
  /\ do_next \in [Blocks -> Links]
  /\ submitted \in [Blocks -> Nat] /\ pushed \subseteq Blocks
  /\ do_ref_cnt \in Int /\ do_xref_cnt \in {-1, 0}
  /\ status \in Statuses /\ groups \in 0..MaxGroups
  /\ pc \in [Threads -> PCs]
  /\ frame \in [Threads -> Frames]

Init ==
  /\ Sema4Init
  /\ dg_value = 0 /\ dg_waiters = 0
  /\ dg_notify_head = NULL /\ dg_notify_tail = NULL
  /\ do_next = [b \in Blocks |-> NULL]
  /\ submitted = [b \in Blocks |-> 0] /\ pushed = {}
  /\ do_ref_cnt = -1 /\ do_xref_cnt = -1
  /\ status = "absent" /\ groups = 0
  /\ pc = [t \in Threads |-> "idle"]
  /\ frame = [t \in Threads |-> EmptyFrame]

Running == status = "alive"
At(t, at) == Running /\ pc[t] = at
Goto(t, to) == pc' = [pc EXCEPT ![t] = to]
Return(t, to) == Goto(t, to) /\ frame' = [frame EXCEPT ![t] = EmptyFrame]
Client == do_xref_cnt = 0

-----------------------------------------------------------------------------
(***************************************************************************)
(* Creation, references, disposal                                          *)
(***************************************************************************)

\* _dispatch_group_create_with_count; with count 1 the group is created
\* entered, and holds the reference that goes with a positive count.
_dispatch_group_create_with_count(cnt) ==
  /\ status = "absent" /\ groups < MaxGroups
  /\ groups' = groups + 1
  /\ status' = "alive"
  /\ dg_value' = cnt /\ dg_waiters' = 0
  /\ do_ref_cnt' = cnt /\ do_xref_cnt' = 0
  /\ dg_notify_head' = NULL /\ dg_notify_tail' = NULL
  /\ sema' = MACH_PORT_NULL
  /\ UNCHANGED <<cache, live, count, waitq, do_next, submitted, pushed, pc, frame>>

_dispatch_retain == do_ref_cnt' = do_ref_cnt + 1

\* _dispatch_release_n, with _dispatch_group_dispose when it was the last.
_dispatch_release_n(t, n) ==
  LET ref_cnt == do_ref_cnt - n
  IN /\ do_ref_cnt' = ref_cnt
     /\ status' = IF ref_cnt >= 0 THEN status
                  ELSE IF ref_cnt < -1 THEN "over_release"
                  ELSE IF dg_value # 0 THEN "in_use" ELSE "absent"
     /\ IF status' = "absent" THEN sema4_dispose(t) ELSE UNCHANGED sema4_vars

\* dispatch_release: the client gives up its reference.  It may do so while
\* leave runs, not while a call runs that relies on the client's reference.
dispatch_release(t) ==
  /\ At(t, "idle") /\ Client
  /\ \A u \in Threads : pc[u] = "idle" \/ frame[u].needs_release = 1
  /\ do_xref_cnt' = -1
  /\ _dispatch_release_n(t, 1)
  /\ UNCHANGED <<count_vars, list_vars, groups, pc, frame>>

-----------------------------------------------------------------------------
(***************************************************************************)
(* enter and leave                                                         *)
(***************************************************************************)

\* The atomic increment of dg_value and the tests of the value before it.
dispatch_group_enter(t) ==
  /\ At(t, "idle") /\ Client
  /\ dg_value' = dg_value + 1
  /\ status' = IF dg_value \in 0..LONG_MAX - 1 THEN status ELSE "too_many_enters"
  /\ Goto(t, IF dg_value = 0 THEN "enter_retain" ELSE "idle")
  /\ UNCHANGED <<sema4_vars, dg_waiters, list_vars, do_ref_cnt, do_xref_cnt, groups,
                 frame>>

\* Mutant of EnterRetain: a positive count holds no reference.
mutant_enter_without_retain(t) ==
  /\ At(t, "enter_retain") /\ Goto(t, "idle")
  /\ UNCHANGED <<sema4_vars, count_vars, list_vars, ref_vars, frame>>

EnterRetain(t) ==
  /\ At(t, "enter_retain")
  /\ _dispatch_retain
  /\ Goto(t, "idle")
  /\ UNCHANGED <<sema4_vars, count_vars, list_vars, do_xref_cnt, status, groups, frame>>

\* Enters that have returned and were not yet balanced by a leave.
Entered == dg_value - Cardinality({t \in Threads : pc[t] = "enter_retain"})

\* dispatch_group_leave, balanced or, on an empty group, not.
dispatch_group_leave(t) ==
  /\ At(t, "idle")
  /\ Entered > 0 \/ (dg_value = 0 /\ Client)
  /\ dg_value' = dg_value - 1
  /\ status' = IF dg_value = 0 THEN "unbalanced_leave" ELSE status
  /\ IF dg_value = 1
       THEN Goto(t, "wake_head") /\ frame' = [frame EXCEPT ![t].needs_release = 1]
       ELSE UNCHANGED <<pc, frame>>
  /\ UNCHANGED <<sema4_vars, dg_waiters, list_vars, do_ref_cnt, do_xref_cnt, groups>>

-----------------------------------------------------------------------------
(***************************************************************************)
(* _dispatch_group_wake                                                    *)
(***************************************************************************)

WakeHead(t) ==
  /\ At(t, "wake_head")
  /\ frame' = [frame EXCEPT ![t].head = dg_notify_head]
  /\ dg_notify_head' = NULL
  /\ Goto(t, IF dg_notify_head = NULL THEN "wake_waiters" ELSE "wake_tail")
  /\ UNCHANGED <<sema4_vars, count_vars, dg_notify_tail, do_next, submitted, pushed,
                 ref_vars>>

WakeTail(t) ==
  /\ At(t, "wake_tail")
  /\ frame' = [frame EXCEPT ![t].tail = dg_notify_tail]
  /\ dg_notify_tail' = NULL
  /\ Goto(t, "wake_waiters")
  /\ UNCHANGED <<sema4_vars, count_vars, dg_notify_head, do_next, submitted, pushed,
                 ref_vars>>

\* After the waiters: submit the notify blocks, if any, then release.
AfterSignals(t) == IF frame[t].head = NULL THEN "wake_release" ELSE "wake_notify"

\* Mutant of WakeWaiters: a load instead of the exchange with zero.
mutant_waiters_not_reset(t) ==
  /\ At(t, "wake_waiters")
  /\ frame' = [frame EXCEPT ![t].rval = dg_waiters]
  /\ Goto(t, IF dg_waiters = 0 THEN AfterSignals(t) ELSE "wake_test")
  /\ UNCHANGED <<sema4_vars, count_vars, list_vars, ref_vars>>

WakeWaiters(t) ==
  /\ At(t, "wake_waiters")
  /\ frame' = [frame EXCEPT ![t].rval = dg_waiters]
  /\ dg_waiters' = 0
  /\ Goto(t, IF dg_waiters = 0 THEN AfterSignals(t) ELSE "wake_test")
  /\ UNCHANGED <<sema4_vars, dg_value, list_vars, ref_vars>>

WakeTestCreated(t) ==
  /\ At(t, "wake_test")
  /\ Goto(t, IF sema4_is_created THEN "wake_signal" ELSE "wake_create")
  /\ UNCHANGED <<sema4_vars, count_vars, list_vars, ref_vars, frame>>

WakeCreate(t) ==
  /\ At(t, "wake_create")
  /\ sema4_create_slow(t)
  /\ Goto(t, "wake_signal")
  /\ UNCHANGED <<count_vars, list_vars, ref_vars, frame>>

\* One semaphore_signal of the loop in _dispatch_sema4_signal(sema, rval); a
\* blocked thread that it wakes returns from dispatch_group_wait.
WakeSignal(t) ==
  /\ At(t, "wake_signal")
  /\ semaphore_signal(sema)
  /\ frame' = [u \in Threads |-> IF u = t THEN [frame[t] EXCEPT !.rval = @ - 1]
                                 ELSE IF u \in Woken(sema) THEN EmptyFrame ELSE frame[u]]
  /\ pc' = [u \in Threads |->
              IF u = t THEN IF frame[t].rval = 1 THEN AfterSignals(t) ELSE "wake_signal"
              ELSE IF u \in Woken(sema) THEN "idle" ELSE pc[u]]
  /\ UNCHANGED <<count_vars, list_vars, ref_vars>>

\* Mutant of WakeNotify: a link that is not stored yet is taken for the end.
mutant_pop_without_waiting(t) ==
  LET head == frame[t].head
      next == IF head = frame[t].tail THEN NULL ELSE do_next[head]
  IN /\ At(t, "wake_notify")
     /\ submitted' = [submitted EXCEPT ![head] = @ + 1]
     /\ frame' = [frame EXCEPT ![t].head = next]
     /\ Goto(t, IF next = NULL THEN "wake_release" ELSE "wake_notify")
     /\ UNCHANGED <<sema4_vars, count_vars, dg_notify_head, dg_notify_tail, do_next,
                    pushed, ref_vars>>

\* os_mpsc_pop_snapshot_head waits for the link of a node that has a
\* successor; the node popped goes to its queue.
WakeNotify(t) ==
  LET head == frame[t].head
      next == IF head = frame[t].tail THEN NULL ELSE do_next[head]
  IN /\ At(t, "wake_notify")
     /\ head # frame[t].tail => do_next[head] # NULL
     /\ submitted' = [submitted EXCEPT ![head] = @ + 1]
     /\ frame' = [frame EXCEPT ![t].head = next]
     /\ Goto(t, IF next = NULL THEN "wake_release" ELSE "wake_notify")
     /\ UNCHANGED <<sema4_vars, count_vars, dg_notify_head, dg_notify_tail, do_next,
                    pushed, ref_vars>>

\* Mutant of WakeRelease: one reference is released where two are due.
mutant_release_one(t) ==
  /\ At(t, "wake_release")
  /\ IF frame[t].needs_release = 0 /\ frame[t].tail = NULL
       THEN UNCHANGED <<sema4_vars, do_ref_cnt, status>>
       ELSE _dispatch_release_n(t, 1)
  /\ Return(t, frame[t].caller)
  /\ UNCHANGED <<count_vars, list_vars, do_xref_cnt, groups>>

\* The references of the enter and of the notify list, if there are any, are
\* released, and the caller goes on.
WakeRelease(t) ==
  LET refs == frame[t].needs_release + (IF frame[t].tail = NULL THEN 0 ELSE 1)
  IN /\ At(t, "wake_release")
     /\ IF refs = 0 THEN UNCHANGED <<sema4_vars, do_ref_cnt, status>>
                    ELSE _dispatch_release_n(t, refs)
     /\ Return(t, frame[t].caller)
     /\ UNCHANGED <<count_vars, list_vars, do_xref_cnt, groups>>

-----------------------------------------------------------------------------
(***************************************************************************)
(* dispatch_group_wait                                                     *)
(***************************************************************************)

\* The call returns at once for an empty group, and for DISPATCH_TIME_NOW.
dispatch_group_wait(t, to) ==
  /\ At(t, "idle") /\ Client
  /\ dg_value # 0
  /\ Goto(t, "wait_check")
  /\ frame' = [frame EXCEPT ![t].timeout = to]
  /\ UNCHANGED <<sema4_vars, count_vars, list_vars, ref_vars>>

\* _dispatch_group_wait_slow
WaitCheck(t) ==
  /\ At(t, "wait_check")
  /\ Goto(t, IF dg_value = 0 THEN "wake_head" ELSE "wait_register")
  /\ UNCHANGED <<sema4_vars, count_vars, list_vars, ref_vars, frame>>

WaitRegister(t) ==
  /\ At(t, "wait_register")
  /\ dg_waiters' = dg_waiters + 1
  /\ Goto(t, "wait_recheck")
  /\ UNCHANGED <<sema4_vars, dg_value, list_vars, ref_vars, frame>>

\* Mutant of WaitRecheck: the count is not read again after registering.
mutant_no_recheck(t) ==
  /\ At(t, "wait_recheck") /\ Goto(t, "wait_test")
  /\ UNCHANGED <<sema4_vars, count_vars, list_vars, ref_vars, frame>>

\* On an empty group the thread wakes the waiters, itself included, and then
\* waits for its own signal, without a timeout.
WaitRecheck(t) ==
  /\ At(t, "wait_recheck")
  /\ IF dg_value = 0
       THEN /\ Goto(t, "wake_head")
            /\ frame' = [frame EXCEPT ![t].caller = "wait_test", ![t].timeout = "forever"]
       ELSE Goto(t, "wait_test") /\ UNCHANGED frame
  /\ UNCHANGED <<sema4_vars, count_vars, list_vars, ref_vars>>

SlowPath(t) == IF frame[t].timeout = "finite" THEN "timedwait" ELSE "wait"

WaitTestCreated(t) ==
  /\ At(t, "wait_test")
  /\ Goto(t, IF sema4_is_created THEN SlowPath(t) ELSE "wait_create")
  /\ UNCHANGED <<sema4_vars, count_vars, list_vars, ref_vars, frame>>

WaitCreate(t) ==
  /\ At(t, "wait_create")
  /\ sema4_create_slow(t)
  /\ Goto(t, SlowPath(t))
  /\ UNCHANGED <<count_vars, list_vars, ref_vars, frame>>

\* _dispatch_sema4_timedwait and _dispatch_sema4_wait; an interrupted wait
\* is repeated (KernelAborted).
KernelWait(t) ==
  /\ Running /\ pc[t] \in {"timedwait", "wait"}
  /\ \/ semaphore_take(sema) /\ Return(t, "idle")
     \/ /\ semaphore_block(sema, t)
        /\ Goto(t, IF pc[t] = "wait" THEN "wait_blocked" ELSE "timedwait_blocked")
        /\ UNCHANGED frame
  /\ UNCHANGED <<count_vars, list_vars, ref_vars>>

KernelTimeout(t) ==
  /\ Running
  /\ \/ pc[t] = "timedwait_blocked" /\ semaphore_unblock(t)
     \/ pc[t] = "timedwait" /\ count[sema] = 0 /\ UNCHANGED sema4_vars
  /\ Goto(t, "undo")
  /\ UNCHANGED <<count_vars, list_vars, ref_vars, frame>>

KernelAborted(t) ==
  /\ Running /\ pc[t] \in {"timedwait_blocked", "wait_blocked"}
  /\ semaphore_unblock(t)
  /\ Goto(t, IF pc[t] = "wait_blocked" THEN "wait" ELSE "timedwait")
  /\ UNCHANGED <<count_vars, list_vars, ref_vars, frame>>

\* The compare-and-swap loop that unregisters a waiter after a timeout; with
\* nobody registered a wake is on its way, and the thread waits for it.
UndoRegister(t) ==
  /\ At(t, "undo")
  /\ IF dg_waiters > 0
       THEN dg_waiters' = dg_waiters - 1 /\ Return(t, "idle")
       ELSE Goto(t, "wait") /\ UNCHANGED <<dg_waiters, frame>>
  /\ UNCHANGED <<sema4_vars, dg_value, list_vars, ref_vars>>

-----------------------------------------------------------------------------
(***************************************************************************)
(* dispatch_group_notify                                                   *)
(***************************************************************************)

\* os_mpsc_push_update_tail: exchange the tail; the link from the previous
\* tail, if there is one, is stored later.
dispatch_group_notify(t, b) ==
  /\ At(t, "idle") /\ Client
  /\ b \notin pushed
  /\ pushed' = pushed \cup {b}
  /\ do_next' = [do_next EXCEPT ![b] = NULL]
  /\ dg_notify_tail' = b
  /\ frame' = [frame EXCEPT ![t].dsn = b, ![t].prev = dg_notify_tail]
  /\ Goto(t, IF dg_notify_tail = NULL THEN "notify_retain" ELSE "notify_link")
  /\ UNCHANGED <<sema4_vars, count_vars, dg_notify_head, submitted, ref_vars>>

NotifyLink(t) ==
  /\ At(t, "notify_link")
  /\ do_next' = [do_next EXCEPT ![frame[t].prev] = frame[t].dsn]
  /\ Return(t, "idle")
  /\ UNCHANGED <<sema4_vars, count_vars, dg_notify_head, dg_notify_tail, submitted,
                 pushed, ref_vars>>

NotifyRetain(t) ==
  /\ At(t, "notify_retain")
  /\ _dispatch_retain
  /\ Goto(t, "notify_head")
  /\ UNCHANGED <<sema4_vars, count_vars, list_vars, do_xref_cnt, status, groups, frame>>

NotifyHead(t) ==
  /\ At(t, "notify_head")
  /\ dg_notify_head' = frame[t].dsn
  /\ Goto(t, "notify_check")
  /\ UNCHANGED <<sema4_vars, count_vars, dg_notify_tail, do_next, submitted, pushed,
                 ref_vars, frame>>

NotifyCheck(t) ==
  /\ At(t, "notify_check")
  /\ Return(t, IF dg_value = 0 THEN "wake_head" ELSE "idle")
  /\ UNCHANGED <<sema4_vars, count_vars, list_vars, ref_vars>>

-----------------------------------------------------------------------------
\* The steps a thread inside a call takes on its own.
Step(t) ==
  \/ EnterRetain(t)
  \/ WakeHead(t) \/ WakeTail(t) \/ WakeWaiters(t) \/ WakeTestCreated(t)
  \/ WakeCreate(t) \/ WakeSignal(t) \/ WakeNotify(t) \/ WakeRelease(t)
  \/ WaitCheck(t) \/ WaitRegister(t) \/ WaitRecheck(t) \/ WaitTestCreated(t)
  \/ WaitCreate(t) \/ KernelWait(t) \/ UndoRegister(t)
  \/ NotifyLink(t) \/ NotifyRetain(t) \/ NotifyHead(t) \/ NotifyCheck(t)

Next ==
  \/ \E cnt \in {0, 1} : _dispatch_group_create_with_count(cnt)
  \/ \E t \in Threads :
       \/ dispatch_release(t)
       \/ dispatch_group_enter(t) \/ dispatch_group_leave(t)
       \/ \E to \in Timeouts : dispatch_group_wait(t, to)
       \/ \E b \in Blocks : dispatch_group_notify(t, b)
       \/ Step(t)
       \/ KernelTimeout(t) \/ KernelAborted(t)

Spec == Init /\ [][Next]_vars

\* A thread inside a call is eventually scheduled; no thread has to call.
FairSpec == Spec /\ \A t \in Threads : WF_vars(Step(t))

-----------------------------------------------------------------------------
Blocked(t) == pc[t] \in {"wait_blocked", "timedwait_blocked"}
Quiescent == Running /\ \A t \in Threads : pc[t] = "idle" \/ Blocked(t)

(* The group dies once, and not under the hands of a thread that still uses  *)
(* it (the self-references of enter and notify, rdar://22318411): no count   *)
(* is released twice, and once it is freed no thread is inside a call.       *)
NoUseAfterFree ==
  /\ status \notin {"over_release", "in_use"}
  /\ status = "absent" => \A t \in Threads : pc[t] = "idle"

(* Registered waiters are conserved (WaitRegister, WakeWaiters, UndoRegister):*)
(* those past registration are matched by dg_waiters, by signals that a wake  *)
(* has yet to send, and by signals in the kernel; no count leaves its range.  *)
RegisteredWaiters ==
  {t \in Threads : \/ pc[t] \in {"wait_recheck", "wait_test", "wait_create", "timedwait",
                                "timedwait_blocked", "undo", "wait", "wait_blocked"}
                   \/ pc[t] \in WakePCs /\ frame[t].caller = "wait_test"}
PendingSignals == {s \in Threads \X (1..Cardinality(Threads)) :
                     s[2] <= frame[s[1]].rval}
WaitersConserved ==
  /\ TypeOK
  /\ Running => Cardinality(RegisteredWaiters)
                  = dg_waiters + Cardinality(PendingSignals)
                    + (IF sema \in Ports THEN count[sema] ELSE 0)

(* No reference leaks and no wake-up is lost: at rest the group is referenced *)
(* by its client, by a positive count and by a non-empty notify list and by   *)
(* nothing else; if it is empty as well, no thread is blocked in wait and     *)
(* every notify block was submitted.                                          *)
GroupAtRest == Quiescent =>
  /\ do_ref_cnt + 1 = (IF Client THEN 1 ELSE 0) + (IF dg_value > 0 THEN 1 ELSE 0)
                      + (IF dg_notify_head # NULL THEN 1 ELSE 0)
  /\ dg_value = 0 =>
       /\ \A t \in Threads : ~ Blocked(t)
       /\ dg_notify_head = NULL /\ dg_notify_tail = NULL
       /\ \A b \in pushed : submitted[b] = 1

(* A notify block is submitted at most once, and the link from a block to its *)
(* successor is never stored after the block went to its queue, where it is   *)
(* freed (os_mpsc_push_update_tail against os_mpsc_pop_snapshot_head).        *)
NotifyListSafe ==
  /\ \A b \in Blocks : submitted[b] <= 1
  /\ \A t \in Threads : pc[t] = "notify_link" => submitted[frame[t].prev] = 0

(* Once a group is empty for good, nobody stays in dispatch_group_wait and    *)
(* every notify block is submitted.                                           *)
EmptyGroupDrains ==
  <>[](Running /\ dg_value = 0) =>
    /\ \A t \in Threads : []<>(t \notin RegisteredWaiters)
    /\ \A b \in Blocks : []<>(b \in pushed => submitted[b] = 1)
=============================================================================
