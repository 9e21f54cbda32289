------------------------ MODULE DispatchGroupProofs ------------------------
(***************************************************************************)
(* Proofs about dispatch_group_t (module DispatchGroup): the steps keep    *)
(* the parts of the invariant of DispatchGroupInvariant about references,  *)
(* wake-ups and the notify list, and what follows from it for any threads, *)
(* blocks, ports, width of long and number of groups.                      *)
(***************************************************************************)
EXTENDS DispatchGroupInvariant, WellFoundedInduction

USE ZenonT(30)

-----------------------------------------------------------------------------
(***************************************************************************)
(* References, the owner of the list head, and the wake-ups that are due   *)
(***************************************************************************)

(* The thread a signal wakes was blocked.                                     *)
LEMMA WokenBlocked ==
  ASSUME IInv, NEW t \in Threads, WakeSignal(t), NEW u \in Woken(sema)
  PROVE  u \in Threads /\ Blocked(u) /\ u # t
<1>1. /\ sema \in Ports /\ QueueInv /\ pc[t] = "wake_signal"
      /\ waitq[sema] \in Seq(Threads) /\ Distinct(waitq[sema])
  BY DEF IInv, TypeOK, Sema4TypeOK, QueueInv, KernelPCs, WakeSignal, At
<1>2. waitq[sema] # <<>> /\ u = Head(waitq[sema])
  BY DEF Woken
<1>3. u \in Threads /\ u \in Members(waitq[sema])
  BY <1>1, <1>2, TailLemma
<1> QED
  BY <1>1, <1>3 DEF QueueInv, Blocked

(* The steps that neither take nor give a reference and do not touch the      *)
(* count or the tail of the list.                                             *)
QuietRefs(t) ==
  \/ \E to \in Timeouts : dispatch_group_wait(t, to)
  \/ WakeHead(t) \/ WakeWaiters(t) \/ WakeTestCreated(t) \/ WakeCreate(t)
  \/ WakeSignal(t) \/ WakeNotify(t)
  \/ WaitCheck(t) \/ WaitRegister(t) \/ WaitRecheck(t) \/ WaitTestCreated(t)
  \/ WaitCreate(t) \/ KernelWait(t) \/ KernelTimeout(t) \/ KernelAborted(t)
  \/ UndoRegister(t) \/ NotifyLink(t) \/ NotifyHead(t) \/ NotifyCheck(t)

(* Steps that move no reference, seen by one thread.                          *)
LEMMA QuietThread ==
  ASSUME IInv, NEW t \in Threads, QuietRefs(t), NEW u \in Threads
  PROVE  /\ pc'[u] = "enter_retain" <=> pc[u] = "enter_retain"
         /\ pc'[u] = "notify_retain" <=> pc[u] = "notify_retain"
         /\ frame'[u].needs_release = frame[u].needs_release
         /\ frame'[u].tail = frame[u].tail
<1> USE DEF At, Goto, Return
<1>0. /\ pc \in [Threads -> PCs] /\ frame \in [Threads -> Frames] /\ frame[u] \in Frames
      /\ FrameOK(u)
  BY DEF IInv, TypeOK, FrameInv
<1>1. CASE u # t /\ ~ WakeSignal(t)
  <2>1. pc'[u] = pc[u] /\ frame'[u] = frame[u]
    BY <1>0, <1>1 DEF QuietRefs, dispatch_group_wait, WakeHead, WakeWaiters, WakeTestCreated,
       WakeCreate, WakeNotify, WaitCheck, WaitRegister, WaitRecheck, WaitTestCreated,
       WaitCreate, KernelWait, KernelTimeout, KernelAborted, UndoRegister, NotifyLink,
       NotifyHead, NotifyCheck
  <2> QED
    BY <2>1
<1>2. CASE u # t /\ WakeSignal(t)
  <2>1. CASE u \in Woken(sema)
    <3>1. pc'[u] = "idle" /\ frame'[u] = EmptyFrame /\ Blocked(u)
      BY <1>2, <2>1, WokenBlocked DEF WakeSignal
    <3>2. pc[u] \notin WakePCs
      BY <3>1 DEF Blocked, WakePCs
    <3>3. frame[u].needs_release = 0 /\ frame[u].tail = NULL
      BY <1>0, <3>2 DEF FrameOK
    <3> QED
      BY <3>1, <3>3, EmptyFields DEF Blocked
  <2>2. CASE u \notin Woken(sema)
    BY <1>2, <2>2 DEF WakeSignal
  <2> QED
    BY <2>1, <2>2
<1>3. CASE u = t
  <2>1. pc'[u] \notin {"enter_retain", "notify_retain"}
    BY <1>0, <1>3, SlowPathType, AfterSignalsType
       DEF QuietRefs, dispatch_group_wait, WakeHead, WakeWaiters, WakeTestCreated,
       WakeCreate, WakeSignal, WakeNotify, WaitCheck, WaitRegister, WaitRecheck,
       WaitTestCreated, WaitCreate, KernelWait, KernelTimeout, KernelAborted, UndoRegister,
       NotifyLink, NotifyHead, NotifyCheck
  <2>2. pc[u] \notin {"enter_retain", "notify_retain"}
    BY <1>3 DEF QuietRefs, dispatch_group_wait, WakeHead, WakeWaiters, WakeTestCreated,
       WakeCreate, WakeSignal, WakeNotify, WaitCheck, WaitRegister, WaitRecheck,
       WaitTestCreated, WaitCreate, KernelWait, KernelTimeout, KernelAborted, UndoRegister,
       NotifyLink, NotifyHead, NotifyCheck
  <2>3. CASE KernelWait(t) \/ UndoRegister(t) \/ NotifyLink(t) \/ NotifyCheck(t)
    <3>1. frame'[u] \in {frame[u], EmptyFrame} /\ pc[u] \notin WakePCs
      BY <1>0, <1>3, <2>3 DEF KernelWait, UndoRegister, NotifyLink, NotifyCheck, WakePCs
    <3>2. frame[u].needs_release = 0 /\ frame[u].tail = NULL
      BY <1>0, <3>1 DEF FrameOK
    <3> QED
      BY <2>1, <2>2, <3>1, <3>2, EmptyFields
  <2>4. CASE ~ (KernelWait(t) \/ UndoRegister(t) \/ NotifyLink(t) \/ NotifyCheck(t))
    <3>1. \/ frame'[u] = frame[u]
          \/ \E x : frame'[u] = [frame[u] EXCEPT !.head = x]
          \/ \E x : frame'[u] = [frame[u] EXCEPT !.rval = x]
          \/ \E x : frame'[u] = [frame[u] EXCEPT !.timeout = x]
          \/ frame'[u] = [frame[u] EXCEPT !.caller = "wait_test", !.timeout = "forever"]
      <4>1. CASE WakeHead(t)
        BY <1>0, <1>3, <4>1 DEF WakeHead
      <4>6. CASE WakeNotify(t)
        <5>1. PICK next : frame' = [frame EXCEPT ![t].head = next]
          BY <4>6 DEF WakeNotify
        <5> QED
          BY <1>0, <1>3, <5>1
      <4>2. CASE WakeWaiters(t) \/ WakeSignal(t)
        BY <1>0, <1>3, <4>2 DEF WakeWaiters, WakeSignal
      <4>3. ASSUME NEW to \in Timeouts, dispatch_group_wait(t, to)
            PROVE  \E x : frame'[u] = [frame[u] EXCEPT !.timeout = x]
        BY <1>0, <1>3, <4>3 DEF dispatch_group_wait
      <4>4. CASE WaitRecheck(t)
        BY <1>0, <1>3, <4>4 DEF WaitRecheck
      <4>5. CASE \/ WakeTestCreated(t) \/ WakeCreate(t) \/ WaitCheck(t) \/ WaitRegister(t)
                 \/ WaitTestCreated(t) \/ WaitCreate(t) \/ KernelTimeout(t)
                 \/ KernelAborted(t) \/ NotifyHead(t)
        BY <1>3, <4>5 DEF WakeTestCreated, WakeCreate, WaitCheck, WaitRegister,
           WaitTestCreated, WaitCreate, KernelTimeout, KernelAborted, NotifyHead
      <4> QED
        BY <2>4, <4>1, <4>2, <4>3, <4>4, <4>5, <4>6 DEF QuietRefs
    <3> QED
      BY <1>0, <2>1, <2>2, <3>1, RefsKept
  <2> QED
    BY <2>3, <2>4
<1> QED
  BY <1>1, <1>2, <1>3

(* Steps that move no reference.                                              *)
LEMMA QuietStep ==
  ASSUME IInv, NEW t \in Threads, QuietRefs(t)
  PROVE  /\ Entering' = Entering /\ Retaining' = Retaining
         /\ Leaving' = Leaving /\ Snapshots' = Snapshots
         /\ UNCHANGED <<do_ref_cnt, do_xref_cnt, dg_value, dg_notify_tail, status>> /\ Running
<1>1. /\ Entering' = Entering /\ Retaining' = Retaining
      /\ Leaving' = Leaving /\ Snapshots' = Snapshots
  BY QuietThread DEF Entering, Retaining, Leaving, Snapshots
<1>2. UNCHANGED <<do_ref_cnt, do_xref_cnt, dg_value, dg_notify_tail, status>> /\ Running
  BY DEF QuietRefs, dispatch_group_wait, WakeHead, WakeWaiters, WakeTestCreated,
     WakeCreate, WakeSignal, WakeNotify, WaitCheck, WaitRegister, WaitRecheck,
     WaitTestCreated, WaitCreate, KernelWait, KernelTimeout, KernelAborted, UndoRegister,
     NotifyLink, NotifyHead, NotifyCheck, At, count_vars, ref_vars, list_vars
<1> QED
  BY <1>1, <1>2

(* The steps, by what they do to the references.                              *)
LEMMA NextByKind ==
  ASSUME [Next]_vars, ~ UNCHANGED vars
  PROVE  \/ \E cnt \in {0, 1} : _dispatch_group_create_with_count(cnt)
         \/ \E t \in Threads :
              \/ dispatch_release(t) \/ WakeRelease(t)
              \/ dispatch_group_enter(t) \/ dispatch_group_leave(t) \/ EnterRetain(t)
              \/ \E b \in Blocks : dispatch_group_notify(t, b)
              \/ WakeTail(t) \/ NotifyRetain(t) \/ QuietRefs(t)
  BY DEF Next, Step, QuietRefs

(* Every step leaves at most one thread between an enter and its reference.   *)
LEMMA NextEnter == IInv /\ [Next]_vars => EnterInv'
<1> SUFFICES ASSUME IInv, [Next]_vars PROVE EnterInv'
  OBVIOUS
<1> USE DEF At, Goto, Return
<1>0. /\ EnterInv /\ StatusInv /\ pc \in [Threads -> PCs] /\ frame \in [Threads -> Frames]
      /\ Running => dg_value \in 0..LONG_MAX
  BY DEF IInv, TypeOK, StatusInv
<1>1. ASSUME Entering' \subseteq Entering, Running' => Running /\ dg_value' = dg_value
      PROVE  EnterInv'
  BY <1>0, <1>1 DEF EnterInv
<1>2. CASE UNCHANGED vars
  BY <1>1, <1>2 DEF vars, Entering, Running, count_vars, ref_vars
<1>3. ASSUME NEW cnt \in {0, 1}, _dispatch_group_create_with_count(cnt) PROVE EnterInv'
  <2>1. Entering' = {}
    BY <1>0, <1>3 DEF _dispatch_group_create_with_count, Entering, StatusInv
  <2> QED
    BY <2>1 DEF EnterInv
<1>4. ASSUME NEW t \in Threads, QuietRefs(t) PROVE EnterInv'
  BY <1>1, <1>4, QuietStep DEF Running
<1>5. ASSUME NEW t \in Threads, dispatch_release(t) \/ WakeRelease(t) PROVE EnterInv'
  <2>1. frame[t].caller # "enter_retain"
    BY <1>0 DEF Frames
  <2>2. Entering' \subseteq Entering
    BY <1>0, <1>5, <2>1 DEF dispatch_release, WakeRelease, Entering
  <2> QED
    BY <1>1, <1>5, <2>2 DEF dispatch_release, WakeRelease, count_vars
<1>6. ASSUME NEW t \in Threads, dispatch_group_enter(t) PROVE EnterInv'
  <2>1. CASE dg_value = 0
    <3>1. Entering = {}
      BY SMTT(30), <1>0, <1>6, <2>1 DEF EnterInv, dispatch_group_enter
    <3>2. Entering' = {t}
      BY <1>0, <1>6, <2>1, <3>1 DEF dispatch_group_enter, Entering
    <3>3. dg_value' > 0
      BY SMTT(30), <1>6, <2>1 DEF dispatch_group_enter
    <3> QED
      BY <3>2, <3>3 DEF EnterInv
  <2>2. CASE dg_value # 0
    <3>1. Entering' \subseteq Entering
      BY <1>0, <1>6, <2>2 DEF dispatch_group_enter, Entering
    <3>2. Entering # {} => dg_value' > 0
      BY SMTT(30), <1>0, <1>6 DEF dispatch_group_enter, EnterInv
    <3> QED
      BY <1>0, <3>1, <3>2 DEF EnterInv
  <2> QED
    BY <2>1, <2>2
<1>7. ASSUME NEW t \in Threads, dispatch_group_leave(t) PROVE EnterInv'
  <2>1. Entering' = Entering
    BY <1>0, <1>7 DEF dispatch_group_leave, Entering
  <2>2. Running' /\ Entering # {} => dg_value' > 0
    <3> SUFFICES ASSUME Running', Entering # {} PROVE dg_value' > 0
      OBVIOUS
    <3>1. Entering \in SUBSET Threads
      BY DEF Entering
    <3>2. Cardinality(Entering) \in Nat /\ Cardinality(Entering) # 0
      BY <3>1, Card
    <3>3. dg_value # 0 /\ dg_value \in Nat
      BY SMTT(30), <1>0, <1>7, GroupConstants DEF dispatch_group_leave, Running
    <3>4. dg_value - Cardinality(Entering) > 0
      BY <1>7, <3>3 DEF dispatch_group_leave, Entered, Entering
    <3> QED
      BY SMTT(30), <1>7, <3>2, <3>3, <3>4 DEF dispatch_group_leave
  <2> QED
    BY <1>0, <2>1, <2>2 DEF EnterInv
<1>8. ASSUME NEW t \in Threads,
             \/ EnterRetain(t) \/ WakeTail(t) \/ NotifyRetain(t)
             \/ \E b \in Blocks : dispatch_group_notify(t, b)
      PROVE  EnterInv'
  <2>1. Entering' \subseteq Entering
    BY <1>0, <1>8 DEF EnterRetain, WakeTail, NotifyRetain, dispatch_group_notify, Entering
  <2>2. Running' => Running /\ dg_value' = dg_value
    BY <1>8
       DEF EnterRetain, WakeTail, NotifyRetain, dispatch_group_notify, count_vars, ref_vars,
       Running
  <2> QED
    BY <1>1, <2>1, <2>2
<1> QED
  BY <1>2, <1>3, <1>4, <1>5, <1>6, <1>7, <1>8, NextByKind

(* Every step keeps the account of who holds the references.                  *)
LEMMA NextRefs == IInv /\ [Next]_vars => RefInv'
<1> SUFFICES ASSUME IInv, [Next]_vars, Running' PROVE do_ref_cnt' + 1 = References'
  BY DEF RefInv
<1> USE DEF At, Goto, Return
<1> DEFINE a == One(dg_value > 0 /\ Entering = {})
           b == One(dg_notify_tail # NULL /\ Retaining = {})
           c == One(Client)
           l == Cardinality(Leaving)
           s == Cardinality(Snapshots)
<1>0. /\ TypeOK /\ FrameInv /\ EnterInv /\ StatusInv /\ RefInv /\ OwnerInv
      /\ pc \in [Threads -> PCs] /\ frame \in [Threads -> Frames] /\ do_ref_cnt \in Int
      /\ Running => dg_value \in Nat /\ do_ref_cnt + 1 = References
  BY SMTT(30), GroupConstants DEF IInv, TypeOK, StatusInv, RefInv
<1>1. /\ a \in {0, 1} /\ b \in {0, 1} /\ c \in {0, 1} /\ l \in Nat /\ s \in Nat
      /\ Leaving \in SUBSET Threads /\ Snapshots \in SUBSET Threads
  BY RefsType DEF Leaving, Snapshots
<1>2. References = c + a + l + b + s /\ References' = c' + a' + l' + b' + s'
  BY DEF References
<1> HIDE DEF a, b, c, l, s
<1>3. ASSUME Running, do_ref_cnt' = do_ref_cnt, References' = References
      PROVE  do_ref_cnt' + 1 = References'
  BY <1>0, <1>3
<1>4. CASE UNCHANGED vars
  <2>1. Running /\ do_ref_cnt' = do_ref_cnt
    BY <1>4 DEF vars, ref_vars, Running
  <2>2. a' = a /\ b' = b /\ c' = c /\ l' = l /\ s' = s
    BY <1>4 DEF a, b, c, l, s, vars, count_vars, list_vars, ref_vars, Client, Entering,
       Retaining, Leaving, Snapshots
  <2> QED
    BY <1>2, <1>3, <2>1, <2>2
<1>5. ASSUME NEW cnt \in {0, 1}, _dispatch_group_create_with_count(cnt)
      PROVE  do_ref_cnt' + 1 = References'
  <2>1. \A t \in Threads : pc'[t] = "idle" /\ frame'[t].needs_release = 0 /\ frame'[t].tail = NULL
    BY <1>0, <1>5 DEF _dispatch_group_create_with_count, StatusInv, FrameInv, FrameOK, WakePCs
  <2>2. Entering' = {} /\ Retaining' = {}
    BY <2>1 DEF Entering, Retaining
  <2>3. Leaving' = {} /\ Snapshots' = {}
    <3>1. 0 # 1
      BY SMTT(30)
    <3> QED BY <2>1, <3>1 DEF Leaving, Snapshots
  <2>4. l' = 0 /\ s' = 0
    BY <2>3, FS_EmptySet DEF l, s
  <2>5. c' = 1 /\ b' = 0 /\ do_ref_cnt' = cnt
    BY <1>5 DEF c, b, One, Client, _dispatch_group_create_with_count
  <2>6. a' = cnt
    <3>1. dg_value' = cnt
      BY <1>5 DEF _dispatch_group_create_with_count
    <3>2. CASE cnt = 0
      <4>1. ~ (dg_value' > 0)
        BY SMTT(30), <3>1, <3>2
      <4> QED BY <3>2, <4>1 DEF a, One
    <3>3. CASE cnt = 1
      <4>1. dg_value' > 0
        BY SMTT(30), <3>1, <3>3
      <4> QED BY <2>2, <3>3, <4>1 DEF a, One
    <3> QED BY <1>5, <3>2, <3>3
  <2> QED
    BY SMTT(30), <1>2, <2>4, <2>5, <2>6, <1>5
<1>6. ASSUME NEW t \in Threads, QuietRefs(t) PROVE do_ref_cnt' + 1 = References'
  <2>1. a' = a /\ b' = b /\ c' = c /\ l' = l /\ s' = s /\ Running /\ do_ref_cnt' = do_ref_cnt
    BY <1>6, QuietStep DEF a, b, c, l, s, Client
  <2> QED
    BY <1>2, <1>3, <2>1
<1>7. ASSUME NEW t \in Threads, dispatch_release(t) \/ WakeRelease(t)
      PROVE  do_ref_cnt' + 1 = References'
  <2>1. ~ Dead(t)
    BY DEF Dead, Running
  <2> QED
    BY <1>7, <2>1, ReleaseClient, ReleaseWake DEF Alive
<1>8. ASSUME NEW t \in Threads, dispatch_group_enter(t) PROVE do_ref_cnt' + 1 = References'
  <2>1. /\ Running /\ do_ref_cnt' = do_ref_cnt /\ frame' = frame /\ dg_value' = dg_value + 1
        /\ dg_notify_tail' = dg_notify_tail /\ do_xref_cnt' = do_xref_cnt /\ dg_value \in Nat
    BY <1>0, <1>8 DEF dispatch_group_enter, list_vars
  <2>2. c' = c /\ l' = l /\ s' = s
    BY <2>1 DEF c, l, s, Client, Leaving, Snapshots
  <2>3. b' = b
    <3>1. Retaining' = Retaining
      BY <1>0, <1>8 DEF dispatch_group_enter, Retaining
    <3> QED BY <2>1, <3>1 DEF b
  <2>4. a' = a
    <3>1. CASE dg_value = 0
      <4>1. ~ (dg_value > 0)
        BY SMTT(30), <3>1
      <4>2. t \in Entering'
        BY <1>0, <1>8, <3>1 DEF dispatch_group_enter, Entering
      <4> QED BY <4>1, <4>2 DEF a, One
    <3>2. CASE dg_value # 0
      <4>1. dg_value > 0 /\ dg_value' > 0
        BY SMTT(30), <2>1, <3>2
      <4>2. Entering' = Entering
        BY <1>0, <1>8, <3>2 DEF dispatch_group_enter, Entering
      <4> QED BY <4>1, <4>2 DEF a, One
    <3> QED BY <3>1, <3>2
  <2> QED
    BY <1>2, <1>3, <2>1, <2>2, <2>3, <2>4
<1>9. ASSUME NEW t \in Threads, EnterRetain(t) PROVE do_ref_cnt' + 1 = References'
  <2>1. /\ Running /\ do_ref_cnt' = do_ref_cnt + 1 /\ frame' = frame /\ dg_value' = dg_value
        /\ dg_notify_tail' = dg_notify_tail /\ do_xref_cnt' = do_xref_cnt
        /\ pc[t] = "enter_retain" /\ pc' = [pc EXCEPT ![t] = "idle"]
    BY <1>9 DEF EnterRetain, _dispatch_retain, list_vars, count_vars
  <2>2. c' = c /\ l' = l /\ s' = s
    BY <2>1 DEF c, l, s, Client, Leaving, Snapshots
  <2>3. b' = b
    <3>1. Retaining' = Retaining
      BY <1>0, <2>1 DEF Retaining
    <3> QED BY <2>1, <3>1 DEF b
  <2>4. a = 0 /\ a' = 1
    <3>1. t \in Entering
      BY <2>1 DEF Entering
    <3>2. Entering' = {}
      BY <1>0, <2>1, <3>1 DEF Entering, EnterInv
    <3>3. dg_value' > 0
      BY <1>0, <2>1, <3>1 DEF EnterInv
    <3> QED BY <3>1, <3>2, <3>3 DEF a, One
  <2> QED
    BY SMTT(30), <1>0, <1>1, <1>2, <2>1, <2>2, <2>3, <2>4
<1>10. ASSUME NEW t \in Threads, dispatch_group_leave(t) PROVE do_ref_cnt' + 1 = References'
  <2>1. /\ Running /\ do_ref_cnt' = do_ref_cnt /\ dg_value' = dg_value - 1
        /\ dg_notify_tail' = dg_notify_tail /\ do_xref_cnt' = do_xref_cnt
        /\ dg_value \in Nat /\ dg_value # 0 /\ pc[t] = "idle"
    BY <1>0, <1>10 DEF dispatch_group_leave, list_vars, Running
  <2>2. c' = c
    BY <2>1 DEF c, Client
  <2>3. b' = b /\ Entering' = Entering
    <3>1. Retaining' = Retaining /\ Entering' = Entering
      BY <1>0, <1>10 DEF dispatch_group_leave, Retaining, Entering
    <3> QED BY <2>1, <3>1 DEF b
  <2>4. frame[t] \in Frames /\ frame[t].needs_release = 0
    BY <1>0, <2>1 DEF FrameInv, FrameOK, WakePCs
  <2>5. CASE dg_value = 1
    <3>1. frame' = [frame EXCEPT ![t].needs_release = 1]
      BY <1>10, <2>5 DEF dispatch_group_leave
    <3>2. /\ frame'[t].needs_release = 1 /\ frame'[t].tail = frame[t].tail
          /\ \A u \in Threads : u # t => frame'[u] = frame[u]
      BY SMTT(30), <1>0, <2>4, <3>1 DEF Frames
    <3>3. s' = s
      <4>1. Snapshots' = Snapshots
        BY <3>2 DEF Snapshots
      <4> QED BY <4>1 DEF s
    <3>4. l' = l + 1
      <4>1. 0 # 1
        BY SMTT(30)
      <4>2. Leaving' = Leaving \cup {t} /\ t \notin Leaving
        BY <2>4, <3>2, <4>1 DEF Leaving
      <4> QED BY <1>1, <4>2, Card DEF l
    <3>5. a = 1 /\ a' = 0
      <4>1. dg_value > 0 /\ ~ (dg_value' > 0)
        BY SMTT(30), <2>1, <2>5
      <4>2. Entering = {}
        <5>1. Entering \in SUBSET Threads
          BY DEF Entering
        <5>2. Cardinality(Entering) \in Nat /\ (Cardinality(Entering) = 0 <=> Entering = {})
          BY <5>1, Card
        <5>3. dg_value - Cardinality(Entering) > 0
          BY <1>10, <2>1 DEF dispatch_group_leave, Entered, Entering
        <5> QED BY SMTT(30), <2>5, <5>2, <5>3
      <4> QED BY <4>1, <4>2 DEF a, One
    <3> QED
      BY SMTT(30), <1>0, <1>1, <1>2, <2>1, <2>2, <2>3, <3>3, <3>4, <3>5
  <2>6. CASE dg_value # 1
    <3>1. frame' = frame
      BY <1>10, <2>6 DEF dispatch_group_leave
    <3>2. dg_value > 0 /\ dg_value' > 0
      BY SMTT(30), <2>1, <2>6
    <3>3. a' = a /\ l' = l /\ s' = s
      BY <2>3, <3>1, <3>2 DEF a, l, s, One, Leaving, Snapshots
    <3> QED
      BY <1>2, <1>3, <2>1, <2>2, <2>3, <3>3
  <2> QED
    BY <2>5, <2>6
<1>11. ASSUME NEW t \in Threads, WakeTail(t) PROVE do_ref_cnt' + 1 = References'
  <2>1. /\ Running /\ do_ref_cnt' = do_ref_cnt /\ dg_value' = dg_value
        /\ dg_notify_tail' = NULL /\ do_xref_cnt' = do_xref_cnt
        /\ pc[t] = "wake_tail" /\ pc' = [pc EXCEPT ![t] = "wake_waiters"]
        /\ frame' = [frame EXCEPT ![t].tail = dg_notify_tail]
    BY <1>11 DEF WakeTail, count_vars, ref_vars
  <2>2. c' = c
    BY <2>1 DEF c, Client
  <2>3. a' = a
    <3>1. Entering' = Entering
      BY <1>0, <2>1 DEF Entering
    <3> QED BY <2>1, <3>1 DEF a
  <2>4. b = 1 /\ b' = 0
    BY <1>0, <2>1 DEF b, One, OwnerInv, HeadPCs, Retaining
  <2>5. dg_notify_tail # NULL
    BY <2>4, ZeroOne DEF b, One
  <2>6. frame[t] \in Frames /\ frame[t].tail = NULL
    BY <1>0, <2>1 DEF FrameInv, FrameOK, WakePCs
  <2>7. /\ frame'[t].tail = dg_notify_tail
        /\ frame'[t].needs_release = frame[t].needs_release
        /\ \A u \in Threads : u # t => frame'[u] = frame[u]
    BY SMTT(30), <1>0, <2>1, <2>6 DEF Frames
  <2>8. l' = l
    <3>1. Leaving' = Leaving
      BY <2>7 DEF Leaving
    <3> QED BY <3>1 DEF l
  <2>9. s' = s + 1
    <3>1. Snapshots' = Snapshots \cup {t} /\ t \notin Snapshots
      <4>1. \A u \in Threads : frame'[u].tail # NULL <=> frame[u].tail # NULL \/ u = t
        BY <2>5, <2>7
      <4> QED
        BY <2>6, <4>1 DEF Snapshots
    <3> QED BY <1>1, <3>1, Card DEF s
  <2> QED
    BY SMTT(30), <1>0, <1>1, <1>2, <2>1, <2>2, <2>3, <2>4, <2>8, <2>9
<1>12. ASSUME NEW t \in Threads, NEW blk \in Blocks, dispatch_group_notify(t, blk)
       PROVE  do_ref_cnt' + 1 = References'
  <2>1. /\ Running /\ do_ref_cnt' = do_ref_cnt /\ dg_value' = dg_value
        /\ dg_notify_tail' = blk /\ do_xref_cnt' = do_xref_cnt /\ pc[t] = "idle"
        /\ pc' = [pc EXCEPT ![t] = IF dg_notify_tail = NULL THEN "notify_retain"
                                   ELSE "notify_link"]
        /\ frame' = [frame EXCEPT ![t].dsn = blk, ![t].prev = dg_notify_tail]
    BY <1>12 DEF dispatch_group_notify, count_vars, ref_vars
  <2>2. c' = c
    BY <2>1 DEF c, Client
  <2>3. a' = a
    <3>1. Entering' = Entering
      BY <1>0, <2>1 DEF Entering
    <3> QED BY <2>1, <3>1 DEF a
  <2>4. \A u \in Threads : /\ frame'[u].tail = frame[u].tail
                           /\ frame'[u].needs_release = frame[u].needs_release
    BY SMTT(30), <1>0, <2>1 DEF Frames
  <2>5. l' = l /\ s' = s
    BY <2>4 DEF l, s, Leaving, Snapshots
  <2>6. b' = b
    <3>1. CASE dg_notify_tail = NULL
      <4>1. t \in Retaining'
        BY <1>0, <2>1, <3>1 DEF Retaining
      <4> QED BY <3>1, <4>1 DEF b, One
    <3>2. CASE dg_notify_tail # NULL
      <4>1. Retaining' = Retaining
        BY <1>0, <2>1, <3>2 DEF Retaining
      <4> QED BY <2>1, <3>2, <4>1, GroupConstants DEF b, One
    <3> QED BY <3>1, <3>2
  <2> QED
    BY <1>2, <1>3, <2>1, <2>2, <2>3, <2>5, <2>6
<1>13. ASSUME NEW t \in Threads, NotifyRetain(t) PROVE do_ref_cnt' + 1 = References'
  <2>1. /\ Running /\ do_ref_cnt' = do_ref_cnt + 1 /\ frame' = frame /\ dg_value' = dg_value
        /\ dg_notify_tail' = dg_notify_tail /\ do_xref_cnt' = do_xref_cnt
        /\ pc[t] = "notify_retain" /\ pc' = [pc EXCEPT ![t] = "notify_head"]
    BY <1>13 DEF NotifyRetain, _dispatch_retain, list_vars, count_vars
  <2>2. c' = c /\ l' = l /\ s' = s
    BY <2>1 DEF c, l, s, Client, Leaving, Snapshots
  <2>3. a' = a
    <3>1. Entering' = Entering
      BY <1>0, <2>1 DEF Entering
    <3> QED BY <2>1, <3>1 DEF a
  <2>4. b = 0 /\ b' = 1
    <3>1. t \in Retaining
      BY <2>1 DEF Retaining
    <3>2. Retaining' = {}
      BY <1>0, <2>1 DEF Retaining, OwnerInv, HeadPCs
    <3>3. dg_notify_tail' # NULL
      BY <1>0, <2>1 DEF OwnerInv, HeadPCs
    <3> QED BY <3>1, <3>2, <3>3 DEF b, One
  <2> QED
    BY SMTT(30), <1>0, <1>1, <1>2, <2>1, <2>2, <2>3, <2>4
<1> QED
  BY <1>4, <1>5, <1>6, <1>7, <1>8, <1>9, <1>10, <1>11, <1>12, <1>13, NextByKind

(* Every step leaves the head of the list to one thread.                      *)
LEMMA NextOwner == IInv /\ [Next]_vars => OwnerInv'
<1> SUFFICES ASSUME IInv, [Next]_vars PROVE OwnerInv'
  OBVIOUS
<1> USE DEF At, Goto, Return
<1>0. /\ OwnerInv /\ FrameInv /\ StatusInv /\ PushedInv
      /\ pc \in [Threads -> PCs] /\ frame \in [Threads -> Frames]
  BY DEF IInv, ListInv, TypeOK
<1>1. ASSUME UNCHANGED <<dg_notify_head, dg_notify_tail>>,
             \A u \in Threads : pc'[u] \in HeadPCs <=> pc[u] \in HeadPCs
      PROVE  OwnerInv'
  BY <1>0, <1>1 DEF OwnerInv
<1>2. ASSUME NEW t \in Threads, NEW b \in Blocks, dispatch_group_notify(t, b) PROVE OwnerInv'
  <2>1. /\ dg_notify_tail' = b /\ dg_notify_head' = dg_notify_head /\ b # NULL
        /\ pc[t] = "idle"
        /\ pc' = [pc EXCEPT ![t] = IF dg_notify_tail = NULL THEN "notify_retain"
                                   ELSE "notify_link"]
    BY <1>2, GroupConstants DEF dispatch_group_notify
  <2>2. CASE dg_notify_tail = NULL
    BY <1>0, <2>1, <2>2 DEF OwnerInv, HeadPCs
  <2>3. CASE dg_notify_tail # NULL
    <3>1. \A u \in Threads : pc'[u] \in HeadPCs <=> pc[u] \in HeadPCs
      BY <1>0, <2>1, <2>3 DEF HeadPCs
    <3> QED
      BY <1>0, <2>1, <2>3, <3>1 DEF OwnerInv
  <2> QED
    BY <2>2, <2>3
<1>3. ASSUME NEW t \in Threads, NotifyRetain(t) PROVE OwnerInv'
  <2>1. \A u \in Threads : pc'[u] \in HeadPCs <=> pc[u] \in HeadPCs
    BY <1>0, <1>3 DEF NotifyRetain, HeadPCs
  <2> QED
    BY <1>1, <1>3, <2>1 DEF NotifyRetain, list_vars
<1>4. ASSUME NEW t \in Threads, NotifyHead(t) PROVE OwnerInv'
  <2>1. /\ dg_notify_head' = frame[t].dsn /\ dg_notify_tail' = dg_notify_tail
        /\ pc[t] = "notify_head" /\ pc' = [pc EXCEPT ![t] = "notify_check"]
    BY <1>4 DEF NotifyHead
  <2>2. frame[t].dsn # NULL
    BY <1>0, <2>1 DEF FrameInv, FrameOK
  <2>3. \A u \in Threads : pc'[u] \notin HeadPCs
    BY <1>0, <2>1 DEF OwnerInv, HeadPCs
  <2>4. dg_notify_tail # NULL
    BY <1>0, <2>1 DEF OwnerInv, HeadPCs
  <2> QED
    BY <2>1, <2>2, <2>3, <2>4 DEF OwnerInv
<1>5. ASSUME NEW t \in Threads, WakeHead(t) PROVE OwnerInv'
  <2>1. /\ dg_notify_head' = NULL /\ dg_notify_tail' = dg_notify_tail /\ pc[t] = "wake_head"
        /\ pc' = [pc EXCEPT ![t] = IF dg_notify_head = NULL THEN "wake_waiters"
                                   ELSE "wake_tail"]
    BY <1>5 DEF WakeHead
  <2>2. CASE dg_notify_head = NULL
    <3>1. \A u \in Threads : pc'[u] \in HeadPCs <=> pc[u] \in HeadPCs
      BY <1>0, <2>1, <2>2 DEF HeadPCs
    <3> QED
      BY <1>1, <2>1, <2>2, <3>1
  <2>3. CASE dg_notify_head # NULL
    BY <1>0, <2>1, <2>3 DEF OwnerInv, HeadPCs
  <2> QED
    BY <2>2, <2>3
<1>6. ASSUME NEW t \in Threads, WakeTail(t) PROVE OwnerInv'
  <2>1. /\ dg_notify_tail' = NULL /\ dg_notify_head' = dg_notify_head /\ pc[t] = "wake_tail"
        /\ pc' = [pc EXCEPT ![t] = "wake_waiters"]
    BY <1>6 DEF WakeTail
  <2>2. \A u \in Threads : pc'[u] \notin HeadPCs
    BY <1>0, <2>1 DEF OwnerInv, HeadPCs
  <2>3. dg_notify_head = NULL
    BY <1>0, <2>1 DEF OwnerInv, HeadPCs
  <2> QED
    BY <2>1, <2>2, <2>3 DEF OwnerInv
<1>7. ASSUME NEW cnt \in {0, 1}, _dispatch_group_create_with_count(cnt) PROVE OwnerInv'
  BY <1>0, <1>7 DEF _dispatch_group_create_with_count, StatusInv, OwnerInv, HeadPCs
<1>8. CASE UNCHANGED vars
  BY <1>1, <1>8 DEF vars, list_vars
<1>9. ASSUME NEW t \in Threads, QuietRefs(t), ~ NotifyHead(t), ~ WakeHead(t) PROVE OwnerInv'
  <2>1. UNCHANGED <<dg_notify_head, dg_notify_tail>>
    BY <1>9 DEF QuietRefs, dispatch_group_wait, WakeWaiters, WakeTestCreated,
       WakeCreate, WakeSignal, WakeNotify, WaitCheck, WaitRegister, WaitRecheck,
       WaitTestCreated, WaitCreate, KernelWait, KernelTimeout, KernelAborted, UndoRegister,
       NotifyLink, NotifyCheck, list_vars
  <2>2. pc[t] \notin HeadPCs /\ pc'[t] \notin HeadPCs
    BY <1>0, <1>9, SlowPathType, AfterSignalsType DEF QuietRefs, dispatch_group_wait,
       WakeWaiters, WakeTestCreated, WakeCreate, WakeSignal, WakeNotify, WaitCheck,
       WaitRegister, WaitRecheck, WaitTestCreated, WaitCreate, KernelWait, KernelTimeout,
       KernelAborted, UndoRegister, NotifyLink, NotifyCheck, HeadPCs
  <2>3. ASSUME NEW u \in Threads, u # t PROVE pc'[u] \in HeadPCs <=> pc[u] \in HeadPCs
    <3>1. CASE ~ WakeSignal(t)
      BY <1>0, <1>9, <2>3, <3>1 DEF QuietRefs, dispatch_group_wait, WakeWaiters,
         WakeTestCreated, WakeCreate, WakeNotify, WaitCheck, WaitRegister, WaitRecheck,
         WaitTestCreated, WaitCreate, KernelWait, KernelTimeout, KernelAborted,
         UndoRegister, NotifyLink, NotifyCheck
    <3>2. CASE WakeSignal(t)
      <4>1. pc'[u] = IF u \in Woken(sema) THEN "idle" ELSE pc[u]
        BY <2>3, <3>2 DEF WakeSignal
      <4> QED
        BY <3>2, <4>1, WokenBlocked DEF Blocked, HeadPCs
    <3> QED
      BY <3>1, <3>2
  <2> QED
    BY <1>1, <2>1, <2>2, <2>3
<1>10. ASSUME NEW t \in Threads,
              \/ dispatch_release(t) \/ WakeRelease(t) \/ dispatch_group_enter(t)
              \/ dispatch_group_leave(t) \/ EnterRetain(t)
       PROVE  OwnerInv'
  <2>1. UNCHANGED <<dg_notify_head, dg_notify_tail>>
    BY <1>10 DEF dispatch_release, WakeRelease, dispatch_group_enter, dispatch_group_leave,
       EnterRetain, list_vars
  <2>2. frame[t].caller \in {"idle", "wait_test"}
    BY <1>0 DEF Frames
  <2>3. \A u \in Threads : pc'[u] \in HeadPCs <=> pc[u] \in HeadPCs
    BY <1>0, <1>10, <2>2 DEF dispatch_release, WakeRelease, dispatch_group_enter,
       dispatch_group_leave, EnterRetain, HeadPCs
  <2> QED
    BY <1>1, <2>1, <2>3
<1> QED
  BY <1>2, <1>3, <1>4, <1>5, <1>6, <1>7, <1>8, <1>9, <1>10, NextByKind

(* Every step leaves somebody to do the wake-ups that are due.                *)
LEMMA NextWake == IInv /\ [Next]_vars => WakeInv'
<1> SUFFICES ASSUME IInv, [Next]_vars, Running', dg_value' = 0
             PROVE  /\ dg_notify_head' # NULL =>
                         \E t \in Threads : pc'[t] \in {"wake_head", "notify_check"}
                    /\ dg_waiters' > 0 =>
                         \E t \in Threads : pc'[t] \in {"wake_head", "wake_tail",
                                                        "wake_waiters", "wait_recheck"}
  BY DEF WakeInv
<1> USE DEF At, Goto, Return
<1> DEFINE A == {"wake_head", "notify_check"}
           B == {"wake_head", "wake_tail", "wake_waiters", "wait_recheck"}
           Goal == /\ dg_notify_head' # NULL => \E t \in Threads : pc'[t] \in A
                   /\ dg_waiters' > 0 => \E t \in Threads : pc'[t] \in B
<1>0. /\ WakeInv /\ StatusInv
      /\ pc \in [Threads -> PCs] /\ frame \in [Threads -> Frames]
      /\ dg_waiters \in Nat
      /\ Running => dg_value \in Nat
  BY SMTT(30), Card, GroupConstants DEF IInv, TypeOK, StatusInv
<1>1. ASSUME Running, dg_value = 0
      PROVE  /\ dg_notify_head # NULL => \E t \in Threads : pc[t] \in A
             /\ dg_waiters > 0 => \E t \in Threads : pc[t] \in B
  BY <1>0, <1>1 DEF WakeInv
<1>2. ASSUME Running, UNCHANGED <<dg_value, dg_notify_head>>,
             dg_waiters' > 0 => dg_waiters > 0,
             \A u \in Threads : pc[u] \in A \cup B => pc'[u] = pc[u]
      PROVE  Goal
  BY <1>1, <1>2
<1>3. ASSUME UNCHANGED vars PROVE Goal
  BY <1>2, <1>3 DEF vars, count_vars, list_vars, ref_vars, Running
<1>4. ASSUME NEW cnt \in {0, 1}, _dispatch_group_create_with_count(cnt) PROVE Goal
  <2>1. dg_notify_head' = NULL /\ dg_waiters' = 0
    BY <1>4 DEF _dispatch_group_create_with_count
  <2>2. ~ (dg_waiters' > 0)
    BY SMTT(30), <2>1
  <2> QED
    BY <2>1, <2>2
<1>5. ASSUME NEW t \in Threads, dispatch_group_enter(t) PROVE Goal
  <2>1. dg_value' = dg_value + 1 /\ Running
    BY <1>5 DEF dispatch_group_enter
  <2>2. dg_value' # 0
    BY SMTT(30), <1>0, <2>1
  <2> QED
    BY <2>2
<1>6. ASSUME NEW t \in Threads, dispatch_group_leave(t) PROVE Goal
  <2>1. Running /\ dg_value # 0 /\ dg_value' = dg_value - 1
    BY <1>6 DEF dispatch_group_leave, Running
  <2>2. dg_value = 1
    BY SMTT(30), <1>0, <2>1
  <2>3. pc'[t] = "wake_head"
    BY <1>0, <1>6, <2>2 DEF dispatch_group_leave
  <2> QED
    BY <2>3
<1>7. ASSUME NEW t \in Threads,
             \/ dispatch_release(t) \/ WakeRelease(t) \/ EnterRetain(t)
             \/ \E to \in Timeouts : dispatch_group_wait(t, to)
             \/ \E b \in Blocks : dispatch_group_notify(t, b)
             \/ WakeTestCreated(t) \/ WakeCreate(t) \/ WakeNotify(t) \/ WaitCheck(t)
             \/ WaitTestCreated(t) \/ WaitCreate(t) \/ KernelWait(t) \/ KernelTimeout(t)
             \/ KernelAborted(t) \/ NotifyLink(t) \/ NotifyRetain(t)
      PROVE  Goal
  <2>1. Running /\ UNCHANGED <<dg_value, dg_notify_head, dg_waiters>>
    BY <1>7 DEF dispatch_release, WakeRelease, EnterRetain, dispatch_group_wait,
       dispatch_group_notify, WakeTestCreated, WakeCreate, WakeNotify, WaitCheck,
       WaitTestCreated, WaitCreate, KernelWait, KernelTimeout, KernelAborted, NotifyLink,
       NotifyRetain, count_vars, list_vars
  <2>2. pc[t] \notin A \cup B
    BY <1>7 DEF dispatch_release, WakeRelease, EnterRetain, dispatch_group_wait,
       dispatch_group_notify, WakeTestCreated, WakeCreate, WakeNotify, WaitCheck,
       WaitTestCreated, WaitCreate, KernelWait, KernelTimeout, KernelAborted, NotifyLink,
       NotifyRetain
  <2>3. \A u \in Threads : u # t => pc'[u] = pc[u]
    BY <1>0, <1>7 DEF dispatch_release, WakeRelease, EnterRetain, dispatch_group_wait,
       dispatch_group_notify, WakeTestCreated, WakeCreate, WakeNotify, WaitCheck,
       WaitTestCreated, WaitCreate, KernelWait, KernelTimeout, KernelAborted, NotifyLink,
       NotifyRetain
  <2> HIDE DEF A, B, Goal
  <2> QED
    BY <1>2, <2>1, <2>2, <2>3
<1>8. ASSUME NEW t \in Threads, WakeSignal(t) PROVE Goal
  <2>1. Running /\ UNCHANGED <<dg_value, dg_notify_head, dg_waiters>> /\ pc[t] = "wake_signal"
    BY <1>8 DEF WakeSignal, count_vars, list_vars
  <2>2. ASSUME NEW u \in Threads, pc[u] \in A \cup B PROVE pc'[u] = pc[u]
    <3>1. u # t /\ ~ Blocked(u)
      BY <2>1, <2>2 DEF Blocked
    <3>2. u \notin Woken(sema)
      BY <1>8, <3>1, WokenBlocked
    <3> QED
      BY <1>8, <3>1, <3>2 DEF WakeSignal
  <2> HIDE DEF A, B, Goal
  <2> QED
    BY <1>2, <2>1, <2>2
<1>9. ASSUME NEW t \in Threads, UndoRegister(t) PROVE Goal
  <2>1. /\ Running /\ UNCHANGED <<dg_value, dg_notify_head>> /\ pc[t] = "undo"
        /\ dg_waiters' = (IF dg_waiters > 0 THEN dg_waiters - 1 ELSE dg_waiters)
        /\ \A u \in Threads : u # t => pc'[u] = pc[u]
    BY <1>0, <1>9 DEF UndoRegister, list_vars
  <2>2. dg_waiters' > 0 => dg_waiters > 0
    BY SMTT(30), <1>0, <2>1
  <2>3. pc[t] \notin A \cup B
    BY <2>1
  <2> HIDE DEF A, B, Goal
  <2> QED
    BY <1>2, <2>1, <2>2, <2>3
<1>10. ASSUME NEW t \in Threads, WakeHead(t) PROVE Goal
  <2>1. dg_notify_head' = NULL /\ pc'[t] \in {"wake_waiters", "wake_tail"}
    BY <1>0, <1>10 DEF WakeHead
  <2> QED
    BY <2>1
<1>11. ASSUME NEW t \in Threads, WakeTail(t) PROVE Goal
  <2>1. /\ Running /\ UNCHANGED <<dg_value, dg_notify_head>> /\ pc[t] = "wake_tail"
        /\ pc' = [pc EXCEPT ![t] = "wake_waiters"]
    BY <1>11 DEF WakeTail, count_vars
  <2> QED
    BY <1>0, <1>1, <2>1
<1>12. ASSUME NEW t \in Threads, WakeWaiters(t) PROVE Goal
  <2>1. /\ Running /\ UNCHANGED <<dg_value, dg_notify_head>> /\ pc[t] = "wake_waiters"
        /\ dg_waiters' = 0 /\ \A u \in Threads : u # t => pc'[u] = pc[u]
    BY <1>0, <1>12 DEF WakeWaiters, list_vars
  <2>2. ~ (dg_waiters' > 0)
    BY SMTT(30), <2>1
  <2> QED
    BY <1>1, <2>1, <2>2
<1>13. ASSUME NEW t \in Threads, WaitRegister(t) PROVE Goal
  <2>1. /\ Running /\ UNCHANGED <<dg_value, dg_notify_head>> /\ pc[t] = "wait_register"
        /\ pc' = [pc EXCEPT ![t] = "wait_recheck"]
    BY <1>13 DEF WaitRegister, list_vars
  <2> QED
    BY <1>0, <1>1, <2>1
<1>14. ASSUME NEW t \in Threads, WaitRecheck(t) \/ NotifyCheck(t) PROVE Goal
  <2>1. dg_value = 0
    BY <1>14 DEF WaitRecheck, NotifyCheck, count_vars
  <2>2. pc'[t] = "wake_head"
    BY <1>0, <1>14, <2>1 DEF WaitRecheck, NotifyCheck
  <2> QED
    BY <2>2
<1>15. ASSUME NEW t \in Threads, NotifyHead(t) PROVE Goal
  <2>1. /\ Running /\ UNCHANGED <<dg_value, dg_waiters>> /\ pc[t] = "notify_head"
        /\ pc' = [pc EXCEPT ![t] = "notify_check"]
    BY <1>15 DEF NotifyHead, count_vars
  <2> QED
    BY <1>0, <1>1, <2>1
<1>16. Goal
  <2> HIDE DEF Goal
  <2> QED
    BY <1>3, <1>4, <1>5, <1>6, <1>7, <1>8, <1>9, <1>10, <1>11, <1>12, <1>13, <1>14, <1>15,
       NextByKind DEF QuietRefs
<1> QED
  BY <1>16

-----------------------------------------------------------------------------
(***************************************************************************)
(* The notify list                                                         *)
(***************************************************************************)

(* A step after which the same blocks follow each other and the same ones are *)
(* first of a list.                                                           *)
SameLinks ==
  /\ \A a, b \in Blocks : Linked(a, b)' <=> Linked(a, b)
  /\ \A b \in Blocks : IsFirst(b)' <=> IsFirst(b)
  /\ UNCHANGED <<submitted, pushed>>

(* What the invariant says of the list, for use below.                        *)
LEMMA ListTypes ==
  ASSUME IInv
  PROVE  /\ NULL \notin Blocks /\ pushed \subseteq Blocks
         /\ dg_notify_head \in Blocks \cup {NULL} /\ dg_notify_tail \in Blocks \cup {NULL}
         /\ do_next \in [Blocks -> Blocks \cup {NULL}] /\ submitted \in [Blocks -> Nat]
         /\ pc \in [Threads -> PCs] /\ frame \in [Threads -> Frames]
         /\ \A u \in Threads : /\ frame[u] \in Frames /\ FrameOK(u)
                               /\ frame[u].head \in Blocks \cup {NULL}
                               /\ frame[u].tail \in Blocks \cup {NULL}
                               /\ frame[u].dsn \in Blocks \cup {NULL}
                               /\ frame[u].prev \in Blocks \cup {NULL}
                               /\ First(u) \in Blocks \cup {NULL}
         /\ PushedInv /\ FirstInv /\ LinkInv /\ TailInv /\ ReachInv /\ OwnerInv
<1>1. /\ NULL \notin Blocks /\ pushed \subseteq Blocks
      /\ dg_notify_head \in Blocks \cup {NULL} /\ dg_notify_tail \in Blocks \cup {NULL}
      /\ do_next \in [Blocks -> Blocks \cup {NULL}] /\ submitted \in [Blocks -> Nat]
      /\ pc \in [Threads -> PCs] /\ frame \in [Threads -> Frames]
  BY GroupConstants DEF IInv, TypeOK, Links
<1>2. ASSUME NEW u \in Threads
      PROVE  /\ frame[u] \in Frames /\ FrameOK(u)
             /\ frame[u].head \in Blocks \cup {NULL}
             /\ frame[u].tail \in Blocks \cup {NULL}
             /\ frame[u].dsn \in Blocks \cup {NULL}
             /\ frame[u].prev \in Blocks \cup {NULL}
             /\ First(u) \in Blocks \cup {NULL}
  BY <1>1 DEF IInv, FrameInv, Frames, Links, First
<1>3. PushedInv /\ FirstInv /\ LinkInv /\ TailInv /\ ReachInv /\ OwnerInv
  BY DEF IInv, ListInv
<1> QED
  BY <1>1, <1>2, <1>3

(* If links and first blocks stay, all blocks can still be reached.           *)
LEMMA SameReach == ASSUME IInv, SameLinks PROVE ReachInv'
<1>1. pushed \subseteq Blocks
  BY ListTypes
<1>2. ASSUME NEW b \in pushed, submitted[b] = 0
      PROVE  IsFirst(b)' \/ \E a \in pushed : submitted[a] = 0 /\ Linked(a, b)'
  BY <1>1, <1>2 DEF IInv, ReachInv, SameLinks
<1>3. PICK rank \in [Blocks -> Nat] : Ranked(rank)
  BY DEF IInv, ReachInv
<1>4. Ranked(rank)'
  BY <1>3 DEF Ranked, SameLinks
<1> QED
  BY <1>2, <1>3, <1>4 DEF ReachInv, SameLinks

(* If links and first blocks stay, the links are still in order.              *)
LEMMA SameLinkInv ==
  ASSUME IInv, SameLinks,
         \A u \in Threads : pc'[u] = "notify_link" =>
           /\ pc[u] = "notify_link" /\ frame'[u] = frame[u]
           /\ do_next'[frame[u].prev] = do_next[frame[u].prev]
  PROVE  LinkInv'
<1>1. LinkInv /\ UNCHANGED submitted
  BY DEF IInv, ListInv, SameLinks
<1>2. \A a, b \in Blocks : Linked(a, b)' /\ submitted'[a] = 0 =>
                             submitted'[b] = 0 /\ ~ IsFirst(b)'
  <2> SUFFICES ASSUME NEW a \in Blocks, NEW b \in Blocks, Linked(a, b)', submitted'[a] = 0
               PROVE  submitted'[b] = 0 /\ ~ IsFirst(b)'
    OBVIOUS
  <2>1. Linked(a, b) /\ submitted[a] = 0
    BY <1>1 DEF SameLinks
  <2>2. submitted[b] = 0 /\ ~ IsFirst(b)
    BY <1>1, <2>1 DEF LinkInv
  <2> QED
    BY <1>1, <2>2 DEF SameLinks
<1>3. /\ \A a, b, c \in Blocks : Linked(a, b)' /\ Linked(a, c)' => b = c
      /\ \A a, b, c \in Blocks : Linked(a, c)' /\ Linked(b, c)' => a = b
  BY <1>1 DEF LinkInv, SameLinks
<1>4. \A t \in Threads : pc'[t] = "notify_link" => /\ submitted'[frame'[t].prev] = 0
                                                   /\ do_next'[frame'[t].prev] = NULL
  BY <1>1 DEF LinkInv
<1>5. \A t, u \in Threads : /\ pc'[t] = "notify_link" /\ pc'[u] = "notify_link"
                            /\ frame'[t].prev = frame'[u].prev
                            => t = u
  BY <1>1 DEF LinkInv
<1> QED
  BY <1>2, <1>3, <1>4, <1>5 DEF LinkInv

(* If links and first blocks stay, still nothing follows the last block.      *)
LEMMA SameTail ==
  ASSUME IInv, SameLinks, UNCHANGED dg_notify_tail,
         \A u \in Threads : frame'[u].tail \in {frame[u].tail, NULL}
  PROVE  TailInv'
<1>1. /\ TailInv /\ UNCHANGED submitted /\ dg_notify_tail \in Blocks \cup {NULL}
      /\ \A u \in Threads : frame[u].tail \in Blocks \cup {NULL}
  BY ListTypes DEF SameLinks
<1>2. dg_notify_tail' # NULL => /\ submitted'[dg_notify_tail'] = 0
                                /\ \A b \in Blocks : ~ Linked(dg_notify_tail, b)'
  BY <1>1 DEF TailInv, SameLinks
<1>3. ASSUME NEW u \in Threads, frame'[u].tail # NULL
      PROVE  /\ frame'[u].tail # dg_notify_tail'
             /\ \A b \in Blocks : ~ Linked(frame[u].tail, b)'
  BY <1>1, <1>3 DEF TailInv, SameLinks
<1> QED
  BY <1>2, <1>3 DEF TailInv

(* The steps that leave the list alone.                                       *)
KeepsList(t) ==
  \/ dispatch_release(t) \/ WakeRelease(t)
  \/ dispatch_group_enter(t) \/ EnterRetain(t) \/ dispatch_group_leave(t)
  \/ \E to \in Timeouts : dispatch_group_wait(t, to)
  \/ WakeWaiters(t) \/ WakeTestCreated(t) \/ WakeCreate(t) \/ WakeSignal(t)
  \/ WaitCheck(t) \/ WaitRegister(t) \/ WaitRecheck(t) \/ WaitTestCreated(t)
  \/ WaitCreate(t) \/ KernelWait(t) \/ KernelTimeout(t) \/ KernelAborted(t)
  \/ UndoRegister(t) \/ NotifyRetain(t) \/ NotifyCheck(t)

(* What such a step does to the locals of a thread.                           *)
SameNotify(u) ==
  /\ First(u)' = First(u)
  /\ frame'[u].head \in {frame[u].head, NULL} /\ frame'[u].tail \in {frame[u].tail, NULL}
  /\ frame'[u].dsn \in {frame[u].dsn, NULL} /\ frame'[u].prev \in {frame[u].prev, NULL}
  /\ pc'[u] = "notify_link" <=> pc[u] = "notify_link"
  /\ pc[u] = "notify_link" => frame'[u] = frame[u]

(* A step that leaves the list alone, seen by one thread.                     *)
LEMMA KeepsThread ==
  ASSUME IInv, NEW t \in Threads, KeepsList(t), NEW u \in Threads PROVE SameNotify(u)
<1> USE DEF At, Goto, Return
<1>0. /\ pc \in [Threads -> PCs] /\ frame \in [Threads -> Frames]
      /\ frame[u] \in Frames /\ FrameOK(u)
  BY ListTypes
<1>1. CASE pc'[u] = pc[u] /\ frame'[u] = frame[u]
  BY <1>1 DEF SameNotify, First
<1>2. ASSUME frame'[u] = EmptyFrame, frame[u].head = NULL,
             pc[u] \notin ListPCs /\ pc'[u] \notin ListPCs
      PROVE  SameNotify(u)
  <2>1. First(u)' = NULL /\ First(u) = NULL
    BY <1>2, EmptyFields DEF First, ListPCs
  <2>2. pc[u] # "notify_link" /\ pc'[u] # "notify_link"
    BY <1>2 DEF ListPCs
  <2> QED
    BY <1>2, <2>1, <2>2, EmptyFields DEF SameNotify
<1>3. CASE u # t /\ ~ WakeSignal(t)
  <2>1. pc'[u] = pc[u] /\ frame'[u] = frame[u]
    BY <1>0, <1>3 DEF KeepsList, dispatch_release, WakeRelease, dispatch_group_enter,
       EnterRetain, dispatch_group_leave, dispatch_group_wait, WakeWaiters, WakeTestCreated,
       WakeCreate, WaitCheck, WaitRegister, WaitRecheck, WaitTestCreated, WaitCreate,
       KernelWait, KernelTimeout, KernelAborted, UndoRegister, NotifyRetain, NotifyCheck
  <2> QED
    BY <1>1, <2>1
<1>4. CASE u # t /\ WakeSignal(t)
  <2>1. CASE u \in Woken(sema)
    <3>1. pc'[u] = "idle" /\ frame'[u] = EmptyFrame /\ Blocked(u)
      BY <1>4, <2>1, WokenBlocked DEF WakeSignal
    <3>2. frame[u].head = NULL
      BY <1>0, <3>1 DEF Blocked, FrameOK, WakePCs
    <3>3. pc[u] \notin ListPCs /\ pc'[u] \notin ListPCs
      BY <3>1 DEF Blocked, ListPCs
    <3> QED
      BY <1>2, <3>1, <3>2, <3>3
  <2>2. CASE u \notin Woken(sema)
    BY <1>1, <1>4, <2>2 DEF WakeSignal
  <2> QED
    BY <2>1, <2>2
<1>5. CASE u = t /\ NotifyRetain(t)
  <2>1. frame'[u] = frame[u] /\ pc[u] = "notify_retain" /\ pc'[u] = "notify_head"
    BY <1>0, <1>5 DEF NotifyRetain
  <2> QED
    BY <2>1 DEF SameNotify, First
<1>6. CASE u = t /\ (WakeRelease(t) \/ KernelWait(t) \/ UndoRegister(t) \/ NotifyCheck(t))
  <2>1. frame'[u] \in {frame[u], EmptyFrame}
    BY <1>0, <1>6 DEF WakeRelease, KernelWait, UndoRegister, NotifyCheck
  <2>2. pc[u] \in {"wake_release", "timedwait", "wait", "undo", "notify_check"}
    BY <1>6 DEF WakeRelease, KernelWait, UndoRegister, NotifyCheck
  <2>3. frame[u].caller \in {"idle", "wait_test"}
    BY <1>0 DEF Frames
  <2>4. pc'[u] \notin ListPCs
    BY <1>0, <1>6, <2>3 DEF WakeRelease, KernelWait, UndoRegister, NotifyCheck, ListPCs
  <2>5. pc[u] \notin ListPCs /\ pc'[u] \notin ListPCs
    BY <2>2, <2>4 DEF ListPCs
  <2>6. frame[u].head = NULL
    BY <1>0, <2>2 DEF FrameOK, WakePCs
  <2>7. CASE frame'[u] = frame[u]
    BY <2>5, <2>7 DEF SameNotify, First, ListPCs
  <2> QED
    BY <1>2, <2>1, <2>5, <2>6, <2>7
<1>7. CASE /\ u = t /\ ~ NotifyRetain(t)
           /\ ~ (WakeRelease(t) \/ KernelWait(t) \/ UndoRegister(t) \/ NotifyCheck(t))
  <2>1. pc[u] \notin ListPCs /\ pc'[u] \notin ListPCs
    <3>1. pc[u] \notin ListPCs
      BY <1>7 DEF KeepsList, dispatch_release, dispatch_group_enter,
         EnterRetain, dispatch_group_leave, dispatch_group_wait, WakeWaiters, WakeTestCreated,
         WakeCreate, WakeSignal, WaitCheck, WaitRegister, WaitRecheck, WaitTestCreated,
         WaitCreate, KernelTimeout, KernelAborted, ListPCs
    <3>2. pc'[u] \notin ListPCs
      BY <1>0, <1>7, <3>1, SlowPathType, AfterSignalsType DEF KeepsList, dispatch_release,
         dispatch_group_enter, EnterRetain, dispatch_group_leave, dispatch_group_wait,
         WakeWaiters, WakeTestCreated, WakeCreate, WakeSignal, WaitCheck, WaitRegister,
         WaitRecheck, WaitTestCreated, WaitCreate, KernelTimeout, KernelAborted, ListPCs
    <3> QED
      BY <3>1, <3>2
  <2>2. \/ frame'[u] = frame[u]
        \/ \E x : frame'[u] = [frame[u] EXCEPT !.needs_release = x]
        \/ \E x : frame'[u] = [frame[u] EXCEPT !.rval = x]
        \/ \E x : frame'[u] = [frame[u] EXCEPT !.timeout = x]
        \/ frame'[u] = [frame[u] EXCEPT !.caller = "wait_test", !.timeout = "forever"]
    <3>1. CASE WakeWaiters(t) \/ WakeSignal(t)
      BY <1>0, <1>7, <3>1 DEF WakeWaiters, WakeSignal
    <3>2. ASSUME NEW to \in Timeouts, dispatch_group_wait(t, to)
          PROVE  \E x : frame'[u] = [frame[u] EXCEPT !.timeout = x]
      BY <1>0, <1>7, <3>2 DEF dispatch_group_wait
    <3>3. CASE dispatch_group_leave(t)
      BY <1>0, <1>7, <3>3 DEF dispatch_group_leave
    <3>4. CASE WaitRecheck(t)
      BY <1>0, <1>7, <3>4 DEF WaitRecheck
    <3>5. CASE \/ dispatch_release(t) \/ dispatch_group_enter(t) \/ EnterRetain(t)
               \/ WakeTestCreated(t) \/ WakeCreate(t) \/ WaitCheck(t) \/ WaitRegister(t)
               \/ WaitTestCreated(t) \/ WaitCreate(t) \/ KernelTimeout(t) \/ KernelAborted(t)
      BY <1>7, <3>5 DEF dispatch_release, dispatch_group_enter, EnterRetain, WakeTestCreated,
         WakeCreate, WaitCheck, WaitRegister, WaitTestCreated, WaitCreate, KernelTimeout,
         KernelAborted
    <3> QED
      BY <1>7, <3>1, <3>2, <3>3, <3>4, <3>5 DEF KeepsList
  <2>3. /\ frame'[u].head = frame[u].head /\ frame'[u].tail = frame[u].tail
        /\ frame'[u].dsn = frame[u].dsn /\ frame'[u].prev = frame[u].prev
    BY <1>0, <2>2, NotifyKept
  <2> QED
    BY <2>1, <2>3 DEF SameNotify, First, ListPCs
<1> QED
  BY <1>3, <1>4, <1>5, <1>6, <1>7

(* Steps that do not touch the list, and change locals of no consequence.     *)
LEMMA ListStutter ==
  ASSUME IInv, UNCHANGED list_vars, \A u \in Threads : SameNotify(u)
  PROVE  ListInv' /\ ReachInv'
<1>0. /\ UNCHANGED <<dg_notify_head, dg_notify_tail, do_next, submitted, pushed>>
      /\ PushedInv /\ FirstInv
  BY ListTypes DEF list_vars
<1>1. \A u \in Threads, a, b \in Blocks : Linking(u, a, b)' <=> Linking(u, a, b)
  BY DEF Linking, SameNotify
<1>2. \A a, b \in Blocks : Linked(a, b)' <=> Linked(a, b)
  BY <1>0, <1>1 DEF Linked
<1>3. \A b \in Blocks : IsFirst(b)' <=> IsFirst(b)
  BY <1>0 DEF IsFirst, SameNotify
<1>4. SameLinks
  BY <1>0, <1>2, <1>3 DEF SameLinks
<1>5. LinkInv'
  BY <1>0, <1>4, SameLinkInv DEF SameNotify
<1>6. TailInv'
  BY <1>0, <1>4, SameTail DEF SameNotify
<1>7. PushedInv'
  <2>1. \A t \in Threads : {frame'[t].head, frame'[t].tail, frame'[t].dsn, frame'[t].prev}
                             \subseteq pushed \cup {NULL}
    <3> TAKE t \in Threads
    <3>1. {frame[t].head, frame[t].tail, frame[t].dsn, frame[t].prev} \subseteq pushed \cup {NULL}
      BY <1>0 DEF PushedInv
    <3>2. SameNotify(t)
      OBVIOUS
    <3>3. frame'[t].head \in pushed \cup {NULL} /\ frame'[t].tail \in pushed \cup {NULL}
      BY <3>1, <3>2 DEF SameNotify
    <3>4. frame'[t].dsn \in pushed \cup {NULL} /\ frame'[t].prev \in pushed \cup {NULL}
      BY <3>1, <3>2 DEF SameNotify
    <3> QED
      BY <3>3, <3>4
  <2> QED
    BY <1>0, <2>1 DEF PushedInv
<1>8. FirstInv'
  <2>1. \A t \in Threads : First(t)' = First(t)
    BY DEF SameNotify
  <2> QED
    BY <1>0, <2>1 DEF FirstInv
<1>9. ReachInv'
  BY <1>4, SameReach
<1> QED
  BY <1>5, <1>6, <1>7, <1>8, <1>9 DEF ListInv

(* Such a step keeps the list in order.                                       *)
LEMMA KeepsListInv ==
  ASSUME IInv, NEW t \in Threads, KeepsList(t) PROVE ListInv' /\ ReachInv'
<1>1. UNCHANGED list_vars
  BY DEF KeepsList, dispatch_release, WakeRelease, dispatch_group_enter,
     EnterRetain, dispatch_group_leave, dispatch_group_wait, WakeWaiters, WakeTestCreated,
     WakeCreate, WakeSignal, WaitCheck, WaitRegister, WaitRecheck, WaitTestCreated,
     WaitCreate, KernelWait, KernelTimeout, KernelAborted, UndoRegister, NotifyRetain,
     NotifyCheck
<1> QED
  BY <1>1, KeepsThread, ListStutter

(* What thread t does not do itself it does not change.                       *)
LEMMA OtherFirst ==
  ASSUME NEW t, \A u \in Threads : u # t => pc'[u] = pc[u] /\ frame'[u] = frame[u]
  PROVE  \A u \in Threads : u # t =>
           /\ First(u)' = First(u)
           /\ \A a, b \in Blocks : Linking(u, a, b)' <=> Linking(u, a, b)
  BY DEF First, Linking

(* The locals of other threads stay in the list of pushed blocks.             *)
LEMMA PushedStep ==
  ASSUME IInv, NEW t \in Threads, pushed \subseteq pushed',
         \A u \in Threads : u # t => frame'[u] = frame[u],
         frame'[t].head \in pushed' \cup {NULL}, frame'[t].tail \in pushed' \cup {NULL},
         frame'[t].dsn \in pushed' \cup {NULL}, frame'[t].prev \in pushed' \cup {NULL}
  PROVE  \A u \in Threads : {frame'[u].head, frame'[u].tail, frame'[u].dsn, frame'[u].prev}
                              \subseteq pushed' \cup {NULL}
<1> TAKE u \in Threads
<1>1. CASE u = t
  BY <1>1
<1>2. CASE u # t
  <2>1. {frame[u].head, frame[u].tail, frame[u].dsn, frame[u].prev} \subseteq pushed \cup {NULL}
    BY DEF IInv, ListInv, PushedInv
  <2> QED
    BY <1>2, <2>1
<1> QED
  BY <1>1, <1>2

(* A wake takes the head of the list: the list becomes its own.               *)
LEMMA WakeHeadList ==
  ASSUME IInv, NEW t \in Threads, WakeHead(t) PROVE ListInv' /\ ReachInv'
<1>0. /\ NULL \notin Blocks /\ pushed \subseteq Blocks /\ dg_notify_head \in Blocks \cup {NULL}
      /\ pc \in [Threads -> PCs] /\ frame \in [Threads -> Frames]
      /\ frame[t] \in Frames /\ FrameOK(t) /\ PushedInv /\ FirstInv
  BY ListTypes
<1>1. /\ pc[t] = "wake_head" /\ dg_notify_head' = NULL
      /\ pc' = [pc EXCEPT ![t] = IF dg_notify_head = NULL THEN "wake_waiters" ELSE "wake_tail"]
      /\ frame' = [frame EXCEPT ![t].head = dg_notify_head]
      /\ UNCHANGED <<dg_notify_tail, do_next, submitted, pushed>>
  BY DEF WakeHead, At, Goto
<1>2. /\ pc'[t] \in {"wake_waiters", "wake_tail"} /\ frame[t].head = NULL
      /\ \A u \in Threads : u # t => pc'[u] = pc[u] /\ frame'[u] = frame[u]
  BY <1>0, <1>1 DEF FrameOK
<1>3. /\ frame'[t].head = dg_notify_head /\ frame'[t].tail = frame[t].tail
      /\ frame'[t].dsn = frame[t].dsn /\ frame'[t].prev = frame[t].prev
  BY <1>0, <1>1 DEF Frames
<1>4. First(t) = NULL /\ First(t)' = dg_notify_head
  BY <1>1, <1>2, <1>3 DEF First
<1>5. \A u \in Threads : u # t =>
        /\ First(u)' = First(u)
        /\ \A a, b \in Blocks : Linking(u, a, b)' <=> Linking(u, a, b)
  BY <1>2, OtherFirst
<1>6. \A a, b \in Blocks : Linking(t, a, b)' <=> Linking(t, a, b)
  BY <1>1, <1>2 DEF Linking
<1>7. \A a, b \in Blocks : Linked(a, b)' <=> Linked(a, b)
  BY <1>1, <1>5, <1>6 DEF Linked
<1>8. \A b \in Blocks : IsFirst(b)' <=> IsFirst(b)
  BY <1>0, <1>1, <1>4, <1>5 DEF IsFirst
<1>9. SameLinks
  BY <1>1, <1>7, <1>8 DEF SameLinks
<1>10. LinkInv'
  BY <1>1, <1>2, <1>9, SameLinkInv
<1>11. TailInv'
  BY <1>1, <1>2, <1>3, <1>9, SameTail
<1>12. FirstInv'
  BY <1>0, <1>1, <1>4, <1>5 DEF FirstInv
<1>13. PushedInv'
  <2>1. /\ frame'[t].head \in pushed' \cup {NULL} /\ frame'[t].tail \in pushed' \cup {NULL}
        /\ frame'[t].dsn \in pushed' \cup {NULL} /\ frame'[t].prev \in pushed' \cup {NULL}
    BY <1>0, <1>1, <1>3 DEF PushedInv
  <2>2. \A u \in Threads : {frame'[u].head, frame'[u].tail, frame'[u].dsn, frame'[u].prev}
                             \subseteq pushed' \cup {NULL}
    BY <1>1, <1>2, <2>1, PushedStep
  <2> QED
    BY <1>0, <1>1, <2>2 DEF PushedInv
<1> QED
  BY <1>9, <1>10, <1>11, <1>12, <1>13, SameReach DEF ListInv

(* A wake takes the tail: the next notify starts a new list.                  *)
LEMMA WakeTailList ==
  ASSUME IInv, NEW t \in Threads, WakeTail(t) PROVE ListInv' /\ ReachInv'
<1>0. /\ NULL \notin Blocks /\ pushed \subseteq Blocks /\ dg_notify_tail \in Blocks \cup {NULL}
      /\ pc \in [Threads -> PCs] /\ frame \in [Threads -> Frames]
      /\ \A u \in Threads : frame[u] \in Frames /\ frame[u].tail \in Blocks \cup {NULL}
      /\ PushedInv /\ FirstInv /\ TailInv
  BY ListTypes
<1>1. /\ pc[t] = "wake_tail" /\ pc' = [pc EXCEPT ![t] = "wake_waiters"]
      /\ frame' = [frame EXCEPT ![t].tail = dg_notify_tail] /\ dg_notify_tail' = NULL
      /\ UNCHANGED <<dg_notify_head, do_next, submitted, pushed>>
  BY DEF WakeTail, At, Goto
<1>2. /\ pc'[t] = "wake_waiters"
      /\ \A u \in Threads : u # t => pc'[u] = pc[u] /\ frame'[u] = frame[u]
  BY <1>0, <1>1
<1>3. /\ frame'[t].head = frame[t].head /\ frame'[t].tail = dg_notify_tail
      /\ frame'[t].dsn = frame[t].dsn /\ frame'[t].prev = frame[t].prev
  BY <1>0, <1>1 DEF Frames
<1>4. First(t)' = First(t) /\ \A a, b \in Blocks : Linking(t, a, b)' <=> Linking(t, a, b)
  BY <1>1, <1>2, <1>3 DEF First, Linking
<1>5. \A u \in Threads :
        /\ First(u)' = First(u)
        /\ \A a, b \in Blocks : Linking(u, a, b)' <=> Linking(u, a, b)
  BY <1>2, <1>4, OtherFirst
<1>6. SameLinks
  <2>1. \A a, b \in Blocks : Linked(a, b)' <=> Linked(a, b)
    BY <1>1, <1>5 DEF Linked
  <2>2. \A b \in Blocks : IsFirst(b)' <=> IsFirst(b)
    BY <1>1, <1>5 DEF IsFirst
  <2> QED
    BY <1>1, <2>1, <2>2 DEF SameLinks
<1>7. LinkInv'
  BY <1>1, <1>2, <1>6, SameLinkInv
<1>8. TailInv'
  <2>1. ASSUME NEW u \in Threads, frame'[u].tail # NULL, NEW b \in Blocks
        PROVE  ~ Linked(frame[u].tail, b)'
    <3>1. PICK a \in Blocks : a = frame'[u].tail
      BY <1>0, <1>2, <1>3, <2>1
    <3>2. ~ Linked(a, b)
      BY <1>0, <1>2, <1>3, <2>1, <3>1 DEF TailInv
    <3>3. ~ Linked(a, b)'
      BY <1>6, <3>2 DEF SameLinks
    <3> QED
      BY <3>1, <3>3
  <2> QED
    BY <1>1, <2>1 DEF TailInv
<1>9. FirstInv'
  BY <1>0, <1>1, <1>5 DEF FirstInv
<1>10. PushedInv'
  <2>1. /\ frame'[t].head \in pushed' \cup {NULL} /\ frame'[t].tail \in pushed' \cup {NULL}
        /\ frame'[t].dsn \in pushed' \cup {NULL} /\ frame'[t].prev \in pushed' \cup {NULL}
    BY <1>0, <1>1, <1>3 DEF PushedInv
  <2>2. \A u \in Threads : {frame'[u].head, frame'[u].tail, frame'[u].dsn, frame'[u].prev}
                             \subseteq pushed' \cup {NULL}
    BY <1>1, <1>2, <2>1, PushedStep
  <2> QED
    BY <1>0, <1>1, <2>2 DEF PushedInv
<1> QED
  BY <1>6, <1>7, <1>8, <1>9, <1>10, SameReach DEF ListInv

(* A notify that found the list empty publishes its block as the head.        *)
LEMMA NotifyHeadList ==
  ASSUME IInv, NEW t \in Threads, NotifyHead(t) PROVE ListInv' /\ ReachInv'
<1>0. /\ NULL \notin Blocks /\ pushed \subseteq Blocks
      /\ pc \in [Threads -> PCs] /\ frame \in [Threads -> Frames]
      /\ frame[t].dsn \in Blocks \cup {NULL} /\ FrameOK(t)
      /\ PushedInv /\ FirstInv /\ OwnerInv
  BY ListTypes
<1>1. /\ pc[t] = "notify_head" /\ pc' = [pc EXCEPT ![t] = "notify_check"]
      /\ dg_notify_head' = frame[t].dsn
      /\ UNCHANGED <<dg_notify_tail, do_next, submitted, pushed, frame>>
  BY DEF NotifyHead, At, Goto
<1>2. /\ pc'[t] = "notify_check" /\ frame[t].head = NULL /\ frame[t].dsn # NULL
      /\ \A u \in Threads : u # t => pc'[u] = pc[u] /\ frame'[u] = frame[u]
  BY <1>0, <1>1 DEF FrameOK, WakePCs
<1>3. dg_notify_head = NULL
  BY <1>0, <1>1 DEF OwnerInv, HeadPCs
<1>4. First(t) = frame[t].dsn /\ First(t)' = NULL
  BY <1>1, <1>2 DEF First
<1>5. \A u \in Threads : u # t =>
        /\ First(u)' = First(u)
        /\ \A a, b \in Blocks : Linking(u, a, b)' <=> Linking(u, a, b)
  BY <1>2, OtherFirst
<1>6. \A a, b \in Blocks : Linking(t, a, b)' <=> Linking(t, a, b)
  BY <1>1, <1>2 DEF Linking
<1>7. SameLinks
  <2>1. \A a, b \in Blocks : Linked(a, b)' <=> Linked(a, b)
    BY <1>1, <1>5, <1>6 DEF Linked
  <2>2. \A b \in Blocks : IsFirst(b)' <=> IsFirst(b)
    BY <1>0, <1>1, <1>3, <1>4, <1>5 DEF IsFirst
  <2> QED
    BY <1>1, <2>1, <2>2 DEF SameLinks
<1>8. LinkInv'
  BY <1>1, <1>2, <1>7, SameLinkInv
<1>9. TailInv'
  BY <1>1, <1>7, SameTail
<1>10. FirstInv'
  <2>1. submitted[frame[t].dsn] = 0
    BY <1>0, <1>2, <1>4 DEF FirstInv
  <2>2. ASSUME NEW u \in Threads, First(u)' # NULL
        PROVE  u # t /\ First(u)' = First(u) /\ submitted[First(u)] = 0
               /\ First(u) # frame[t].dsn
    BY <1>0, <1>4, <1>5, <2>2 DEF FirstInv
  <2>3. ASSUME NEW u \in Threads, NEW w \in Threads, First(u)' # NULL, First(u)' = First(w)'
        PROVE  u = w
    BY <1>0, <2>2, <2>3 DEF FirstInv
  <2> QED
    BY <1>1, <2>1, <2>2, <2>3 DEF FirstInv
<1>11. PushedInv'
  BY <1>0, <1>1 DEF PushedInv
<1> QED
  BY <1>7, <1>8, <1>9, <1>10, <1>11, SameReach DEF ListInv

(* A notify that found a predecessor stores the link from it.                 *)
LEMMA NotifyLinkList ==
  ASSUME IInv, NEW t \in Threads, NotifyLink(t) PROVE ListInv' /\ ReachInv'
<1>0. /\ NULL \notin Blocks /\ pushed \subseteq Blocks
      /\ pc \in [Threads -> PCs] /\ frame \in [Threads -> Frames]
      /\ do_next \in [Blocks -> Blocks \cup {NULL}]
      /\ frame[t].dsn \in Blocks \cup {NULL} /\ frame[t].prev \in Blocks \cup {NULL}
      /\ FrameOK(t) /\ PushedInv /\ FirstInv /\ LinkInv
  BY ListTypes
<1>1. /\ pc[t] = "notify_link" /\ pc' = [pc EXCEPT ![t] = "idle"]
      /\ frame' = [frame EXCEPT ![t] = EmptyFrame]
      /\ do_next' = [do_next EXCEPT ![frame[t].prev] = frame[t].dsn]
      /\ UNCHANGED <<dg_notify_head, dg_notify_tail, submitted, pushed>>
  BY DEF NotifyLink, At, Goto, Return
<1>2. PICK p \in Blocks, d \in Blocks : p = frame[t].prev /\ d = frame[t].dsn
  BY <1>0, <1>1 DEF FrameOK
<1>3. /\ pc'[t] = "idle" /\ frame'[t] = EmptyFrame /\ frame[t].head = NULL
      /\ \A u \in Threads : u # t => pc'[u] = pc[u] /\ frame'[u] = frame[u]
  BY <1>0, <1>1 DEF FrameOK, WakePCs
<1>4. /\ do_next[p] = NULL /\ do_next'[p] = d
      /\ \A a \in Blocks : a # p => do_next'[a] = do_next[a]
  BY <1>0, <1>1, <1>2 DEF LinkInv
<1>5. First(t) = NULL /\ First(t)' = NULL
  BY <1>1, <1>3, EmptyFields DEF First
<1>6. \A u \in Threads : u # t =>
        /\ First(u)' = First(u)
        /\ \A a, b \in Blocks : Linking(u, a, b)' <=> Linking(u, a, b)
  BY <1>3, OtherFirst
<1>7. \A a, b \in Blocks : /\ Linking(t, a, b) <=> a = p /\ b = d
                           /\ ~ Linking(t, a, b)'
  BY <1>1, <1>2, <1>3 DEF Linking
<1>8. ASSUME NEW a \in Blocks, NEW b \in Blocks PROVE Linked(a, b)' <=> Linked(a, b)
  <2>1. CASE a # p
    <3>1. (\E u \in Threads : Linking(u, a, b)') <=> \E u \in Threads : Linking(u, a, b)
      BY <1>6, <1>7, <2>1
    <3> QED
      BY <1>4, <2>1, <3>1 DEF Linked
  <2>2. CASE a = p /\ b = d
    BY <1>4, <1>7, <2>2 DEF Linked
  <2>3. CASE a = p /\ b # d
    <3>1. (\E u \in Threads : Linking(u, a, b)') <=> \E u \in Threads : Linking(u, a, b)
      BY <1>6, <1>7, <2>3
    <3> QED
      BY <1>0, <1>4, <2>3, <3>1 DEF Linked
  <2> QED
    BY <2>1, <2>2, <2>3
<1>9. \A u \in Threads : First(u)' = First(u)
  BY <1>5, <1>6
<1>10. SameLinks
  <2>1. \A b \in Blocks : IsFirst(b)' <=> IsFirst(b)
    BY <1>1, <1>9 DEF IsFirst
  <2> QED
    BY <1>1, <1>8, <2>1 DEF SameLinks
<1>11. LinkInv'
  <2>1. ASSUME NEW u \in Threads, pc'[u] = "notify_link"
        PROVE  /\ pc[u] = "notify_link" /\ frame'[u] = frame[u]
               /\ do_next'[frame[u].prev] = do_next[frame[u].prev]
    <3>1. u # t /\ pc[u] = "notify_link" /\ frame'[u] = frame[u]
      BY <1>3, <2>1
    <3>2. frame[u].prev # p
      BY <1>0, <1>1, <1>2, <3>1 DEF LinkInv
    <3>3. frame[u].prev \in Blocks
      BY <3>1, ListTypes DEF FrameOK
    <3> QED
      BY <1>4, <3>1, <3>2, <3>3
  <2> QED
    BY <1>10, <2>1, SameLinkInv
<1>12. TailInv'
  BY <1>1, <1>3, <1>10, EmptyFields, SameTail
<1>13. FirstInv'
  BY <1>0, <1>1, <1>9 DEF FirstInv
<1>14. PushedInv'
  <2>1. /\ frame'[t].head \in pushed' \cup {NULL} /\ frame'[t].tail \in pushed' \cup {NULL}
        /\ frame'[t].dsn \in pushed' \cup {NULL} /\ frame'[t].prev \in pushed' \cup {NULL}
    BY <1>3, EmptyFields
  <2>2. \A u \in Threads : {frame'[u].head, frame'[u].tail, frame'[u].dsn, frame'[u].prev}
                             \subseteq pushed' \cup {NULL}
    BY <1>1, <1>3, <2>1, PushedStep
  <2>3. p \in pushed /\ d \in pushed
    BY <1>0, <1>2 DEF PushedInv
  <2>4. \A b \in Blocks : /\ b \notin pushed => do_next'[b] = NULL
                          /\ do_next'[b] \in pushed \cup {NULL}
    BY <1>0, <1>4, <2>3 DEF PushedInv
  <2> QED
    BY <1>0, <1>1, <2>2, <2>4 DEF PushedInv
<1> QED
  BY <1>10, <1>11, <1>12, <1>13, <1>14, SameReach DEF ListInv

(* A wake submits the first block of the list it took and goes on with the    *)
(* next one.                                                                  *)
LEMMA WakeNotifyList ==
  ASSUME IInv, NEW t \in Threads, WakeNotify(t) PROVE ListInv' /\ ReachInv'
<1>0. /\ NULL \notin Blocks /\ pushed \subseteq Blocks
      /\ dg_notify_head \in Blocks \cup {NULL} /\ dg_notify_tail \in Blocks \cup {NULL}
      /\ do_next \in [Blocks -> Blocks \cup {NULL}] /\ submitted \in [Blocks -> Nat]
      /\ pc \in [Threads -> PCs] /\ frame \in [Threads -> Frames] /\ frame[t] \in Frames
      /\ frame[t].head \in Blocks \cup {NULL} /\ frame[t].tail \in Blocks \cup {NULL}
      /\ FrameOK(t) /\ PushedInv /\ FirstInv /\ LinkInv /\ TailInv /\ ReachInv
  BY ListTypes
<1>1. pc[t] = "wake_notify"
  BY DEF WakeNotify, At
<1>2. PICK h \in Blocks : h = frame[t].head
  BY <1>0, <1>1 DEF FrameOK
<1>3. PICK n : /\ n = IF h = frame[t].tail THEN NULL ELSE do_next[h]
               /\ h # frame[t].tail => n # NULL
               /\ submitted' = [submitted EXCEPT ![h] = @ + 1]
               /\ frame' = [frame EXCEPT ![t].head = n]
               /\ pc' = [pc EXCEPT ![t] = IF n = NULL THEN "wake_release" ELSE "wake_notify"]
               /\ UNCHANGED <<dg_notify_head, dg_notify_tail, do_next, pushed>>
  BY <1>2 DEF WakeNotify, Goto
<1>4. /\ frame'[t].head = n /\ frame'[t].tail = frame[t].tail
      /\ frame'[t].dsn = frame[t].dsn /\ frame'[t].prev = frame[t].prev
      /\ \A u \in Threads : u # t => pc'[u] = pc[u] /\ frame'[u] = frame[u]
      /\ pc'[t] \in {"wake_release", "wake_notify"}
  <2>1. frame'[t] = [frame[t] EXCEPT !.head = n]
    BY <1>0, <1>3
  <2>2. /\ frame'[t].head = n /\ frame'[t].tail = frame[t].tail
        /\ frame'[t].dsn = frame[t].dsn /\ frame'[t].prev = frame[t].prev
    BY <1>0, <2>1 DEF Frames
  <2>3. /\ \A u \in Threads : u # t => pc'[u] = pc[u] /\ frame'[u] = frame[u]
        /\ pc'[t] \in {"wake_release", "wake_notify"}
    BY <1>0, <1>3
  <2> QED
    BY <2>2, <2>3
<1>5. First(t) = h /\ First(t)' = n /\ IsFirst(h)
  <2>1. First(t) = h /\ First(t)' = n
    BY <1>1, <1>2, <1>4 DEF First
  <2> QED
    BY <2>1 DEF IsFirst
<1>6. \A u \in Threads : u # t =>
        /\ First(u)' = First(u)
        /\ \A a, b \in Blocks : Linking(u, a, b)' <=> Linking(u, a, b)
  BY <1>4, OtherFirst
<1>7. \A a, b \in Blocks : Linked(a, b)' <=> Linked(a, b)
  <2>1. \A a, b \in Blocks : Linking(t, a, b)' <=> Linking(t, a, b)
    BY <1>1, <1>4 DEF Linking
  <2> QED
    BY <1>3, <1>6, <2>1 DEF Linked
<1>8. submitted[h] = 0 /\ submitted'[h] = 1 /\ \A b \in Blocks : b # h => submitted'[b] = submitted[b]
  <2>1. submitted[h] = 0
    BY <1>0, <1>2, <1>5 DEF FirstInv
  <2>2. submitted'[h] = submitted[h] + 1 /\ \A b \in Blocks : b # h => submitted'[b] = submitted[b]
    BY <1>0, <1>3
  <2> QED
    BY SMTT(30), <2>1, <2>2
(* The block that comes next, if there is one, follows h; without one nothing *)
(* follows h.                                                                 *)
<1>9. \/ /\ n \in Blocks /\ do_next[h] = n /\ Linked(h, n) /\ submitted[n] = 0 /\ ~ IsFirst(n)
         /\ n # h
      \/ n = NULL /\ h = frame[t].tail /\ \A b \in Blocks : ~ Linked(h, b)
  <2>1. CASE h = frame[t].tail
    BY <1>0, <1>3, <2>1 DEF TailInv
  <2>2. CASE h # frame[t].tail
    <3>1. n \in Blocks /\ do_next[h] = n
      BY <1>0, <1>3, <2>2
    <3>2. Linked(h, n)
      BY <3>1 DEF Linked
    <3>3. submitted[n] = 0 /\ ~ IsFirst(n)
      BY <1>0, <1>8, <3>1, <3>2 DEF LinkInv
    <3> QED
      BY <1>5, <3>1, <3>2, <3>3
  <2> QED
    BY <2>1, <2>2
<1>10. \A b \in Blocks : Linked(h, b) => b = n
  BY <1>0, <1>9 DEF LinkInv
<1>11. \A b \in Blocks : IsFirst(b)' <=> (IsFirst(b) /\ b # h) \/ b = n
  <2>1. \A b \in Blocks : IsFirst(b)' <=> dg_notify_head = b \/ (\E u \in Threads \ {t} : First(u) = b)
                                           \/ n = b
    BY <1>3, <1>5, <1>6 DEF IsFirst
  <2>2. dg_notify_head # h /\ \A u \in Threads \ {t} : First(u) # h
    BY <1>0, <1>2, <1>5 DEF FirstInv
  <2>3. n # h
    BY <1>0, <1>9
  <2>4. \A b \in Blocks : IsFirst(b) <=> dg_notify_head = b \/ (\E u \in Threads \ {t} : First(u) = b)
                                          \/ h = b
    BY <1>5 DEF IsFirst
  <2> QED
    BY <2>1, <2>2, <2>3, <2>4
<1>12. PushedInv'
  <2>1. h \in pushed /\ n \in pushed \cup {NULL}
    BY <1>0, <1>2, <1>9 DEF PushedInv
  <2>2. /\ frame'[t].head \in pushed' \cup {NULL} /\ frame'[t].tail \in pushed' \cup {NULL}
        /\ frame'[t].dsn \in pushed' \cup {NULL} /\ frame'[t].prev \in pushed' \cup {NULL}
    BY <1>0, <1>3, <1>4, <2>1 DEF PushedInv
  <2>3. \A u \in Threads : {frame'[u].head, frame'[u].tail, frame'[u].dsn, frame'[u].prev}
                             \subseteq pushed' \cup {NULL}
    BY <1>3, <1>4, <2>2, PushedStep
  <2>4. \A b \in Blocks : /\ submitted'[b] \in {0, 1}
                          /\ b \notin pushed => submitted'[b] = 0
    BY <1>0, <1>8, <2>1 DEF PushedInv
  <2> QED
    BY <1>0, <1>3, <2>3, <2>4 DEF PushedInv
<1>13. FirstInv'
  <2>1. dg_notify_head # NULL => submitted'[dg_notify_head] = 0
    BY <1>0, <1>2, <1>5, <1>8 DEF FirstInv
  <2>2. ASSUME NEW u \in Threads, u # t, First(u) # NULL
        PROVE  First(u) \in Blocks /\ submitted'[First(u)] = 0 /\ First(u) # dg_notify_head
               /\ First(u) # n
    <3>1. First(u) \in Blocks /\ submitted[First(u)] = 0 /\ First(u) # dg_notify_head
      BY <1>0, <2>2, ListTypes DEF FirstInv
    <3>2. First(u) # h
      BY <1>0, <1>5, <2>2 DEF FirstInv
    <3>3. First(u) # n
      BY <1>9, <2>2 DEF IsFirst
    <3> QED
      BY <1>8, <3>1, <3>2, <3>3
  <2>3. n # NULL => submitted'[n] = 0 /\ n # dg_notify_head
    BY <1>8, <1>9 DEF IsFirst
  <2>4. ASSUME NEW u \in Threads, NEW w \in Threads, First(u)' # NULL, First(u)' = First(w)'
        PROVE  u = w
    <3>1. CASE u = t \/ w = t
      BY <1>5, <1>6, <2>2, <2>4, <3>1
    <3>2. CASE u # t /\ w # t
      BY <1>0, <1>6, <2>4, <3>2 DEF FirstInv
    <3> QED
      BY <3>1, <3>2
  <2>5. ASSUME NEW u \in Threads, First(u)' # NULL
        PROVE  submitted'[First(u)'] = 0 /\ First(u)' # dg_notify_head
    BY <1>5, <1>6, <2>2, <2>3, <2>5
  <2> QED
    BY <1>3, <2>1, <2>4, <2>5 DEF FirstInv
<1>14. LinkInv'
  <2>1. ASSUME NEW a \in Blocks, NEW b \in Blocks, Linked(a, b)', submitted'[a] = 0
        PROVE  submitted'[b] = 0 /\ ~ IsFirst(b)'
    <3>1. Linked(a, b) /\ a # h /\ submitted[a] = 0
      BY <1>7, <1>8, <2>1, ZeroOne
    <3>2. submitted[b] = 0 /\ ~ IsFirst(b)
      BY <1>0, <3>1 DEF LinkInv
    <3>3. b # h
      BY <1>5, <3>2
    <3>4. b # n
      BY <1>0, <1>9, <3>1 DEF LinkInv
    <3> QED
      BY <1>8, <1>11, <3>2, <3>3, <3>4
  <2>2. /\ \A a, b, c \in Blocks : Linked(a, b)' /\ Linked(a, c)' => b = c
        /\ \A a, b, c \in Blocks : Linked(a, c)' /\ Linked(b, c)' => a = b
    BY <1>0, <1>7 DEF LinkInv
  <2>3. ASSUME NEW u \in Threads, pc'[u] = "notify_link"
        PROVE  /\ pc[u] = "notify_link" /\ frame'[u] = frame[u]
               /\ submitted'[frame[u].prev] = 0 /\ do_next[frame[u].prev] = NULL
    <3>1. u # t /\ pc[u] = "notify_link" /\ frame'[u] = frame[u]
      BY <1>4, <2>3
    <3>2. PICK p \in Blocks, d \in Blocks : p = frame[u].prev /\ d = frame[u].dsn
      BY <3>1, ListTypes DEF FrameOK
    <3>3. submitted[p] = 0 /\ do_next[p] = NULL
      BY <1>0, <3>1, <3>2 DEF LinkInv
    <3>4. Linked(p, d)
      BY <3>1, <3>2 DEF Linked, Linking
    <3>5. p # h
      BY <1>0, <1>9, <3>3, <3>4
    <3> QED
      BY <1>8, <3>1, <3>2, <3>3, <3>5
  <2>4. \A u, w \in Threads : /\ pc'[u] = "notify_link" /\ pc'[w] = "notify_link"
                              /\ frame'[u].prev = frame'[w].prev
                              => u = w
    BY <1>0, <2>3 DEF LinkInv
  <2> QED
    BY <1>3, <2>1, <2>2, <2>3, <2>4 DEF LinkInv
<1>15. TailInv'
  <2>1. dg_notify_tail # NULL => submitted'[dg_notify_tail] = 0
    <3> SUFFICES ASSUME dg_notify_tail # NULL PROVE submitted'[dg_notify_tail] = 0
      OBVIOUS
    <3>1. /\ dg_notify_tail \in Blocks /\ submitted[dg_notify_tail] = 0
          /\ \A b \in Blocks : ~ Linked(dg_notify_tail, b)
      BY <1>0 DEF TailInv
    <3>2. dg_notify_tail # h
      <4>1. CASE h = frame[t].tail
        BY <1>0, <4>1 DEF TailInv
      <4>2. CASE h # frame[t].tail
        BY <1>9, <3>1, <4>2
      <4> QED
        BY <4>1, <4>2
    <3> QED
      BY <1>8, <3>1, <3>2
  <2>2. \A u \in Threads : frame'[u].tail = frame[u].tail
    BY <1>4
  <2>3. \A a \in Blocks : (\A b \in Blocks : ~ Linked(a, b)) => \A b \in Blocks : ~ Linked(a, b)'
    BY <1>7
  <2>4. ASSUME dg_notify_tail' # NULL PROVE \A b \in Blocks : ~ Linked(dg_notify_tail, b)'
    <3>1. PICK a \in Blocks : a = dg_notify_tail' /\ \A b \in Blocks : ~ Linked(a, b)
      BY <1>0, <1>3, <2>4 DEF TailInv
    <3> QED
      BY <2>3, <3>1
  <2>5. ASSUME NEW u \in Threads, frame'[u].tail # NULL
        PROVE  /\ frame'[u].tail # dg_notify_tail
               /\ \A b \in Blocks : ~ Linked(frame[u].tail, b)'
    <3>1. PICK a \in Blocks : a = frame'[u].tail
      BY <2>2, <2>5, ListTypes
    <3>2. a # dg_notify_tail /\ \A b \in Blocks : ~ Linked(a, b)
      BY <1>0, <2>2, <2>5, <3>1 DEF TailInv
    <3> QED
      BY <2>3, <3>1, <3>2
  <2> QED
    BY <1>3, <2>1, <2>4, <2>5 DEF TailInv
<1>16. ReachInv'
  <2>1. ASSUME NEW b \in pushed, submitted'[b] = 0
        PROVE  IsFirst(b)' \/ \E a \in pushed : submitted'[a] = 0 /\ Linked(a, b)'
    <3>1. b \in Blocks /\ b # h /\ submitted[b] = 0
      BY <1>0, <1>8, <2>1, ZeroOne
    <3>2. CASE IsFirst(b)
      BY <1>11, <3>1, <3>2
    <3>3. ASSUME NEW a \in pushed, submitted[a] = 0, Linked(a, b)
          PROVE  IsFirst(b)' \/ (submitted'[a] = 0 /\ Linked(a, b)')
      <4>1. CASE a = h
        BY <1>10, <1>11, <3>1, <3>3, <4>1
      <4>2. CASE a # h
        BY <1>0, <1>7, <1>8, <3>1, <3>3, <4>2
      <4> QED
        BY <4>1, <4>2
    <3> QED
      BY <1>0, <2>1, <3>1, <3>2, <3>3 DEF ReachInv
  <2>2. PICK rank \in [Blocks -> Nat] : Ranked(rank)
    BY <1>0 DEF ReachInv
  <2>3. Ranked(rank)'
    BY <1>7, <2>2 DEF Ranked
  <2> QED
    BY <1>3, <2>1, <2>2, <2>3 DEF ReachInv
<1> QED
  BY <1>12, <1>13, <1>14, <1>15, <1>16 DEF ListInv

(* A block that dispatch_group_notify is given is in no list yet.            *)
LEMMA FreshBlock ==
  ASSUME IInv, NEW b \in Blocks, b \notin pushed
  PROVE  /\ submitted[b] = 0 /\ do_next[b] = NULL /\ ~ IsFirst(b)
         /\ b # dg_notify_head /\ b # dg_notify_tail
         /\ \A u \in Threads : First(u) # b /\ frame[u].tail # b
         /\ \A a \in Blocks : ~ Linked(a, b) /\ ~ Linked(b, a)
<1>0. NULL \notin Blocks /\ PushedInv /\ pushed \subseteq Blocks
  BY ListTypes
<1>a. b \notin pushed \cup {NULL}
  BY <1>0
<1>1. /\ submitted[b] = 0 /\ do_next[b] = NULL
      /\ b # dg_notify_head /\ b # dg_notify_tail
      /\ \A a \in Blocks : do_next[a] # b
  <2>1. submitted[b] = 0 /\ do_next[b] = NULL
    BY <1>0 DEF PushedInv
  <2>2. dg_notify_head \in pushed \cup {NULL} /\ dg_notify_tail \in pushed \cup {NULL}
    BY <1>0 DEF PushedInv
  <2>3. \A a \in Blocks : do_next[a] \in pushed \cup {NULL}
    BY <1>0 DEF PushedInv
  <2> QED
    BY <1>a, <2>1, <2>2, <2>3
<1>2. ASSUME NEW u \in Threads
      PROVE  frame[u].head # b /\ frame[u].tail # b /\ frame[u].dsn # b /\ frame[u].prev # b
  <2>1. {frame[u].head, frame[u].tail, frame[u].dsn, frame[u].prev} \subseteq pushed \cup {NULL}
    BY <1>0 DEF PushedInv
  <2> QED
    BY <1>a, <2>1
<1>3. \A u \in Threads : First(u) # b
  BY <1>2 DEF First
<1>4. \A a \in Blocks : ~ Linked(a, b) /\ ~ Linked(b, a)
  BY <1>0, <1>1, <1>2 DEF Linked, Linking
<1> QED
  BY <1>1, <1>2, <1>3, <1>4 DEF IsFirst

(* What the exchange of the tail does: the block is the new tail, and thread  *)
(* t holds it until it stored the head or the link to it.                     *)
LEMMA NotifyStep ==
  ASSUME IInv, NEW t \in Threads, NEW b \in Blocks, dispatch_group_notify(t, b)
  PROVE  /\ pc[t] = "idle" /\ b \notin pushed /\ pushed' = pushed \cup {b}
         /\ dg_notify_tail' = b
         /\ UNCHANGED <<do_next, dg_notify_head, submitted>>
         /\ frame'[t].dsn = b /\ frame'[t].prev = dg_notify_tail
         /\ frame'[t].head = NULL /\ frame'[t].tail = NULL /\ frame[t].tail = NULL
         /\ First(t) = NULL
         /\ pc'[t] = IF dg_notify_tail = NULL THEN "notify_retain" ELSE "notify_link"
         /\ \A u \in Threads : u # t => pc'[u] = pc[u] /\ frame'[u] = frame[u]
<1>0. /\ do_next \in [Blocks -> Blocks \cup {NULL}]
      /\ pc \in [Threads -> PCs] /\ frame \in [Threads -> Frames] /\ frame[t] \in Frames
      /\ FrameOK(t)
  BY ListTypes
<1>1. /\ pc[t] = "idle" /\ b \notin pushed /\ pushed' = pushed \cup {b}
      /\ dg_notify_tail' = b /\ UNCHANGED <<dg_notify_head, submitted>>
      /\ do_next' = [do_next EXCEPT ![b] = NULL]
      /\ frame' = [frame EXCEPT ![t].dsn = b, ![t].prev = dg_notify_tail]
      /\ pc' = [pc EXCEPT ![t] = IF dg_notify_tail = NULL THEN "notify_retain"
                                 ELSE "notify_link"]
  BY DEF dispatch_group_notify, At, Goto
<1>2. do_next' = do_next
  BY <1>0, <1>1, FreshBlock
<1>3. frame'[t] = [frame[t] EXCEPT !.dsn = b, !.prev = dg_notify_tail]
  BY <1>0, <1>1
<1>4. frame[t].head = NULL /\ frame[t].tail = NULL
  BY <1>0, <1>1 DEF FrameOK, WakePCs
<1>5. First(t) = NULL
  BY <1>1, <1>4 DEF First
<1>6. /\ frame'[t].dsn = b /\ frame'[t].prev = dg_notify_tail
      /\ frame'[t].head = NULL /\ frame'[t].tail = NULL
  BY <1>0, <1>3, <1>4 DEF Frames
<1>7. /\ pc'[t] = IF dg_notify_tail = NULL THEN "notify_retain" ELSE "notify_link"
      /\ \A u \in Threads : u # t => pc'[u] = pc[u] /\ frame'[u] = frame[u]
  BY <1>0, <1>1
<1> QED
  BY <1>1, <1>2, <1>4, <1>5, <1>6, <1>7

(* Afterwards still only blocks that were pushed are in a list.               *)
LEMMA NotifyPushed ==
  ASSUME IInv, NEW t \in Threads, NEW b \in Blocks, dispatch_group_notify(t, b)
  PROVE  PushedInv'
<1>0. /\ PushedInv /\ pushed \subseteq Blocks /\ pushed' = pushed \cup {b}
      /\ dg_notify_tail' = b /\ dg_notify_tail \in pushed \cup {NULL}
      /\ UNCHANGED <<do_next, dg_notify_head, submitted>>
  BY ListTypes, NotifyStep DEF PushedInv
<1>1. /\ frame'[t].head \in pushed' \cup {NULL} /\ frame'[t].tail \in pushed' \cup {NULL}
      /\ frame'[t].dsn \in pushed' \cup {NULL} /\ frame'[t].prev \in pushed' \cup {NULL}
  BY <1>0, NotifyStep
<1>2. \A u \in Threads : {frame'[u].head, frame'[u].tail, frame'[u].dsn, frame'[u].prev}
                           \subseteq pushed' \cup {NULL}
  BY <1>0, <1>1, PushedStep, NotifyStep
<1> QED
  BY <1>0, <1>2 DEF PushedInv

(* The list was empty: the block is first, and the thread that pushed it      *)
(* holds it.                                                                  *)
LEMMA NotifyFirstList ==
  ASSUME IInv, NEW t \in Threads, NEW b \in Blocks, dispatch_group_notify(t, b),
         dg_notify_tail = NULL
  PROVE  ListInv' /\ ReachInv'
<1>0. /\ NULL \notin Blocks /\ pushed \subseteq Blocks
      /\ FirstInv /\ LinkInv /\ TailInv /\ ReachInv
  BY ListTypes
<1>1. /\ pc[t] = "idle" /\ b \notin pushed /\ pushed' = pushed \cup {b}
      /\ dg_notify_tail' = b
      /\ UNCHANGED <<do_next, dg_notify_head, submitted>>
      /\ frame'[t].dsn = b /\ frame'[t].tail = NULL
      /\ First(t) = NULL /\ pc'[t] = "notify_retain"
      /\ \A u \in Threads : u # t => pc'[u] = pc[u] /\ frame'[u] = frame[u]
  BY NotifyStep
<1>2. First(t)' = b
  BY <1>1 DEF First
<1>3. \A u \in Threads : u # t =>
        /\ First(u)' = First(u)
        /\ \A x, y \in Blocks : Linking(u, x, y)' <=> Linking(u, x, y)
  BY <1>1, OtherFirst
<1>4. \A x, y \in Blocks : Linked(x, y)' <=> Linked(x, y)
  <2>1. \A x, y \in Blocks : Linking(t, x, y)' <=> Linking(t, x, y)
    BY <1>1 DEF Linking
  <2> QED
    BY <1>1, <1>3, <2>1 DEF Linked
<1>5. \A x \in Blocks : IsFirst(x)' <=> IsFirst(x) \/ x = b
  <2> SUFFICES ASSUME NEW x \in Blocks PROVE IsFirst(x)' <=> IsFirst(x) \/ x = b
    OBVIOUS
  <2>1. (\E u \in Threads : First(u)' = x) <=> (\E u \in Threads : First(u) = x) \/ x = b
    BY <1>0, <1>1, <1>2, <1>3
  <2> QED
    BY <1>1, <2>1 DEF IsFirst
<1>6. FirstInv'
  <2>1. ASSUME NEW u \in Threads, First(u)' # NULL
        PROVE  submitted[First(u)'] = 0 /\ First(u)' # dg_notify_head
    <3>1. CASE u = t
      BY <1>1, <1>2, <3>1, FreshBlock
    <3>2. CASE u # t
      BY <1>0, <1>3, <2>1, <3>2 DEF FirstInv
    <3> QED
      BY <3>1, <3>2
  <2>2. ASSUME NEW u \in Threads, NEW w \in Threads, First(u)' # NULL, First(u)' = First(w)'
        PROVE  u = w
    <3>a. \A v \in Threads : First(v) # b
      BY <1>1, FreshBlock
    <3>1. CASE u = t \/ w = t
      BY <1>2, <1>3, <2>2, <3>a, <3>1
    <3>2. CASE u # t /\ w # t
      BY <1>0, <1>3, <2>2, <3>2 DEF FirstInv
    <3> QED
      BY <3>1, <3>2
  <2> QED
    BY <1>0, <1>1, <2>1, <2>2 DEF FirstInv
<1>7. LinkInv'
  <2>1. ASSUME NEW x \in Blocks, NEW y \in Blocks, Linked(x, y)', submitted[x] = 0
        PROVE  submitted[y] = 0 /\ ~ IsFirst(y)'
    <3>1. Linked(x, y) /\ y # b
      BY <1>1, <1>4, <2>1, FreshBlock
    <3>2. submitted[y] = 0 /\ ~ IsFirst(y)
      BY <1>0, <2>1, <3>1 DEF LinkInv
    <3> QED
      BY <1>5, <3>1, <3>2
  <2>2. /\ \A x, y, z \in Blocks : Linked(x, y)' /\ Linked(x, z)' => y = z
        /\ \A x, y, z \in Blocks : Linked(x, z)' /\ Linked(y, z)' => x = y
    BY <1>0, <1>4 DEF LinkInv
  <2>3. \A u \in Threads : pc'[u] = "notify_link" => pc[u] = "notify_link" /\ frame'[u] = frame[u]
    BY <1>1
  <2>4. \A u \in Threads : pc'[u] = "notify_link" => /\ submitted[frame'[u].prev] = 0
                                                    /\ do_next[frame'[u].prev] = NULL
    BY <1>0, <2>3 DEF LinkInv
  <2>5. \A u, w \in Threads : /\ pc'[u] = "notify_link" /\ pc'[w] = "notify_link"
                              /\ frame'[u].prev = frame'[w].prev
                              => u = w
    BY <1>0, <2>3 DEF LinkInv
  <2> QED
    BY <1>1, <2>1, <2>2, <2>4, <2>5 DEF LinkInv
<1>8. TailInv'
  <2>1. submitted[b] = 0 /\ \A x \in Blocks : ~ Linked(b, x)'
    BY <1>1, <1>4, FreshBlock
  <2>2. ASSUME NEW u \in Threads, frame'[u].tail # NULL
        PROVE  frame'[u].tail # b /\ \A x \in Blocks : ~ Linked(frame[u].tail, x)'
               /\ frame'[u].tail = frame[u].tail
    <3>1. frame'[u].tail = frame[u].tail /\ u # t
      BY <1>1, <2>2
    <3>2. PICK a \in Blocks : a = frame[u].tail
      BY <2>2, <3>1, ListTypes
    <3>3. a # b /\ \A x \in Blocks : ~ Linked(a, x)
      BY <1>0, <1>1, <2>2, <3>1, <3>2, FreshBlock DEF TailInv
    <3> QED
      BY <1>4, <3>1, <3>2, <3>3
  <2> QED
    BY <1>1, <2>1, <2>2 DEF TailInv
<1>9. ReachInv'
  <2>1. ASSUME NEW x \in pushed', submitted[x] = 0
        PROVE  IsFirst(x)' \/ \E a \in pushed' : submitted[a] = 0 /\ Linked(a, x)'
    <3>1. CASE x = b
      BY <1>5, <3>1
    <3>2. CASE x # b
      <4>1. x \in pushed /\ x \in Blocks
        BY <1>0, <1>1, <3>2
      <4>2. IsFirst(x) \/ \E a \in pushed : submitted[a] = 0 /\ Linked(a, x)
        BY <1>0, <2>1, <4>1 DEF ReachInv
      <4> QED
        BY <1>0, <1>1, <1>4, <1>5, <4>1, <4>2
    <3> QED
      BY <3>1, <3>2
  <2>2. PICK rank \in [Blocks -> Nat] : Ranked(rank)
    BY <1>0 DEF ReachInv
  <2>3. Ranked(rank)'
    BY <1>4, <2>2 DEF Ranked
  <2> QED
    BY <1>1, <2>1, <2>2, <2>3 DEF ReachInv
<1> QED
  BY <1>6, <1>7, <1>8, <1>9, NotifyPushed DEF ListInv

(* The list was not empty: the block follows the last one.                    *)
LEMMA NotifyLastList ==
  ASSUME IInv, NEW t \in Threads, NEW b \in Blocks, dispatch_group_notify(t, b),
         dg_notify_tail # NULL
  PROVE  ListInv' /\ ReachInv'
<1>0. /\ NULL \notin Blocks /\ pushed \subseteq Blocks /\ PushedInv
      /\ do_next \in [Blocks -> Blocks \cup {NULL}]
      /\ FirstInv /\ LinkInv /\ TailInv /\ ReachInv
  BY ListTypes
<1>1. /\ pc[t] = "idle" /\ b \notin pushed /\ pushed' = pushed \cup {b}
      /\ dg_notify_tail' = b
      /\ UNCHANGED <<do_next, dg_notify_head, submitted>>
      /\ frame'[t].dsn = b /\ frame'[t].prev = dg_notify_tail /\ frame'[t].tail = NULL
      /\ frame'[t].head = NULL /\ First(t) = NULL /\ pc'[t] = "notify_link"
      /\ \A u \in Threads : u # t => pc'[u] = pc[u] /\ frame'[u] = frame[u]
  BY NotifyStep
<1>2. PICK p \in Blocks : p = dg_notify_tail
  BY ListTypes
<1>3. /\ submitted[p] = 0 /\ p \in pushed /\ p # b
      /\ \A x \in Blocks : ~ Linked(p, x)
  BY <1>0, <1>1, <1>2 DEF TailInv, PushedInv
<1>4. do_next[p] = NULL
  <2>1. do_next[p] \in Blocks => Linked(p, do_next[p])
    BY DEF Linked
  <2> QED
    BY <1>0, <1>3, <2>1
<1>5. \A u \in Threads : u # t =>
        /\ First(u)' = First(u)
        /\ \A x, y \in Blocks : Linking(u, x, y)' <=> Linking(u, x, y)
  BY <1>1, OtherFirst
<1>6. \A u \in Threads : First(u)' = First(u)
  <2>1. First(t)' = NULL
    BY <1>1 DEF First
  <2> QED
    BY <1>1, <1>5, <2>1
<1>7. \A x, y \in Blocks : Linked(x, y)' <=> Linked(x, y) \/ (x = p /\ y = b)
  <2> SUFFICES ASSUME NEW x \in Blocks, NEW y \in Blocks
               PROVE  Linked(x, y)' <=> Linked(x, y) \/ (x = p /\ y = b)
    OBVIOUS
  <2>1. (Linking(t, x, y)' <=> x = p /\ y = b) /\ ~ Linking(t, x, y)
    BY <1>1, <1>2 DEF Linking
  <2>2. (\E u \in Threads : Linking(u, x, y)') <=>
        (\E u \in Threads : Linking(u, x, y)) \/ (x = p /\ y = b)
    BY <1>5, <2>1
  <2> QED
    BY <1>1, <2>2 DEF Linked
<1>8. \A x \in Blocks : IsFirst(x)' <=> IsFirst(x)
  BY <1>1, <1>6 DEF IsFirst
<1>9. FirstInv'
  <2>1. \A u \in Threads : First(u)' # NULL => /\ submitted[First(u)'] = 0
                                              /\ First(u)' # dg_notify_head
    BY <1>0, <1>6 DEF FirstInv
  <2>2. \A u, w \in Threads : First(u)' # NULL /\ First(u)' = First(w)' => u = w
    BY <1>0, <1>6 DEF FirstInv
  <2>3. dg_notify_head # NULL => submitted[dg_notify_head] = 0
    BY <1>0 DEF FirstInv
  <2> QED
    BY <1>1, <2>1, <2>2, <2>3 DEF FirstInv
<1>10. /\ submitted[b] = 0 /\ ~ IsFirst(b)
       /\ \A x \in Blocks : ~ Linked(x, b) /\ ~ Linked(b, x)
       /\ \A u \in Threads : frame[u].tail # b
  BY <1>1, FreshBlock
<1>11. LinkInv'
  <2>1. ASSUME NEW x \in Blocks, NEW y \in Blocks, Linked(x, y)', submitted[x] = 0
        PROVE  submitted[y] = 0 /\ ~ IsFirst(y)'
    <3>1. CASE x = p /\ y = b
      BY <1>8, <1>10, <3>1
    <3>2. CASE Linked(x, y)
      <4>1. submitted[y] = 0 /\ ~ IsFirst(y)
        BY <1>0, <2>1, <3>2 DEF LinkInv
      <4> QED
        BY <1>8, <4>1
    <3> QED
      BY <1>7, <2>1, <3>1, <3>2
  <2>2. ASSUME NEW x \in Blocks, NEW y \in Blocks, NEW z \in Blocks,
               Linked(x, y)', Linked(x, z)'
        PROVE  y = z
    <3>1. CASE x = p
      BY <1>3, <1>7, <2>2, <3>1
    <3>2. CASE x # p
      <4>1. Linked(x, y) /\ Linked(x, z)
        BY <1>7, <2>2, <3>2
      <4> QED
        BY <1>0, <4>1 DEF LinkInv
    <3> QED
      BY <3>1, <3>2
  <2>3. ASSUME NEW x \in Blocks, NEW y \in Blocks, NEW z \in Blocks,
               Linked(x, z)', Linked(y, z)'
        PROVE  x = y
    <3>1. CASE z = b
      BY <1>7, <1>10, <2>3, <3>1
    <3>2. CASE z # b
      <4>1. Linked(x, z) /\ Linked(y, z)
        BY <1>7, <2>3, <3>2
      <4> QED
        BY <1>0, <4>1 DEF LinkInv
    <3> QED
      BY <3>1, <3>2
  <2>4. ASSUME NEW u \in Threads, pc'[u] = "notify_link", u # t
        PROVE  /\ pc[u] = "notify_link" /\ frame'[u] = frame[u]
               /\ frame[u].prev # p
               /\ submitted[frame[u].prev] = 0 /\ do_next[frame[u].prev] = NULL
    <3>1. pc[u] = "notify_link" /\ frame'[u] = frame[u]
      BY <1>1, <2>4
    <3>2. PICK d \in Blocks : d = frame[u].dsn
      BY <3>1, ListTypes DEF FrameOK
    <3>3. frame[u].prev # p
      BY <1>3, <3>1, <3>2 DEF Linked, Linking
    <3>4. submitted[frame[u].prev] = 0 /\ do_next[frame[u].prev] = NULL
      BY <1>0, <3>1 DEF LinkInv
    <3> QED
      BY <3>1, <3>3, <3>4
  <2>5. \A u \in Threads : pc'[u] = "notify_link" => /\ submitted[frame'[u].prev] = 0
                                                    /\ do_next[frame'[u].prev] = NULL
    BY <1>1, <1>2, <1>3, <1>4, <2>4
  <2>6. ASSUME NEW u \in Threads, NEW w \in Threads, pc'[u] = "notify_link",
               pc'[w] = "notify_link", frame'[u].prev = frame'[w].prev
        PROVE  u = w
    <3>1. CASE u = t \/ w = t
      BY <1>1, <1>2, <2>4, <2>6, <3>1
    <3>2. CASE u # t /\ w # t
      <4>1. /\ pc[u] = "notify_link" /\ pc[w] = "notify_link"
            /\ frame[u].prev = frame[w].prev
        BY <2>4, <2>6, <3>2
      <4> QED
        BY <1>0, <4>1 DEF LinkInv
    <3> QED
      BY <3>1, <3>2
  <2> QED
    BY <1>1, <2>1, <2>2, <2>3, <2>5, <2>6 DEF LinkInv
<1>12. TailInv'
  <2>1. submitted[b] = 0 /\ \A x \in Blocks : ~ Linked(b, x)'
    BY <1>3, <1>7, <1>10
  <2>2. ASSUME NEW u \in Threads, frame'[u].tail # NULL
        PROVE  frame'[u].tail # b /\ \A x \in Blocks : ~ Linked(frame[u].tail, x)'
               /\ frame'[u].tail = frame[u].tail
    <3>1. frame'[u].tail = frame[u].tail /\ u # t
      BY <1>1, <2>2
    <3>2. PICK a \in Blocks : a = frame[u].tail
      BY <2>2, <3>1, ListTypes
    <3>3. a # b /\ a # p /\ \A x \in Blocks : ~ Linked(a, x)
      BY <1>0, <1>2, <1>10, <2>2, <3>1, <3>2 DEF TailInv
    <3> QED
      BY <1>7, <3>1, <3>2, <3>3
  <2> QED
    BY <1>1, <2>1, <2>2 DEF TailInv
<1>13. ReachInv'
  <2>1. ASSUME NEW x \in pushed', submitted[x] = 0
        PROVE  IsFirst(x)' \/ \E a \in pushed' : submitted[a] = 0 /\ Linked(a, x)'
    <3>1. CASE x = b
      BY <1>1, <1>3, <1>7, <3>1
    <3>2. CASE x # b
      <4>1. x \in pushed /\ x \in Blocks
        BY <1>0, <1>1, <3>2
      <4>2. IsFirst(x) \/ \E a \in pushed : submitted[a] = 0 /\ Linked(a, x)
        BY <1>0, <2>1, <4>1 DEF ReachInv
      <4> QED
        BY <1>0, <1>1, <1>7, <1>8, <4>1, <4>2
    <3> QED
      BY <3>1, <3>2
  <2>2. PICK rank \in [Blocks -> Nat] : Ranked(rank)
    BY <1>0 DEF ReachInv
  <2>3. PICK r : r = [rank EXCEPT ![b] = rank[p] + 1]
    OBVIOUS
  <2>4. /\ r \in [Blocks -> Nat] /\ rank[p] < r[b]
        /\ \A x \in Blocks : x # b => r[x] = rank[x]
    BY SMTT(30), <2>2, <2>3
  <2>5. ASSUME NEW x \in Blocks, NEW y \in Blocks, Linked(x, y)' PROVE r[x] < r[y]
    <3>1. CASE x = p /\ y = b
      BY <1>3, <2>4, <3>1
    <3>2. CASE Linked(x, y)
      <4>1. x # b /\ y # b /\ rank[x] < rank[y]
        BY <1>10, <2>2, <3>2 DEF Ranked
      <4> QED
        BY <2>4, <4>1
    <3> QED
      BY <1>7, <2>5, <3>1, <3>2
  <2>6. Ranked(r)'
    BY <2>5 DEF Ranked
  <2> QED
    BY <1>1, <2>1, <2>4, <2>6 DEF ReachInv
<1> QED
  BY <1>9, <1>11, <1>12, <1>13, NotifyPushed DEF ListInv

(* Every step keeps the notify list in order and its blocks reachable.        *)
LEMMA NextList == IInv /\ [Next]_vars => ListInv' /\ ReachInv'
<1> SUFFICES ASSUME IInv, [Next]_vars PROVE ListInv' /\ ReachInv'
  OBVIOUS
<1>1. CASE UNCHANGED vars
  BY <1>1, ListStutter DEF vars, list_vars, SameNotify, First
<1>2. ASSUME NEW cnt \in {0, 1}, _dispatch_group_create_with_count(cnt)
      PROVE  ListInv' /\ ReachInv'
  <2>1. dg_notify_head = NULL /\ dg_notify_tail = NULL
    BY <1>2 DEF IInv, StatusInv, _dispatch_group_create_with_count
  <2>2. UNCHANGED list_vars /\ UNCHANGED <<pc, frame>>
    BY <1>2, <2>1 DEF _dispatch_group_create_with_count, list_vars
  <2>3. \A u \in Threads : SameNotify(u)
    BY <2>2 DEF SameNotify, First
  <2> QED
    BY <2>2, <2>3, ListStutter
<1>3. ASSUME NEW t \in Threads, NEW b \in Blocks, dispatch_group_notify(t, b)
      PROVE  ListInv' /\ ReachInv'
  BY <1>3, NotifyFirstList, NotifyLastList
<1>4. ASSUME NEW t \in Threads, WakeHead(t) \/ WakeTail(t) \/ WakeNotify(t)
                                \/ NotifyLink(t) \/ NotifyHead(t)
      PROVE  ListInv' /\ ReachInv'
  BY <1>4, WakeHeadList, WakeTailList, WakeNotifyList, NotifyLinkList, NotifyHeadList
<1>5. ASSUME NEW t \in Threads, KeepsList(t) PROVE ListInv' /\ ReachInv'
  BY <1>5, KeepsListInv
<1>6. \/ UNCHANGED vars \/ \E cnt \in {0, 1} : _dispatch_group_create_with_count(cnt)
      \/ \E t \in Threads :
           \/ \E b \in Blocks : dispatch_group_notify(t, b)
           \/ WakeHead(t) \/ WakeTail(t) \/ WakeNotify(t) \/ NotifyLink(t) \/ NotifyHead(t)
           \/ KeepsList(t)
  BY DEF Next, Step, KeepsList
<1> QED
  BY <1>1, <1>2, <1>3, <1>4, <1>5, <1>6

-----------------------------------------------------------------------------
(***************************************************************************)
(* The results                                                             *)
(***************************************************************************)

(* The inductive invariant holds in every reachable state.                    *)
THEOREM Invariance == Spec => []IInv
<1>1. IInv /\ [Next]_vars => IInv'
  BY NextType, NextFrames, NextStatus, NextQueues, NextWaiters, NextEnter, NextRefs,
     NextOwner, NextList, NextWake DEF IInv
<1> QED
  BY InitInv, <1>1, PTL DEF Spec

(* The group is freed once and never under a thread inside a call: no         *)
(* _dispatch_release_n drops the count below zero or frees a group that is    *)
(* still entered, whatever enters, leaves, waits, notifies and the client's   *)
(* dispatch_release interleave.                                               *)
THEOREM GroupMemory == Spec => []NoUseAfterFree
<1>1. IInv => NoUseAfterFree
  BY DEF IInv, StatusInv, NoUseAfterFree
<1> QED
  BY Invariance, <1>1, PTL

(* Registered waiters are conserved by dispatch_group_wait, its timeouts and  *)
(* _dispatch_group_wake: each is matched by a unit of dg_waiters, by a signal *)
(* still to be sent, or by one in the kernel.                                 *)
THEOREM WaitersMatched == Spec => []WaitersConserved
<1>1. IInv => WaitersConserved
  BY DEF IInv, WaiterInv, WaitersConserved, Posted
<1> QED
  BY Invariance, <1>1, PTL

(* No notify block is submitted twice, and dispatch_group_notify never stores *)
(* the link to its block in one that _dispatch_group_wake has submitted.      *)
THEOREM NotifyOnce == Spec => []NotifyListSafe
<1>1. ASSUME IInv PROVE NotifyListSafe
  <2>1. \A b \in Blocks : submitted[b] \in {0, 1}
    BY <1>1 DEF IInv, ListInv, PushedInv
  <2>2. \A b \in Blocks : submitted[b] <= 1
    BY SMTT(30), <2>1
  <2>3. \A t \in Threads : pc[t] = "notify_link" => submitted[frame[t].prev] = 0
    BY <1>1 DEF IInv, ListInv, LinkInv
  <2> QED
    BY <2>2, <2>3 DEF NotifyListSafe
<1> QED
  BY Invariance, <1>1, PTL

(* A set of numbers that is not empty has a least one.                        *)
LEMMA LeastNumber ==
  ASSUME NEW S \in SUBSET Nat, S # {} PROVE \E m \in S : \A n \in S : ~ (n < m)
<1>1. PICK m \in S : \A n \in S : ~ (<<n, m>> \in OpToRel(<, Nat))
  BY WFMin, NatLessThanWellFounded
<1>2. \A n \in S : n < m => <<n, m>> \in OpToRel(<, Nat)
  BY SMTT(30) DEF OpToRel
<1> QED
  BY <1>1, <1>2

(* When no thread is inside a call but the blocked ones, no local variable of *)
(* the group's operations is in use.                                          *)
LEMMA RestingFrames ==
  ASSUME IInv, Quiescent, NEW t \in Threads
  PROVE  /\ pc[t] \in {"idle", "wait_blocked", "timedwait_blocked"}
         /\ frame[t].needs_release = 0 /\ frame[t].rval = 0
         /\ frame[t].head = NULL /\ frame[t].tail = NULL /\ First(t) = NULL
<1>1. pc[t] \in {"idle", "wait_blocked", "timedwait_blocked"}
  BY DEF Quiescent, Blocked
<1>2. FrameOK(t)
  BY ListTypes
<1>3. /\ frame[t].needs_release = 0 /\ frame[t].rval = 0
      /\ frame[t].head = NULL /\ frame[t].tail = NULL
  BY <1>1, <1>2 DEF FrameOK, WakePCs, SignalPCs
<1> QED
  BY <1>1, <1>3 DEF First

(* At rest every block that can be reached was submitted: of those that were  *)
(* not, one that is nearest to the first of its list would be first.          *)
LEMMA RestingBlocks ==
  ASSUME IInv, Quiescent, dg_notify_head = NULL
  PROVE  \A b \in pushed : submitted[b] = 1
<1>0. NULL \notin Blocks /\ pushed \subseteq Blocks /\ PushedInv /\ ReachInv
  BY ListTypes
<1>1. PICK rank \in [Blocks -> Nat] : Ranked(rank)
  BY <1>0 DEF ReachInv
<1>2. \A b \in Blocks : ~ IsFirst(b)
  BY <1>0, RestingFrames DEF IsFirst
<1>3. ASSUME NEW b \in pushed, submitted[b] = 0
      PROVE  \E a \in pushed : submitted[a] = 0 /\ rank[a] < rank[b]
  <2>1. PICK a \in pushed : submitted[a] = 0 /\ Linked(a, b)
    BY <1>0, <1>2, <1>3 DEF ReachInv
  <2> QED
    BY <1>0, <1>1, <2>1 DEF Ranked
<1>4. ASSUME NEW c \in pushed, submitted[c] = 0 PROVE FALSE
  <2> DEFINE S == {rank[b] : b \in {x \in pushed : submitted[x] = 0}}
  <2>1. S \in SUBSET Nat /\ S # {}
    BY <1>0, <1>4
  <2>2. PICK m \in S : \A n \in S : ~ (n < m)
    BY <2>1, LeastNumber
  <2>3. PICK b \in pushed : submitted[b] = 0 /\ m = rank[b]
    BY <2>2
  <2>4. PICK a \in pushed : submitted[a] = 0 /\ rank[a] < rank[b]
    BY <1>3, <2>3
  <2> QED
    BY <2>2, <2>3, <2>4
<1> QED
  BY <1>0, <1>4 DEF PushedInv

(* At rest, with the count of enters at zero, nobody is blocked in            *)
(* dispatch_group_wait.                                                       *)
LEMMA RestingWaiters ==
  ASSUME IInv, Quiescent, dg_value = 0, NEW u \in Threads, Blocked(u) PROVE FALSE
<1>0. /\ Running /\ QueueInv /\ WaiterInv /\ WakeInv /\ dg_waiters \in 0..Cardinality(Threads)
      /\ Cardinality(Threads) \in Nat
  BY Card DEF Quiescent, IInv, TypeOK
<1>1. ~ (dg_waiters > 0)
  BY <1>0, RestingFrames DEF WakeInv
<1>2. dg_waiters = 0
  BY SMTT(30), <1>0, <1>1
<1>3. PendingSignals = {}
  <2>1. \A i \in 1..Cardinality(Threads) : ~ (i <= 0)
    BY SMTT(30), <1>0
  <2> QED
    BY <2>1, RestingFrames DEF PendingSignals
<1>4. Cardinality(PendingSignals) = 0
  BY <1>3, FS_EmptySet
<1>5. sema \in Ports /\ count[sema] = 0
  <2>1. pc[u] \in KernelPCs
    BY DEF Blocked, KernelPCs
  <2>2. sema \in Ports /\ u \in Members(waitq[sema])
    BY <1>0, <2>1 DEF QueueInv
  <2>3. waitq[sema] # <<>>
    BY SMTT(30), <2>2 DEF Members
  <2> QED
    BY <1>0, <2>2, <2>3 DEF QueueInv
<1>6. Cardinality(RegisteredWaiters) = 0
  <2>1. Cardinality(RegisteredWaiters) = 0 + 0 + 0
    BY <1>0, <1>2, <1>4, <1>5 DEF WaiterInv, Posted
  <2> QED
    BY SMTT(30), <2>1
<1>7. RegisteredWaiters \in SUBSET Threads /\ u \in RegisteredWaiters
  BY DEF RegisteredWaiters, Blocked
<1> QED
  BY <1>6, <1>7, Card

(* No reference leaks and no wake-up is lost: when no thread is inside a call *)
(* other than a blocked one, the group holds the references of its client, of *)
(* a positive count and of a list that is not empty; and if its count is zero *)
(* the _dispatch_group_wake of the last leave, or of whoever came too late    *)
(* for it, has let every waiter go and submitted every block.                 *)
THEOREM RestingGroup == Spec => []GroupAtRest
<1>1. ASSUME IInv, Quiescent
      PROVE  do_ref_cnt + 1 = (IF Client THEN 1 ELSE 0) + (IF dg_value > 0 THEN 1 ELSE 0)
                              + (IF dg_notify_head # NULL THEN 1 ELSE 0)
  <2>1. Entering = {} /\ Retaining = {} /\ Leaving = {} /\ Snapshots = {}
    BY <1>1, RestingFrames, ZeroOne DEF Entering, Retaining, Leaving, Snapshots
  <2>2. Cardinality(Leaving) = 0 /\ Cardinality(Snapshots) = 0
    BY <2>1, FS_EmptySet
  <2>3. dg_notify_tail # NULL <=> dg_notify_head # NULL
    BY <1>1, RestingFrames DEF IInv, OwnerInv, HeadPCs
  <2>4. do_ref_cnt + 1 = References
    BY <1>1 DEF IInv, RefInv, Quiescent
  <2>5. do_ref_cnt + 1 = One(Client) + One(dg_value > 0) + 0 + One(dg_notify_head # NULL) + 0
    BY <2>1, <2>2, <2>3, <2>4 DEF References, One
  <2> QED
    BY SMTT(30), <2>5 DEF One
<1>2. ASSUME IInv, Quiescent, dg_value = 0
      PROVE  /\ \A t \in Threads : ~ Blocked(t)
             /\ dg_notify_head = NULL /\ dg_notify_tail = NULL
             /\ \A b \in pushed : submitted[b] = 1
  <2>1. \A t \in Threads : ~ Blocked(t)
    BY <1>2, RestingWaiters
  <2>2. dg_notify_head = NULL
    BY <1>2, RestingFrames DEF IInv, WakeInv, Quiescent
  <2>3. dg_notify_tail = NULL
    BY <1>2, <2>2, RestingFrames DEF IInv, OwnerInv, HeadPCs
  <2> QED
    BY <1>2, <2>1, <2>2, <2>3, RestingBlocks
<1>3. IInv => GroupAtRest
  BY <1>1, <1>2 DEF GroupAtRest
<1> QED
  BY Invariance, <1>3, PTL
=============================================================================
