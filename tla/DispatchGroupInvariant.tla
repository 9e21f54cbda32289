----------------------- MODULE DispatchGroupInvariant -----------------------
(***************************************************************************)
(* The inductive invariant of dispatch_group_t (module DispatchGroup) for  *)
(* any threads, blocks, ports, width of long and number of groups, and the *)
(* proofs that the steps keep its parts about types, locals, the life of   *)
(* the group, the kernel's queues and the waiters.  It has a part for each *)
(* piece of the group that several threads change at once.                 *)
(* DispatchGroupProofs has the other parts and the theorems.               *)
(***************************************************************************)
EXTENDS DispatchGroup, FiniteSetTheorems, TLAPS

USE ZenonT(30)

-----------------------------------------------------------------------------
(***************************************************************************)
(* The inductive invariant                                                 *)
(***************************************************************************)

SignalPCs == {"wake_test", "wake_create", "wake_signal"}
KernelPCs == {"wake_signal", "timedwait", "timedwait_blocked", "undo", "wait",
              "wait_blocked"}

(* Where a thread is tells which of its locals are in use.                   *)
FrameOK(t) ==
  /\ pc[t] \notin WakePCs => frame[t].needs_release = 0 /\ frame[t].caller = "idle"
  /\ frame[t].needs_release = 1 => frame[t].caller = "idle"
  /\ pc[t] \notin SignalPCs => frame[t].rval = 0
  /\ pc[t] \in SignalPCs => frame[t].rval \in 1..Cardinality(Threads)
  /\ pc[t] \notin WakePCs \ {"wake_head", "wake_release"} => frame[t].head = NULL
  /\ pc[t] \in {"wake_tail", "wake_notify"} => frame[t].head # NULL
  /\ pc[t] \notin WakePCs \ {"wake_head", "wake_tail"} => frame[t].tail = NULL
  /\ pc[t] \in {"notify_link", "notify_retain", "notify_head"} => frame[t].dsn # NULL
  /\ pc[t] = "notify_link" => frame[t].prev # NULL
FrameInv == \A t \in Threads : FrameOK(t)

(* A group that is gone left nothing behind, a live one has a count of enters *)
(* in the range of long and only as many callers as its references allow.     *)
StatusInv ==
  /\ status \notin {"over_release", "in_use"}
  /\ status = "absent" =>
       /\ \A t \in Threads : pc[t] = "idle"
       /\ dg_value = 0 /\ dg_notify_head = NULL /\ dg_notify_tail = NULL
       /\ sema \notin Ports
  /\ Running =>
       /\ dg_value \in 0..LONG_MAX /\ sema # MACH_PORT_DEAD
       /\ Client \/ \A t \in Threads : pc[t] = "idle" \/ frame[t].needs_release = 1

(* The kernel's queues: a thread is queued exactly while it is blocked, on    *)
(* the installed port, which then has no signal left; other ports are idle.   *)
Distinct(q) == \A i, j \in DOMAIN q : q[i] = q[j] => i = j
QueueInv ==
  /\ \A p \in Ports : Distinct(waitq[p])
  /\ \A p \in Ports : \A u \in Members(waitq[p]) : Blocked(u)
  /\ \A u \in Threads : Blocked(u) => u \in Members(waitq[sema])
  /\ \A p \in Ports : waitq[p] # <<>> => count[p] = 0
  /\ \A p \in Ports : p # sema => count[p] = 0 /\ waitq[p] = <<>>
  /\ Running => \A u \in Threads : pc[u] \in KernelPCs => sema \in Ports

Posted == IF sema \in Ports THEN count[sema] ELSE 0

(* Every waiter past registration is matched by one unit of dg_waiters, one   *)
(* signal a wake has yet to send, or one posted signal.                       *)
WaiterInv ==
  Running => Cardinality(RegisteredWaiters)
               = dg_waiters + Cardinality(PendingSignals) + Posted

Entering == {t \in Threads : pc[t] = "enter_retain"}
Retaining == {t \in Threads : pc[t] = "notify_retain"}
Leaving == {t \in Threads : frame[t].needs_release = 1}
Snapshots == {t \in Threads : frame[t].tail # NULL}
One(b) == IF b THEN 1 ELSE 0

(* One thread at a time is between the enter that made the count positive and *)
(* the reference that goes with it.                                           *)
EnterInv ==
  /\ \A t, u \in Entering : t = u
  /\ Running /\ Entering # {} => dg_value > 0

(* Who holds the references: the client, a positive count, a leave that made  *)
(* it zero, the notify list, and a wake that took the list.                   *)
References ==
  One(Client) + One(dg_value > 0 /\ Entering = {}) + Cardinality(Leaving)
  + One(dg_notify_tail # NULL /\ Retaining = {}) + Cardinality(Snapshots)
RefInv == Running => do_ref_cnt + 1 = References

(* Who may touch the head of a notify list that is not empty: the thread that *)
(* made it non-empty, until it stored the head, whoever takes the head, and   *)
(* the wake that took the head, until it took the tail.                       *)
HeadPCs == {"notify_retain", "notify_head", "wake_tail"}
OwnerInv ==
  /\ \A t, u \in Threads : pc[t] \in HeadPCs /\ pc[u] \in HeadPCs => t = u
  /\ dg_notify_head # NULL => \A t \in Threads : pc[t] \notin HeadPCs
  /\ dg_notify_tail # NULL <=> dg_notify_head # NULL \/ \E t \in Threads : pc[t] \in HeadPCs

(* The first block of the list thread t holds, and the blocks that are first  *)
(* of some list.                                                              *)
First(t) == IF pc[t] \in {"notify_retain", "notify_head"} THEN frame[t].dsn
            ELSE frame[t].head
IsFirst(b) == dg_notify_head = b \/ \E t \in Threads : First(t) = b

(* Block b follows block a: the link is stored, or a thread is about to.      *)
Linking(t, a, b) == pc[t] = "notify_link" /\ frame[t].prev = a /\ frame[t].dsn = b
Linked(a, b) == do_next[a] = b \/ \E t \in Threads : Linking(t, a, b)

(* Only blocks given to dispatch_group_notify are in a list.                  *)
PushedInv ==
  /\ \A b \in Blocks : submitted[b] \in {0, 1}
  /\ \A b \in Blocks : b \notin pushed => submitted[b] = 0 /\ do_next[b] = NULL
  /\ \A b \in Blocks : do_next[b] \in pushed \cup {NULL}
  /\ dg_notify_head \in pushed \cup {NULL} /\ dg_notify_tail \in pushed \cup {NULL}
  /\ \A t \in Threads : {frame[t].head, frame[t].tail, frame[t].dsn, frame[t].prev}
                          \subseteq pushed \cup {NULL}

(* No block is first of two lists, none that is first was submitted.          *)
FirstInv ==
  /\ dg_notify_head # NULL => submitted[dg_notify_head] = 0
  /\ \A t \in Threads : First(t) # NULL => /\ submitted[First(t)] = 0
                                           /\ First(t) # dg_notify_head
  /\ \A t, u \in Threads : First(t) # NULL /\ First(t) = First(u) => t = u

(* Links lead from one block to one other, and from a block that was not      *)
(* submitted to one that was not and that is not first.                       *)
LinkInv ==
  /\ \A a, b \in Blocks : Linked(a, b) /\ submitted[a] = 0 =>
                            submitted[b] = 0 /\ ~ IsFirst(b)
  /\ \A a, b, c \in Blocks : Linked(a, b) /\ Linked(a, c) => b = c
  /\ \A a, b, c \in Blocks : Linked(a, c) /\ Linked(b, c) => a = b
  /\ \A t \in Threads : pc[t] = "notify_link" => /\ submitted[frame[t].prev] = 0
                                                 /\ do_next[frame[t].prev] = NULL
  /\ \A t, u \in Threads : /\ pc[t] = "notify_link" /\ pc[u] = "notify_link"
                           /\ frame[t].prev = frame[u].prev
                           => t = u

(* Nothing follows the last block of a list.                                  *)
TailInv ==
  /\ dg_notify_tail # NULL => /\ submitted[dg_notify_tail] = 0
                              /\ \A b \in Blocks : ~ Linked(dg_notify_tail, b)
  /\ \A t \in Threads : frame[t].tail # NULL =>
                          /\ frame[t].tail # dg_notify_tail
                          /\ \A b \in Blocks : ~ Linked(frame[t].tail, b)

(* A block that was not submitted can be reached: it is first of a list or    *)
(* follows another such block, and following links does not lead in circles.  *)
Ranked(rank) == \A a, b \in Blocks : Linked(a, b) => rank[a] < rank[b]
ReachInv ==
  /\ \A b \in pushed : submitted[b] = 0 =>
       IsFirst(b) \/ \E a \in pushed : submitted[a] = 0 /\ Linked(a, b)
  /\ \E rank \in [Blocks -> Nat] : Ranked(rank)

(* The wake-ups that are due: of the notify list and of the waiters of a      *)
(* group that is empty.                                                       *)
WakeInv ==
  Running /\ dg_value = 0 =>
    /\ dg_notify_head # NULL => \E t \in Threads : pc[t] \in {"wake_head", "notify_check"}
    /\ dg_waiters > 0 => \E t \in Threads : pc[t] \in {"wake_head", "wake_tail",
                                                       "wake_waiters", "wait_recheck"}

(* The inductive invariant.                                                   *)
ListInv == PushedInv /\ FirstInv /\ LinkInv /\ TailInv
IInv == /\ TypeOK /\ FrameInv /\ StatusInv /\ QueueInv /\ WaiterInv
        /\ EnterInv /\ RefInv /\ OwnerInv /\ ListInv /\ ReachInv /\ WakeInv

-----------------------------------------------------------------------------
(***************************************************************************)
(* What the queue operations of the Mach semaphore (module Sema4) do to    *)
(* the set of queued threads, when no thread is queued twice.              *)
(***************************************************************************)

(* A thread that leaves the queue by itself (semaphore_unblock).             *)
LEMMA WithoutLemma ==
  ASSUME NEW S, NEW q \in Seq(S), NEW t \in Members(q), Distinct(q)
  PROVE  /\ Without(q, t) \in Seq(S) /\ Distinct(Without(q, t))
         /\ Members(Without(q, t)) = Members(q) \ {t}
<1> DEFINE w == Without(q, t)
<1>1. PICK k \in 1..Len(q) : q[k] = t
  BY SMTT(30) DEF Members
<1>2. w = [j \in 1..(Len(q) - 1) |-> IF j >= k THEN q[j + 1] ELSE q[j]]
  <2>1. \A j \in 1..(Len(q) - 1) : (\E i \in 1..j : q[i] = t) <=> j >= k
    BY SMTT(30), <1>1 DEF Distinct
  <2> QED BY <2>1 DEF Without
<1>3. w \in Seq(S) /\ Len(w) = Len(q) - 1 /\ DOMAIN w = 1..(Len(q) - 1)
  BY SMTT(30), <1>1, <1>2
<1>4. Distinct(w)
  BY SMTT(30), <1>1, <1>2, <1>3 DEF Distinct
<1>5. Members(w) = Members(q) \ {t}
  <2>1. ASSUME NEW x \in Members(w) PROVE x \in Members(q) /\ x # t
    BY SMTT(30), <1>1, <1>2, <1>3 DEF Members, Distinct
  <2>2. ASSUME NEW x \in Members(q), x # t PROVE x \in Members(w)
    <3>1. PICK i \in 1..Len(q) : q[i] = x
      BY SMTT(30) DEF Members
    <3>2. CASE i < k
      BY SMTT(30), <1>1, <1>2, <1>3, <2>2, <3>1, <3>2 DEF Members
    <3>3. CASE i > k
      <4>1. i - 1 \in DOMAIN w /\ w[i - 1] = x
        BY SMTT(30), <1>1, <1>2, <1>3, <3>1, <3>3
      <4> QED BY <4>1 DEF Members
    <3> QED BY SMTT(30), <1>1, <2>2, <3>1, <3>2, <3>3
  <2> QED BY <2>1, <2>2
<1> QED BY <1>3, <1>4, <1>5

(* The first thread is handed a signal (semaphore_signal).                   *)
LEMMA TailLemma ==
  ASSUME NEW S, NEW q \in Seq(S), q # <<>>, Distinct(q)
  PROVE  /\ Head(q) \in S /\ Head(q) \in Members(q)
         /\ Tail(q) \in Seq(S) /\ Distinct(Tail(q))
         /\ Members(Tail(q)) = Members(q) \ {Head(q)}
<1>1. Len(q) >= 1 /\ Head(q) = q[1] /\ DOMAIN q = 1..Len(q)
  BY SMTT(30)
<1>2. /\ Tail(q) \in Seq(S) /\ DOMAIN Tail(q) = 1..(Len(q) - 1)
      /\ \A i \in 1..(Len(q) - 1) : Tail(q)[i] = q[i + 1]
  BY SMTT(30), <1>1
<1>3. Distinct(Tail(q))
  BY SMTT(30), <1>1, <1>2 DEF Distinct
<1>4. Members(Tail(q)) = Members(q) \ {Head(q)}
  <2>1. ASSUME NEW x \in Members(Tail(q)) PROVE x \in Members(q) /\ x # Head(q)
    BY SMTT(30), <1>1, <1>2 DEF Members, Distinct
  <2>2. ASSUME NEW x \in Members(q), x # Head(q) PROVE x \in Members(Tail(q))
    <3>1. PICK i \in 1..Len(q) : q[i] = x /\ i # 1
      BY <1>1, <2>2 DEF Members
    <3>2. i - 1 \in DOMAIN Tail(q) /\ Tail(q)[i - 1] = x
      BY SMTT(30), <1>1, <1>2, <3>1
    <3> QED BY <3>2 DEF Members
  <2> QED BY <2>1, <2>2
<1>5. Head(q) \in S /\ Head(q) \in Members(q)
  BY SMTT(30), <1>1 DEF Members
<1> QED BY <1>2, <1>3, <1>4, <1>5

(* A thread that was not queued blocks (semaphore_block).                    *)
LEMMA AppendLemma ==
  ASSUME NEW S, NEW q \in Seq(S), NEW t \in S, t \notin Members(q), Distinct(q)
  PROVE  /\ Append(q, t) \in Seq(S) /\ Distinct(Append(q, t))
         /\ Members(Append(q, t)) = Members(q) \cup {t}
<1>1. /\ Append(q, t) \in Seq(S) /\ DOMAIN Append(q, t) = 1..(Len(q) + 1)
      /\ \A i \in 1..Len(q) : Append(q, t)[i] = q[i]
      /\ Append(q, t)[Len(q) + 1] = t
  BY SMTT(30)
<1>2. Distinct(Append(q, t))
  BY SMTT(30), <1>1 DEF Distinct, Members
<1>3. Members(Append(q, t)) = Members(q) \cup {t}
  <2>1. ASSUME NEW x \in Members(Append(q, t)) PROVE x \in Members(q) \cup {t}
    BY SMTT(30), <1>1 DEF Members
  <2>2. ASSUME NEW x \in Members(q) PROVE x \in Members(Append(q, t))
    BY SMTT(30), <1>1 DEF Members
  <2>3. t \in Members(Append(q, t))
    <3>1. Len(q) + 1 \in DOMAIN Append(q, t)
      BY SMTT(30), <1>1
    <3> QED BY <1>1, <3>1 DEF Members
  <2> QED BY <2>1, <2>2, <2>3
<1> QED BY <1>1, <1>2, <1>3

(* Only threads are queued on a port.                                         *)
LEMMA MembersIn == ASSUME TypeOK, NEW p \in Ports PROVE Members(waitq[p]) \subseteq Threads
  BY SMTT(30) DEF TypeOK, Sema4TypeOK, Members

(* _dispatch_sema4_create_slow leaves a port behind, and a port that was      *)
(* there stays.                                                               *)
LEMMA CreateSlow ==
  ASSUME Sema4TypeOK, NEW t \in Threads, sema4_create_slow(t)
  PROVE  /\ Sema4TypeOK' /\ UNCHANGED <<count, waitq>>
         /\ IF sema = MACH_PORT_NULL THEN sema' \in Ports ELSE sema' = sema
<1>1. PICK tmp \in os_get_cached_semaphore(t) :
        /\ live' = live \cup {tmp} /\ UNCHANGED <<count, waitq>>
        /\ IF sema = MACH_PORT_NULL THEN sema' = tmp ELSE sema' = sema
        /\ \/ cache' = [cache EXCEPT ![t] = MACH_PORT_NULL]
           \/ cache' = [cache EXCEPT ![t] = tmp]
  BY DEF sema4_create_slow
<1>2. tmp \in Ports
  BY PortNames DEF os_get_cached_semaphore, semaphore_create, Sema4TypeOK
<1> QED
  BY <1>1, <1>2 DEF Sema4TypeOK

(* A thread leaves the kernel without a signal.                               *)
LEMMA UnblockType ==
  ASSUME Sema4TypeOK, QueueInv, NEW t \in Threads, semaphore_unblock(t) PROVE Sema4TypeOK'
<1>1. \A p \in Ports : t \in Members(waitq[p]) => Without(waitq[p], t) \in Seq(Threads)
  BY WithoutLemma DEF QueueInv, Sema4TypeOK
<1> QED
  BY <1>1 DEF semaphore_unblock, Sema4TypeOK

(* _dispatch_sema4_dispose leaves no port behind.                             *)
LEMMA DisposeType ==
  ASSUME Sema4TypeOK, sema # MACH_PORT_DEAD, NEW t \in Threads, sema4_dispose(t)
  PROVE  /\ Sema4TypeOK' /\ sema' \notin Ports /\ UNCHANGED waitq
         /\ \A p \in Ports : count'[p] \in {0, count[p]}
<1>1. CASE sema = MACH_PORT_NULL
  BY <1>1, PortNames DEF sema4_dispose, sema4_is_created, Sema4TypeOK, sema4_vars
<1>2. CASE sema # MACH_PORT_NULL
  <2>1. /\ sema \in Ports /\ sema' = MACH_PORT_DEAD /\ UNCHANGED waitq
        /\ cache' = [cache EXCEPT ![t] = sema] /\ live' = live \ {cache[t]}
        /\ count' = [q \in Ports |-> IF q = cache[t] THEN 0 ELSE count[q]]
    BY <1>2 DEF sema4_dispose, sema4_is_created, os_put_cached_semaphore, semaphore_destroy,
       Sema4TypeOK
  <2>2. 0 \in Nat
    BY SMTT(30)
  <2>3. count' \in [Ports -> Nat] /\ \A p \in Ports : count'[p] \in {0, count[p]}
    BY <2>1, <2>2 DEF Sema4TypeOK
  <2>4. cache' \in [Threads -> Ports \cup {MACH_PORT_NULL}] /\ live' \in SUBSET Ports
    BY <2>1 DEF Sema4TypeOK
  <2> QED
    BY <2>1, <2>3, <2>4, PortNames DEF Sema4TypeOK
<1> QED
  BY <1>1, <1>2

(* Sets of threads are finite, and a thread more or less changes their size by one.*)
LEMMA Card ==
  ASSUME NEW S \in SUBSET Threads
  PROVE  /\ IsFiniteSet(S) /\ Cardinality(S) \in Nat /\ Cardinality(S) <= Cardinality(Threads)
         /\ Cardinality(Threads) \in Nat
         /\ Cardinality(S) = 0 <=> S = {}
         /\ \A t \in Threads \ S : /\ Cardinality(S \cup {t}) = Cardinality(S) + 1
                                   /\ Cardinality(S) < Cardinality(Threads)
         /\ \A t \in S : Cardinality(S \ {t}) = Cardinality(S) - 1
<1>1. IsFiniteSet(Threads) /\ IsFiniteSet(S) /\ Cardinality(S) <= Cardinality(Threads)
  BY GroupConstants, FS_Subset
<1>2. Cardinality(S) \in Nat /\ Cardinality(Threads) \in Nat
  BY <1>1, FS_CardinalityType
<1>3. ASSUME NEW t \in S PROVE Cardinality(S \ {t}) = Cardinality(S) - 1
  BY <1>1, FS_RemoveElement
<1>4. ASSUME NEW t \in Threads \ S
      PROVE  /\ Cardinality(S \cup {t}) = Cardinality(S) + 1
             /\ Cardinality(S) < Cardinality(Threads)
  <2>1. S \cup {t} \in SUBSET Threads
    OBVIOUS
  <2>2. Cardinality(S \cup {t}) <= Cardinality(Threads)
    BY <1>1, <2>1, FS_Subset
  <2>3. Cardinality(S \cup {t}) = Cardinality(S) + 1
    BY <1>1, <1>4, FS_AddElement
  <2> QED
    BY SMTT(30), <1>2, <2>2, <2>3
<1>5. Cardinality(S) = 0 <=> S = {}
  BY <1>1, FS_EmptySet
<1> QED
  BY <1>1, <1>2, <1>3, <1>4, <1>5

(* The signals a wake has yet to send, counted.                               *)
LEMMA PendingFinite == IsFiniteSet(PendingSignals) /\ Cardinality(PendingSignals) \in Nat
<1>1. IsFiniteSet(Threads) /\ Cardinality(Threads) \in Nat
  BY GroupConstants, FS_CardinalityType
<1>2. IsFiniteSet(1..Cardinality(Threads))
  BY SMTT(30), <1>1, FS_Interval
<1>3. IsFiniteSet(Threads \X (1..Cardinality(Threads)))
  BY <1>1, <1>2, FS_Product
<1>4. PendingSignals \subseteq Threads \X (1..Cardinality(Threads))
  BY DEF PendingSignals
<1> QED
  BY <1>3, <1>4, FS_Subset, FS_CardinalityType

-----------------------------------------------------------------------------

(* Before a group is created the invariant holds.                             *)
LEMMA InitInv == Init => IInv
<1> SUFFICES ASSUME Init PROVE IInv
  OBVIOUS
<1> USE DEF Init, Sema4Init
<1>1. TypeOK
  <2>1. EmptyFrame \in Frames
    BY DEF EmptyFrame, Frames, Links
  <2>2. Cardinality(Threads) \in Nat
    BY GroupConstants, FS_CardinalityType
  <2> QED
    BY SMTT(30), <2>1, <2>2, PortNames, GroupConstants
       DEF TypeOK, Sema4TypeOK, Links, Statuses, PCs, WakePCs
<1>2. FrameInv
  BY DEF FrameInv, FrameOK, EmptyFrame, WakePCs, SignalPCs
<1>3. StatusInv
  BY PortNames DEF StatusInv, Running
<1>4. QueueInv
  BY SMTT(30), PortNames DEF QueueInv, Distinct, Members, Blocked, Running, KernelPCs
<1>5. WaiterInv /\ RefInv /\ WakeInv
  BY DEF Running, WaiterInv, RefInv, WakeInv
<1>6. EnterInv /\ OwnerInv
  BY DEF EnterInv, Entering, OwnerInv, HeadPCs
<1>7. \A t \in Threads : First(t) = NULL /\ frame[t].tail = NULL /\ pc[t] = "idle"
  BY DEF First, EmptyFrame
<1>8. \A a, b \in Blocks : ~ Linked(a, b)
  BY <1>7, GroupConstants DEF Linked, Linking
<1>9. PushedInv
  BY DEF PushedInv, EmptyFrame
<1>10. FirstInv /\ LinkInv /\ TailInv
  BY <1>7, <1>8 DEF FirstInv, LinkInv, TailInv
<1>11. ReachInv
  <2>1. [b \in Blocks |-> 0] \in [Blocks -> Nat]
    OBVIOUS
  <2> QED
    BY <1>8, <2>1 DEF ReachInv, Ranked
<1> QED
  BY <1>1, <1>2, <1>3, <1>4, <1>5, <1>6, <1>9, <1>10, <1>11 DEF IInv, ListInv

-----------------------------------------------------------------------------
(***************************************************************************)
(* Types                                                                   *)
(***************************************************************************)

(* Moving a thread on keeps the type of pc.                                   *)
LEMMA GotoType ==
  ASSUME pc \in [Threads -> PCs], NEW t \in Threads, NEW to \in PCs, Goto(t, to)
  PROVE  pc' \in [Threads -> PCs]
  BY DEF Goto

(* The locals of a thread outside any call have their type.                   *)
LEMMA EmptyFrameType == EmptyFrame \in Frames
  BY DEF EmptyFrame, Frames, Links

(* So does a return, which also clears the locals.                            *)
LEMMA ReturnType ==
  ASSUME pc \in [Threads -> PCs], frame \in [Threads -> Frames],
         NEW t \in Threads, NEW to \in PCs, Return(t, to)
  PROVE  pc' \in [Threads -> PCs] /\ frame' \in [Threads -> Frames]
  BY EmptyFrameType DEF Goto, Return

(* Every assignment the operations make to a local keeps its type.            *)
LEMMA FieldType ==
  ASSUME NEW f \in Frames
  PROVE  /\ \A x \in Links : /\ [f EXCEPT !.head = x] \in Frames
                             /\ [f EXCEPT !.tail = x] \in Frames
                             /\ \A y \in Links : [f EXCEPT !.dsn = x, !.prev = y] \in Frames
         /\ \A n \in Nat : [f EXCEPT !.rval = n] \in Frames
         /\ [f EXCEPT !.needs_release = 1] \in Frames
         /\ [f EXCEPT !.caller = "wait_test", !.timeout = "forever"] \in Frames
         /\ \A to \in {"finite", "forever"} : [f EXCEPT !.timeout = to] \in Frames
<1>1. ASSUME NEW x \in Links
      PROVE  [f EXCEPT !.head = x] \in Frames /\ [f EXCEPT !.tail = x] \in Frames
  BY DEF Frames
<1>2. ASSUME NEW x \in Links, NEW y \in Links
      PROVE  [f EXCEPT !.dsn = x, !.prev = y] \in Frames
  BY DEF Frames
<1>3. ASSUME NEW n \in Nat PROVE [f EXCEPT !.rval = n] \in Frames
  BY DEF Frames
<1>4. [f EXCEPT !.needs_release = 1] \in Frames
  BY DEF Frames
<1>5. [f EXCEPT !.caller = "wait_test", !.timeout = "forever"] \in Frames
  BY DEF Frames
<1>6. ASSUME NEW to \in {"finite", "forever"} PROVE [f EXCEPT !.timeout = to] \in Frames
  BY DEF Frames
<1> QED
  BY <1>1, <1>2, <1>3, <1>4, <1>5, <1>6

(* The locals that a store to another one leaves alone.                       *)
LEMMA NotifyKept ==
  ASSUME NEW f \in Frames, NEW g,
         \/ g = f
         \/ \E x : g = [f EXCEPT !.rval = x]
         \/ \E x : g = [f EXCEPT !.timeout = x]
         \/ \E x : g = [f EXCEPT !.needs_release = x]
         \/ g = [f EXCEPT !.caller = "wait_test", !.timeout = "forever"]
  PROVE  g.head = f.head /\ g.tail = f.tail /\ g.dsn = f.dsn /\ g.prev = f.prev
  BY DEF Frames

(* Assignments that leave the two locals alone that stand for references.     *)
LEMMA RefsKept ==
  ASSUME NEW f \in Frames, NEW g,
         \/ g = f
         \/ \E x : g = [f EXCEPT !.head = x]
         \/ \E x : g = [f EXCEPT !.rval = x]
         \/ \E x : g = [f EXCEPT !.timeout = x]
         \/ g = [f EXCEPT !.caller = "wait_test", !.timeout = "forever"]
         \/ \E x, y : g = [f EXCEPT !.dsn = x, !.prev = y]
  PROVE  g.needs_release = f.needs_release /\ g.tail = f.tail
  BY DEF Frames

(* Assignments that leave the signals to send and the caller of a wake alone. *)
LEMMA WaitKept ==
  ASSUME NEW f \in Frames, NEW g,
         \/ g = f
         \/ \E x : g = [f EXCEPT !.head = x]
         \/ \E x : g = [f EXCEPT !.tail = x]
         \/ \E x : g = [f EXCEPT !.timeout = x]
         \/ \E x : g = [f EXCEPT !.needs_release = x]
         \/ \E x, y : g = [f EXCEPT !.dsn = x, !.prev = y]
  PROVE  g.rval = f.rval /\ g.caller = f.caller
  BY DEF Frames

(* What the locals are outside any call.                                      *)
LEMMA EmptyFields ==
  /\ EmptyFrame.head = NULL /\ EmptyFrame.tail = NULL /\ EmptyFrame.rval = 0
  /\ EmptyFrame.needs_release = 0 /\ EmptyFrame.caller = "idle"
  /\ EmptyFrame.dsn = NULL /\ EmptyFrame.prev = NULL
  BY DEF EmptyFrame

(* Zero, one and minus one differ.                                            *)
LEMMA ZeroOne == 0 # 1 /\ -1 # 0
  BY SMTT(30)

(* The locals a step of thread t changes, for each step that changes some.    *)
LEMMA FrameType ==
  ASSUME frame \in [Threads -> Frames], NEW t \in Threads, NEW f \in Frames,
         frame' = [frame EXCEPT ![t] = f]
  PROVE  frame' \in [Threads -> Frames]
  OBVIOUS

(* Where a wake goes on after its signals.                                    *)
LEMMA AfterSignalsType ==
  ASSUME NEW t \in Threads PROVE AfterSignals(t) \in {"wake_release", "wake_notify"}
  BY DEF AfterSignals

(* Where a waiter goes on once there is a port.                               *)
LEMMA SlowPathType ==
  ASSUME NEW t \in Threads PROVE SlowPath(t) \in {"timedwait", "wait"}
  BY DEF SlowPath

(* A release, with the disposal of the last one, keeps the types.             *)
LEMMA ReleaseType ==
  ASSUME TypeOK, StatusInv, Running, NEW t \in Threads, NEW n \in Nat, _dispatch_release_n(t, n)
  PROVE  Sema4TypeOK' /\ do_ref_cnt' \in Int /\ status' \in Statuses
<1>1. do_ref_cnt' \in Int
  BY SMTT(30) DEF _dispatch_release_n, TypeOK
<1>2. status' \in Statuses
  BY DEF _dispatch_release_n, TypeOK, Statuses
<1>3. Sema4TypeOK'
  <2>1. CASE UNCHANGED sema4_vars
    BY <2>1 DEF sema4_vars, TypeOK, Sema4TypeOK
  <2>2. CASE sema4_dispose(t)
    BY <2>2, DisposeType DEF TypeOK, StatusInv
  <2> QED
    BY <2>1, <2>2 DEF _dispatch_release_n
<1> QED
  BY <1>1, <1>2, <1>3

(* The values a count and a local may take: the count of enters leaves the    *)
(* range of long only by a step that ends the process, and no more threads    *)
(* register than there are.                                                   *)
CountType == dg_value \in -1..LONG_MAX + 1 /\ dg_waiters \in 0..Cardinality(Threads)
ListType ==
  /\ dg_notify_head \in Links /\ dg_notify_tail \in Links
  /\ do_next \in [Blocks -> Links]
  /\ submitted \in [Blocks -> Nat] /\ pushed \subseteq Blocks
RefType ==
  /\ do_ref_cnt \in Int /\ do_xref_cnt \in {-1, 0}
  /\ status \in Statuses /\ groups \in 0..MaxGroups
ThreadType == pc \in [Threads -> PCs] /\ frame \in [Threads -> Frames]

(* The type invariant, piece by piece.                                        *)
LEMMA TypeParts ==
  /\ TypeOK => Sema4TypeOK /\ CountType /\ ListType /\ RefType /\ ThreadType
  /\ Sema4TypeOK' /\ CountType' /\ ListType' /\ RefType' /\ ThreadType' => TypeOK'
  BY DEF TypeOK, CountType, ListType, RefType, ThreadType

(* A signal keeps the types of the kernel semaphore.                          *)
LEMMA SignalType ==
  ASSUME Sema4TypeOK, sema \in Ports, semaphore_signal(sema) PROVE Sema4TypeOK'
<1>1. CASE waitq[sema] = <<>>
  <2>1. count[sema] + 1 \in Nat
    BY SMTT(30) DEF Sema4TypeOK
  <2> QED
    BY <1>1, <2>1 DEF semaphore_signal, Sema4TypeOK
<1>2. CASE waitq[sema] # <<>>
  <2>1. Tail(waitq[sema]) \in Seq(Threads)
    BY SMTT(30), <1>2 DEF Sema4TypeOK
  <2> QED
    BY <1>2, <2>1 DEF semaphore_signal, Sema4TypeOK
<1> QED
  BY <1>1, <1>2

(* Every step keeps the types.                                                *)
LEMMA NextType == IInv /\ [Next]_vars => TypeOK'
<1> SUFFICES ASSUME IInv, [Next]_vars PROVE TypeOK'
  OBVIOUS
<1> USE DEF At
<1>0. /\ TypeOK /\ Sema4TypeOK /\ CountType /\ ListType /\ RefType /\ ThreadType
      /\ StatusInv /\ FrameInv /\ QueueInv /\ pc \in [Threads -> PCs]
      /\ frame \in [Threads -> Frames]
  BY TypeParts DEF IInv, ThreadType
<1>1. UNCHANGED sema4_vars => Sema4TypeOK'
  BY <1>0 DEF sema4_vars, Sema4TypeOK
<1>2. UNCHANGED count_vars => CountType'
  BY <1>0 DEF count_vars, CountType
<1>3. UNCHANGED list_vars => ListType'
  BY <1>0 DEF list_vars, ListType
<1>4. UNCHANGED ref_vars => RefType'
  BY <1>0 DEF ref_vars, RefType
<1>5. ASSUME NEW t \in Threads, NEW to \in PCs, Goto(t, to), UNCHANGED frame
      PROVE  ThreadType'
  BY <1>0, <1>5, GotoType DEF ThreadType
<1>6. ASSUME NEW t \in Threads, NEW to \in PCs, Return(t, to) PROVE ThreadType'
  BY <1>0, <1>6, ReturnType DEF ThreadType
<1>7. ASSUME NEW t \in Threads, NEW to \in PCs, Goto(t, to), NEW f \in Frames,
             frame' = [frame EXCEPT ![t] = f]
      PROVE  ThreadType'
  BY <1>0, <1>7, GotoType, FrameType DEF ThreadType
<1>8. UNCHANGED <<pc, frame>> => ThreadType'
  BY <1>0 DEF ThreadType
<1>9. \A t \in Threads : frame[t] \in Frames /\ frame[t].head \in Links /\ frame[t].dsn \in Links
  BY SMTT(30), <1>0 DEF Frames
<1>10. CASE UNCHANGED vars
  BY <1>1, <1>2, <1>3, <1>4, <1>8, <1>10, TypeParts DEF vars
<1>11. ASSUME NEW cnt \in {0, 1}, _dispatch_group_create_with_count(cnt) PROVE TypeOK'
  <2>1. Sema4TypeOK'
    BY <1>0, <1>11 DEF _dispatch_group_create_with_count, Sema4TypeOK
  <2>2. CountType' /\ RefType'
    <3>1. Cardinality(Threads) \in Nat
      BY Card
    <3> QED
      BY SMTT(30), <1>0, <1>11, <3>1, GroupConstants
         DEF _dispatch_group_create_with_count, CountType, RefType, Statuses
  <2>3. ListType'
    BY <1>0, <1>11 DEF _dispatch_group_create_with_count, ListType, Links
  <2> QED
    BY <1>8, <1>11, <2>1, <2>2, <2>3, TypeParts DEF _dispatch_group_create_with_count
<1>12. ASSUME NEW t \in Threads, dispatch_release(t) PROVE TypeOK'
  <2>1. Sema4TypeOK' /\ do_ref_cnt' \in Int /\ status' \in Statuses
    BY <1>0, <1>12, ReleaseType DEF dispatch_release
  <2>2. RefType'
    BY <1>0, <1>12, <2>1 DEF dispatch_release, RefType
  <2> QED
    BY <1>2, <1>3, <1>8, <1>12, <2>1, <2>2, TypeParts DEF dispatch_release
<1>13. ASSUME NEW t \in Threads, dispatch_group_enter(t) PROVE TypeOK'
  <2>1. CountType'
    BY SMTT(30), <1>0, <1>13, GroupConstants DEF dispatch_group_enter, CountType, StatusInv
  <2>2. RefType'
    BY <1>0, <1>13 DEF dispatch_group_enter, RefType, Statuses
  <2>3. ThreadType'
    <3>1. (IF dg_value = 0 THEN "enter_retain" ELSE "idle") \in PCs
      BY DEF PCs
    <3> QED
      BY <1>5, <1>13, <3>1 DEF dispatch_group_enter
  <2> QED
    BY <1>1, <1>3, <1>13, <2>1, <2>2, <2>3, TypeParts DEF dispatch_group_enter
<1>14. ASSUME NEW t \in Threads, dispatch_group_leave(t) PROVE TypeOK'
  <2>1. CountType'
    BY SMTT(30), <1>0, <1>14, GroupConstants DEF dispatch_group_leave, CountType, StatusInv
  <2>2. RefType'
    BY <1>0, <1>14 DEF dispatch_group_leave, RefType, Statuses
  <2>3. ThreadType'
    <3>1. CASE dg_value = 1
      <4>1. frame' = [frame EXCEPT ![t] = [frame[t] EXCEPT !.needs_release = 1]]
        BY <1>14, <3>1 DEF dispatch_group_leave
      <4>2. [frame[t] EXCEPT !.needs_release = 1] \in Frames /\ "wake_head" \in PCs
        BY <1>9, FieldType DEF PCs, WakePCs
      <4> QED
        BY <1>7, <1>14, <3>1, <4>1, <4>2 DEF dispatch_group_leave
    <3>2. CASE dg_value # 1
      BY <1>8, <1>14, <3>2 DEF dispatch_group_leave
    <3> QED
      BY <3>1, <3>2
  <2> QED
    BY <1>1, <1>3, <1>14, <2>1, <2>2, <2>3, TypeParts DEF dispatch_group_leave
<1>15. ASSUME NEW t \in Threads, NEW to \in Timeouts, dispatch_group_wait(t, to) PROVE TypeOK'
  <2>1. frame' = [frame EXCEPT ![t] = [frame[t] EXCEPT !.timeout = to]]
    BY <1>15 DEF dispatch_group_wait
  <2>2. [frame[t] EXCEPT !.timeout = to] \in Frames /\ "wait_check" \in PCs
    BY <1>9, FieldType, GroupConstants DEF PCs
  <2>3. ThreadType'
    BY <1>7, <1>15, <2>1, <2>2 DEF dispatch_group_wait
  <2> QED
    BY <1>1, <1>2, <1>3, <1>4, <1>15, <2>3, TypeParts DEF dispatch_group_wait
<1>16. ASSUME NEW t \in Threads, NEW b \in Blocks, dispatch_group_notify(t, b) PROVE TypeOK'
  <2>1. frame' = [frame EXCEPT ![t] = [frame[t] EXCEPT !.dsn = b, !.prev = dg_notify_tail]]
    BY <1>16 DEF dispatch_group_notify
  <2>2. [frame[t] EXCEPT !.dsn = b, !.prev = dg_notify_tail] \in Frames
    BY <1>0, <1>9, FieldType DEF ListType, Links
  <2>3. ThreadType'
    <3>1. (IF dg_notify_tail = NULL THEN "notify_retain" ELSE "notify_link") \in PCs
      BY DEF PCs
    <3> QED
      BY <1>7, <1>16, <2>1, <2>2, <3>1 DEF dispatch_group_notify
  <2>4. ListType'
    BY <1>0, <1>16 DEF dispatch_group_notify, ListType, Links
  <2> QED
    BY <1>1, <1>2, <1>4, <1>16, <2>3, <2>4, TypeParts DEF dispatch_group_notify
<1>17. ASSUME NEW t \in Threads, EnterRetain(t) \/ NotifyRetain(t) PROVE TypeOK'
  <2>1. do_ref_cnt' \in Int /\ UNCHANGED <<do_xref_cnt, status, groups>>
    BY SMTT(30), <1>0, <1>17 DEF EnterRetain, NotifyRetain, _dispatch_retain, RefType
  <2>2. RefType'
    BY <1>0, <2>1 DEF RefType
  <2>3. ThreadType'
    BY <1>5, <1>17 DEF EnterRetain, NotifyRetain, PCs
  <2> QED
    BY <1>1, <1>2, <1>3, <1>17, <2>2, <2>3, TypeParts DEF EnterRetain, NotifyRetain
<1>18. ASSUME NEW t \in Threads, WakeHead(t) PROVE TypeOK'
  <2>1. frame' = [frame EXCEPT ![t] = [frame[t] EXCEPT !.head = dg_notify_head]]
    BY <1>18 DEF WakeHead
  <2>2. [frame[t] EXCEPT !.head = dg_notify_head] \in Frames
    BY <1>0, <1>9, FieldType DEF ListType
  <2>3. ThreadType'
    <3>1. (IF dg_notify_head = NULL THEN "wake_waiters" ELSE "wake_tail") \in PCs
      BY DEF PCs, WakePCs
    <3> QED
      BY <1>7, <1>18, <2>1, <2>2, <3>1 DEF WakeHead
  <2>4. ListType'
    BY <1>0, <1>18 DEF WakeHead, ListType, Links
  <2> QED
    BY <1>1, <1>2, <1>4, <1>18, <2>3, <2>4, TypeParts DEF WakeHead
<1>19. ASSUME NEW t \in Threads, WakeTail(t) PROVE TypeOK'
  <2>1. frame' = [frame EXCEPT ![t] = [frame[t] EXCEPT !.tail = dg_notify_tail]]
    BY <1>19 DEF WakeTail
  <2>2. [frame[t] EXCEPT !.tail = dg_notify_tail] \in Frames /\ "wake_waiters" \in PCs
    BY <1>0, <1>9, FieldType DEF ListType, PCs, WakePCs
  <2>3. ThreadType'
    BY <1>7, <1>19, <2>1, <2>2 DEF WakeTail
  <2>4. ListType'
    BY <1>0, <1>19 DEF WakeTail, ListType, Links
  <2> QED
    BY <1>1, <1>2, <1>4, <1>19, <2>3, <2>4, TypeParts DEF WakeTail
<1>20. ASSUME NEW t \in Threads, WakeWaiters(t) PROVE TypeOK'
  <2>0. Cardinality(Threads) \in Nat
    BY Card
  <2>1. frame' = [frame EXCEPT ![t] = [frame[t] EXCEPT !.rval = dg_waiters]]
    BY <1>20 DEF WakeWaiters
  <2>a. dg_waiters \in Nat /\ CountType'
    BY SMTT(30), <1>0, <1>20, <2>0 DEF CountType, WakeWaiters
  <2>2. [frame[t] EXCEPT !.rval = dg_waiters] \in Frames
    BY <1>9, <2>a, FieldType
  <2>3. ThreadType'
    <3>1. (IF dg_waiters = 0 THEN AfterSignals(t) ELSE "wake_test") \in PCs
      BY AfterSignalsType DEF PCs, WakePCs
    <3> QED
      BY <1>7, <1>20, <2>1, <2>2, <3>1 DEF WakeWaiters
  <2> QED
    BY <1>1, <1>3, <1>4, <1>20, <2>3, <2>a, TypeParts DEF WakeWaiters
<1>21. ASSUME NEW t \in Threads, WakeTestCreated(t) \/ WaitCheck(t) \/ WaitTestCreated(t)
       PROVE  TypeOK'
  <2>1. PICK to \in PCs : Goto(t, to) /\ UNCHANGED frame
    BY <1>21, SlowPathType DEF WakeTestCreated, WaitCheck, WaitTestCreated, PCs, WakePCs
  <2>2. ThreadType'
    BY <1>5, <2>1
  <2> QED
    BY <1>1, <1>2, <1>3, <1>4, <1>21, <2>2, TypeParts
       DEF WakeTestCreated, WaitCheck, WaitTestCreated
<1>22. ASSUME NEW t \in Threads, WakeCreate(t) \/ WaitCreate(t) PROVE TypeOK'
  <2>1. PICK to \in PCs : Goto(t, to) /\ UNCHANGED frame
    BY <1>22, SlowPathType DEF WakeCreate, WaitCreate, PCs, WakePCs
  <2>2. ThreadType'
    BY <1>5, <2>1
  <2>3. Sema4TypeOK'
    BY <1>0, <1>22, CreateSlow DEF WakeCreate, WaitCreate
  <2> QED
    BY <1>2, <1>3, <1>4, <1>22, <2>2, <2>3, TypeParts DEF WakeCreate, WaitCreate
<1>23. ASSUME NEW t \in Threads, WakeSignal(t) PROVE TypeOK'
  <2>1. Sema4TypeOK'
    BY <1>0, <1>23, SignalType DEF WakeSignal, QueueInv, KernelPCs
  <2>2. [frame[t] EXCEPT !.rval = @ - 1] \in Frames
    <3>1. frame[t].rval - 1 \in Nat
      BY SMTT(30), <1>0, <1>23, Card DEF WakeSignal, FrameInv, FrameOK, SignalPCs
    <3> QED
      BY <1>9, <3>1, FieldType
  <2>3. frame' \in [Threads -> Frames]
    BY <1>0, <1>23, <2>2, EmptyFrameType DEF WakeSignal
  <2>4. pc' \in [Threads -> PCs]
    <3>1. AfterSignals(t) \in PCs /\ "wake_signal" \in PCs /\ "idle" \in PCs
      BY AfterSignalsType DEF PCs, WakePCs
    <3> QED
      BY <1>0, <1>23, <3>1 DEF WakeSignal
  <2> QED
    BY <1>2, <1>3, <1>4, <1>23, <2>1, <2>3, <2>4, TypeParts DEF WakeSignal, ThreadType
<1>24. ASSUME NEW t \in Threads, WakeNotify(t) PROVE TypeOK'
  <2> DEFINE head == frame[t].head
             next == IF head = frame[t].tail THEN NULL ELSE do_next[head]
  <2>1. head \in Blocks
    BY <1>0, <1>9, <1>24 DEF WakeNotify, FrameInv, FrameOK, Links
  <2>2. next \in Links
    BY <1>0, <2>1 DEF ListType, Links
  <2>3. frame' = [frame EXCEPT ![t] = [frame[t] EXCEPT !.head = next]]
    BY <1>24 DEF WakeNotify
  <2>4. [frame[t] EXCEPT !.head = next] \in Frames
    BY <1>9, <2>2, FieldType
  <2>5. ThreadType'
    <3>1. (IF next = NULL THEN "wake_release" ELSE "wake_notify") \in PCs
      BY DEF PCs, WakePCs
    <3>2. Goto(t, IF next = NULL THEN "wake_release" ELSE "wake_notify")
      BY <1>24 DEF WakeNotify
    <3> QED
      BY <1>7, <2>3, <2>4, <3>1, <3>2
  <2>6. ListType'
    BY SMTT(30), <1>0, <1>24, <2>1 DEF WakeNotify, ListType
  <2> QED
    BY <1>1, <1>2, <1>4, <1>24, <2>5, <2>6, TypeParts DEF WakeNotify
<1>25. ASSUME NEW t \in Threads, WakeRelease(t) PROVE TypeOK'
  <2> DEFINE refs == frame[t].needs_release + (IF frame[t].tail = NULL THEN 0 ELSE 1)
  <2>1. refs \in Nat /\ frame[t].caller \in PCs
    BY SMTT(30), <1>9 DEF Frames, PCs
  <2>2. Sema4TypeOK' /\ do_ref_cnt' \in Int /\ status' \in Statuses
    <3>1. CASE refs = 0
      BY <1>0, <1>1, <1>25, <3>1 DEF WakeRelease, RefType
    <3>2. CASE refs # 0
      <4>1. _dispatch_release_n(t, refs) /\ Running
        BY <1>25, <3>2 DEF WakeRelease
      <4> HIDE DEF refs
      <4> QED
        BY <1>0, <2>1, <4>1, ReleaseType
    <3> QED
      BY <3>1, <3>2
  <2>3. RefType'
    BY <1>0, <1>25, <2>2 DEF WakeRelease, RefType
  <2>4. ThreadType'
    BY <1>6, <1>25, <2>1 DEF WakeRelease
  <2> QED
    BY <1>2, <1>3, <1>25, <2>2, <2>3, <2>4, TypeParts DEF WakeRelease
<1>26. ASSUME NEW t \in Threads, WaitRegister(t) PROVE TypeOK'
  <2>1. RegisteredWaiters \in SUBSET Threads /\ t \notin RegisteredWaiters
    BY <1>26 DEF RegisteredWaiters, WaitRegister, WakePCs
  <2>2. /\ Cardinality(RegisteredWaiters) < Cardinality(Threads)
        /\ Cardinality(RegisteredWaiters) \in Nat /\ Cardinality(Threads) \in Nat
    BY <2>1, Card
  <2>3. Posted \in Nat
    BY <1>0 DEF Posted, Sema4TypeOK
  <2>4. Cardinality(PendingSignals) \in Nat
    BY PendingFinite
  <2>5. CountType'
    BY SMTT(30), <1>0, <1>26, <2>2, <2>3, <2>4
       DEF CountType, WaitRegister, IInv, WaiterInv
  <2>6. ThreadType'
    BY <1>5, <1>26 DEF WaitRegister, PCs
  <2> QED
    BY <1>1, <1>3, <1>4, <1>26, <2>5, <2>6, TypeParts DEF WaitRegister
<1>27. ASSUME NEW t \in Threads, WaitRecheck(t) PROVE TypeOK'
  <2>1. CASE dg_value = 0
    <3>1. frame' = [frame EXCEPT ![t] = [frame[t] EXCEPT !.caller = "wait_test",
                                                        !.timeout = "forever"]]
      BY <1>27, <2>1 DEF WaitRecheck
    <3>2. /\ [frame[t] EXCEPT !.caller = "wait_test", !.timeout = "forever"] \in Frames
          /\ "wake_head" \in PCs
      BY <1>9, FieldType DEF PCs, WakePCs
    <3>3. ThreadType'
      BY <1>7, <1>27, <2>1, <3>1, <3>2 DEF WaitRecheck
    <3> QED
      BY <1>1, <1>2, <1>3, <1>4, <1>27, <3>3, TypeParts DEF WaitRecheck
  <2>2. CASE dg_value # 0
    <3>1. ThreadType'
      BY <1>5, <1>27, <2>2 DEF WaitRecheck, PCs
    <3> QED
      BY <1>1, <1>2, <1>3, <1>4, <1>27, <3>1, TypeParts DEF WaitRecheck
  <2> QED
    BY <2>1, <2>2
<1>28. ASSUME NEW t \in Threads, KernelWait(t) PROVE TypeOK'
  <2>0. sema \in Ports
    BY <1>0, <1>28 DEF KernelWait, QueueInv, KernelPCs
  <2>1. CASE semaphore_take(sema) /\ Return(t, "idle")
    <3>1. Sema4TypeOK'
      BY SMTT(30), <1>0, <2>0, <2>1 DEF semaphore_take, Sema4TypeOK
    <3>2. ThreadType'
      BY <1>6, <2>1 DEF PCs
    <3> QED
      BY <1>2, <1>3, <1>4, <1>28, <3>1, <3>2, TypeParts DEF KernelWait
  <2>2. CASE /\ semaphore_block(sema, t)
             /\ Goto(t, IF pc[t] = "wait" THEN "wait_blocked" ELSE "timedwait_blocked")
             /\ UNCHANGED frame
    <3>1. Sema4TypeOK'
      BY SMTT(30), <1>0, <2>0, <2>2 DEF semaphore_block, Sema4TypeOK
    <3>2. ThreadType'
      <4>1. (IF pc[t] = "wait" THEN "wait_blocked" ELSE "timedwait_blocked") \in PCs
        BY DEF PCs
      <4> QED
        BY <1>5, <2>2, <4>1
    <3> QED
      BY <1>2, <1>3, <1>4, <1>28, <3>1, <3>2, TypeParts DEF KernelWait
  <2> QED
    BY <1>28, <2>1, <2>2 DEF KernelWait
<1>29. ASSUME NEW t \in Threads, KernelTimeout(t) \/ KernelAborted(t) PROVE TypeOK'
  <2>1. PICK to \in PCs : Goto(t, to) /\ UNCHANGED frame
    BY <1>29 DEF KernelTimeout, KernelAborted, PCs
  <2>2. ThreadType'
    BY <1>5, <2>1
  <2>3. Sema4TypeOK'
    BY <1>0, <1>1, <1>29, UnblockType DEF KernelTimeout, KernelAborted
  <2> QED
    BY <1>2, <1>3, <1>4, <1>29, <2>2, <2>3, TypeParts DEF KernelTimeout, KernelAborted
<1>30. ASSUME NEW t \in Threads, UndoRegister(t) PROVE TypeOK'
  <2>1. CountType'
    BY SMTT(30), <1>0, <1>30, Card DEF UndoRegister, CountType
  <2>2. ThreadType'
    <3>1. CASE dg_waiters > 0
      BY <1>6, <1>30, <3>1 DEF UndoRegister, PCs
    <3>2. CASE ~ (dg_waiters > 0)
      BY <1>5, <1>30, <3>2 DEF UndoRegister, PCs
    <3> QED
      BY <3>1, <3>2
  <2> QED
    BY <1>1, <1>3, <1>4, <1>30, <2>1, <2>2, TypeParts DEF UndoRegister
<1>31. ASSUME NEW t \in Threads, NotifyLink(t) PROVE TypeOK'
  <2>1. ListType'
    BY <1>0, <1>9, <1>31 DEF NotifyLink, ListType
  <2>2. ThreadType'
    BY <1>6, <1>31 DEF NotifyLink, PCs
  <2> QED
    BY <1>1, <1>2, <1>4, <1>31, <2>1, <2>2, TypeParts DEF NotifyLink
<1>32. ASSUME NEW t \in Threads, NotifyHead(t) PROVE TypeOK'
  <2>1. ListType'
    BY <1>0, <1>9, <1>32 DEF NotifyHead, ListType
  <2>2. ThreadType'
    BY <1>5, <1>32 DEF NotifyHead, PCs
  <2> QED
    BY <1>1, <1>2, <1>4, <1>32, <2>1, <2>2, TypeParts DEF NotifyHead
<1>33. ASSUME NEW t \in Threads, NotifyCheck(t) PROVE TypeOK'
  <2>1. (IF dg_value = 0 THEN "wake_head" ELSE "idle") \in PCs
    BY DEF PCs, WakePCs
  <2>2. ThreadType'
    BY <1>6, <1>33, <2>1 DEF NotifyCheck
  <2> QED
    BY <1>1, <1>2, <1>3, <1>4, <1>33, <2>2, TypeParts DEF NotifyCheck
<1> QED
  BY <1>10, <1>11, <1>12, <1>13, <1>14, <1>15, <1>16, <1>17, <1>18, <1>19, <1>20, <1>21,
     <1>22, <1>23, <1>24, <1>25, <1>26, <1>27, <1>28, <1>29, <1>30, <1>31, <1>32, <1>33
     DEF Next, Step

-----------------------------------------------------------------------------
(***************************************************************************)
(* Locals                                                                  *)
(***************************************************************************)

ListPCs == {"notify_link", "notify_retain", "notify_head"}

(* Every step leaves each thread with just the locals that its pc needs.      *)
LEMMA NextFrames == IInv /\ [Next]_vars => FrameInv'
<1> SUFFICES ASSUME IInv, [Next]_vars, NEW u \in Threads PROVE FrameOK(u)'
  BY DEF FrameInv
<1> USE DEF At, Goto, Return
<1>0. /\ TypeOK /\ FrameOK(u) /\ pc \in [Threads -> PCs] /\ frame \in [Threads -> Frames]
      /\ dg_waiters \in 0..Cardinality(Threads) /\ pc[u] \in PCs /\ frame[u] \in Frames
  BY DEF IInv, TypeOK, FrameInv
<1>1. ASSUME pc'[u] = pc[u], frame'[u] = frame[u] PROVE FrameOK(u)'
  BY <1>0, <1>1 DEF FrameOK
<1>2. ASSUME frame'[u] = EmptyFrame, pc'[u] \in {"idle", "wait_test", "wake_head"}
      PROVE  FrameOK(u)'
  <2>1. pc'[u] \notin {"wake_tail", "wake_notify"} \cup ListPCs \cup SignalPCs
    BY <1>2 DEF ListPCs, SignalPCs
  <2> QED
    BY <1>2, <2>1, EmptyFields, ZeroOne DEF FrameOK, ListPCs
<1>3. ASSUME frame'[u] = frame[u], pc[u] \notin WakePCs,
             pc'[u] = "wake_head" \/ pc'[u] \notin WakePCs \cup ListPCs
      PROVE  FrameOK(u)'
  BY <1>0, <1>3 DEF FrameOK, WakePCs, SignalPCs, ListPCs
<1>4. CASE UNCHANGED vars
  BY <1>1, <1>4 DEF vars
<1>5. ASSUME NEW cnt \in {0, 1}, _dispatch_group_create_with_count(cnt) PROVE FrameOK(u)'
  BY <1>1, <1>5 DEF _dispatch_group_create_with_count
<1>6. ASSUME NEW t \in Threads, dispatch_release(t) PROVE FrameOK(u)'
  BY <1>1, <1>6 DEF dispatch_release
<1>7. ASSUME NEW t \in Threads,
             \/ dispatch_group_enter(t) \/ EnterRetain(t) \/ WaitCheck(t) \/ WaitRegister(t)
             \/ WaitTestCreated(t) \/ WaitCreate(t) \/ KernelTimeout(t) \/ KernelAborted(t)
             \/ NotifyHead(t)
      PROVE  FrameOK(u)'
  <2>1. /\ frame' = frame /\ pc[t] \notin WakePCs
        /\ \E to \in PCs : to \notin (WakePCs \ {"wake_head"}) \cup ListPCs
                           /\ pc' = [pc EXCEPT ![t] = to]
    BY <1>7, SlowPathType DEF dispatch_group_enter, EnterRetain, WaitCheck, WaitRegister,
       WaitTestCreated, WaitCreate, KernelTimeout, KernelAborted, NotifyHead, PCs, WakePCs,
       ListPCs
  <2> QED
    BY <1>0, <1>1, <1>3, <2>1
<1>8. ASSUME NEW t \in Threads, dispatch_group_leave(t) PROVE FrameOK(u)'
  <2>1. CASE dg_value = 1 /\ u = t
    <3>1. pc[u] = "idle" /\ pc'[u] = "wake_head"
          /\ frame'[u] = [frame[u] EXCEPT !.needs_release = 1]
      BY <1>0, <1>8, <2>1 DEF dispatch_group_leave
    <3> QED
      BY SMTT(30), <1>0, <3>1 DEF FrameOK, WakePCs, SignalPCs, Frames
  <2>2. CASE dg_value # 1 \/ u # t
    BY <1>0, <1>1, <1>8, <2>2 DEF dispatch_group_leave
  <2> QED
    BY <2>1, <2>2
<1>9. ASSUME NEW t \in Threads, NEW to \in Timeouts, dispatch_group_wait(t, to)
      PROVE  FrameOK(u)'
  <2>1. CASE u = t
    <3>1. pc[u] = "idle" /\ pc'[u] = "wait_check"
          /\ frame'[u] = [frame[u] EXCEPT !.timeout = to]
      BY <1>0, <1>9, <2>1 DEF dispatch_group_wait
    <3> QED
      BY SMTT(30), <1>0, <3>1 DEF FrameOK, WakePCs, SignalPCs, Frames
  <2>2. CASE u # t
    BY <1>0, <1>1, <1>9, <2>2 DEF dispatch_group_wait
  <2> QED
    BY <2>1, <2>2
<1>10. ASSUME NEW t \in Threads, NEW b \in Blocks, dispatch_group_notify(t, b)
       PROVE  FrameOK(u)'
  <2>1. CASE u = t
    <3>1. /\ pc[u] = "idle"
          /\ pc'[u] = IF dg_notify_tail = NULL THEN "notify_retain" ELSE "notify_link"
          /\ frame'[u] = [frame[u] EXCEPT !.dsn = b, !.prev = dg_notify_tail]
      BY <1>0, <1>10, <2>1 DEF dispatch_group_notify
    <3> QED
      BY SMTT(30), <1>0, <3>1, GroupConstants DEF FrameOK, WakePCs, SignalPCs, Frames
  <2>2. CASE u # t
    BY <1>0, <1>1, <1>10, <2>2 DEF dispatch_group_notify
  <2> QED
    BY <2>1, <2>2
<1>11. ASSUME NEW t \in Threads, WakeHead(t) PROVE FrameOK(u)'
  <2>1. CASE u = t
    <3>1. /\ pc[u] = "wake_head"
          /\ pc'[u] = IF dg_notify_head = NULL THEN "wake_waiters" ELSE "wake_tail"
          /\ frame'[u] = [frame[u] EXCEPT !.head = dg_notify_head]
      BY <1>0, <1>11, <2>1 DEF WakeHead
    <3> QED
      BY SMTT(30), <1>0, <3>1 DEF FrameOK, WakePCs, SignalPCs, Frames
  <2>2. CASE u # t
    BY <1>0, <1>1, <1>11, <2>2 DEF WakeHead
  <2> QED
    BY <2>1, <2>2
<1>12. ASSUME NEW t \in Threads, WakeTail(t) PROVE FrameOK(u)'
  <2>1. CASE u = t
    <3>1. /\ pc[u] = "wake_tail" /\ pc'[u] = "wake_waiters"
          /\ frame'[u] = [frame[u] EXCEPT !.tail = dg_notify_tail]
      BY <1>0, <1>12, <2>1 DEF WakeTail
    <3> QED
      BY SMTT(30), <1>0, <3>1 DEF FrameOK, WakePCs, SignalPCs, Frames
  <2>2. CASE u # t
    BY <1>0, <1>1, <1>12, <2>2 DEF WakeTail
  <2> QED
    BY <2>1, <2>2
<1>13. ASSUME NEW t \in Threads, WakeWaiters(t) PROVE FrameOK(u)'
  <2>1. CASE u = t
    <3>1. /\ pc[u] = "wake_waiters"
          /\ pc'[u] = IF dg_waiters = 0 THEN AfterSignals(u) ELSE "wake_test"
          /\ frame'[u] = [frame[u] EXCEPT !.rval = dg_waiters]
      BY <1>0, <1>13, <2>1 DEF WakeWaiters
    <3>2. dg_waiters # 0 => dg_waiters \in 1..Cardinality(Threads)
      BY SMTT(30), <1>0, Card
    <3> QED
      BY SMTT(30), <1>0, <3>1, <3>2 DEF FrameOK, WakePCs, SignalPCs, Frames, AfterSignals
  <2>2. CASE u # t
    BY <1>0, <1>1, <1>13, <2>2 DEF WakeWaiters
  <2> QED
    BY <2>1, <2>2
<1>14. ASSUME NEW t \in Threads, WakeTestCreated(t) \/ WakeCreate(t) PROVE FrameOK(u)'
  <2>1. CASE u = t
    <3>1. pc[u] \in SignalPCs /\ pc'[u] \in SignalPCs /\ frame'[u] = frame[u]
      BY <1>0, <1>14, <2>1 DEF WakeTestCreated, WakeCreate, SignalPCs
    <3> QED
      BY <1>0, <3>1 DEF FrameOK, WakePCs, SignalPCs
  <2>2. CASE u # t
    BY <1>0, <1>1, <1>14, <2>2 DEF WakeTestCreated, WakeCreate
  <2> QED
    BY <2>1, <2>2
<1>15. ASSUME NEW t \in Threads, WakeSignal(t) PROVE FrameOK(u)'
  <2>1. CASE u = t
    <3>1. /\ pc[u] = "wake_signal"
          /\ pc'[u] = IF frame[u].rval = 1 THEN AfterSignals(u) ELSE "wake_signal"
          /\ frame'[u] = [frame[u] EXCEPT !.rval = @ - 1]
      BY <1>0, <1>15, <2>1 DEF WakeSignal
    <3>2. /\ frame[u].rval \in 1..Cardinality(Threads)
          /\ frame[u].rval # 1 => frame[u].rval - 1 \in 1..Cardinality(Threads)
          /\ frame[u].rval = 1 => frame[u].rval - 1 = 0
      BY SMTT(30), <1>0, <3>1, Card DEF FrameOK, SignalPCs
    <3> QED
      BY SMTT(30), <1>0, <3>1, <3>2 DEF FrameOK, WakePCs, SignalPCs, Frames, AfterSignals
  <2>2. CASE u # t /\ u \in Woken(sema)
    BY <1>2, <1>15, <2>2 DEF WakeSignal
  <2>3. CASE u # t /\ u \notin Woken(sema)
    BY <1>1, <1>15, <2>3 DEF WakeSignal
  <2> QED
    BY <2>1, <2>2, <2>3
<1>16. ASSUME NEW t \in Threads, WakeNotify(t) PROVE FrameOK(u)'
  <2>1. CASE u = t
    <3> DEFINE next == IF frame[u].head = frame[u].tail THEN NULL ELSE do_next[frame[u].head]
    <3>1. /\ pc[u] = "wake_notify"
          /\ pc'[u] = IF next = NULL THEN "wake_release" ELSE "wake_notify"
          /\ frame'[u] = [frame[u] EXCEPT !.head = next]
      BY <1>0, <1>16, <2>1 DEF WakeNotify
    <3> HIDE DEF next
    <3> QED
      BY SMTT(30), <1>0, <3>1 DEF FrameOK, WakePCs, SignalPCs, Frames
  <2>2. CASE u # t
    BY <1>0, <1>1, <1>16, <2>2 DEF WakeNotify
  <2> QED
    BY <2>1, <2>2
<1>17. ASSUME NEW t \in Threads, WakeRelease(t) \/ NotifyLink(t) \/ NotifyCheck(t)
       PROVE  FrameOK(u)'
  <2>1. CASE u = t
    <3>1. frame'[u] = EmptyFrame /\ pc'[u] \in {frame[u].caller, "idle", "wake_head"}
      BY <1>0, <1>17, <2>1 DEF WakeRelease, NotifyLink, NotifyCheck
    <3>2. frame[u].caller \in {"idle", "wait_test"}
      BY <1>0 DEF Frames
    <3> QED
      BY <1>2, <3>1, <3>2
  <2>2. CASE u # t
    BY <1>0, <1>1, <1>17, <2>2 DEF WakeRelease, NotifyLink, NotifyCheck
  <2> QED
    BY <2>1, <2>2
<1>18. ASSUME NEW t \in Threads, WaitRecheck(t) PROVE FrameOK(u)'
  <2>1. CASE u = t /\ dg_value = 0
    <3>1. /\ pc[u] = "wait_recheck" /\ pc'[u] = "wake_head"
          /\ frame'[u] = [frame[u] EXCEPT !.caller = "wait_test", !.timeout = "forever"]
      BY <1>0, <1>18, <2>1 DEF WaitRecheck
    <3> QED
      BY SMTT(30), <1>0, <3>1 DEF FrameOK, WakePCs, SignalPCs, Frames
  <2>2. CASE u = t /\ dg_value # 0
    BY <1>0, <1>3, <1>18, <2>2 DEF WaitRecheck, WakePCs, ListPCs
  <2>3. CASE u # t
    BY <1>0, <1>1, <1>18, <2>3 DEF WaitRecheck
  <2> QED
    BY <2>1, <2>2, <2>3
<1>19. ASSUME NEW t \in Threads, KernelWait(t) \/ UndoRegister(t) PROVE FrameOK(u)'
  <2>1. CASE u = t
    <3>1. \/ frame'[u] = EmptyFrame /\ pc'[u] = "idle"
          \/ frame'[u] = frame[u] /\ pc[u] \notin WakePCs
             /\ pc'[u] \in {"wait", "wait_blocked", "timedwait_blocked"}
      BY <1>0, <1>19, <2>1 DEF KernelWait, UndoRegister, WakePCs
    <3> QED
      BY <1>2, <1>3, <3>1 DEF WakePCs, ListPCs
  <2>2. CASE u # t
    BY <1>0, <1>1, <1>19, <2>2 DEF KernelWait, UndoRegister
  <2> QED
    BY <2>1, <2>2
<1>20. ASSUME NEW t \in Threads, NotifyRetain(t) PROVE FrameOK(u)'
  <2>1. CASE u = t
    <3>1. pc[u] = "notify_retain" /\ pc'[u] = "notify_head" /\ frame'[u] = frame[u]
      BY <1>0, <1>20, <2>1 DEF NotifyRetain
    <3> QED
      BY <1>0, <3>1 DEF FrameOK, WakePCs, SignalPCs
  <2>2. CASE u # t
    BY <1>0, <1>1, <1>20, <2>2 DEF NotifyRetain
  <2> QED
    BY <2>1, <2>2
<1> QED
  BY <1>4, <1>5, <1>6, <1>7, <1>8, <1>9, <1>10, <1>11, <1>12, <1>13, <1>14, <1>15, <1>16,
     <1>17, <1>18, <1>19, <1>20 DEF Next, Step

-----------------------------------------------------------------------------
(***************************************************************************)
(* References                                                              *)
(***************************************************************************)

(* Each holder of references holds a number of them.                          *)
LEMMA RefsType ==
  /\ One(Client) \in {0, 1} /\ One(dg_value > 0 /\ Entering = {}) \in {0, 1}
  /\ One(dg_notify_tail # NULL /\ Retaining = {}) \in {0, 1}
  /\ Cardinality(Leaving) \in Nat /\ Cardinality(Snapshots) \in Nat
<1>1. Leaving \in SUBSET Threads /\ Snapshots \in SUBSET Threads
  BY DEF Leaving, Snapshots
<1>2. Cardinality(Leaving) \in Nat /\ Cardinality(Snapshots) \in Nat
  BY <1>1, Card
<1> QED
  BY <1>2 DEF One

(* _dispatch_release_n by a caller that gives up n of the references there    *)
(* are: the group dies when no other is left.                                 *)
LEMMA ReleaseN ==
  ASSUME TypeOK, NEW t \in Threads, NEW n \in Nat, NEW rest \in Nat, Running,
         do_ref_cnt + 1 = rest + n, _dispatch_release_n(t, n)
  PROVE  /\ do_ref_cnt' + 1 = rest
         /\ rest > 0 => status' = "alive" /\ UNCHANGED sema4_vars
         /\ rest = 0 /\ dg_value = 0 => status' = "absent" /\ sema4_dispose(t)
<1>1. do_ref_cnt \in Int
  BY DEF TypeOK
<1>2. do_ref_cnt - n = rest - 1
  BY SMTT(30), <1>1
<1>3. do_ref_cnt' + 1 = rest
  BY SMTT(30), <1>2 DEF _dispatch_release_n
<1>4. ASSUME rest > 0 PROVE status' = "alive" /\ UNCHANGED sema4_vars
  <2>1. do_ref_cnt - n >= 0
    BY SMTT(30), <1>2, <1>4
  <2> QED
    BY <2>1 DEF _dispatch_release_n, Running
<1>5. ASSUME rest = 0, dg_value = 0 PROVE status' = "absent" /\ sema4_dispose(t)
  <2>1. ~ (do_ref_cnt - n >= 0) /\ ~ (do_ref_cnt - n < -1)
    BY SMTT(30), <1>2, <1>5
  <2> QED
    BY <1>5, <2>1 DEF _dispatch_release_n
<1> QED
  BY <1>3, <1>4, <1>5

(* dispatch_release and the release at the end of _dispatch_group_wake: the   *)
(* group lives on with the references that are left, or it dies when no       *)
(* thread is inside a call, empty and with an empty notify list.              *)
Alive == status' = "alive" /\ UNCHANGED sema4_vars /\ do_ref_cnt' + 1 = References'
Dead(t) ==
  /\ status' = "absent" /\ sema4_dispose(t)
  /\ \A u \in Threads : pc[u]' = "idle" /\ (u = t \/ pc[u] = "idle")
  /\ dg_value = 0 /\ dg_notify_head = NULL /\ dg_notify_tail = NULL

(* When the client gives up its reference the group stays, or nobody uses it. *)
LEMMA ReleaseClient ==
  ASSUME IInv, NEW t \in Threads, dispatch_release(t) PROVE Alive \/ Dead(t)
<1> DEFINE a == One(dg_value > 0 /\ Entering = {})
           b == One(dg_notify_tail # NULL /\ Retaining = {})
           rest == a + Cardinality(Leaving) + b + Cardinality(Snapshots)
<1>0. /\ TypeOK /\ StatusInv /\ RefInv /\ OwnerInv /\ Running /\ Client
      /\ pc[t] = "idle" /\ UNCHANGED <<count_vars, list_vars, pc, frame>>
      /\ \A u \in Threads : pc[u] = "idle" \/ frame[u].needs_release = 1
      /\ _dispatch_release_n(t, 1) /\ do_xref_cnt' = -1
  BY DEF IInv, dispatch_release, At
<1>1. /\ a \in {0, 1} /\ b \in {0, 1}
      /\ Cardinality(Leaving) \in Nat /\ Cardinality(Snapshots) \in Nat
  BY RefsType
<1>2. rest \in Nat
  BY SMTT(30), <1>1
<1>3. do_ref_cnt + 1 = rest + 1
  <2>1. One(Client) = 1 /\ do_ref_cnt + 1 = References
    BY <1>0 DEF One, RefInv
  <2> HIDE DEF a, b
  <2>2. References = 1 + a + Cardinality(Leaving) + b + Cardinality(Snapshots)
    BY <2>1 DEF References, a, b
  <2> QED
    BY SMTT(30), <1>1, <2>1, <2>2
<1>4. References' = rest
  <2>1. Leaving' = Leaving /\ Snapshots' = Snapshots /\ a' = a /\ b' = b
    BY <1>0 DEF Leaving, Snapshots, Entering, Retaining, One, count_vars, list_vars
  <2>2. One(Client)' = 0
    BY <1>0, ZeroOne DEF One, Client
  <2> HIDE DEF a, b
  <2>3. References' = 0 + a + Cardinality(Leaving) + b + Cardinality(Snapshots)
    BY <2>1, <2>2 DEF References, a, b
  <2> QED
    BY SMTT(30), <1>1, <2>3
<1>5. CASE rest > 0
  <2> HIDE DEF rest
  <2> QED
    BY <1>0, <1>2, <1>3, <1>4, <1>5, ReleaseN DEF Alive
<1>6. CASE rest = 0
  <2>1. a = 0 /\ b = 0 /\ Cardinality(Leaving) = 0
    <3> HIDE DEF a, b
    <3> QED BY SMTT(30), <1>1, <1>6
  <2>2. Leaving = {}
    <3>1. Leaving \in SUBSET Threads
      BY DEF Leaving
    <3> QED BY <2>1, <3>1, Card
  <2>3. \A u \in Threads : pc[u] = "idle"
    BY <1>0, <2>2 DEF Leaving
  <2>4. Entering = {} /\ Retaining = {}
    BY <2>3 DEF Entering, Retaining
  <2>5. ~ (dg_value > 0) /\ dg_notify_tail = NULL
    BY <2>1, <2>4, ZeroOne DEF One
  <2>6. dg_value = 0
    BY SMTT(30), <1>0, <2>5 DEF StatusInv
  <2>7. dg_notify_head = NULL
    BY <1>0, <2>5 DEF OwnerInv
  <2>8. status' = "absent" /\ sema4_dispose(t)
    <3> HIDE DEF rest
    <3> QED BY <1>0, <1>2, <1>3, <1>6, <2>6, ReleaseN
  <2> QED
    BY <1>0, <2>3, <2>5, <2>6, <2>7, <2>8 DEF Dead
<1> QED
  BY SMTT(30), <1>2, <1>5, <1>6

(* When a wake gives up references the group stays, or nobody uses it.        *)
LEMMA ReleaseWake ==
  ASSUME IInv, NEW t \in Threads, WakeRelease(t) PROVE Alive \/ Dead(t)
<1> DEFINE a == One(dg_value > 0 /\ Entering = {})
           b == One(dg_notify_tail # NULL /\ Retaining = {})
           c == One(Client)
           refs == frame[t].needs_release + (IF frame[t].tail = NULL THEN 0 ELSE 1)
           rest == c + a + Cardinality(Leaving \ {t}) + b + Cardinality(Snapshots \ {t})
<1>0. /\ TypeOK /\ StatusInv /\ RefInv /\ OwnerInv /\ Running /\ FrameOK(t)
      /\ pc[t] = "wake_release" /\ UNCHANGED <<count_vars, list_vars, do_xref_cnt>>
      /\ pc' = [pc EXCEPT ![t] = frame[t].caller]
      /\ frame' = [frame EXCEPT ![t] = EmptyFrame]
      /\ IF refs = 0 THEN UNCHANGED <<sema4_vars, do_ref_cnt, status>>
         ELSE _dispatch_release_n(t, refs)
      /\ pc \in [Threads -> PCs] /\ frame \in [Threads -> Frames]
      /\ frame[t].needs_release \in {0, 1} /\ frame[t].caller \in {"idle", "wait_test"}
  BY DEF IInv, WakeRelease, At, Goto, Return, FrameInv, TypeOK, Frames
<1>1. /\ a \in {0, 1} /\ b \in {0, 1} /\ c \in {0, 1}
      /\ Cardinality(Leaving) \in Nat /\ Cardinality(Snapshots) \in Nat
      /\ Leaving \in SUBSET Threads /\ Snapshots \in SUBSET Threads
  BY RefsType DEF Leaving, Snapshots
<1>2. /\ Cardinality(Leaving \ {t}) \in Nat /\ Cardinality(Snapshots \ {t}) \in Nat
      /\ Cardinality(Leaving) = Cardinality(Leaving \ {t}) + frame[t].needs_release
      /\ Cardinality(Snapshots) = Cardinality(Snapshots \ {t})
                                  + (IF frame[t].tail = NULL THEN 0 ELSE 1)
  <2>1. Leaving \ {t} \in SUBSET Threads /\ Snapshots \ {t} \in SUBSET Threads
    BY <1>1
  <2>2. Cardinality(Leaving \ {t}) \in Nat /\ Cardinality(Snapshots \ {t}) \in Nat
    BY <2>1, Card
  <2>3. Cardinality(Leaving) = Cardinality(Leaving \ {t}) + frame[t].needs_release
    <3>1. CASE frame[t].needs_release = 1
      <4>1. Cardinality(Leaving \ {t}) = Cardinality(Leaving) - 1
        BY <1>1, <3>1, Card DEF Leaving
      <4> QED BY SMTT(30), <1>1, <3>1, <4>1
    <3>2. CASE frame[t].needs_release = 0
      <4>1. Leaving \ {t} = Leaving
        BY <3>2, ZeroOne DEF Leaving
      <4> QED BY SMTT(30), <1>1, <3>2, <4>1
    <3> QED BY <1>0, <3>1, <3>2
  <2>4. Cardinality(Snapshots) = Cardinality(Snapshots \ {t})
                                 + (IF frame[t].tail = NULL THEN 0 ELSE 1)
    <3>1. CASE frame[t].tail # NULL
      <4>1. Cardinality(Snapshots \ {t}) = Cardinality(Snapshots) - 1
        BY <1>1, <3>1, Card DEF Snapshots
      <4> QED BY SMTT(30), <1>1, <3>1, <4>1
    <3>2. CASE frame[t].tail = NULL
      <4>1. Snapshots \ {t} = Snapshots
        BY <3>2 DEF Snapshots
      <4>2. Cardinality(Snapshots) = Cardinality(Snapshots) + 0
        BY SMTT(30), <1>1
      <4> QED BY <3>2, <4>1, <4>2
    <3> QED BY <3>1, <3>2
  <2> QED BY <2>2, <2>3, <2>4
<1>3. rest \in Nat /\ refs \in Nat /\ (frame[t].needs_release = 1 => refs # 0)
  <2> HIDE DEF a, b, c
  <2> QED BY SMTT(30), <1>0, <1>1, <1>2
<1>4. do_ref_cnt + 1 = rest + refs
  <2>1. do_ref_cnt + 1 = References
    BY <1>0 DEF RefInv
  <2> HIDE DEF a, b, c
  <2>2. References = c + a + Cardinality(Leaving) + b + Cardinality(Snapshots)
    BY DEF References, a, b, c
  <2> QED
    BY SMTT(30), <1>0, <1>1, <1>2, <2>1, <2>2
<1>5. References' = rest
  <2>1. Leaving' = Leaving \ {t} /\ Snapshots' = Snapshots \ {t}
    <3>1. /\ frame'[t].needs_release = 0 /\ frame'[t].tail = NULL
          /\ \A u \in Threads : u # t => frame'[u] = frame[u]
      BY <1>0, EmptyFields
    <3> QED
      BY <3>1, ZeroOne DEF Leaving, Snapshots
  <2>2. Entering' = Entering /\ Retaining' = Retaining
    BY <1>0 DEF Entering, Retaining
  <2>3. a' = a /\ b' = b /\ c' = c
    BY <1>0, <2>2 DEF One, count_vars, list_vars, Client
  <2> HIDE DEF a, b, c
  <2> QED
    BY <2>1, <2>3 DEF References, a, b, c
<1>6. CASE refs = 0
  <2> HIDE DEF rest, refs
  <2>1. do_ref_cnt' + 1 = rest /\ status' = "alive" /\ UNCHANGED sema4_vars
    <3>1. do_ref_cnt' = do_ref_cnt /\ status' = status /\ UNCHANGED sema4_vars
      BY <1>0, <1>6
    <3>2. rest + 0 = rest
      BY SMTT(30), <1>3
    <3> QED
      BY <1>0, <1>4, <1>6, <3>1, <3>2 DEF Running
  <2> QED
    BY <1>5, <2>1 DEF Alive
<1>7. CASE refs # 0 /\ rest > 0
  <2> HIDE DEF rest, refs
  <2> QED
    BY <1>0, <1>3, <1>4, <1>5, <1>7, ReleaseN DEF Alive
<1>8. CASE refs # 0 /\ rest = 0
  <2>1. a = 0 /\ b = 0 /\ c = 0 /\ Cardinality(Leaving \ {t}) = 0
    <3> HIDE DEF a, b, c
    <3>1. Cardinality(Leaving \ {t}) \in Nat /\ Cardinality(Snapshots \ {t}) \in Nat
      BY <1>2
    <3> QED BY SMTT(30), <1>1, <1>8, <3>1
  <2>2. Leaving \ {t} = {}
    <3>1. Leaving \ {t} \in SUBSET Threads
      BY DEF Leaving
    <3> QED BY <2>1, <3>1, Card
  <2>3. ~ Client
    BY <2>1, ZeroOne DEF One
  <2>4. \A u \in Threads : u = t \/ pc[u] = "idle"
    BY <1>0, <2>2, <2>3 DEF Leaving, StatusInv
  <2>5. frame[t].caller = "idle"
    BY <1>0, <2>3 DEF StatusInv, FrameOK
  <2>6. \A u \in Threads : pc[u]' = "idle"
    BY <1>0, <2>4, <2>5
  <2>7. Entering = {} /\ Retaining = {}
    BY <1>0, <2>4 DEF Entering, Retaining
  <2>8. ~ (dg_value > 0) /\ dg_notify_tail = NULL
    BY <2>1, <2>7, ZeroOne DEF One
  <2>9. dg_value = 0
    BY SMTT(30), <1>0, <2>8 DEF StatusInv
  <2>10. dg_notify_head = NULL
    BY <1>0, <2>8 DEF OwnerInv
  <2>11. status' = "absent" /\ sema4_dispose(t)
    <3> HIDE DEF rest, refs
    <3> QED BY <1>0, <1>3, <1>4, <1>8, <2>9, ReleaseN
  <2> QED
    BY <2>4, <2>6, <2>8, <2>9, <2>10, <2>11 DEF Dead
<1> QED
  <2> HIDE DEF rest, refs
  <2> QED BY SMTT(30), <1>3, <1>6, <1>7, <1>8

(* A call that relies on the client's reference runs while there is one.      *)
LEMMA ClientCalls ==
  ASSUME IInv, Running, NEW t \in Threads, pc[t] # "idle", pc[t] \notin WakePCs
  PROVE  Client
<1>1. frame[t].needs_release = 0
  BY DEF IInv, FrameInv, FrameOK
<1> QED
  BY <1>1, ZeroOne DEF IInv, StatusInv

(* Every step frees the group only when nothing is left of it.                *)
LEMMA NextStatus == IInv /\ [Next]_vars => StatusInv'
<1> SUFFICES ASSUME IInv, [Next]_vars PROVE StatusInv'
  OBVIOUS
<1> USE DEF At, Goto, Return
<1>0. /\ StatusInv /\ Sema4TypeOK /\ pc \in [Threads -> PCs] /\ frame \in [Threads -> Frames]
      /\ TypeOK /\ FrameInv /\ QueueInv
  BY DEF IInv, TypeOK
<1>1. ASSUME NEW t \in Threads, Running, status' = "alive", do_xref_cnt' = do_xref_cnt,
             dg_value' \in 0..LONG_MAX, sema' # MACH_PORT_DEAD,
             \A u \in Threads : \/ u = t \/ pc'[u] = "idle"
                                \/ pc'[u] = pc[u] /\ frame'[u] = frame[u],
             Client \/ pc'[t] = "idle" \/ frame'[t].needs_release = 1
      PROVE  StatusInv'
  <2>1. Client \/ \A u \in Threads : pc'[u] = "idle" \/ frame'[u].needs_release = 1
    BY <1>0, <1>1 DEF StatusInv
  <2> QED
    BY <1>1, <2>1 DEF StatusInv, Running, Client
<1>2. Running => dg_value \in 0..LONG_MAX /\ sema # MACH_PORT_DEAD /\ status = "alive"
  BY <1>0 DEF StatusInv, Running
<1>3. CASE UNCHANGED vars
  BY <1>0, <1>3
     DEF vars, sema4_vars, count_vars, list_vars, ref_vars, StatusInv, Running, Client
<1>4. ASSUME NEW cnt \in {0, 1}, _dispatch_group_create_with_count(cnt) PROVE StatusInv'
  <2>1. cnt \in 0..LONG_MAX
    BY SMTT(30), GroupConstants
  <2> QED
    BY <1>0, <1>4, <2>1, PortNames
       DEF _dispatch_group_create_with_count, StatusInv, Running, Client
<1>5. ASSUME NEW t \in Threads, dispatch_release(t) PROVE StatusInv'
  <2>1. CASE Alive
    BY <1>0, <1>2, <1>5, <2>1 DEF dispatch_release, Alive, StatusInv, Running, sema4_vars,
       count_vars
  <2>2. CASE Dead(t)
    <3>1. sema' \notin Ports
      BY <1>0, <1>2, <1>5, <2>2, DisposeType DEF Dead, dispatch_release
    <3> QED
      BY <1>5, <2>2, <3>1 DEF dispatch_release, Dead, StatusInv, Running, count_vars, list_vars
  <2> QED
    BY <1>5, <2>1, <2>2, ReleaseClient
<1>6. ASSUME NEW t \in Threads, WakeRelease(t) PROVE StatusInv'
  <2>1. CASE Alive
    <3>1. Client \/ pc'[t] = "idle"
      BY <1>0, <1>6 DEF WakeRelease, StatusInv, Running, FrameInv, FrameOK
    <3> QED
      BY <1>0, <1>1, <1>2, <1>6, <2>1, <3>1 DEF WakeRelease, Alive, sema4_vars, count_vars
  <2>2. CASE Dead(t)
    <3>1. sema' \notin Ports
      BY <1>0, <1>2, <1>6, <2>2, DisposeType DEF Dead, WakeRelease
    <3> QED
      BY <1>6, <2>2, <3>1 DEF WakeRelease, Dead, StatusInv, Running, count_vars, list_vars
  <2> QED
    BY <1>6, <2>1, <2>2, ReleaseWake
<1>7. ASSUME NEW t \in Threads, dispatch_group_enter(t) PROVE StatusInv'
  <2>1. CASE dg_value \in 0..LONG_MAX - 1
    <3>1. dg_value' \in 0..LONG_MAX
      BY SMTT(30), <1>7, <2>1, GroupConstants DEF dispatch_group_enter
    <3> QED
      BY <1>0, <1>1, <1>2, <1>7, <2>1, <3>1 DEF dispatch_group_enter, sema4_vars
  <2>2. CASE dg_value \notin 0..LONG_MAX - 1
    BY <1>7, <2>2 DEF dispatch_group_enter, StatusInv, Running
  <2> QED
    BY <2>1, <2>2
<1>8. ASSUME NEW t \in Threads, dispatch_group_leave(t) PROVE StatusInv'
  <2>1. CASE dg_value # 0
    <3>1. dg_value' \in 0..LONG_MAX
      BY SMTT(30), <1>2, <1>8, <2>1, GroupConstants DEF dispatch_group_leave
    <3>2. frame[t] \in Frames
      BY <1>0
    <3>3. pc'[t] = "idle" \/ frame'[t].needs_release = 1
      BY SMTT(30), <1>0, <1>8, <3>2 DEF dispatch_group_leave, Frames
    <3> QED
      BY <1>0, <1>1, <1>2, <1>8, <2>1, <3>1, <3>3 DEF dispatch_group_leave, sema4_vars
  <2>2. CASE dg_value = 0
    BY <1>8, <2>2 DEF dispatch_group_leave, StatusInv, Running
  <2> QED
    BY <2>1, <2>2
<1>9. ASSUME NEW t \in Threads, \/ \E to \in Timeouts : dispatch_group_wait(t, to)
                                \/ \E b \in Blocks : dispatch_group_notify(t, b)
      PROVE  StatusInv'
  <2>1. CASE \E to \in Timeouts : dispatch_group_wait(t, to)
    BY <1>0, <1>1, <1>2, <2>1 DEF dispatch_group_wait, sema4_vars, count_vars, ref_vars
  <2>2. CASE \E b \in Blocks : dispatch_group_notify(t, b)
    BY <1>0, <1>1, <1>2, <2>2 DEF dispatch_group_notify, sema4_vars, count_vars, ref_vars
  <2> QED
    BY <1>9, <2>1, <2>2
<1>10. ASSUME NEW t \in Threads,
              \/ EnterRetain(t) \/ WaitCheck(t) \/ WaitRegister(t) \/ WaitRecheck(t)
              \/ WaitTestCreated(t) \/ UndoRegister(t) \/ NotifyLink(t) \/ NotifyRetain(t)
              \/ NotifyHead(t) \/ NotifyCheck(t)
       PROVE  StatusInv'
  <2>1. Running /\ pc[t] # "idle" /\ pc[t] \notin WakePCs
    BY <1>10 DEF EnterRetain, WaitCheck, WaitRegister, WaitRecheck, WaitTestCreated,
       UndoRegister, NotifyLink, NotifyRetain, NotifyHead, NotifyCheck, WakePCs
  <2>2. Client
    BY <2>1, ClientCalls
  <2>3. UNCHANGED <<status, do_xref_cnt, dg_value, sema>>
    BY <1>10 DEF EnterRetain, WaitCheck, WaitRegister, WaitRecheck, WaitTestCreated,
       UndoRegister, NotifyLink, NotifyRetain, NotifyHead, NotifyCheck, sema4_vars, count_vars,
       ref_vars
  <2>4. \A u \in Threads : u = t \/ (pc'[u] = pc[u] /\ frame'[u] = frame[u])
    BY <1>0, <1>10 DEF EnterRetain, WaitCheck, WaitRegister, WaitRecheck, WaitTestCreated,
       UndoRegister, NotifyLink, NotifyRetain, NotifyHead, NotifyCheck
  <2> QED
    BY <1>1, <1>2, <2>1, <2>2, <2>3, <2>4
<1>11. ASSUME NEW t \in Threads,
              WaitCreate(t) \/ KernelWait(t) \/ KernelTimeout(t) \/ KernelAborted(t)
       PROVE  StatusInv'
  <2>1. Running /\ pc[t] # "idle" /\ pc[t] \notin WakePCs
    BY <1>11 DEF WaitCreate, KernelWait, KernelTimeout, KernelAborted, WakePCs
  <2>2. Client
    BY <2>1, ClientCalls
  <2>3. UNCHANGED <<status, do_xref_cnt, dg_value>>
    BY <1>11 DEF WaitCreate, KernelWait, KernelTimeout, KernelAborted, count_vars, ref_vars
  <2>4. \A u \in Threads : u = t \/ (pc'[u] = pc[u] /\ frame'[u] = frame[u])
    BY <1>0, <1>11 DEF WaitCreate, KernelWait, KernelTimeout, KernelAborted
  <2>5. sema' # MACH_PORT_DEAD
    <3>1. CASE WaitCreate(t)
      BY <1>0, <1>2, <2>1, <3>1, CreateSlow, PortNames DEF WaitCreate
    <3>2. CASE KernelWait(t) \/ KernelTimeout(t) \/ KernelAborted(t)
      BY <1>2, <2>1, <3>2 DEF KernelWait, KernelTimeout, KernelAborted, semaphore_take,
         semaphore_block, semaphore_unblock, sema4_vars
    <3> QED
      BY <1>11, <3>1, <3>2
  <2> QED
    BY <1>1, <1>2, <2>1, <2>2, <2>3, <2>4, <2>5
<1>12. ASSUME NEW t \in Threads,
              \/ WakeHead(t) \/ WakeTail(t) \/ WakeWaiters(t) \/ WakeTestCreated(t)
              \/ WakeCreate(t) \/ WakeSignal(t) \/ WakeNotify(t)
       PROVE  StatusInv'
  <2>1. Running /\ pc[t] \in WakePCs /\ pc[t] # "idle"
    BY <1>12 DEF WakeHead, WakeTail, WakeWaiters, WakeTestCreated, WakeCreate, WakeSignal,
       WakeNotify, WakePCs
  <2>2. Client \/ frame[t].needs_release = 1
    BY <1>0, <2>1 DEF StatusInv
  <2>3. UNCHANGED <<status, do_xref_cnt, dg_value>>
    BY <1>12 DEF WakeHead, WakeTail, WakeWaiters, WakeTestCreated, WakeCreate, WakeSignal,
       WakeNotify, count_vars, ref_vars
  <2>4. \A u \in Threads : u = t \/ pc'[u] = "idle" \/ (pc'[u] = pc[u] /\ frame'[u] = frame[u])
    BY <1>0, <1>12
       DEF WakeHead, WakeTail, WakeWaiters, WakeTestCreated, WakeCreate, WakeSignal,
       WakeNotify
  <2>5. sema' # MACH_PORT_DEAD
    <3>1. CASE WakeCreate(t)
      BY <1>0, <1>2, <2>1, <3>1, CreateSlow, PortNames DEF WakeCreate
    <3>2. CASE WakeSignal(t)
      BY <1>2, <2>1, <3>2 DEF WakeSignal, semaphore_signal
    <3>3. CASE \/ WakeHead(t) \/ WakeTail(t) \/ WakeWaiters(t) \/ WakeTestCreated(t)
               \/ WakeNotify(t)
      BY <1>2, <2>1, <3>3 DEF WakeHead, WakeTail, WakeWaiters, WakeTestCreated, WakeNotify,
         sema4_vars
    <3> QED
      BY <1>12, <3>1, <3>2, <3>3
  <2>6. frame'[t].needs_release = frame[t].needs_release
    <3>1. frame[t] \in Frames
      BY <1>0
    <3>2. CASE WakeTail(t)
      BY <1>0, <3>1, <3>2 DEF WakeTail, Frames
    <3>3. CASE WakeHead(t) \/ WakeNotify(t)
      <4>1. \E x : frame'[t] = [frame[t] EXCEPT !.head = x]
        <5>1. PICK x : frame' = [frame EXCEPT ![t].head = x]
          BY <3>3 DEF WakeHead, WakeNotify
        <5> QED
          BY <1>0, <5>1
      <4> QED
        BY <3>1, <4>1, RefsKept
    <3>4. CASE WakeWaiters(t) \/ WakeSignal(t)
      <4>1. \E x : frame'[t] = [frame[t] EXCEPT !.rval = x]
        BY <1>0, <3>4 DEF WakeWaiters, WakeSignal
      <4> QED
        BY <3>1, <4>1, RefsKept
    <3>5. CASE WakeTestCreated(t) \/ WakeCreate(t)
      BY <3>5 DEF WakeTestCreated, WakeCreate
    <3> QED
      BY <1>12, <3>2, <3>3, <3>4, <3>5
  <2> QED
    BY <1>1, <1>2, <2>1, <2>2, <2>3, <2>4, <2>5, <2>6
<1> QED
  BY <1>3, <1>4, <1>5, <1>6, <1>7, <1>8, <1>9, <1>10, <1>11, <1>12 DEF Next, Step

-----------------------------------------------------------------------------
(***************************************************************************)
(* The kernel's queues                                                     *)
(***************************************************************************)

(* A group that is about to be freed has no signal left and no thread queued. *)
LEMMA NoPostedAtDeath ==
  ASSUME IInv, Running, NEW t \in Threads,
         \A u \in Threads : pc[u] = "idle" \/ (u = t /\ pc[u] = "wake_release"
                                               /\ frame[u].caller = "idle")
  PROVE  \A p \in Ports : count[p] = 0 /\ waitq[p] = <<>>
<1>0. TypeOK /\ QueueInv /\ WaiterInv /\ count \in [Ports -> Nat] /\ dg_waiters \in Nat
      /\ waitq \in [Ports -> Seq(Threads)]
  BY SMTT(30), Card DEF IInv, TypeOK, Sema4TypeOK
<1>1. RegisteredWaiters = {}
  BY DEF RegisteredWaiters, WakePCs
<1>2. Cardinality(RegisteredWaiters) = 0
  BY <1>1, FS_EmptySet
<1>3. Posted \in Nat
  BY <1>0 DEF Posted
<1>4. Posted = 0
  BY SMTT(30), <1>0, <1>2, <1>3, PendingFinite DEF WaiterInv
<1>5. \A p \in Ports : count[p] = 0
  BY <1>0, <1>4 DEF Posted, QueueInv
<1>6. ASSUME NEW p \in Ports, waitq[p] # <<>> PROVE FALSE
  <2>1. Head(waitq[p]) \in Threads /\ Head(waitq[p]) \in Members(waitq[p])
    BY <1>0, <1>6, TailLemma DEF QueueInv
  <2> QED
    BY <1>0, <2>1 DEF QueueInv, Blocked
<1> QED
  BY <1>5, <1>6

(* Every step keeps the kernel's queues in order.                             *)
LEMMA NextQueues == IInv /\ [Next]_vars => QueueInv'
<1> SUFFICES ASSUME IInv, [Next]_vars PROVE QueueInv'
  OBVIOUS
<1> USE DEF At, Goto, Return
<1>0. /\ TypeOK /\ QueueInv /\ Sema4TypeOK /\ StatusInv
      /\ waitq \in [Ports -> Seq(Threads)] /\ count \in [Ports -> Nat]
      /\ sema \in Ports \cup {MACH_PORT_NULL, MACH_PORT_DEAD} /\ pc \in [Threads -> PCs]
  BY DEF IInv, TypeOK, Sema4TypeOK
<1>1. ASSUME UNCHANGED <<sema, count, waitq>>,
             \A u \in Threads : Blocked(u)' <=> Blocked(u),
             Running' => \A u \in Threads : pc'[u] \in KernelPCs => sema \in Ports
      PROVE  QueueInv'
  <2>1. \A p \in Ports : \A u \in Members(waitq[p]) : Blocked(u)'
    BY <1>0, <1>1, MembersIn DEF QueueInv
  <2> QED
    BY <1>0, <1>1, <2>1 DEF QueueInv
<1>2. CASE UNCHANGED vars
  BY <1>0, <1>1, <1>2 DEF vars, sema4_vars, ref_vars, Blocked, QueueInv, Running
<1>3. ASSUME NEW cnt \in {0, 1}, _dispatch_group_create_with_count(cnt) PROVE QueueInv'
  <2>1. /\ sema \notin Ports /\ UNCHANGED <<count, waitq, pc>> /\ sema' \notin Ports
        /\ \A u \in Threads : pc[u] = "idle"
    BY <1>0, <1>3, PortNames DEF _dispatch_group_create_with_count, StatusInv
  <2> QED
    BY <1>0, <2>1 DEF QueueInv, Blocked, KernelPCs
<1>4. ASSUME NEW t \in Threads, dispatch_release(t) \/ WakeRelease(t) PROVE QueueInv'
  <2>1. Alive \/ Dead(t)
    BY <1>4, ReleaseClient, ReleaseWake
  <2>a. /\ Running /\ pc' \in [Threads -> PCs] /\ ~ Blocked(t)
        /\ \A u \in Threads : u # t => pc'[u] = pc[u]
        /\ pc'[t] \in {"idle", "wait_test"}
    <3>1. frame[t].caller \in {"idle", "wait_test"}
      BY <1>0 DEF TypeOK, Frames
    <3> QED
      BY <1>0, <1>4, <3>1 DEF dispatch_release, WakeRelease, Blocked, PCs
  <2>2. CASE Alive
    <3>1. \A u \in Threads : Blocked(u)' <=> Blocked(u)
      BY <2>a DEF Blocked
    <3>2. \A u \in Threads : pc'[u] \in KernelPCs => sema \in Ports
      BY <1>0, <2>a DEF QueueInv, KernelPCs
    <3> QED
      BY <1>1, <2>2, <3>1, <3>2 DEF Alive, sema4_vars
  <2>3. CASE Dead(t)
    <3>1. \A p \in Ports : count[p] = 0 /\ waitq[p] = <<>>
      <4>1. pc[t] # "idle" => pc[t] = "wake_release" /\ frame[t].caller = "idle"
        BY <1>0, <1>4, <2>3 DEF Dead, dispatch_release, WakeRelease
      <4> QED
        BY <2>a, <2>3, <4>1, NoPostedAtDeath DEF Dead
    <3>2. sema # MACH_PORT_DEAD
      BY <1>0, <2>a DEF StatusInv
    <3>3. /\ sema' \notin Ports /\ waitq' = waitq
          /\ \A p \in Ports : count'[p] \in {0, count[p]}
      BY <1>0, <2>3, <3>2, DisposeType DEF Dead
    <3>4. \A u \in Threads : pc'[u] = "idle"
      BY <2>3 DEF Dead
    <3>5. \A p \in Ports : count'[p] = 0 /\ waitq'[p] = <<>> /\ Members(waitq'[p]) = {}
      BY SMTT(30), <3>1, <3>3 DEF Members
    <3>6. \A p \in Ports : Distinct(waitq'[p])
      BY <1>0, <3>3 DEF QueueInv
    <3> QED
      BY <3>3, <3>4, <3>5, <3>6 DEF QueueInv, Blocked, KernelPCs
  <2> QED
    BY <2>1, <2>2, <2>3
<1>5. ASSUME NEW t \in Threads, WakeCreate(t) \/ WaitCreate(t) PROVE QueueInv'
  <2>1. sema4_create_slow(t) /\ Running
    BY <1>5 DEF WakeCreate, WaitCreate
  <2>2. \A u \in Threads : Blocked(u)' <=> Blocked(u)
    BY <1>0, <1>5, SlowPathType DEF WakeCreate, WaitCreate, Blocked
  <2>3. /\ UNCHANGED <<count, waitq>> /\ sema' \in Ports
        /\ sema \in Ports => sema' = sema
    BY <1>0, <2>1, CreateSlow, PortNames DEF StatusInv
  <2>4. \A p \in Ports : \A u \in Members(waitq[p]) : Blocked(u)'
    BY <1>0, <2>2, MembersIn DEF QueueInv
  <2>5. \A u \in Threads : Blocked(u) => sema \in Ports
    BY <1>0, <2>1 DEF QueueInv, Blocked, KernelPCs
  <2> QED
    BY <1>0, <2>2, <2>3, <2>4, <2>5 DEF QueueInv
<1>6. ASSUME NEW t \in Threads,
             \/ dispatch_group_enter(t) \/ dispatch_group_leave(t)
             \/ \E to \in Timeouts : dispatch_group_wait(t, to)
             \/ \E b \in Blocks : dispatch_group_notify(t, b)
             \/ EnterRetain(t) \/ WaitCheck(t) \/ WaitRegister(t) \/ WaitRecheck(t)
             \/ NotifyLink(t) \/ NotifyRetain(t) \/ NotifyHead(t) \/ NotifyCheck(t)
      PROVE  QueueInv'
  <2>1. UNCHANGED <<sema, count, waitq>> /\ Running /\ ~ Blocked(t)
    BY <1>6 DEF dispatch_group_enter, dispatch_group_leave, dispatch_group_wait,
       dispatch_group_notify, EnterRetain, WaitCheck, WaitRegister, WaitRecheck, NotifyLink,
       NotifyRetain, NotifyHead, NotifyCheck, sema4_vars, Blocked
  <2>2. /\ \A u \in Threads : u # t => pc'[u] = pc[u]
        /\ pc'[t] \notin KernelPCs
    BY <1>0, <1>6 DEF dispatch_group_enter, dispatch_group_leave, dispatch_group_wait,
       dispatch_group_notify, EnterRetain, WaitCheck, WaitRegister, WaitRecheck, NotifyLink,
       NotifyRetain, NotifyHead, NotifyCheck, KernelPCs
  <2>3. \A u \in Threads : Blocked(u)' <=> Blocked(u)
    BY <2>1, <2>2 DEF Blocked, KernelPCs
  <2>4. \A u \in Threads : pc'[u] \in KernelPCs => sema \in Ports
    BY <1>0, <2>1, <2>2 DEF QueueInv
  <2> QED
    BY <1>1, <2>1, <2>3, <2>4
<1>7. ASSUME NEW t \in Threads,
             \/ WakeHead(t) \/ WakeTail(t) \/ WakeWaiters(t) \/ WakeNotify(t)
             \/ WakeTestCreated(t) \/ WaitTestCreated(t) \/ UndoRegister(t)
      PROVE  QueueInv'
  <2>1. UNCHANGED <<sema, count, waitq>> /\ Running /\ ~ Blocked(t)
    BY <1>7 DEF WakeHead, WakeTail, WakeWaiters, WakeNotify, WakeTestCreated, WaitTestCreated,
       UndoRegister, sema4_vars, Blocked
  <2>2. /\ \A u \in Threads : u # t => pc'[u] = pc[u]
        /\ pc'[t] \notin {"wait_blocked", "timedwait_blocked"}
        /\ pc'[t] \in KernelPCs => pc[t] \in KernelPCs \/ sema # MACH_PORT_NULL
    BY <1>0, <1>7, SlowPathType, AfterSignalsType
       DEF WakeHead, WakeTail, WakeWaiters, WakeNotify, WakeTestCreated,
       WaitTestCreated, UndoRegister, KernelPCs, sema4_is_created
  <2>3. \A u \in Threads : Blocked(u)' <=> Blocked(u)
    BY <2>1, <2>2 DEF Blocked
  <2>4. \A u \in Threads : pc'[u] \in KernelPCs => sema \in Ports
    BY <1>0, <2>1, <2>2 DEF QueueInv, StatusInv
  <2> QED
    BY <1>1, <2>1, <2>3, <2>4
<1>8. ASSUME NEW t \in Threads, WakeSignal(t) PROVE QueueInv'
  <2>1. /\ Running /\ sema \in Ports /\ sema' = sema /\ ~ Blocked(t)
        /\ waitq[sema] \in Seq(Threads) /\ Distinct(waitq[sema])
    BY <1>0, <1>8 DEF WakeSignal, semaphore_signal, Blocked, QueueInv, KernelPCs
  <2>a. pc'[t] \notin {"wait_blocked", "timedwait_blocked"}
    BY <1>8, AfterSignalsType DEF WakeSignal
  <2>2. CASE waitq[sema] = <<>>
    <3>1. waitq' = waitq /\ count' = [count EXCEPT ![sema] = @ + 1]
      BY <1>8, <2>2 DEF WakeSignal, semaphore_signal
    <3>2. \A u \in Threads : Blocked(u)' <=> Blocked(u)
      BY <1>8, <2>1, <2>2, <2>a DEF WakeSignal, Woken, Blocked
    <3>3. \A p \in Ports : \A u \in Members(waitq[p]) : Blocked(u)'
      BY <1>0, <3>2, MembersIn DEF QueueInv
    <3> QED
      BY <1>0, <2>1, <2>2, <3>1, <3>2, <3>3 DEF QueueInv
  <2>3. CASE waitq[sema] # <<>>
    <3> DEFINE h == Head(waitq[sema])
               q == Tail(waitq[sema])
    <3>1. /\ h \in Threads /\ q \in Seq(Threads) /\ Distinct(q) /\ h \in Members(waitq[sema])
          /\ Members(q) = Members(waitq[sema]) \ {h}
      BY <2>1, <2>3, TailLemma
    <3>2. count' = count
      BY <1>8, <2>3 DEF WakeSignal, semaphore_signal
    <3>3. \A u \in Threads : Blocked(u)' <=> Blocked(u) /\ u # h
      BY <1>8, <2>1, <2>3, <2>a, <3>1 DEF WakeSignal, Woken, Blocked
    <3>4. \A p \in Ports : waitq'[p] = IF p = sema THEN q ELSE waitq[p]
      BY <1>0, <1>8, <2>1, <2>3 DEF WakeSignal, semaphore_signal
    <3> HIDE DEF h, q
    <3>5. \A p \in Ports : Distinct(waitq'[p]) /\ \A u \in Members(waitq'[p]) : Blocked(u)'
      <4> SUFFICES ASSUME NEW p \in Ports
                   PROVE  Distinct(waitq'[p]) /\ \A u \in Members(waitq'[p]) : Blocked(u)'
        OBVIOUS
      <4>1. CASE p = sema
        BY <1>0, <4>1, <2>1, <3>1, <3>3, <3>4, MembersIn DEF QueueInv
      <4>2. CASE p # sema
        BY SMTT(30), <1>0, <4>2, <3>4 DEF Members, QueueInv
      <4> QED
        BY <4>1, <4>2
    <3>6. \A u \in Threads : Blocked(u)' => u \in Members(waitq'[sema])
      BY <1>0, <2>1, <3>1, <3>3, <3>4 DEF QueueInv
    <3>7. \A p \in Ports : count'[p] = 0
      BY <1>0, <2>1, <2>3, <3>2 DEF QueueInv
    <3>8. \A p \in Ports : p # sema => waitq'[p] = <<>>
      BY <1>0, <3>4 DEF QueueInv
    <3> QED
      BY <2>1, <3>5, <3>6, <3>7, <3>8 DEF QueueInv
  <2> QED
    BY <2>2, <2>3
<1>9. ASSUME NEW t \in Threads, KernelWait(t) PROVE QueueInv'
  <2>1. /\ Running /\ sema \in Ports /\ sema' = sema /\ ~ Blocked(t)
        /\ waitq[sema] \in Seq(Threads) /\ Distinct(waitq[sema])
    BY <1>0, <1>9 DEF KernelWait, semaphore_take, semaphore_block, Blocked, QueueInv, KernelPCs
  <2>2. CASE semaphore_take(sema) /\ Return(t, "idle")
    <3>1. \A u \in Threads : Blocked(u)' <=> Blocked(u)
      BY <1>0, <2>1, <2>2 DEF Blocked
    <3>2. waitq' = waitq /\ count[sema] > 0 /\ count' = [count EXCEPT ![sema] = @ - 1]
      BY <2>2 DEF semaphore_take
    <3>3. waitq[sema] = <<>>
      BY SMTT(30), <1>0, <2>1, <3>2 DEF QueueInv
    <3>4. \A p \in Ports : \A u \in Members(waitq[p]) : Blocked(u)'
      BY <1>0, <3>1, MembersIn DEF QueueInv
    <3> QED
      BY <1>0, <2>1, <3>1, <3>2, <3>3, <3>4 DEF QueueInv
  <2>3. CASE /\ semaphore_block(sema, t)
             /\ pc' = [pc EXCEPT ![t] = IF pc[t] = "wait" THEN "wait_blocked"
                                        ELSE "timedwait_blocked"]
    <3> DEFINE q == Append(waitq[sema], t)
    <3>1. t \notin Members(waitq[sema])
      BY <1>0, <2>1 DEF QueueInv
    <3>2. q \in Seq(Threads) /\ Distinct(q) /\ Members(q) = Members(waitq[sema]) \cup {t}
      BY SMTT(30), <2>1, <3>1, AppendLemma
    <3>3. \A p \in Ports : waitq'[p] = IF p = sema THEN q ELSE waitq[p]
      BY <1>0, <2>3 DEF semaphore_block
    <3>4. \A u \in Threads : Blocked(u)' <=> Blocked(u) \/ u = t
      BY <1>0, <2>1, <2>3 DEF Blocked
    <3>5. count' = count /\ count[sema] = 0
      BY <2>3 DEF semaphore_block
    <3> HIDE DEF q
    <3>6. \A p \in Ports : Distinct(waitq'[p]) /\ \A u \in Members(waitq'[p]) : Blocked(u)'
      <4> SUFFICES ASSUME NEW p \in Ports
                   PROVE  Distinct(waitq'[p]) /\ \A u \in Members(waitq'[p]) : Blocked(u)'
        OBVIOUS
      <4>1. CASE p = sema
        BY <1>0, <4>1, <2>1, <3>2, <3>3, <3>4, MembersIn DEF QueueInv
      <4>2. CASE p # sema
        BY SMTT(30), <1>0, <4>2, <3>3 DEF Members, QueueInv
      <4> QED
        BY <4>1, <4>2
    <3>7. \A u \in Threads : Blocked(u)' => u \in Members(waitq'[sema])
      BY <1>0, <2>1, <3>2, <3>3, <3>4 DEF QueueInv
    <3> QED
      BY <1>0, <2>1, <3>3, <3>5, <3>6, <3>7 DEF QueueInv
  <2> QED
    BY <1>9, <2>2, <2>3 DEF KernelWait
<1>10. ASSUME NEW t \in Threads, Running, Blocked(t), semaphore_unblock(t),
              \A u \in Threads : Blocked(u)' <=> Blocked(u) /\ u # t
       PROVE  QueueInv'
  <2>1. sema \in Ports /\ t \in Members(waitq[sema]) /\ sema' = sema /\ count' = count
    BY <1>0, <1>10 DEF semaphore_unblock, QueueInv, Blocked, KernelPCs
  <2>2. \A p \in Ports : p # sema => waitq[p] = <<>> /\ t \notin Members(waitq[p])
    BY SMTT(30), <1>0 DEF Members, QueueInv
  <2>3. \A p \in Ports : waitq'[p] = IF p = sema THEN Without(waitq[sema], t) ELSE waitq[p]
    BY <1>10, <2>1, <2>2 DEF semaphore_unblock
  <2>4. /\ Distinct(Without(waitq[sema], t))
        /\ Members(Without(waitq[sema], t)) = Members(waitq[sema]) \ {t}
    <3>1. waitq[sema] \in Seq(Threads) /\ Distinct(waitq[sema])
      BY <1>0, <2>1 DEF QueueInv
    <3> QED
      BY <2>1, <3>1, WithoutLemma
  <2>5. waitq[sema] # <<>>
    BY SMTT(30), <2>1 DEF Members
  <2>6. \A p \in Ports : Distinct(waitq'[p]) /\ \A u \in Members(waitq'[p]) : Blocked(u)'
    <3> SUFFICES ASSUME NEW p \in Ports
                 PROVE  Distinct(waitq'[p]) /\ \A u \in Members(waitq'[p]) : Blocked(u)'
      OBVIOUS
    <3>1. CASE p = sema
      BY <1>0, <3>1, <1>10, <2>1, <2>3, <2>4, MembersIn DEF QueueInv
    <3>2. CASE p # sema
      BY SMTT(30), <1>0, <3>2, <2>2, <2>3 DEF Members, QueueInv
    <3> QED
      BY <3>1, <3>2
  <2>7. \A u \in Threads : Blocked(u)' => u \in Members(waitq'[sema])
    BY <1>0, <1>10, <2>1, <2>3, <2>4 DEF QueueInv
  <2> QED
    BY <1>0, <1>10, <2>1, <2>2, <2>3, <2>5, <2>6, <2>7 DEF QueueInv
<1>11. ASSUME NEW t \in Threads, KernelTimeout(t) PROVE QueueInv'
  <2>1. Running /\ pc' = [pc EXCEPT ![t] = "undo"]
    BY <1>11 DEF KernelTimeout
  <2>2. CASE pc[t] = "timedwait_blocked" /\ semaphore_unblock(t)
    <3>1. Blocked(t) /\ \A u \in Threads : Blocked(u)' <=> Blocked(u) /\ u # t
      BY <1>0, <2>1, <2>2 DEF Blocked
    <3> QED
      BY <1>10, <2>1, <2>2, <3>1
  <2>3. CASE pc[t] = "timedwait" /\ UNCHANGED sema4_vars
    <3>1. \A u \in Threads : Blocked(u)' <=> Blocked(u)
      BY <1>0, <2>1, <2>3 DEF Blocked
    <3>2. \A u \in Threads : pc'[u] \in KernelPCs => sema \in Ports
      BY <1>0, <2>1, <2>3 DEF QueueInv, KernelPCs
    <3> QED
      BY <1>1, <2>3, <3>1, <3>2 DEF sema4_vars
  <2> QED
    BY <1>11, <2>2, <2>3 DEF KernelTimeout
<1>12. ASSUME NEW t \in Threads, KernelAborted(t) PROVE QueueInv'
  <2>1. Running /\ Blocked(t) /\ semaphore_unblock(t)
    BY <1>12 DEF KernelAborted, Blocked
  <2>2. \A u \in Threads : Blocked(u)' <=> Blocked(u) /\ u # t
    BY <1>0, <1>12 DEF KernelAborted, Blocked
  <2> QED
    BY <1>10, <2>1, <2>2
<1> QED
  BY <1>2, <1>3, <1>4, <1>5, <1>6, <1>7, <1>8, <1>9, <1>11, <1>12 DEF Next, Step

-----------------------------------------------------------------------------
(***************************************************************************)
(* Waiters: each step moves one unit between dg_waiters, the signals to    *)
(* send, the posted signals and the registered threads.                    *)
(***************************************************************************)

WaitingPCs == {"wait_recheck", "wait_test", "wait_create", "timedwait", "timedwait_blocked",
               "undo", "wait", "wait_blocked"}
Registered(t) == pc[t] \in WaitingPCs \/ (pc[t] \in WakePCs /\ frame[t].caller = "wait_test")

(* A wake takes the registered threads over as signals to send, and sends     *)
(* one signal.                                                                *)
LEMMA PendingTake ==
  ASSUME NEW t \in Threads, NEW n \in 0..Cardinality(Threads),
         \A u \in Threads : frame[u].rval \in Nat, frame[t].rval = 0, frame'[t].rval = n,
         \A u \in Threads : u # t => frame'[u].rval = frame[u].rval
  PROVE  Cardinality(PendingSignals') = Cardinality(PendingSignals) + n
<1> DEFINE new == {t} \X (1..n)
<1>0. Cardinality(Threads) \in Nat /\ n \in Nat /\ n <= Cardinality(Threads)
  BY SMTT(30), Card
<1>1. IsFiniteSet(new) /\ Cardinality(new) = n
  <2>1. IsFiniteSet({t}) /\ Cardinality({t}) = 1
    BY FS_Singleton
  <2>2. IsFiniteSet(1..n) /\ Cardinality(1..n) = n
    BY SMTT(30), <1>0, FS_Interval
  <2>3. /\ IsFiniteSet({t} \X (1..n))
        /\ Cardinality({t} \X (1..n)) = Cardinality({t}) * Cardinality(1..n)
    BY <2>1, <2>2, FS_Product
  <2>4. IsFiniteSet(new) /\ Cardinality(new) = 1 * n
    BY <2>1, <2>2, <2>3
  <2> HIDE DEF new
  <2> QED
    BY SMTT(30), <1>0, <2>4
<1>2. PendingSignals' = PendingSignals \cup new
  <2>1. ASSUME NEW s \in Threads \X (1..Cardinality(Threads))
        PROVE  s[2] <= frame'[s[1]].rval <=> s[2] <= frame[s[1]].rval \/ s \in new
    <3>1. PICK u \in Threads, k \in 1..Cardinality(Threads) : s = <<u, k>>
      BY SMTT(30), <2>1
    <3>2. CASE u = t
      BY SMTT(30), <1>0, <3>1, <3>2
    <3>3. CASE u # t
      BY SMTT(30), <1>0, <3>1, <3>3
    <3> QED
      BY <3>2, <3>3
  <2>2. new \subseteq Threads \X (1..Cardinality(Threads))
    BY SMTT(30), <1>0
  <2> HIDE DEF new
  <2>3. PendingSignals' = {s \in Threads \X (1..Cardinality(Threads)) : s[2] <= frame'[s[1]].rval}
    BY DEF PendingSignals
  <2> QED
    BY <2>1, <2>2, <2>3 DEF PendingSignals
<1>3. PendingSignals \cap new = {}
  <2> SUFFICES ASSUME NEW s \in PendingSignals, s \in new PROVE FALSE
    OBVIOUS
  <2>1. s[1] = t /\ s[2] \in 1..n /\ s[2] <= frame[s[1]].rval
    BY SMTT(30) DEF PendingSignals
  <2> QED
    BY SMTT(30), <1>0, <2>1
<1>4. Cardinality(PendingSignals \cap new) = 0
  BY <1>3, FS_EmptySet
<1>5. Cardinality(PendingSignals \cup new)
        = Cardinality(PendingSignals) + Cardinality(new) - Cardinality(PendingSignals \cap new)
  BY <1>1, PendingFinite, FS_Union
<1> HIDE DEF new
<1> QED
  BY SMTT(30), <1>0, <1>1, <1>2, <1>4, <1>5, PendingFinite

(* A signal sent is one that a wake has no longer to send.                    *)
LEMMA PendingSend ==
  ASSUME NEW t \in Threads, \A u \in Threads : frame[u].rval \in Nat,
         frame[t].rval \in 1..Cardinality(Threads), frame'[t].rval = frame[t].rval - 1,
         \A u \in Threads : u # t => frame'[u].rval = frame[u].rval
  PROVE  Cardinality(PendingSignals') = Cardinality(PendingSignals) - 1
<1> DEFINE s0 == <<t, frame[t].rval>>
<1>0. Cardinality(Threads) \in Nat
  BY Card
<1>1. s0 \in PendingSignals
  BY SMTT(30), <1>0 DEF PendingSignals
<1>2. PendingSignals' = PendingSignals \ {s0}
  <2>1. ASSUME NEW s \in Threads \X (1..Cardinality(Threads))
        PROVE  s[2] <= frame'[s[1]].rval <=> s[2] <= frame[s[1]].rval /\ s # s0
    <3>1. PICK u \in Threads, k \in 1..Cardinality(Threads) : s = <<u, k>>
      BY SMTT(30), <2>1
    <3>2. CASE u = t
      BY SMTT(30), <1>0, <3>1, <3>2
    <3>3. CASE u # t
      BY SMTT(30), <1>0, <3>1, <3>3
    <3> QED
      BY <3>2, <3>3
  <2> HIDE DEF s0
  <2>2. PendingSignals' = {s \in Threads \X (1..Cardinality(Threads)) : s[2] <= frame'[s[1]].rval}
    BY DEF PendingSignals
  <2> QED
    BY <2>1, <2>2 DEF PendingSignals
<1> HIDE DEF s0
<1> QED
  BY <1>1, <1>2, PendingFinite, FS_RemoveElement

(* A new port has no signal posted to it.                                     *)
LEMMA CreatePosted ==
  ASSUME IInv, NEW t \in Threads, sema4_create_slow(t) PROVE Posted' = Posted
<1>1. QueueInv /\ Sema4TypeOK
  BY DEF IInv, TypeOK
<1>2. /\ UNCHANGED <<count, waitq>>
      /\ IF sema = MACH_PORT_NULL THEN sema' \in Ports ELSE sema' = sema
  BY <1>1, CreateSlow
<1> QED
  BY <1>1, <1>2, PortNames DEF Posted, QueueInv

(* Every step conserves the registered waiters.                               *)
LEMMA NextWaiters == IInv /\ [Next]_vars => WaiterInv'
<1> SUFFICES ASSUME IInv, [Next]_vars PROVE WaiterInv'
  OBVIOUS
<1> USE DEF At, Goto, Return
<1>0. /\ TypeOK /\ Sema4TypeOK /\ QueueInv /\ FrameInv /\ StatusInv /\ WaiterInv
      /\ pc \in [Threads -> PCs] /\ frame \in [Threads -> Frames] /\ dg_waiters \in Nat
      /\ dg_waiters \in 0..Cardinality(Threads)
      /\ Posted \in Nat /\ Cardinality(RegisteredWaiters) \in Nat
      /\ RegisteredWaiters \in SUBSET Threads
  <2>1. RegisteredWaiters \in SUBSET Threads
    BY DEF RegisteredWaiters
  <2>2. TypeOK /\ Sema4TypeOK /\ dg_waiters \in 0..Cardinality(Threads)
    BY DEF IInv, TypeOK
  <2>3. Posted \in Nat
    BY <2>2 DEF Posted, Sema4TypeOK
  <2>4. dg_waiters \in Nat
    BY SMTT(30), <2>2, Card
  <2> QED
    BY <2>1, <2>2, <2>3, <2>4, Card DEF IInv, TypeOK
<1>1. /\ \A u \in Threads : u \in RegisteredWaiters <=> Registered(u)
      /\ \A u \in Threads : u \in RegisteredWaiters' <=> Registered(u)'
      /\ RegisteredWaiters' \in SUBSET Threads
  BY DEF RegisteredWaiters, Registered, WaitingPCs
<1>2. \A u \in Threads : frame[u] \in Frames /\ frame[u].rval \in Nat
  BY <1>0 DEF Frames
<1>3. Running => Cardinality(RegisteredWaiters)
                   = dg_waiters + Cardinality(PendingSignals) + Posted
  BY <1>0 DEF WaiterInv
<1>4. (\A u \in Threads : frame'[u].rval = frame[u].rval) => PendingSignals' = PendingSignals
  <2> SUFFICES ASSUME \A u \in Threads : frame'[u].rval = frame[u].rval
               PROVE  PendingSignals' = PendingSignals
    OBVIOUS
  <2>1. \A s \in Threads \X (1..Cardinality(Threads)) : s[1] \in Threads
    BY SMTT(30)
  <2> QED
    BY <2>1 DEF PendingSignals
<1>5. ASSUME NEW t \in Threads, Running, dg_waiters' = dg_waiters, Posted' = Posted,
             \A u \in Threads : u # t => pc'[u] = pc[u] /\ frame'[u] = frame[u],
             Registered(t)' <=> Registered(t), frame'[t].rval = frame[t].rval
      PROVE  WaiterInv'
  <2>1. \A u \in Threads : Registered(u)' <=> Registered(u)
    BY <1>5 DEF Registered
  <2>2. RegisteredWaiters' = RegisteredWaiters
    BY <1>0, <1>1, <2>1
  <2>3. PendingSignals' = PendingSignals
    BY <1>4, <1>5
  <2> QED
    BY <1>3, <1>5, <2>2, <2>3 DEF WaiterInv
<1>6. UNCHANGED sema4_vars => Posted' = Posted
  BY DEF sema4_vars, Posted
<1>7. CASE UNCHANGED vars
  <2>1. PendingSignals' = PendingSignals /\ RegisteredWaiters' = RegisteredWaiters
    BY <1>7 DEF vars, PendingSignals, RegisteredWaiters
  <2> QED
    BY <1>0, <1>6, <1>7, <2>1 DEF vars, count_vars, ref_vars, WaiterInv, Running
<1>8. ASSUME NEW cnt \in {0, 1}, _dispatch_group_create_with_count(cnt) PROVE WaiterInv'
  <2>1. /\ \A u \in Threads : pc'[u] = "idle" /\ frame'[u].rval = 0
        /\ dg_waiters' = 0 /\ sema' = MACH_PORT_NULL
    BY <1>0, <1>8
       DEF _dispatch_group_create_with_count, StatusInv, FrameInv, FrameOK, SignalPCs
  <2>2. RegisteredWaiters' = {}
    BY <1>1, <2>1 DEF Registered, WaitingPCs, WakePCs
  <2>3. PendingSignals' = {}
    <3>1. \A s \in Threads \X (1..Cardinality(Threads)) : ~ (s[2] <= frame'[s[1]].rval)
      BY SMTT(30), <2>1, Card
    <3> QED
      BY <3>1 DEF PendingSignals
  <2>4. Posted' = 0
    BY <2>1, PortNames DEF Posted
  <2>5. Cardinality({}) = 0
    BY FS_EmptySet
  <2> QED
    BY SMTT(30), <2>1, <2>2, <2>3, <2>4, <2>5 DEF WaiterInv
<1>9. ASSUME NEW t \in Threads, dispatch_release(t) \/ WakeRelease(t) PROVE WaiterInv'
  <2>1. CASE Alive
    <3>1. frame'[t].rval = frame[t].rval
      <4>1. CASE dispatch_release(t)
        BY <4>1 DEF dispatch_release
      <4>2. CASE WakeRelease(t)
        <5>1. pc[t] = "wake_release" /\ frame'[t] = EmptyFrame
          BY <1>0, <4>2 DEF WakeRelease
        <5>2. frame[t].rval = 0
          BY <1>0, <5>1 DEF FrameInv, FrameOK, SignalPCs
        <5> QED
          BY <5>1, <5>2, EmptyFields
      <4> QED
        BY <1>9, <4>1, <4>2
    <3>2. frame[t].caller \in {"idle", "wait_test"}
      BY <1>2 DEF Frames
    <3>3. Registered(t)' <=> Registered(t)
      BY <1>0, <1>9, <3>2 DEF dispatch_release, WakeRelease, Registered, WaitingPCs, WakePCs
    <3>4. \A u \in Threads : u # t => pc'[u] = pc[u] /\ frame'[u] = frame[u]
      BY <1>0, <1>9 DEF dispatch_release, WakeRelease
    <3>5. Running /\ dg_waiters' = dg_waiters
      BY <1>9 DEF dispatch_release, WakeRelease, count_vars
    <3> QED
      BY <1>5, <1>6, <2>1, <3>1, <3>3, <3>4, <3>5 DEF Alive
  <2>2. CASE Dead(t)
    BY <2>2 DEF Dead, WaiterInv, Running
  <2> QED
    BY <1>9, <2>1, <2>2, ReleaseClient, ReleaseWake
<1>10. ASSUME NEW t \in Threads,
             \/ dispatch_group_enter(t) \/ dispatch_group_leave(t)
             \/ \E to \in Timeouts : dispatch_group_wait(t, to)
             \/ \E b \in Blocks : dispatch_group_notify(t, b)
       PROVE  WaiterInv'
  <2>1. /\ Running /\ dg_waiters' = dg_waiters /\ Posted' = Posted /\ pc[t] = "idle"
        /\ \A u \in Threads : u # t => pc'[u] = pc[u] /\ frame'[u] = frame[u]
    BY <1>0, <1>6, <1>10 DEF dispatch_group_enter, dispatch_group_leave, dispatch_group_wait,
       dispatch_group_notify, count_vars
  <2>2. pc'[t] \in {"idle", "enter_retain", "wake_head", "wait_check", "notify_retain",
                    "notify_link"}
    BY <1>0, <1>10 DEF dispatch_group_enter, dispatch_group_leave, dispatch_group_wait,
       dispatch_group_notify
  <2>3. \/ frame'[t] = frame[t]
        \/ \E x : frame'[t] = [frame[t] EXCEPT !.needs_release = x]
        \/ \E x : frame'[t] = [frame[t] EXCEPT !.timeout = x]
        \/ \E x, y : frame'[t] = [frame[t] EXCEPT !.dsn = x, !.prev = y]
    <3>1. CASE dispatch_group_enter(t) \/ dispatch_group_leave(t)
      BY <1>0, <3>1 DEF dispatch_group_enter, dispatch_group_leave
    <3>2. ASSUME NEW to \in Timeouts, dispatch_group_wait(t, to)
          PROVE  frame'[t] = [frame[t] EXCEPT !.timeout = to]
      BY <1>0, <3>2 DEF dispatch_group_wait
    <3>3. ASSUME NEW b \in Blocks, dispatch_group_notify(t, b)
          PROVE  frame'[t] = [frame[t] EXCEPT !.dsn = b, !.prev = dg_notify_tail]
      BY <1>0, <3>3 DEF dispatch_group_notify
    <3> QED
      BY <1>10, <3>1, <3>2, <3>3
  <2>4. frame'[t].rval = frame[t].rval /\ frame'[t].caller = frame[t].caller
    BY <1>2, <2>3, WaitKept
  <2>5. frame[t].caller = "idle"
    BY <1>0, <2>1 DEF FrameInv, FrameOK, WakePCs
  <2>6. Registered(t)' <=> Registered(t)
    BY <2>1, <2>2, <2>4, <2>5 DEF Registered, WaitingPCs, WakePCs
  <2> QED
    BY <1>5, <2>1, <2>4, <2>6
<1>11. ASSUME NEW t \in Threads,
             \/ EnterRetain(t) \/ WaitCheck(t) \/ NotifyLink(t) \/ NotifyRetain(t)
             \/ NotifyHead(t) \/ NotifyCheck(t)
       PROVE  WaiterInv'
  <2>1. /\ Running /\ dg_waiters' = dg_waiters /\ Posted' = Posted
        /\ \A u \in Threads : u # t => pc'[u] = pc[u] /\ frame'[u] = frame[u]
        /\ pc[t] \notin WaitingPCs \cup WakePCs
    BY <1>0, <1>6, <1>11 DEF EnterRetain, WaitCheck, NotifyLink, NotifyRetain, NotifyHead,
       NotifyCheck, count_vars, WaitingPCs, WakePCs
  <2>2. pc'[t] \notin WaitingPCs /\ frame'[t] \in {frame[t], EmptyFrame}
    BY <1>0, <1>11 DEF EnterRetain, WaitCheck, NotifyLink, NotifyRetain, NotifyHead,
       NotifyCheck, WaitingPCs
  <2>3. frame[t].caller = "idle" /\ frame[t].rval = 0
    BY <1>0, <2>1 DEF FrameInv, FrameOK, WakePCs, SignalPCs
  <2>4. frame'[t].caller = "idle" /\ frame'[t].rval = 0
    BY <2>2, <2>3, EmptyFields
  <2>5. Registered(t)' <=> Registered(t)
    BY <2>1, <2>2, <2>3, <2>4 DEF Registered
  <2> QED
    BY <1>5, <2>1, <2>3, <2>4, <2>5
<1>12. ASSUME NEW t \in Threads,
              \/ WakeHead(t) \/ WakeTail(t) \/ WakeTestCreated(t) \/ WakeNotify(t)
              \/ WakeCreate(t)
       PROVE  WaiterInv'
  <2>1. /\ Running /\ dg_waiters' = dg_waiters
        /\ \A u \in Threads : u # t => pc'[u] = pc[u] /\ frame'[u] = frame[u]
        /\ pc[t] \in WakePCs /\ pc[t] \notin WaitingPCs
        /\ pc'[t] \in WakePCs /\ pc'[t] \notin WaitingPCs
    BY <1>0, <1>12 DEF WakeHead, WakeTail, WakeTestCreated, WakeNotify, WakeCreate,
       count_vars, WakePCs, WaitingPCs
  <2>2. Posted' = Posted
    <3>1. CASE WakeCreate(t)
      BY <3>1, CreatePosted DEF WakeCreate
    <3>2. CASE ~ WakeCreate(t)
      BY <1>6, <1>12, <3>2 DEF WakeHead, WakeTail, WakeTestCreated, WakeNotify
    <3> QED
      BY <3>1, <3>2
  <2>3. \/ frame'[t] = frame[t]
        \/ \E x : frame'[t] = [frame[t] EXCEPT !.head = x]
        \/ \E x : frame'[t] = [frame[t] EXCEPT !.tail = x]
    BY <1>0, <1>12 DEF WakeHead, WakeTail, WakeTestCreated, WakeNotify, WakeCreate
  <2>4. frame'[t].rval = frame[t].rval /\ frame'[t].caller = frame[t].caller
    BY <1>2, <2>3, WaitKept
  <2>5. Registered(t)' <=> Registered(t)
    BY <2>1, <2>4 DEF Registered
  <2> QED
    BY <1>5, <2>1, <2>2, <2>4, <2>5
<1>13. ASSUME NEW t \in Threads, WakeWaiters(t) PROVE WaiterInv'
  <2>1. /\ Running /\ dg_waiters' = 0 /\ Posted' = Posted
        /\ \A u \in Threads : u # t => pc'[u] = pc[u] /\ frame'[u] = frame[u]
        /\ pc[t] = "wake_waiters" /\ pc'[t] \in {"wake_test", "wake_release", "wake_notify"}
        /\ frame'[t] = [frame[t] EXCEPT !.rval = dg_waiters]
    BY <1>0, <1>6, <1>13, AfterSignalsType DEF WakeWaiters
  <2>2. frame'[t].rval = dg_waiters /\ frame'[t].caller = frame[t].caller
    BY SMTT(30), <1>2, <2>1 DEF Frames
  <2>3. frame[t].rval = 0
    BY <1>0, <2>1 DEF FrameInv, FrameOK, SignalPCs
  <2>4. \A u \in Threads : Registered(u)' <=> Registered(u)
    BY <2>1, <2>2 DEF Registered, WaitingPCs, WakePCs
  <2>5. RegisteredWaiters' = RegisteredWaiters
    BY <1>0, <1>1, <2>4
  <2>6. Cardinality(PendingSignals') = Cardinality(PendingSignals) + dg_waiters
    BY <1>0, <1>2, <2>1, <2>2, <2>3, PendingTake
  <2> QED
    BY SMTT(30), <1>0, <1>3, <2>1, <2>5, <2>6, PendingFinite DEF WaiterInv
<1>14. ASSUME NEW t \in Threads, WakeSignal(t) PROVE WaiterInv'
  <2>1. /\ Running /\ sema \in Ports /\ sema' = sema /\ dg_waiters' = dg_waiters
        /\ pc[t] = "wake_signal" /\ frame'[t] = [frame[t] EXCEPT !.rval = @ - 1]
        /\ pc'[t] \in {"wake_signal", "wake_release", "wake_notify"}
        /\ \A u \in Threads : u # t =>
             IF u \in Woken(sema) THEN pc'[u] = "idle" /\ frame'[u] = EmptyFrame
             ELSE pc'[u] = pc[u] /\ frame'[u] = frame[u]
        /\ waitq[sema] \in Seq(Threads) /\ Distinct(waitq[sema])
    BY <1>0, <1>14, AfterSignalsType DEF WakeSignal, semaphore_signal, QueueInv, KernelPCs,
       count_vars, Sema4TypeOK
  <2>2. frame'[t].rval = frame[t].rval - 1 /\ frame'[t].caller = frame[t].caller
    BY SMTT(30), <1>2, <2>1 DEF Frames
  <2>3. frame[t].rval \in 1..Cardinality(Threads)
    BY <1>0, <2>1 DEF FrameInv, FrameOK, SignalPCs
  <2>4. Registered(t)' <=> Registered(t)
    BY <2>1, <2>2 DEF Registered, WaitingPCs, WakePCs
  <2>5. ASSUME \A u \in Threads : u # t => frame'[u].rval = frame[u].rval
        PROVE  Cardinality(PendingSignals') = Cardinality(PendingSignals) - 1
    BY <1>2, <2>2, <2>3, <2>5, PendingSend
  <2>6. CASE waitq[sema] = <<>>
    <3>1. \A u \in Threads : u # t => pc'[u] = pc[u] /\ frame'[u] = frame[u]
      BY <2>1, <2>6 DEF Woken
    <3>2. RegisteredWaiters' = RegisteredWaiters
      BY <1>0, <1>1, <2>4, <3>1 DEF Registered
    <3>3. Posted' = Posted + 1
      BY <1>0, <1>14, <2>1, <2>6 DEF WakeSignal, semaphore_signal, Posted, Sema4TypeOK
    <3>4. Cardinality(PendingSignals') = Cardinality(PendingSignals) - 1
      BY <2>5, <3>1
    <3> QED
      BY SMTT(30), <1>0, <1>3, <2>1, <3>2, <3>3, <3>4, PendingFinite DEF WaiterInv
  <2>7. CASE waitq[sema] # <<>>
    <3>1. PICK h \in Threads : h = Head(waitq[sema]) /\ h \in Members(waitq[sema])
      BY <2>1, <2>7, TailLemma
    <3>2. Blocked(h) /\ h # t
      BY <1>0, <2>1, <3>1 DEF QueueInv, Blocked
    <3>3. Woken(sema) = {h}
      BY <2>7, <3>1 DEF Woken
    <3>4. Posted' = Posted
      BY <1>14, <2>1, <2>7 DEF WakeSignal, semaphore_signal, Posted
    <3>0. pc'[h] = "idle" /\ frame'[h] = EmptyFrame
      BY <2>1, <3>1, <3>2, <3>3
    <3>5. Registered(h) /\ ~ Registered(h)'
      BY <3>0, <3>2 DEF Registered, Blocked, WaitingPCs, WakePCs
    <3>6. \A u \in Threads : u # h => (Registered(u)' <=> Registered(u))
      BY <2>1, <2>4, <3>3 DEF Registered
    <3>7. h \in RegisteredWaiters /\ RegisteredWaiters' = RegisteredWaiters \ {h}
      <4>1. \A u \in Threads : u \in RegisteredWaiters' <=> u \in RegisteredWaiters /\ u # h
        BY <1>1, <3>1, <3>5, <3>6
      <4> QED
        BY <1>0, <1>1, <3>1, <3>5, <4>1
    <3>8. Cardinality(RegisteredWaiters') = Cardinality(RegisteredWaiters) - 1
      BY <1>0, <3>7, Card
    <3>9. frame[h].rval = 0 /\ frame'[h].rval = 0
      BY <1>0, <3>0, <3>1, <3>2, EmptyFields DEF FrameInv, FrameOK, Blocked, SignalPCs
    <3>10. \A u \in Threads : u # t => frame'[u].rval = frame[u].rval
      BY <2>1, <3>3, <3>9
    <3>11. Cardinality(PendingSignals') = Cardinality(PendingSignals) - 1
      BY <2>5, <3>10
    <3> QED
      BY SMTT(30), <1>0, <1>3, <2>1, <3>4, <3>8, <3>11, PendingFinite DEF WaiterInv
  <2> QED
    BY <2>6, <2>7
<1>15. ASSUME NEW t \in Threads, WaitRegister(t) PROVE WaiterInv'
  <2>1. /\ Running /\ dg_waiters' = dg_waiters + 1 /\ Posted' = Posted /\ frame' = frame
        /\ pc[t] = "wait_register" /\ pc' = [pc EXCEPT ![t] = "wait_recheck"]
    BY <1>6, <1>15 DEF WaitRegister
  <2>2. RegisteredWaiters' = RegisteredWaiters \cup {t} /\ t \notin RegisteredWaiters
    BY <1>0, <1>1, <2>1 DEF Registered, WaitingPCs, WakePCs
  <2>3. Cardinality(RegisteredWaiters') = Cardinality(RegisteredWaiters) + 1
    BY <1>0, <2>2, Card
  <2>4. PendingSignals' = PendingSignals
    BY <1>4, <2>1
  <2> QED
    BY SMTT(30), <1>0, <1>3, <2>1, <2>3, <2>4, PendingFinite DEF WaiterInv
<1>16. ASSUME NEW t \in Threads,
              \/ WaitRecheck(t) \/ WaitTestCreated(t) \/ WaitCreate(t)
              \/ KernelTimeout(t) \/ KernelAborted(t)
       PROVE  WaiterInv'
  <2>1. /\ Running /\ dg_waiters' = dg_waiters /\ pc[t] \in WaitingPCs
        /\ \A u \in Threads : u # t => pc'[u] = pc[u] /\ frame'[u] = frame[u]
    BY <1>0, <1>16 DEF WaitRecheck, WaitTestCreated, WaitCreate, KernelTimeout, KernelAborted,
       count_vars, WaitingPCs
  <2>2. Posted' = Posted
    <3>1. CASE WaitCreate(t)
      BY <3>1, CreatePosted DEF WaitCreate
    <3>2. CASE ~ WaitCreate(t)
      BY <1>6, <1>16, <3>2 DEF WaitRecheck, WaitTestCreated, KernelTimeout, KernelAborted,
         semaphore_unblock, Posted
    <3> QED
      BY <3>1, <3>2
  <2>3. \/ pc'[t] \in WaitingPCs /\ frame'[t] = frame[t]
        \/ pc'[t] = "wake_head" /\ frame'[t] = [frame[t] EXCEPT !.caller = "wait_test",
                                                                !.timeout = "forever"]
    BY <1>0, <1>16, SlowPathType DEF WaitRecheck, WaitTestCreated, WaitCreate, KernelTimeout,
       KernelAborted, WaitingPCs
  <2>4. frame'[t].rval = frame[t].rval /\ (pc'[t] \in WaitingPCs \/ frame'[t].caller = "wait_test")
    BY <1>2, <2>3 DEF Frames
  <2>5. Registered(t)' /\ Registered(t)
    BY <2>1, <2>3, <2>4 DEF Registered, WakePCs
  <2> QED
    BY <1>5, <2>1, <2>2, <2>4, <2>5
<1>17. ASSUME NEW t \in Threads, pc[t] \in WaitingPCs, Return(t, "idle")
       PROVE  /\ Cardinality(RegisteredWaiters') = Cardinality(RegisteredWaiters) - 1
              /\ PendingSignals' = PendingSignals
  <2>1. RegisteredWaiters' = RegisteredWaiters \ {t} /\ t \in RegisteredWaiters
    BY <1>0, <1>1, <1>17 DEF Registered, WaitingPCs, WakePCs
  <2>2. frame[t].rval = 0
    BY <1>0, <1>17 DEF FrameInv, FrameOK, SignalPCs, WaitingPCs
  <2>3. \A u \in Threads : frame'[u].rval = frame[u].rval
    BY <1>0, <1>17, <2>2 DEF EmptyFrame
  <2> QED
    BY <1>0, <1>4, <2>1, <2>3, Card
<1>18. ASSUME NEW t \in Threads, KernelWait(t) PROVE WaiterInv'
  <2>1. /\ Running /\ sema \in Ports /\ dg_waiters' = dg_waiters /\ pc[t] \in WaitingPCs
    BY <1>0, <1>18 DEF KernelWait, QueueInv, KernelPCs, count_vars, WaitingPCs
  <2>2. CASE semaphore_take(sema) /\ Return(t, "idle")
    <3>1. Posted' = Posted - 1
      BY <1>0, <2>1, <2>2 DEF semaphore_take, Posted, Sema4TypeOK
    <3>2. /\ Cardinality(RegisteredWaiters') = Cardinality(RegisteredWaiters) - 1
          /\ PendingSignals' = PendingSignals
      BY <1>17, <2>1, <2>2
    <3> QED
      BY SMTT(30), <1>0, <1>3, <2>1, <3>1, <3>2, PendingFinite DEF WaiterInv
  <2>3. CASE /\ semaphore_block(sema, t)
             /\ Goto(t, IF pc[t] = "wait" THEN "wait_blocked" ELSE "timedwait_blocked")
             /\ UNCHANGED frame
    <3>1. Posted' = Posted
      BY <2>3 DEF semaphore_block, Posted
    <3>2. pc'[t] \in WaitingPCs /\ frame'[t] = frame[t]
      BY <1>0, <2>3 DEF WaitingPCs
    <3>3. \A u \in Threads : u # t => pc'[u] = pc[u] /\ frame'[u] = frame[u]
      BY <1>0, <2>3
    <3> QED
      BY <1>5, <2>1, <3>1, <3>2, <3>3 DEF Registered
  <2> QED
    BY <1>18, <2>2, <2>3 DEF KernelWait
<1>19. ASSUME NEW t \in Threads, UndoRegister(t) PROVE WaiterInv'
  <2>1. Running /\ Posted' = Posted /\ pc[t] = "undo"
    BY <1>6, <1>19 DEF UndoRegister
  <2>2. CASE dg_waiters > 0
    <3>1. dg_waiters' = dg_waiters - 1 /\ Return(t, "idle")
      BY <1>19, <2>2 DEF UndoRegister
    <3>2. pc[t] \in WaitingPCs
      BY <2>1 DEF WaitingPCs
    <3>3. /\ Cardinality(RegisteredWaiters') = Cardinality(RegisteredWaiters) - 1
          /\ PendingSignals' = PendingSignals
      BY <1>17, <3>1, <3>2
    <3> QED
      BY SMTT(30), <1>0, <1>3, <2>1, <3>1, <3>3, PendingFinite DEF WaiterInv
  <2>3. CASE ~ (dg_waiters > 0)
    <3>1. dg_waiters' = dg_waiters /\ frame' = frame /\ pc' = [pc EXCEPT ![t] = "wait"]
      BY <1>19, <2>3 DEF UndoRegister
    <3> QED
      BY <1>0, <1>5, <2>1, <3>1 DEF Registered, WaitingPCs
  <2> QED
    BY <2>2, <2>3
<1> QED
  BY <1>7, <1>8, <1>9, <1>10, <1>11, <1>12, <1>13, <1>14, <1>15, <1>16, <1>18, <1>19
     DEF Next, Step
=============================================================================
