---------------------- MODULE DispatchSemaphoreProofs ----------------------
(***************************************************************************)
(* Proofs about dispatch_semaphore_t (module DispatchSemaphore) for any    *)
(* number of threads, any width of long and any number of interruptions.   *)
(* First, what the queue operations of the Mach semaphore (module Sema4)   *)
(* do to the set of queued threads, when no thread is queued twice.        *)
(***************************************************************************)
EXTENDS DispatchSemaphore, FiniteSetTheorems, TLAPS

USE ZenonT(30)

Distinct(q) == \A i, j \in DOMAIN q : q[i] = q[j] => i = j

(* A thread that leaves the queue by itself (semaphore_unblock).             *)
LEMMA WithoutLemma ==
  ASSUME NEW S, NEW q \in Seq(S), NEW t \in Members(q), Distinct(q)
  PROVE  /\ Without(q, t) \in Seq(S) /\ Distinct(Without(q, t))
         /\ Members(Without(q, t)) = Members(q) \ {t}
<1> DEFINE w == Without(q, t)
<1>1. PICK k \in 1..Len(q) : q[k] = t
  BY SMTT(30) DEF Members
<1>2. w = [j \in 1..(Len(q) - 1) |-> IF j >= k THEN q[j + 1] ELSE q[j]]
  <2>1. \A j \in 1..(Len(q) - 1) : (\E i \in 1..j : q[i] = t) <=> j >= k
    BY SMTT(30), <1>1 DEF Distinct
  <2> QED BY <2>1 DEF Without
<1>3. w \in Seq(S) /\ Len(w) = Len(q) - 1 /\ DOMAIN w = 1..(Len(q) - 1)
  BY SMTT(30), <1>1, <1>2
<1>4. Distinct(w)
  BY SMTT(30), <1>1, <1>2, <1>3 DEF Distinct
<1>5. Members(w) = Members(q) \ {t}
  <2>1. ASSUME NEW x \in Members(w) PROVE x \in Members(q) /\ x # t
    BY SMTT(30), <1>1, <1>2, <1>3 DEF Members, Distinct
  <2>2. ASSUME NEW x \in Members(q), x # t PROVE x \in Members(w)
    <3>1. PICK i \in 1..Len(q) : q[i] = x
      BY SMTT(30) DEF Members
    <3>2. CASE i < k
      BY SMTT(30), <1>1, <1>2, <1>3, <2>2, <3>1, <3>2 DEF Members
    <3>3. CASE i > k
      <4>1. i - 1 \in DOMAIN w /\ w[i - 1] = x
        BY SMTT(30), <1>1, <1>2, <1>3, <3>1, <3>3
      <4> QED BY <4>1 DEF Members
    <3> QED BY SMTT(30), <1>1, <2>2, <3>1, <3>2, <3>3
  <2> QED BY <2>1, <2>2
<1> QED BY <1>3, <1>4, <1>5

(* The first thread is handed a signal (semaphore_signal).                   *)
LEMMA TailLemma ==
  ASSUME NEW S, NEW q \in Seq(S), q # <<>>, Distinct(q)
  PROVE  /\ Head(q) \in S /\ Head(q) \in Members(q)
         /\ Tail(q) \in Seq(S) /\ Distinct(Tail(q))
         /\ Members(Tail(q)) = Members(q) \ {Head(q)}
<1>1. Len(q) >= 1 /\ Head(q) = q[1] /\ DOMAIN q = 1..Len(q)
  BY SMTT(30)
<1>2. /\ Tail(q) \in Seq(S) /\ DOMAIN Tail(q) = 1..(Len(q) - 1)
      /\ \A i \in 1..(Len(q) - 1) : Tail(q)[i] = q[i + 1]
  BY SMTT(30), <1>1
<1>3. Distinct(Tail(q))
  BY SMTT(30), <1>1, <1>2 DEF Distinct
<1>4. Members(Tail(q)) = Members(q) \ {Head(q)}
  <2>1. ASSUME NEW x \in Members(Tail(q)) PROVE x \in Members(q) /\ x # Head(q)
    BY SMTT(30), <1>1, <1>2 DEF Members, Distinct
  <2>2. ASSUME NEW x \in Members(q), x # Head(q) PROVE x \in Members(Tail(q))
    <3>1. PICK i \in 1..Len(q) : q[i] = x /\ i # 1
      BY <1>1, <2>2 DEF Members
    <3>2. i - 1 \in DOMAIN Tail(q) /\ Tail(q)[i - 1] = x
      BY SMTT(30), <1>1, <1>2, <3>1
    <3> QED BY <3>2 DEF Members
  <2> QED BY <2>1, <2>2
<1>5. Head(q) \in S /\ Head(q) \in Members(q)
  BY SMTT(30), <1>1 DEF Members
<1> QED BY <1>2, <1>3, <1>4, <1>5

(* A thread that was not queued blocks (semaphore_block).                    *)
LEMMA AppendLemma ==
  ASSUME NEW S, NEW q \in Seq(S), NEW t \in S, t \notin Members(q), Distinct(q)
  PROVE  /\ Append(q, t) \in Seq(S) /\ Distinct(Append(q, t))
         /\ Members(Append(q, t)) = Members(q) \cup {t}
<1>1. /\ Append(q, t) \in Seq(S) /\ DOMAIN Append(q, t) = 1..(Len(q) + 1)
      /\ \A i \in 1..Len(q) : Append(q, t)[i] = q[i]
      /\ Append(q, t)[Len(q) + 1] = t
  BY SMTT(30)
<1>2. Distinct(Append(q, t))
  BY SMTT(30), <1>1 DEF Distinct, Members
<1>3. Members(Append(q, t)) = Members(q) \cup {t}
  <2>1. ASSUME NEW x \in Members(Append(q, t)) PROVE x \in Members(q) \cup {t}
    BY SMTT(30), <1>1 DEF Members
  <2>2. ASSUME NEW x \in Members(q) PROVE x \in Members(Append(q, t))
    BY SMTT(30), <1>1 DEF Members
  <2>3. t \in Members(Append(q, t))
    <3>1. Len(q) + 1 \in DOMAIN Append(q, t)
      BY SMTT(30), <1>1
    <3> QED BY <1>1, <3>1 DEF Members
  <2> QED BY <2>1, <2>2, <2>3
<1> QED BY <1>1, <1>2, <1>3

-----------------------------------------------------------------------------
Blocked(t) == pc[t] \in {"wait_blocked", "timedwait_blocked"}

(* The kernel's queues: only blocked threads are queued, once, on the        *)
(* installed port, which then has no signal left; other ports are at rest.   *)
QueueInv ==
  /\ \A p \in Ports : Distinct(waitq[p])
  /\ \A p \in Ports : \A u \in Members(waitq[p]) : Blocked(u)
  /\ \A u \in Threads : Blocked(u) => sema \in Ports /\ u \in Members(waitq[sema])
  /\ \A p \in Ports : waitq[p] # <<>> => count[p] = 0
  /\ \A p \in Ports : p # sema => count[p] = 0 /\ waitq[p] = <<>>
  /\ status = "absent" => sema \notin Ports /\ \A u \in Threads : pc[u] = "idle"

(* Every port that exists is installed or in one thread's cache.             *)
PortInv ==
  /\ sema \in Ports => sema \in live
  /\ Running => sema # MACH_PORT_DEAD
  /\ \A t \in Threads : cache[t] \in Ports => cache[t] \in live /\ cache[t] # sema
  /\ \A t, u \in Threads : cache[t] \in Ports /\ cache[t] = cache[u] => t = u

(* Every slow waiter still holds the permit it would consume.                *)
PermitsInv == Running => permits = dsema_value + Cardinality(SlowWaiters)

(* The inductive invariant.                                                  *)
IInv == TypeOK /\ QueueInv /\ PortInv /\ SignalConservation /\ PermitsInv

-----------------------------------------------------------------------------
LEMMA Card ==
  ASSUME NEW S \in SUBSET Threads, NEW t \in Threads
  PROVE  /\ Cardinality(S) \in Nat /\ Cardinality(S) <= Cardinality(Threads)
         /\ t \notin S => /\ Cardinality(S \cup {t}) = Cardinality(S) + 1
                          /\ Cardinality(S) < Cardinality(Threads)
         /\ t \in S => Cardinality(S \ {t}) = Cardinality(S) - 1
<1>1. IsFiniteSet(Threads) /\ IsFiniteSet(S) /\ Cardinality(S) <= Cardinality(Threads)
  BY SemaphoreConstants, FS_Subset
<1>2. Cardinality(S) \in Nat /\ Cardinality(Threads) \in Nat
  BY <1>1, FS_CardinalityType
<1>3. t \in S => Cardinality(S \ {t}) = Cardinality(S) - 1
  BY <1>1, FS_RemoveElement
<1>4. t \notin S => Cardinality(S \cup {t}) = Cardinality(S) + 1
  BY <1>1, FS_AddElement
<1>5. Cardinality(S \cup {t}) <= Cardinality(Threads)
  <2>1. S \cup {t} \in SUBSET Threads
    OBVIOUS
  <2> QED
    BY <1>1, <2>1, FS_Subset
<1> QED
  BY SMTT(30), <1>1, <1>2, <1>3, <1>4, <1>5

LEMMA CardEmpty == Cardinality({}) = 0
  BY FS_EmptySet

LEMMA SlowPathType ==
  ASSUME TypeOK, NEW t \in Threads PROVE SlowPath(t) \in {"timedwait", "undo", "wait"}
<1>1. timeout[t] \in {"now", "finite", "forever"}
  BY DEF TypeOK, Timeouts
<1> QED
  BY <1>1 DEF SlowPath

LEMMA MembersIn == ASSUME TypeOK, NEW p \in Ports PROVE Members(waitq[p]) \subseteq Threads
  BY SMTT(30) DEF TypeOK, Sema4TypeOK, Members

LEMMA CreateSlowType ==
  ASSUME Sema4TypeOK, NEW t \in Threads, sema4_create_slow(t) PROVE Sema4TypeOK'
<1>1. PICK tmp \in os_get_cached_semaphore(t) :
        /\ live' = live \cup {tmp} /\ UNCHANGED <<count, waitq>>
        /\ sema' \in {sema, tmp}
        /\ \/ cache' = [cache EXCEPT ![t] = MACH_PORT_NULL]
           \/ cache' = [cache EXCEPT ![t] = tmp]
  BY DEF sema4_create_slow
<1>2. tmp \in Ports
  BY PortNames DEF os_get_cached_semaphore, semaphore_create, Sema4TypeOK
<1> QED
  BY <1>1, <1>2 DEF Sema4TypeOK

LEMMA InitInv == Init => IInv
<1> SUFFICES ASSUME Init PROVE IInv
  OBVIOUS
<1> USE DEF Init, Sema4Init
<1>1. TypeOK
  BY SMTT(30), PortNames, SemaphoreConstants DEF TypeOK, Sema4TypeOK, LONG_MIN, PCs, Timeouts
<1>2. QueueInv
  BY SMTT(30), PortNames DEF QueueInv, Distinct, Members, Blocked
<1>3. PortInv
  BY PortNames DEF PortInv, Running
<1>4. ~ Running
  BY DEF Running
<1> QED
  BY <1>1, <1>2, <1>3, <1>4 DEF IInv, SignalConservation, PermitsInv

-----------------------------------------------------------------------------
(* Types: the count stays a long because at most all threads wait.           *)
LEMMA NextType == IInv /\ [Next]_vars => TypeOK'
<1> SUFFICES ASSUME IInv, [Next]_vars PROVE TypeOK'
  OBVIOUS
<1> USE PortNames, SemaphoreConstants
    DEF IInv, TypeOK, Sema4TypeOK, LONG_MIN, PCs, Timeouts, Goto, Running, sema4_vars
<1>1. CASE UNCHANGED vars
  BY <1>1 DEF vars, own_vars
<1>2. ASSUME NEW value \in InitialValues, dispatch_semaphore_create(value) PROVE TypeOK'
  BY SMTT(30), <1>2 DEF dispatch_semaphore_create
<1>3. ASSUME NEW t \in Threads, _dispatch_semaphore_dispose(t) PROVE TypeOK'
  BY SMTT(30), <1>3 DEF PortInv, _dispatch_semaphore_dispose, sema4_dispose, sema4_is_created,
     os_put_cached_semaphore, semaphore_destroy
<1>4. ASSUME NEW t \in Threads, dispatch_semaphore_signal(t) PROVE TypeOK'
  BY SMTT(30), <1>4 DEF dispatch_semaphore_signal
<1>5. ASSUME NEW t \in Threads, NEW to \in Timeouts, dispatch_semaphore_wait(t, to)
      PROVE  TypeOK'
  <2>1. SlowWaiters \in SUBSET Threads /\ Signallers \in SUBSET Threads /\ t \notin SlowWaiters
    BY <1>5 DEF SlowWaiters, Signallers, dispatch_semaphore_wait
  <2>2. /\ Cardinality(SlowWaiters) < Cardinality(Threads)
        /\ Cardinality(SlowWaiters) \in Nat /\ Cardinality(Signallers) \in Nat
    BY <2>1, Card
  <2>3. Cardinality(Threads) \in Nat
    BY FS_CardinalityType
  <2>4. Tokens \in Nat
    BY DEF Tokens
  <2>5. dsema_value - 1 >= -Cardinality(Threads)
    BY SMTT(30), <1>5, <2>2, <2>3, <2>4
       DEF SignalConservation, Deficit, dispatch_semaphore_wait
  <2>6. dsema_value - 1 \in LONG_MIN..LONG_MAX
    BY SMTT(30), <2>3, <2>5
  <2>7. pc' \in [Threads -> PCs] /\ permits' \in Int
    <3>1. CASE dsema_value' >= 0
      BY SMTT(30), <1>5, <3>1 DEF dispatch_semaphore_wait
    <3>2. CASE ~ (dsema_value' >= 0)
      BY <1>5, <3>2 DEF dispatch_semaphore_wait
    <3> QED
      BY <3>1, <3>2
  <2> QED
    BY <1>5, <2>6, <2>7 DEF dispatch_semaphore_wait
<1>6. ASSUME NEW t \in Threads, SignalTestCreated(t) PROVE TypeOK'
  BY <1>6 DEF SignalTestCreated
<1>7. ASSUME NEW t \in Threads, SignalCreate(t) PROVE TypeOK'
  <2>1. Sema4TypeOK'
    BY <1>7, CreateSlowType DEF SignalCreate
  <2> QED
    BY <1>7, <2>1 DEF SignalCreate
<1>8. ASSUME NEW t \in Threads, SignalPost(t) PROVE TypeOK'
  <2>1. Woken(sema) \in SUBSET Threads
    BY SMTT(30), <1>8 DEF Woken, SignalPost
  <2>2. Cardinality(Woken(sema)) \in Nat
    BY <2>1, Card
  <2>3. waitq' \in [Ports -> Seq(Threads)] /\ count' \in [Ports -> Nat]
    <3>1. CASE waitq[sema] = <<>>
      BY SMTT(30), <1>8, <3>1 DEF SignalPost, semaphore_signal
    <3>2. CASE waitq[sema] # <<>>
      <4>1. Tail(waitq[sema]) \in Seq(Threads)
        BY SMTT(30), <1>8, <3>2 DEF SignalPost
      <4> QED
        BY <1>8, <3>2, <4>1 DEF SignalPost, semaphore_signal
    <3> QED
      BY <3>1, <3>2
  <2>4. permits' \in Int
    BY SMTT(30), <1>8, <2>2 DEF SignalPost
  <2> QED
    BY <1>8, <2>3, <2>4 DEF SignalPost, semaphore_signal
<1>9. ASSUME NEW t \in Threads, WaitTestCreated(t) PROVE TypeOK'
  BY <1>9, SlowPathType DEF WaitTestCreated
<1>10. ASSUME NEW t \in Threads, WaitCreate(t) PROVE TypeOK'
  <2>1. Sema4TypeOK'
    BY <1>10, CreateSlowType DEF WaitCreate
  <2>2. pc' \in [Threads -> PCs]
    BY <1>10, SlowPathType DEF WaitCreate
  <2> QED
    BY <1>10, <2>1, <2>2 DEF WaitCreate
<1>11. ASSUME NEW t \in Threads, KernelWait(t) PROVE TypeOK'
  <2>1. CASE semaphore_take(sema) /\ Goto(t, "idle") /\ permits' = permits - 1
    BY SMTT(30), <1>11, <2>1 DEF KernelWait, semaphore_take
  <2>2. CASE /\ semaphore_block(sema, t)
             /\ Goto(t, IF pc[t] = "wait" THEN "wait_blocked" ELSE "timedwait_blocked")
             /\ UNCHANGED permits
    BY SMTT(30), <1>11, <2>2 DEF KernelWait, semaphore_block
  <2> QED
    BY <1>11, <2>1, <2>2 DEF KernelWait
<1>12. ASSUME NEW t \in Threads, semaphore_unblock(t) PROVE Sema4TypeOK'
  <2>1. \A p \in Ports : t \in Members(waitq[p]) => Without(waitq[p], t) \in Seq(Threads)
    BY WithoutLemma DEF QueueInv
  <2> QED
    BY <1>12, <2>1 DEF semaphore_unblock
<1>13. ASSUME NEW t \in Threads, KernelTimeout(t) PROVE TypeOK'
  BY <1>12, <1>13 DEF KernelTimeout
<1>14. ASSUME NEW t \in Threads, KernelAborted(t) PROVE TypeOK'
  BY SMTT(30), <1>12, <1>14 DEF KernelAborted
<1>15. ASSUME NEW t \in Threads, UndoDecrement(t) PROVE TypeOK'
  <2>1. CASE dsema_value < 0
    BY SMTT(30), <1>15, <2>1 DEF UndoDecrement
  <2>2. CASE ~ (dsema_value < 0)
    BY <1>15, <2>2 DEF UndoDecrement
  <2> QED
    BY <2>1, <2>2
<1> QED
  BY <1>1, <1>2, <1>3, <1>4, <1>5, <1>6, <1>7, <1>8, <1>9, <1>10, <1>11, <1>13, <1>14,
     <1>15 DEF Next, Step

-----------------------------------------------------------------------------
(* Ports: only _dispatch_sema4_create_slow and _dispatch_sema4_dispose move  *)
(* them, and a port is in one place at a time.                               *)
LEMMA NextPorts == IInv /\ [Next]_vars => PortInv'
<1> SUFFICES ASSUME IInv, [Next]_vars PROVE PortInv'
  OBVIOUS
<1> USE PortNames DEF Running
<1>0. /\ PortInv /\ live \in SUBSET Ports
      /\ sema \in Ports \cup {MACH_PORT_NULL, MACH_PORT_DEAD}
      /\ cache \in [Threads -> Ports \cup {MACH_PORT_NULL}]
  BY DEF IInv, TypeOK, Sema4TypeOK
<1>1. ASSUME UNCHANGED <<sema, cache, live>>, Running' => Running PROVE PortInv'
  BY <1>0, <1>1 DEF PortInv
<1>2. CASE UNCHANGED vars
  BY <1>1, <1>2 DEF vars, own_vars, sema4_vars
<1>3. ASSUME NEW value \in InitialValues, dispatch_semaphore_create(value) PROVE PortInv'
  BY <1>0, <1>3 DEF dispatch_semaphore_create, PortInv
<1>4. ASSUME NEW t \in Threads, _dispatch_semaphore_dispose(t) PROVE PortInv'
  <2>1. CASE UNCHANGED sema4_vars
    BY <1>1, <1>4, <2>1 DEF _dispatch_semaphore_dispose, sema4_vars
  <2>2. CASE sema # MACH_PORT_NULL /\ sema4_dispose(t) /\ ~ Running'
    <3>1. /\ sema \in Ports /\ sema' = MACH_PORT_DEAD
          /\ cache' = [cache EXCEPT ![t] = sema] /\ live' = live \ {cache[t]}
      BY <1>0, <1>4, <2>2 DEF _dispatch_semaphore_dispose, sema4_dispose,
         sema4_is_created, os_put_cached_semaphore, semaphore_destroy, PortInv
    <3>2. ASSUME NEW u \in Threads, cache'[u] \in Ports
          PROVE  cache'[u] \in live' /\ cache'[u] # sema'
      <4>1. CASE u = t
        BY <1>0, <3>1, <4>1 DEF PortInv
      <4>2. CASE u # t
        BY <1>0, <3>1, <3>2, <4>2 DEF PortInv
      <4> QED
        BY <4>1, <4>2
    <3>3. ASSUME NEW u \in Threads, NEW v \in Threads, cache'[u] \in Ports,
                 cache'[u] = cache'[v]
          PROVE  u = v
      BY <1>0, <3>1, <3>3 DEF PortInv
    <3> QED
      BY <2>2, <3>1, <3>2, <3>3 DEF PortInv
  <2> QED
    BY <1>4, <2>1, <2>2 DEF _dispatch_semaphore_dispose, sema4_dispose, sema4_is_created
<1>5. ASSUME NEW t \in Threads, SignalCreate(t) \/ WaitCreate(t) PROVE PortInv'
  <2>1. sema4_create_slow(t) /\ status' = status /\ status = "alive"
    BY <1>5 DEF SignalCreate, WaitCreate
  <2>2. PICK tmp \in os_get_cached_semaphore(t) :
          /\ live' = live \cup {tmp}
          /\ \/ /\ sema = MACH_PORT_NULL /\ sema' = tmp
                /\ cache' = [cache EXCEPT ![t] = MACH_PORT_NULL]
             \/ sema # MACH_PORT_NULL /\ sema' = sema /\ cache' = [cache EXCEPT ![t] = tmp]
    BY <2>1 DEF sema4_create_slow
  <2>3. /\ tmp \in Ports /\ tmp # sema
        /\ \A u \in Threads : cache[u] = tmp => u = t
    BY SMTT(30), <1>0, <2>2 DEF os_get_cached_semaphore, semaphore_create, PortInv
  <2>4. sema' \in Ports /\ sema' \in live' /\ \A u \in Threads : cache'[u] # sema'
    BY <1>0, <2>1, <2>2, <2>3 DEF PortInv
  <2>5. \A u \in Threads : cache'[u] \in Ports => cache'[u] \in live'
    BY SMTT(30), <1>0, <2>2, <2>3 DEF PortInv
  <2>6. \A u, v \in Threads : cache'[u] \in Ports /\ cache'[u] = cache'[v] => u = v
    <3>1. CASE cache' = [cache EXCEPT ![t] = MACH_PORT_NULL]
      BY <1>0, <3>1 DEF PortInv
    <3>2. CASE cache' = [cache EXCEPT ![t] = tmp]
      BY <1>0, <2>3, <3>2 DEF PortInv
    <3> QED
      BY <2>2, <3>1, <3>2
  <2> QED
    BY <2>1, <2>4, <2>5, <2>6 DEF PortInv
<1>6. ASSUME NEW t \in Threads,
             \/ dispatch_semaphore_signal(t) \/ SignalTestCreated(t)
             \/ WaitTestCreated(t) \/ UndoDecrement(t)
             \/ \E to \in Timeouts : dispatch_semaphore_wait(t, to)
      PROVE  PortInv'
  BY <1>1, <1>6 DEF dispatch_semaphore_signal, SignalTestCreated, WaitTestCreated,
     UndoDecrement, dispatch_semaphore_wait, sema4_vars
<1>7. ASSUME NEW t \in Threads,
             SignalPost(t) \/ KernelWait(t) \/ KernelTimeout(t) \/ KernelAborted(t)
      PROVE  PortInv'
  BY <1>1, <1>7 DEF SignalPost, KernelWait, KernelTimeout, KernelAborted,
     semaphore_signal, semaphore_take, semaphore_block, semaphore_unblock, sema4_vars
<1> QED
  BY <1>2, <1>3, <1>4, <1>5, <1>6, <1>7 DEF Next, Step

-----------------------------------------------------------------------------
(* Queues: a thread is queued in the kernel exactly while it is blocked.     *)
LEMMA NextQueues == IInv /\ [Next]_vars => QueueInv'
<1> SUFFICES ASSUME IInv, [Next]_vars PROVE QueueInv'
  OBVIOUS
<1> USE PortNames DEF Running
<1>0. /\ TypeOK /\ QueueInv /\ SignalConservation
      /\ dsema_value \in Int /\ dsema_orig \in Nat
      /\ waitq \in [Ports -> Seq(Threads)] /\ count \in [Ports -> Nat]
      /\ sema \in Ports \cup {MACH_PORT_NULL, MACH_PORT_DEAD} /\ pc \in [Threads -> PCs]
  BY SMTT(30), SemaphoreConstants DEF IInv, TypeOK, Sema4TypeOK, LONG_MIN
<1>1. ASSUME UNCHANGED <<sema, count, waitq>>, status' # "absent",
             \A u \in Threads : Blocked(u)' <=> Blocked(u)
      PROVE  QueueInv'
  BY SMTT(30), <1>0, <1>1 DEF Members, QueueInv
<1>2. CASE UNCHANGED vars
  BY <1>0, <1>2 DEF vars, own_vars, sema4_vars, Blocked, QueueInv
<1>3. ASSUME NEW value \in InitialValues, dispatch_semaphore_create(value) PROVE QueueInv'
  BY <1>0, <1>3 DEF dispatch_semaphore_create, Blocked, QueueInv
<1>4. ASSUME NEW t \in Threads, _dispatch_semaphore_dispose(t) PROVE QueueInv'
  <2>1. SlowWaiters = {} /\ Signallers = {} /\ \A u \in Threads : pc[u] = "idle"
    BY <1>4 DEF _dispatch_semaphore_dispose, SlowWaiters, Signallers
  <2>2. \A p \in Ports : waitq[p] = <<>>
    <3> SUFFICES ASSUME NEW p \in Ports, waitq[p] # <<>> PROVE FALSE
      OBVIOUS
    <3>1. Head(waitq[p]) \in Threads /\ Head(waitq[p]) \in Members(waitq[p])
      BY <1>0, TailLemma DEF QueueInv
    <3> QED
      BY <1>0, <2>1, <3>1 DEF Blocked, QueueInv
  <2>3. CASE dsema_value < dsema_orig
    BY <1>1, <1>4, <2>3 DEF _dispatch_semaphore_dispose, Blocked, sema4_vars
  <2>4. CASE ~ (dsema_value < dsema_orig)
    <3>1. Deficit = 0
      BY SMTT(30), <1>0, <2>4 DEF Deficit
    <3>2. Tokens = 0
      <4>1. Tokens \in Nat
        BY <1>0 DEF Tokens
      <4> QED
        BY SMTT(30), <1>0, <1>4, <2>1, <3>1, <4>1, CardEmpty DEF SignalConservation,
           _dispatch_semaphore_dispose
    <3>3. \A p \in Ports : count[p] = 0
      BY <1>0, <3>2 DEF Tokens, QueueInv
    <3>4. UNCHANGED <<pc, waitq>> /\ sema' \notin Ports /\ \A p \in Ports : count'[p] = 0
      BY <1>4, <2>4, <3>3 DEF _dispatch_semaphore_dispose, sema4_dispose,
         sema4_is_created, os_put_cached_semaphore, semaphore_destroy, sema4_vars
    <3> QED
      BY <1>0, <2>1, <2>2, <3>4 DEF Blocked, QueueInv
  <2> QED
    BY <2>3, <2>4
<1>5. ASSUME NEW t \in Threads, SignalCreate(t) \/ WaitCreate(t) PROVE QueueInv'
  <2>1. sema4_create_slow(t) /\ status' = "alive"
    BY <1>5 DEF SignalCreate, WaitCreate
  <2>2. \A u \in Threads : Blocked(u)' <=> Blocked(u)
    BY <1>0, <1>5, SlowPathType DEF SignalCreate, WaitCreate, Goto, Blocked
  <2>3. sema # MACH_PORT_NULL => sema' = sema
    BY <2>1 DEF sema4_create_slow
  <2> QED
    BY SMTT(30), <1>0, <2>1, <2>2, <2>3 DEF sema4_create_slow, Members, QueueInv
<1>6. ASSUME NEW t \in Threads,
             \/ dispatch_semaphore_signal(t) \/ SignalTestCreated(t)
             \/ WaitTestCreated(t) \/ UndoDecrement(t)
             \/ \E to \in Timeouts : dispatch_semaphore_wait(t, to)
      PROVE  QueueInv'
  <2>1. UNCHANGED <<sema, count, waitq>> /\ status' # "absent"
    BY <1>6 DEF dispatch_semaphore_signal, SignalTestCreated, WaitTestCreated,
       UndoDecrement, dispatch_semaphore_wait, sema4_vars
  <2>2. \A u \in Threads : Blocked(u)' <=> Blocked(u)
    BY <1>0, <1>6, SlowPathType DEF dispatch_semaphore_signal, SignalTestCreated,
       WaitTestCreated, UndoDecrement, dispatch_semaphore_wait, Goto, Blocked
  <2> QED
    BY <1>1, <2>1, <2>2
<1>7. ASSUME NEW t \in Threads, SignalPost(t) PROVE QueueInv'
  <2>1. /\ sema \in Ports /\ sema' = sema /\ status' # "absent" /\ ~ Blocked(t)
        /\ waitq[sema] \in Seq(Threads) /\ Distinct(waitq[sema])
    BY <1>0, <1>7 DEF SignalPost, semaphore_signal, Blocked, QueueInv
  <2>2. CASE waitq[sema] = <<>>
    <3>1. waitq' = waitq /\ count' = [count EXCEPT ![sema] = @ + 1]
      BY <1>7, <2>2 DEF SignalPost, semaphore_signal
    <3>2. \A u \in Threads : Blocked(u)' <=> Blocked(u)
      BY <1>7, <2>1, <2>2 DEF SignalPost, Woken, Blocked
    <3>3. \A p \in Ports : \A u \in Members(waitq[p]) : Blocked(u)'
      BY <1>0, <3>2, MembersIn DEF QueueInv
    <3> QED
      BY <1>0, <2>1, <2>2, <3>1, <3>2, <3>3 DEF QueueInv
  <2>3. CASE waitq[sema] # <<>>
    <3> DEFINE h == Head(waitq[sema])
               q == Tail(waitq[sema])
    <3>1. /\ h \in Threads /\ q \in Seq(Threads) /\ Distinct(q)
          /\ Members(q) = Members(waitq[sema]) \ {h}
      BY <2>1, <2>3, TailLemma
    <3>2. count' = count
      BY <1>7, <2>3 DEF SignalPost, semaphore_signal
    <3>3. \A u \in Threads : Blocked(u)' <=> Blocked(u) /\ u # h
      BY <1>7, <2>1, <2>3, <3>1 DEF SignalPost, Woken, Blocked
    <3>4. \A p \in Ports : waitq'[p] = IF p = sema THEN q ELSE waitq[p]
      BY <1>0, <1>7, <2>1, <2>3 DEF SignalPost, semaphore_signal
    <3> HIDE DEF h, q
    <3>5. \A p \in Ports : Distinct(waitq'[p]) /\ \A u \in Members(waitq'[p]) : Blocked(u)'
      <4> SUFFICES ASSUME NEW p \in Ports
                   PROVE  Distinct(waitq'[p]) /\ \A u \in Members(waitq'[p]) : Blocked(u)'
        OBVIOUS
      <4>1. CASE p = sema
        BY <1>0, <4>1, <2>1, <3>1, <3>3, <3>4, MembersIn DEF QueueInv
      <4>2. CASE p # sema
        BY SMTT(30), <1>0, <4>2, <3>4 DEF Members, QueueInv
      <4> QED
        BY <4>1, <4>2
    <3>6. \A u \in Threads : Blocked(u)' => u \in Members(waitq'[sema])
      BY <1>0, <2>1, <3>1, <3>3, <3>4 DEF QueueInv
    <3>7. \A p \in Ports : count'[p] = 0
      BY <1>0, <2>1, <2>3, <3>2 DEF QueueInv
    <3>8. \A p \in Ports : p # sema => waitq'[p] = <<>>
      BY <1>0, <3>4 DEF QueueInv
    <3> QED
      BY <2>1, <3>5, <3>6, <3>7, <3>8 DEF QueueInv
  <2> QED
    BY <2>2, <2>3
<1>8. ASSUME NEW t \in Threads, KernelWait(t) PROVE QueueInv'
  <2>1. /\ sema \in Ports /\ sema' = sema /\ status' # "absent" /\ ~ Blocked(t)
        /\ waitq[sema] \in Seq(Threads) /\ Distinct(waitq[sema])
    BY <1>0, <1>8 DEF KernelWait, semaphore_take, semaphore_block, Blocked, QueueInv
  <2>2. CASE semaphore_take(sema) /\ Goto(t, "idle")
    <3>1. \A u \in Threads : Blocked(u)' <=> Blocked(u)
      BY SMTT(30), <2>1, <2>2 DEF Blocked, Goto
    <3> QED
      BY SMTT(30), <1>0, <2>1, <2>2, <3>1 DEF semaphore_take, Members, QueueInv
  <2>3. CASE /\ semaphore_block(sema, t)
             /\ Goto(t, IF pc[t] = "wait" THEN "wait_blocked" ELSE "timedwait_blocked")
    <3> DEFINE q == Append(waitq[sema], t)
    <3>1. t \notin Members(waitq[sema])
      BY <1>0, <2>1 DEF QueueInv
    <3>2. q \in Seq(Threads) /\ Distinct(q) /\ Members(q) = Members(waitq[sema]) \cup {t}
      BY SMTT(30), <2>1, <3>1, AppendLemma
    <3>3. \A p \in Ports : waitq'[p] = IF p = sema THEN q ELSE waitq[p]
      BY <1>0, <2>3 DEF semaphore_block
    <3>4. \A u \in Threads : Blocked(u)' <=> Blocked(u) \/ u = t
      BY <1>0, <2>1, <2>3 DEF Blocked, Goto
    <3>5. count' = count /\ count[sema] = 0
      BY <2>3 DEF semaphore_block
    <3> HIDE DEF q
    <3>6. \A p \in Ports : Distinct(waitq'[p]) /\ \A u \in Members(waitq'[p]) : Blocked(u)'
      <4> SUFFICES ASSUME NEW p \in Ports
                   PROVE  Distinct(waitq'[p]) /\ \A u \in Members(waitq'[p]) : Blocked(u)'
        OBVIOUS
      <4>1. CASE p = sema
        BY <1>0, <4>1, <2>1, <3>2, <3>3, <3>4, MembersIn DEF QueueInv
      <4>2. CASE p # sema
        BY SMTT(30), <1>0, <4>2, <3>3 DEF Members, QueueInv
      <4> QED
        BY <4>1, <4>2
    <3>7. \A u \in Threads : Blocked(u)' => u \in Members(waitq'[sema])
      BY <1>0, <2>1, <3>2, <3>3, <3>4 DEF QueueInv
    <3> QED
      BY <1>0, <2>1, <3>3, <3>5, <3>6, <3>7 DEF QueueInv
  <2> QED
    BY <1>8, <2>2, <2>3 DEF KernelWait
<1>9. ASSUME NEW t \in Threads, Blocked(t), semaphore_unblock(t), status' # "absent",
             \A u \in Threads : Blocked(u)' <=> Blocked(u) /\ u # t
      PROVE  QueueInv'
  <2>1. sema \in Ports /\ t \in Members(waitq[sema]) /\ sema' = sema /\ count' = count
    BY <1>0, <1>9 DEF semaphore_unblock, QueueInv
  <2>2. \A p \in Ports : p # sema => waitq[p] = <<>> /\ t \notin Members(waitq[p])
    BY SMTT(30), <1>0 DEF Members, QueueInv
  <2>3. \A p \in Ports : waitq'[p] = IF p = sema THEN Without(waitq[sema], t) ELSE waitq[p]
    BY <1>9, <2>1, <2>2 DEF semaphore_unblock
  <2>4. /\ Distinct(Without(waitq[sema], t))
        /\ Members(Without(waitq[sema], t)) = Members(waitq[sema]) \ {t}
    <3>1. waitq[sema] \in Seq(Threads) /\ Distinct(waitq[sema])
      BY <1>0, <2>1 DEF QueueInv
    <3> QED
      BY <2>1, <3>1, WithoutLemma
  <2>5. waitq[sema] # <<>>
    BY SMTT(30), <2>1 DEF Members
  <2>6. \A p \in Ports : Distinct(waitq'[p]) /\ \A u \in Members(waitq'[p]) : Blocked(u)'
    <3> SUFFICES ASSUME NEW p \in Ports
                 PROVE  Distinct(waitq'[p]) /\ \A u \in Members(waitq'[p]) : Blocked(u)'
      OBVIOUS
    <3>1. CASE p = sema
      BY <1>0, <3>1, <1>9, <2>1, <2>3, <2>4, MembersIn DEF QueueInv
    <3>2. CASE p # sema
      BY SMTT(30), <1>0, <3>2, <2>2, <2>3 DEF Members, QueueInv
    <3> QED
      BY <3>1, <3>2
  <2>7. \A u \in Threads : Blocked(u)' => u \in Members(waitq'[sema])
    BY <1>0, <1>9, <2>1, <2>3, <2>4 DEF QueueInv
  <2> QED
    BY <1>0, <1>9, <2>1, <2>2, <2>3, <2>5, <2>6, <2>7 DEF QueueInv
<1>10. ASSUME NEW t \in Threads, KernelTimeout(t) PROVE QueueInv'
  <2>1. status' # "absent" /\ Goto(t, "undo")
    BY <1>10 DEF KernelTimeout
  <2>2. CASE pc[t] = "timedwait_blocked" /\ semaphore_unblock(t)
    <3>1. Blocked(t) /\ \A u \in Threads : Blocked(u)' <=> Blocked(u) /\ u # t
      BY <1>0, <2>1, <2>2 DEF Blocked, Goto
    <3> QED
      BY <1>9, <2>1, <2>2, <3>1
  <2>3. CASE pc[t] = "timedwait" /\ UNCHANGED sema4_vars
    <3>1. \A u \in Threads : Blocked(u)' <=> Blocked(u)
      BY SMTT(30), <2>1, <2>3 DEF Blocked, Goto
    <3> QED
      BY <1>1, <2>1, <2>3, <3>1 DEF sema4_vars
  <2> QED
    BY <1>10, <2>2, <2>3 DEF KernelTimeout
<1>11. ASSUME NEW t \in Threads, KernelAborted(t) PROVE QueueInv'
  <2>1. Blocked(t) /\ semaphore_unblock(t) /\ status' # "absent"
    BY <1>11 DEF KernelAborted, Blocked
  <2>2. \A u \in Threads : Blocked(u)' <=> Blocked(u) /\ u # t
    BY <1>0, <1>11 DEF KernelAborted, Blocked, Goto
  <2> QED
    BY <1>9, <2>1, <2>2
<1> QED
  BY <1>2, <1>3, <1>4, <1>5, <1>6, <1>7, <1>8, <1>10, <1>11 DEF Next, Step

-----------------------------------------------------------------------------
(* Balance: each step moves one unit between the count, the signallers, the  *)
(* posted signals and the slow waiters.                                      *)
LEMMA NextBalance == IInv /\ [Next]_vars => SignalConservation' /\ PermitsInv'
<1> SUFFICES ASSUME IInv, [Next]_vars PROVE SignalConservation' /\ PermitsInv'
  OBVIOUS
<1> DEFINE Balanced == SignalConservation /\ PermitsInv
<1> USE PortNames, SemaphoreConstants DEF LONG_MIN
<1>0. /\ TypeOK /\ Sema4TypeOK /\ SignalConservation /\ PermitsInv
      /\ dsema_value \in Int /\ permits \in Int /\ Tokens \in Nat
      /\ SlowWaiters \in SUBSET Threads /\ Signallers \in SUBSET Threads
  BY SMTT(30) DEF IInv, TypeOK, Sema4TypeOK, Tokens, SlowWaiters, Signallers
<1>a. Cardinality(SlowWaiters) \in Nat /\ Cardinality(Signallers) \in Nat
  BY <1>0, SemaphoreConstants, FS_Subset, FS_CardinalityType
<1>1. ASSUME Running' => Running /\ UNCHANGED <<dsema_value, permits>>,
             SlowWaiters' = SlowWaiters, Signallers' = Signallers, Tokens' = Tokens
      PROVE  Balanced'
  BY <1>0, <1>1 DEF SignalConservation, PermitsInv, Deficit
<1>2. CASE UNCHANGED vars
  BY <1>1, <1>2 DEF vars, own_vars, sema4_vars, Running, SlowWaiters, Signallers, Tokens
<1>3. ASSUME NEW value \in InitialValues, dispatch_semaphore_create(value) PROVE Balanced'
  <2>1. SlowWaiters' = {} /\ Signallers' = {} /\ Tokens' = 0 /\ Deficit' = 0
    <3>a. pc' = pc /\ \A u \in Threads : pc[u] = "idle"
      BY <1>3 DEF dispatch_semaphore_create, IInv, QueueInv
    <3>1. Signallers' = {} /\ SlowWaiters' = {}
      BY <3>a DEF SlowWaiters, Signallers
    <3>2. sema' = MACH_PORT_NULL /\ dsema_value' = value /\ value >= 0
      BY <1>3 DEF dispatch_semaphore_create
    <3>3. Tokens' = 0
      BY <3>2, PortNames DEF Tokens
    <3>4. Deficit' = 0
      BY SMTT(30), <3>2, SemaphoreConstants DEF Deficit
    <3> QED
      BY <3>1, <3>3, <3>4
  <2>2. permits' = dsema_value' /\ dsema_value' \in Int
    BY SMTT(30), <1>3 DEF dispatch_semaphore_create
  <2> QED
    BY SMTT(30), <2>1, <2>2, CardEmpty DEF SignalConservation, PermitsInv
<1>4. ASSUME NEW t \in Threads, _dispatch_semaphore_dispose(t) PROVE Balanced'
  BY <1>4 DEF _dispatch_semaphore_dispose, SignalConservation, PermitsInv, Running
<1>5. ASSUME NEW t \in Threads, dispatch_semaphore_signal(t) PROVE Balanced'
  <2>1. /\ Running /\ pc[t] = "idle" /\ pc \in [Threads -> PCs] /\ Tokens' = Tokens
        /\ permits' = permits + 1
    BY <1>0, <1>5 DEF dispatch_semaphore_signal, TypeOK, Tokens, sema4_vars
  <2>2. CASE ~ Running'
    BY <2>2 DEF SignalConservation, PermitsInv
  <2>3. CASE Running'
    <3>1. dsema_value' = dsema_value + 1
      BY <1>0, <1>5, <2>3 DEF dispatch_semaphore_signal, Running, TypeOK
    <3>2. CASE dsema_value' > 0
      <4>1. pc' = pc
        BY <1>0, <1>5, <2>1, <3>2 DEF dispatch_semaphore_signal, Goto
      <4> QED
        BY SMTT(30), <1>0, <1>a, <2>1, <3>1, <3>2, <4>1
           DEF SignalConservation, PermitsInv, SlowWaiters, Signallers, Deficit
    <3>3. CASE ~ (dsema_value' > 0)
      <4>1. pc' = [pc EXCEPT ![t] = "signal_slow"]
        <5>1. dsema_value + 1 # LONG_MIN
          BY SMTT(30), <1>0 DEF TypeOK
        <5>2. dsema_value # LONG_MAX
          BY SMTT(30), <1>0, <3>1, <3>3
        <5> QED
          BY <1>5, <3>1, <3>3, <5>1, <5>2 DEF dispatch_semaphore_signal, Goto
      <4>2. t \notin Signallers /\ Signallers' = Signallers \cup {t} /\ SlowWaiters' = SlowWaiters
        BY <2>1, <4>1 DEF Signallers, SlowWaiters
      <4>3. Cardinality(Signallers') = Cardinality(Signallers) + 1
        BY <1>0, <4>2, Card
      <4> QED
        BY SMTT(30), <1>0, <1>a, <2>1, <3>1, <3>3, <4>2, <4>3
           DEF SignalConservation, PermitsInv,
           Deficit
    <3> QED
      BY <3>2, <3>3
  <2> QED
    BY <2>2, <2>3
<1>6. ASSUME NEW t \in Threads, NEW to \in Timeouts, dispatch_semaphore_wait(t, to)
      PROVE  Balanced'
  <2>1. /\ Running /\ pc[t] = "idle" /\ pc \in [Threads -> PCs] /\ Tokens' = Tokens
        /\ dsema_value' = dsema_value - 1
    BY <1>0, <1>6 DEF dispatch_semaphore_wait, TypeOK, Tokens, sema4_vars
  <2>2. CASE dsema_value' >= 0
    <3>1. pc' = pc /\ permits' = permits - 1
      BY <1>6, <2>2 DEF dispatch_semaphore_wait
    <3> QED
      BY SMTT(30), <1>0, <1>a, <2>1, <2>2, <3>1
         DEF SignalConservation, PermitsInv, SlowWaiters, Signallers, Deficit
  <2>3. CASE ~ (dsema_value' >= 0)
    <3>1. pc' = [pc EXCEPT ![t] = "wait_slow"] /\ permits' = permits
      BY <1>6, <2>3 DEF dispatch_semaphore_wait, Goto
    <3>2. /\ t \notin SlowWaiters /\ SlowWaiters' = SlowWaiters \cup {t}
          /\ Signallers' = Signallers
      BY <2>1, <3>1 DEF Signallers, SlowWaiters
    <3>3. Cardinality(SlowWaiters') = Cardinality(SlowWaiters) + 1
      BY <1>0, <3>2, Card
    <3> QED
      BY SMTT(30), <1>0, <1>a, <2>1, <2>3, <3>1, <3>2, <3>3 DEF SignalConservation, PermitsInv,
         Deficit
  <2> QED
    BY <2>2, <2>3
<1>7. ASSUME NEW t \in Threads,
             SignalTestCreated(t) \/ WaitTestCreated(t) \/ KernelTimeout(t) \/ KernelAborted(t)
      PROVE  Balanced'
  <2>1. SlowWaiters' = SlowWaiters /\ Signallers' = Signallers
    BY <1>0, <1>7, SlowPathType DEF SignalTestCreated, WaitTestCreated, KernelTimeout,
       KernelAborted, Goto, SlowWaiters, Signallers, TypeOK
  <2>2. Tokens' = Tokens
    BY <1>7 DEF SignalTestCreated, WaitTestCreated, KernelTimeout, KernelAborted,
       semaphore_unblock, sema4_vars, Tokens
  <2> QED
    BY <1>1, <1>7, <2>1, <2>2 DEF SignalTestCreated, WaitTestCreated, KernelTimeout,
       KernelAborted, Running
<1>8. ASSUME NEW t \in Threads, SignalCreate(t) \/ WaitCreate(t) PROVE Balanced'
  <2>1. SlowWaiters' = SlowWaiters /\ Signallers' = Signallers
    BY <1>0, <1>8, SlowPathType DEF SignalCreate, WaitCreate, Goto, SlowWaiters, Signallers,
       TypeOK
  <2>2. sema4_create_slow(t) /\ UNCHANGED <<dsema_value, permits, status>>
    BY <1>8 DEF SignalCreate, WaitCreate
  <2>3. count' = count /\ (sema' = sema \/ sema = MACH_PORT_NULL)
    BY <2>2 DEF sema4_create_slow
  <2>4. Tokens' = Tokens
    BY <2>3 DEF Tokens, IInv, QueueInv
  <2> QED
    BY <1>1, <2>1, <2>2, <2>4 DEF Running
<1>9. ASSUME NEW t \in Threads, SignalPost(t) PROVE Balanced'
  <2>1. /\ sema \in Ports /\ sema' = sema /\ pc[t] = "signal_post" /\ Running
        /\ UNCHANGED <<dsema_value, status>> /\ permits' = permits - Cardinality(Woken(sema))
        /\ pc' = [u \in Threads |-> IF u \in {t} \cup Woken(sema) THEN "idle" ELSE pc[u]]
    BY <1>9 DEF SignalPost, semaphore_signal
  <2>2. CASE waitq[sema] = <<>>
    <3>1. Woken(sema) = {} /\ Cardinality(Woken(sema)) = 0
      BY <2>2, CardEmpty DEF Woken
    <3>2. /\ t \in Signallers /\ Signallers' = Signallers \ {t}
          /\ SlowWaiters' = SlowWaiters
      BY <2>1, <3>1 DEF Signallers, SlowWaiters
    <3>3. Tokens' = Tokens + 1
      BY <1>0, <1>9, <2>1, <2>2 DEF SignalPost, semaphore_signal, Tokens, Sema4TypeOK
    <3>4. Cardinality(Signallers') = Cardinality(Signallers) - 1
      BY <1>0, <3>2, Card
    <3> QED
      BY SMTT(30), <1>0, <1>a, <2>1, <3>1, <3>2, <3>3, <3>4 DEF SignalConservation, PermitsInv,
         Deficit
  <2>3. CASE waitq[sema] # <<>>
    <3> DEFINE h == Head(waitq[sema])
    <3>1. h \in Threads /\ h \in Members(waitq[sema])
      <4>1. waitq[sema] \in Seq(Threads) /\ Distinct(waitq[sema])
        BY <1>0, <2>1 DEF Sema4TypeOK, IInv, QueueInv
      <4> QED
        BY <2>3, <4>1, TailLemma
    <3>2. Blocked(h)
      BY <2>1, <3>1 DEF IInv, QueueInv
    <3>3. Woken(sema) = {h} /\ Cardinality(Woken(sema)) = 1
      BY <2>3, FS_Singleton DEF Woken
    <3>4. Tokens' = Tokens
      BY <1>9, <2>1, <2>3 DEF SignalPost, semaphore_signal, Tokens
    <3> HIDE DEF h
    <3>5. /\ t \in Signallers /\ Signallers' = Signallers \ {t}
          /\ h \in SlowWaiters /\ SlowWaiters' = SlowWaiters \ {h}
      BY <2>1, <3>1, <3>2, <3>3 DEF Signallers, SlowWaiters, Blocked
    <3>6. /\ Cardinality(Signallers') = Cardinality(Signallers) - 1
          /\ Cardinality(SlowWaiters') = Cardinality(SlowWaiters) - 1
      BY <1>0, <3>1, <3>5, Card
    <3> QED
      BY SMTT(30), <1>0, <1>a, <2>1, <3>3, <3>4, <3>6
         DEF SignalConservation, PermitsInv, Deficit
  <2> QED
    BY <2>2, <2>3
<1>10. ASSUME NEW t \in Threads, KernelWait(t) PROVE Balanced'
  <2>1. /\ sema \in Ports /\ pc[t] \in {"timedwait", "wait"} /\ Running
        /\ UNCHANGED <<dsema_value, status>> /\ pc \in [Threads -> PCs]
    BY <1>0, <1>10 DEF KernelWait, TypeOK
  <2>2. CASE semaphore_take(sema) /\ Goto(t, "idle") /\ permits' = permits - 1
    <3>1. Tokens' = Tokens - 1
      BY <1>0, <2>1, <2>2 DEF semaphore_take, Tokens, Sema4TypeOK
    <3>2. /\ t \in SlowWaiters /\ SlowWaiters' = SlowWaiters \ {t}
          /\ Signallers' = Signallers
      BY <2>1, <2>2 DEF Goto, Signallers, SlowWaiters
    <3>3. Cardinality(SlowWaiters') = Cardinality(SlowWaiters) - 1
      BY <1>0, <3>2, Card
    <3> QED
      BY SMTT(30), <1>0, <1>a, <2>1, <2>2, <3>1, <3>2, <3>3 DEF SignalConservation, PermitsInv,
         Deficit
  <2>3. CASE /\ semaphore_block(sema, t)
             /\ Goto(t, IF pc[t] = "wait" THEN "wait_blocked" ELSE "timedwait_blocked")
             /\ UNCHANGED permits
    <3>1. SlowWaiters' = SlowWaiters /\ Signallers' = Signallers
      BY <2>1, <2>3 DEF Goto, Signallers, SlowWaiters
    <3>2. Tokens' = Tokens
      BY <2>3 DEF semaphore_block, Tokens
    <3> QED
      BY <1>1, <2>1, <2>3, <3>1, <3>2
  <2> QED
    BY <1>10, <2>2, <2>3 DEF KernelWait
<1>11. ASSUME NEW t \in Threads, UndoDecrement(t) PROVE Balanced'
  <2>1. /\ pc[t] = "undo" /\ Running /\ UNCHANGED <<permits, status>>
        /\ pc \in [Threads -> PCs] /\ Tokens' = Tokens
    BY <1>0, <1>11 DEF UndoDecrement, TypeOK, Tokens, sema4_vars
  <2>2. CASE dsema_value < 0
    <3>1. dsema_value' = dsema_value + 1 /\ Goto(t, "idle")
      BY <1>11, <2>2 DEF UndoDecrement
    <3>2. /\ t \in SlowWaiters /\ SlowWaiters' = SlowWaiters \ {t}
          /\ Signallers' = Signallers
      BY <2>1, <3>1 DEF Goto, Signallers, SlowWaiters
    <3>3. Cardinality(SlowWaiters') = Cardinality(SlowWaiters) - 1
      BY <1>0, <3>2, Card
    <3> QED
      BY SMTT(30), <1>0, <1>a, <2>1, <2>2, <3>1, <3>2, <3>3 DEF SignalConservation, PermitsInv,
         Deficit
  <2>3. CASE ~ (dsema_value < 0)
    <3>1. dsema_value' = dsema_value /\ Goto(t, "wait")
      BY <1>11, <2>3 DEF UndoDecrement
    <3>2. SlowWaiters' = SlowWaiters /\ Signallers' = Signallers
      BY <2>1, <3>1 DEF Goto, Signallers, SlowWaiters
    <3> QED
      BY <1>1, <2>1, <3>1, <3>2
  <2> QED
    BY <2>2, <2>3
<1> QED
  BY <1>2, <1>3, <1>4, <1>5, <1>6, <1>7, <1>8, <1>9, <1>10, <1>11 DEF Next, Step

-----------------------------------------------------------------------------
LEMMA Invariance == Spec => []IInv
<1>1. IInv /\ [Next]_vars => IInv'
  BY NextType, NextQueues, NextPorts, NextBalance DEF IInv
<1> QED
  BY InitInv, <1>1, PTL DEF Spec

LEMMA CardTypes ==
  ASSUME TypeOK
  PROVE  /\ Cardinality(SlowWaiters) \in Nat /\ Cardinality(Signallers) \in Nat
         /\ Tokens \in Nat /\ Deficit \in Nat /\ dsema_value \in Int
<1>1. SlowWaiters \subseteq Threads /\ Signallers \subseteq Threads
  BY DEF SlowWaiters, Signallers
<1>2. Cardinality(SlowWaiters) \in Nat /\ Cardinality(Signallers) \in Nat
  BY <1>1, SemaphoreConstants, FS_Subset, FS_CardinalityType
<1> QED
  BY SMTT(30), <1>2, SemaphoreConstants DEF TypeOK, Sema4TypeOK, Tokens, Deficit, LONG_MIN

(* The state has its type; above all, the decrements of the count never      *)
(* leave the range of a long (dispatch_semaphore_wait), whatever the number  *)
(* of threads that wait.                                                     *)
THEOREM TypeCorrect == Spec => []TypeOK
<1>1. IInv => TypeOK
  BY DEF IInv
<1> QED
  BY Invariance, <1>1, PTL

(* Every thread on the slow path of dispatch_semaphore_wait is matched by    *)
(* exactly one owed, pending or posted signal.                               *)
THEOREM SignalsConserved == Spec => []SignalConservation
<1>1. IInv => SignalConservation
  BY DEF IInv
<1> QED
  BY Invariance, <1>1, PTL

(* dispatch_semaphore_wait never succeeds more often than the creation value *)
(* and the signals allow.                                                    *)
THEOREM NeverOverAdmits == Spec => []NoOverAdmission
<1>1. Init => NoOverAdmission
  BY SMTT(30) DEF Init, NoOverAdmission
<1>2. IInv /\ Running => NoOverAdmission
  BY SMTT(30), CardTypes DEF IInv, SignalConservation, PermitsInv, Deficit, NoOverAdmission
<1>3. IInv /\ IInv' /\ NoOverAdmission /\ [Next]_vars => NoOverAdmission'
  <2> SUFFICES ASSUME IInv, IInv', NoOverAdmission, [Next]_vars, ~ Running'
               PROVE  NoOverAdmission'
    <3>1. IInv' /\ Running' => NoOverAdmission'
      BY <1>2, PTL
    <3> QED
      BY <3>1
  <2>1. UNCHANGED permits \/ permits' = permits + 1
    BY DEF Next, Step, vars, own_vars, Running, dispatch_semaphore_create,
       _dispatch_semaphore_dispose, dispatch_semaphore_signal, dispatch_semaphore_wait,
       SignalTestCreated, SignalCreate, SignalPost, WaitTestCreated, WaitCreate,
       KernelWait, KernelTimeout, KernelAborted, UndoDecrement
  <2> QED
    BY SMTT(30), <2>1 DEF NoOverAdmission, IInv, TypeOK
<1> QED
  BY Invariance, <1>1, <1>3, PTL DEF Spec

(* No wake-up is lost: a thread stays blocked in the kernel, with no thread  *)
(* under way to it, only if no permit is left.                               *)
THEOREM NoLostWakeup == Spec => []NoStrandedWaiter
<1>1. IInv => NoStrandedWaiter
  <2> SUFFICES ASSUME IInv, Running,
                      \A t \in Threads : pc[t] \in {"idle", "wait_blocked", "timedwait_blocked"},
                      NEW t \in Threads, pc[t] # "idle"
               PROVE  permits = 0
    BY DEF NoStrandedWaiter
  <2>1. t \in SlowWaiters /\ Signallers = {} /\ SlowWaiters \in SUBSET Threads
    BY DEF SlowWaiters, Signallers
  <2>2. sema \in Ports /\ t \in Members(waitq[sema])
    BY DEF IInv, QueueInv, Blocked
  <2>3. Tokens = 0
    BY SMTT(30), <2>2 DEF Members, Tokens, IInv, QueueInv
  <2>4. Cardinality(SlowWaiters) >= 1
    <3>1. Cardinality(SlowWaiters \ {t}) = Cardinality(SlowWaiters) - 1
      BY <2>1, Card
    <3>2. Cardinality(SlowWaiters \ {t}) \in Nat
      BY <2>1, Card
    <3> QED
      BY SMTT(30), <3>1, <3>2, CardTypes DEF IInv
  <2> QED
    BY SMTT(30), <2>1, <2>3, <2>4, CardEmpty, CardTypes
       DEF IInv, SignalConservation, PermitsInv, Deficit
<1> QED
  BY Invariance, <1>1, PTL

(* Threads block on the installed port only, and a cached port carries no    *)
(* left-over signal to the next object (_dispatch_sema4_dispose).            *)
THEOREM PortsDisciplined == Spec => []PortDiscipline
<1>1. IInv => PortDiscipline
  BY PortNames DEF IInv, QueueInv, PortInv, PortDiscipline, TypeOK, Sema4TypeOK
<1> QED
  BY Invariance, <1>1, PTL
============================================================================
