--------------------------- MODULE OnceListProofs ---------------------------
(***************************************************************************)
(* Proofs about dispatch_once on a list of waiters (module OnceList), for  *)
(* any set of threads and any width of the event counter.                  *)
(***************************************************************************)
EXTENDS OnceList, TLAPS

USE ZenonT(30)

Done == val = DISPATCH_ONCE_DONE

\* The thread that won the predicate and has not yet exchanged it.
IsOwner(t) == pc[t] \in {"set_thread", "callout", "xchg_done"}

(* The inductive invariant: one owner until the exchange, which agrees with  *)
(* the history of the block, and every sign of a signal (an event that is    *)
(* not what its wait left) means the exchange has been made.                 *)
IInv ==
  /\ TypeOK
  /\ runs # "again" /\ (val = NULL <=> runs = "never") /\ (Done => runs = "done")
  /\ \A t \in Threads : pc[t] \in {"set_thread", "callout"} => runs = "running"
  /\ \A t \in Threads : pc[t] = "xchg_done" => runs = "done"
  /\ \A t, u \in Threads : IsOwner(t) /\ IsOwner(u) => t = u
  /\ \A t \in Threads : IsOwner(t) => val \in Threads
  /\ \A t \in Threads : pc[t] \in {"pop", "signal", "signal_slow", "override_end",
                                   "destroy"} => Done
  /\ \A t \in Threads : pc[t] \in Waiting => val # NULL
  /\ \A t \in Threads : pc[t] = "pop" => next[t] \in Threads
  /\ \A t \in Threads : pc[t] \in {"signal", "signal_slow"}
                          => event[t] \in Threads /\ next[t] \in Threads
  /\ \A t \in Threads : pc[t] = "cas"
                          => next[t] # NULL /\ (next[t] = DISPATCH_ONCE_DONE => Done)
  /\ \A t \in Threads : pc[t] \in {"copy_thread", "link"} => next[t] \in Threads
  /\ \A t \in Threads :
       pc[t] \in {"cas", "copy_thread", "link", "override", "event_wait"}
         => dte_value[t] = 0 \/ Done
  /\ \A t \in Threads :
       pc[t] \in {"wait_slow", "ulock_wait"} => dte_value[t] = UINT32_MAX \/ Done

LEMMA InitInv == Init => IInv
  BY SMTT(30), MaxValue, PredicateWords
     DEF Init, EventInit, IInv, TypeOK, EventTypeOK, PCs, Waiting, Running, IsOwner, Done

LEMMA NextInv == IInv /\ [Next]_vars => IInv'
<1> SUFFICES ASSUME IInv, [Next]_vars PROVE IInv'
  OBVIOUS
<1> USE MaxValue, PredicateWords
    DEF TypeOK, EventTypeOK, PCs, Waiting, Running, IsOwner, Done, At, Goto
<1>1. CASE UNCHANGED vars
  BY <1>1 DEF IInv, vars, event_vars, frame_vars
<1>2. ASSUME NEW t \in Threads, _dispatch_once(t) PROVE IInv'
  BY SMTT(30), <1>2 DEF IInv, _dispatch_once, event_vars
<1>3. ASSUME NEW t \in Threads, dispatch_once_f_slow(t) PROVE IInv'
  BY SMTT(30), <1>3 DEF IInv, dispatch_once_f_slow, event_vars, frame_vars
<1>4. ASSUME NEW t \in Threads, SetThread(t) PROVE IInv'
  BY SMTT(30), <1>4 DEF IInv, SetThread, event_vars
<1>5. ASSUME NEW t \in Threads, Callout(t) PROVE IInv'
  BY SMTT(30), <1>5 DEF IInv, Callout, event_vars, frame_vars
<1>6. ASSUME NEW t \in Threads, _dispatch_once_xchg_done(t) PROVE IInv'
  BY SMTT(30), <1>6 DEF IInv, _dispatch_once_xchg_done, event_vars
<1>7. ASSUME NEW t \in Threads, PopWaiter(t) PROVE IInv'
  BY SMTT(30), <1>7 DEF IInv, PopWaiter, event_vars
<1>8. ASSUME NEW t \in Threads, _dispatch_thread_event_signal(t) PROVE IInv'
  BY SMTT(30), <1>8 DEF IInv, _dispatch_thread_event_signal, event_inc, AfterSignal, frame_vars
<1>9. ASSUME NEW t \in Threads, _dispatch_thread_event_signal_slow(t) PROVE IInv'
  BY SMTT(30), <1>9
     DEF IInv, _dispatch_thread_event_signal_slow, event_wake, AfterSignal, frame_vars
<1>10. ASSUME NEW t \in Threads, InitEvent(t) PROVE IInv'
  BY SMTT(30), <1>10 DEF IInv, InitEvent, event_init
<1>11. ASSUME NEW t \in Threads, PushWaiter(t) PROVE IInv'
  BY SMTT(30), <1>11 DEF IInv, PushWaiter, event_vars
<1>12. ASSUME NEW t \in Threads, CopyThread(t) PROVE IInv'
  BY SMTT(30), <1>12 DEF IInv, CopyThread, event_vars
<1>13. ASSUME NEW t \in Threads, LinkRecord(t) PROVE IInv'
  BY SMTT(30), <1>13 DEF IInv, LinkRecord, event_vars
<1>14. ASSUME NEW t \in Threads, _dispatch_thread_override_start(t) PROVE IInv'
  BY SMTT(30), <1>14 DEF IInv, _dispatch_thread_override_start, event_vars, frame_vars
<1>15. ASSUME NEW t \in Threads, _dispatch_thread_event_wait(t) PROVE IInv'
  BY SMTT(30), <1>15
     DEF IInv, _dispatch_thread_event_wait, event_dec, event_signalled, AfterWait,
     frame_vars
<1>16. ASSUME NEW t \in Threads, _dispatch_thread_event_wait_slow(t) PROVE IInv'
  BY SMTT(30), <1>16
     DEF IInv, _dispatch_thread_event_wait_slow, AfterWait, event_vars, frame_vars
<1>17. ASSUME NEW t \in Threads, _dispatch_ulock_wait(t) PROVE IInv'
  BY SMTT(30), <1>17 DEF IInv, _dispatch_ulock_wait, event_sleep, frame_vars
<1>18. ASSUME NEW t \in Threads, SpuriousWakeup(t) PROVE IInv'
  BY <1>18 DEF IInv, SpuriousWakeup, event_spurious, frame_vars
<1>19. ASSUME NEW t \in Threads, _dispatch_thread_override_end(t) PROVE IInv'
  BY SMTT(30), <1>19 DEF IInv, _dispatch_thread_override_end, event_vars, frame_vars
<1>20. ASSUME NEW t \in Threads, _dispatch_thread_event_destroy(t) PROVE IInv'
  BY SMTT(30), <1>20 DEF IInv, _dispatch_thread_event_destroy, event_vars, frame_vars
<1> QED
  BY <1>1, <1>2, <1>3, <1>4, <1>5, <1>6, <1>7, <1>8, <1>9, <1>10, <1>11, <1>12, <1>13,
     <1>14, <1>15, <1>16, <1>17, <1>18, <1>19, <1>20 DEF Next, Step

LEMMA Invariance == Spec => []IInv
  BY InitInv, NextInv, PTL DEF Spec

(* The predicate, the records, the events and the program counters always    *)
(* have their types (OnceList): no null record is followed or signalled.     *)
THEOREM TypeCorrect == Spec => []TypeOK
<1>1. IInv => TypeOK
  BY DEF IInv
<1> QED
  BY Invariance, <1>1, PTL

-----------------------------------------------------------------------------
LEMMA RefinementStep == IInv /\ [Next]_vars => [Abstract!OnceNext]_(Abstract!once_vars)
<1> SUFFICES ASSUME IInv, [Next]_vars
             PROVE  Abstract!OnceNext \/ UNCHANGED Abstract!once_vars
  OBVIOUS
<1> DEFINE inside == {t \in Threads : pc[t] # "idle"}
<1> USE MaxValue, PredicateWords
    DEF IInv, TypeOK, EventTypeOK, PCs, Waiting, Running, IsOwner, Done, At, Goto,
        Abstract!once_vars
<1>1. CASE UNCHANGED vars
  BY <1>1 DEF vars
<1>2. ASSUME NEW t \in Threads, _dispatch_once(t) PROVE Abstract!Enter(t)
  BY SMTT(30), <1>2 DEF _dispatch_once, Abstract!Enter
<1>3. ASSUME NEW t \in Threads, dispatch_once_f_slow(t)
      PROVE  Abstract!Begin \/ UNCHANGED Abstract!once_vars
  <2>1. inside' = inside
    BY SMTT(30), <1>3 DEF dispatch_once_f_slow
  <2>2. CASE val = NULL
    BY <1>3, <2>1, <2>2 DEF dispatch_once_f_slow, Abstract!Begin
  <2>3. CASE val # NULL
    BY <1>3, <2>1, <2>3 DEF dispatch_once_f_slow
  <2> QED
    BY <2>2, <2>3
<1>4. ASSUME NEW t \in Threads, Callout(t) PROVE Abstract!End
  BY <1>4 DEF Callout, Abstract!End
<1>5. ASSUME NEW t \in Threads, _dispatch_once_xchg_done(t)
      PROVE  Abstract!Return(t) \/ UNCHANGED Abstract!once_vars
  BY <1>5 DEF _dispatch_once_xchg_done, Abstract!Return
<1>6. ASSUME NEW t \in Threads,
             _dispatch_thread_event_signal(t) \/ _dispatch_thread_event_signal_slow(t)
      PROVE  Abstract!Return(t) \/ UNCHANGED Abstract!once_vars
  BY SMTT(30), <1>6 DEF _dispatch_thread_event_signal, _dispatch_thread_event_signal_slow,
     AfterSignal, Abstract!Return
<1>7. ASSUME NEW t \in Threads, PushWaiter(t) PROVE UNCHANGED Abstract!once_vars
  BY SMTT(30), <1>7 DEF PushWaiter
<1>8. ASSUME NEW t \in Threads, _dispatch_thread_event_destroy(t) PROVE Abstract!Return(t)
  BY <1>8 DEF _dispatch_thread_event_destroy, Abstract!Return
<1>9. ASSUME NEW t \in Threads,
             SetThread(t) \/ PopWaiter(t) \/ InitEvent(t) \/ CopyThread(t) \/ LinkRecord(t)
      PROVE  UNCHANGED Abstract!once_vars
  BY SMTT(30), <1>9 DEF SetThread, PopWaiter, InitEvent, CopyThread, LinkRecord
<1>10. ASSUME NEW t \in Threads,
              \/ _dispatch_thread_override_start(t) \/ _dispatch_thread_override_end(t)
              \/ _dispatch_thread_event_wait(t) \/ _dispatch_thread_event_wait_slow(t)
              \/ _dispatch_ulock_wait(t) \/ SpuriousWakeup(t)
       PROVE  UNCHANGED Abstract!once_vars
  BY SMTT(30), <1>10 DEF _dispatch_thread_override_start, _dispatch_thread_override_end,
     _dispatch_thread_event_wait, _dispatch_thread_event_wait_slow, _dispatch_ulock_wait,
     SpuriousWakeup, AfterWait
<1> QED
  BY <1>1, <1>2, <1>3, <1>4, <1>5, <1>6, <1>7, <1>8, <1>9, <1>10
     DEF Next, Step, Abstract!OnceNext

(* dispatch_once on a list of waiters runs the block once and lets nobody    *)
(* return before it has run: the list implements module Once.                *)
THEOREM ListImplementsOnce == Spec => ImplementsOnce
<1>1. Init => Abstract!OnceInit
  BY PredicateWords DEF Init, Abstract!OnceInit
<1> QED
  BY <1>1, Invariance, RefinementStep, PTL DEF Spec, ImplementsOnce, Abstract!OnceSpec

-----------------------------------------------------------------------------
(* The list.  A record is unsignalled while the increment of its event is    *)
(* still to come, listed while no thread is about to make that increment.    *)
Unsignalled(u) ==
  \/ /\ pc[u] \in {"copy_thread", "link", "override", "event_wait"}
     /\ dte_value[u] = 0
  \/ pc[u] \in {"wait_slow", "ulock_wait"} /\ dte_value[u] = UINT32_MAX
Listed(u) ==
  Unsignalled(u) /\ \A r \in Threads : pc[r] = "signal" => event[r] # u

\* The link of a record, in the waiter's local until it is stored.
Link(u) == IF pc[u] \in {"copy_thread", "link"} THEN next[u] ELSE dow_next[u]

\* What a pointer of the list may refer to: a listed record or the tail.
Target(x) == x \in Threads /\ (Listed(x) \/ pc[x] \in Running)

\* The event of t where t is, and the one that t is about to signal.
EventOK(t) ==
  /\ pc[t] \in {"cas", "copy_thread", "link", "override_end", "destroy"} => dte_value[t] = 0
  /\ pc[t] \in {"override", "event_wait"} => dte_value[t] \in {0, 1}
  /\ pc[t] \in {"wait_slow", "ulock_wait"} => dte_value[t] \in {0, UINT32_MAX}
SignalOK(t) ==
  pc[t] = "signal" => Unsignalled(event[t]) /\ pc[event[t]] \notin {"copy_thread", "link"}
Events == \A t \in Threads : EventOK(t) /\ SignalOK(t)

RecordOK(t) ==
  /\ pc[t] \in {"tryenter", "init", "cas", "copy_thread", "link"} => dow_next[t] = NULL
  /\ pc[t] \in {"override", "event_wait", "wait_slow", "ulock_wait"} => dow_next[t] # NULL
Records == \A t \in Threads : RecordOK(t)

OneRunner ==
  \A t, u \in Threads : pc[t] \in Running /\ pc[u] \in Running => t = u

\* The runner has made the exchange and walks along the list.
Walking == {"pop", "signal", "signal_slow"}

(* The pointers (the predicate, the links of the listed records and the      *)
(* runner's next) reach listed records or the tail, no two the same one.     *)
Chain ==
  /\ val \in Threads => Target(val)
  /\ \A u \in Threads : Listed(u) => Target(Link(u)) /\ Link(u) # val
  /\ \A u, w \in Threads : Listed(u) /\ Listed(w) /\ Link(u) = Link(w) => u = w
  /\ \A t \in Threads : pc[t] \in Walking =>
       /\ Target(next[t]) /\ \A u \in Threads : Listed(u) => Link(u) # next[t]
       /\ pc[t] = "pop" => next[t] # t

Boosts ==
  /\ \A t \in overrides :
       /\ pc[t] \in {"event_wait", "wait_slow", "ulock_wait", "override_end"}
       /\ dow_thread[t] # NULL
  /\ \A t \in Threads : pc[t] = "override" => dow_thread[t] # NULL
  /\ \A t, u \in Threads :
       dow_thread[t] # NULL /\ dow_thread[u] # NULL => dow_thread[t] = dow_thread[u]
  /\ (val = NULL \/ \E t \in Threads : pc[t] = "set_thread")
       => \A u \in Threads : dow_thread[u] = NULL

ListInv ==
  crashed = "no" /\ Events /\ Records /\ OneRunner /\ Chain /\ Boosts

\* The list is empty before the first call.
LEMMA ListInit == Init => ListInv
  BY MaxValue, PredicateWords
     DEF Init, EventInit, ListInv, Events, EventOK, SignalOK, Records, RecordOK, OneRunner,
         Chain, Boosts, Target, Link, Listed, Unsignalled, Running, Walking

-----------------------------------------------------------------------------
\* What a step of t leaves to the others.
Elsewhere(t) ==
  \A u \in Threads \ {t} :
    /\ pc'[u] = pc[u] /\ dte_value'[u] = dte_value[u] /\ dow_next'[u] = dow_next[u]
    /\ next'[u] = next[u] /\ event'[u] = event[u]

(* A step of t that touches no pointer of the list: neither its record comes *)
(* or goes, nor does t walk along the list.                                  *)
LEMMA PlainStep ==
  ASSUME NEW t \in Threads, IInv, ListInv, Elsewhere(t), val' = val,
         EventOK(t)', RecordOK(t)', Unsignalled(t)' <=> Unsignalled(t),
         Unsignalled(t) => Link(t)' = Link(t),
         pc'[t] \in Running <=> pc[t] \in Running,
         pc[t] \notin Walking, pc'[t] \notin Walking,
         pc'[t] \in {"copy_thread", "link"} => pc[t] \in {"copy_thread", "link"}
  PROVE  Events' /\ Records' /\ OneRunner' /\ Chain'
<1>1. Events /\ Records /\ OneRunner /\ Chain
  BY DEF ListInv
<1>2. \A r \in Threads : pc'[r] = "signal" =>
        r # t /\ pc[r] = "signal" /\ event'[r] = event[r] /\ event[r] \in Threads
  BY DEF Elsewhere, Walking, IInv
<1>3. \A u \in Threads : Unsignalled(u)' <=> Unsignalled(u)
  BY DEF Elsewhere, Unsignalled
<1>4. \A u \in Threads : Listed(u)' <=> Listed(u)
  BY <1>2, <1>3 DEF Elsewhere, Listed, Walking
<1>5. \A u \in Threads : Listed(u) => Link(u)' = Link(u)
  BY DEF Elsewhere, Listed, Link
<1>6. \A x : Target(x)' <=> Target(x)
  BY <1>4 DEF Elsewhere, Target
<1>7. \A r \in Threads : pc'[r] \in Walking => pc'[r] = pc[r] /\ next'[r] = next[r]
  BY DEF Elsewhere
<1>8. Chain'
  BY SMTT(30), <1>1, <1>4, <1>5, <1>6, <1>7 DEF Chain
<1>9. \A u \in Threads : EventOK(u)' /\ RecordOK(u)'
  BY SMTT(30), <1>1 DEF Events, Records, EventOK, RecordOK, Elsewhere
<1>10. \A r \in Threads : SignalOK(r)'
  BY SMTT(30), <1>1, <1>2, <1>3 DEF Events, SignalOK, Elsewhere
<1>11. OneRunner'
  BY <1>1 DEF OneRunner, Elsewhere
<1> QED
  BY <1>8, <1>9, <1>10, <1>11 DEF Events, Records

\* A step of t that neither copies the runner nor begins or ends a boost.
LEMMA BoostsKept ==
  ASSUME NEW t \in Threads, ListInv, \A u \in Threads \ {t} : pc'[u] = pc[u],
         UNCHANGED <<dow_thread, overrides>>, val' = NULL => val = NULL,
         t \in overrides => pc'[t] \in {"event_wait", "wait_slow", "ulock_wait", "override_end"},
         pc'[t] = "override" => dow_thread[t] # NULL, pc'[t] # "set_thread",
         overrides \subseteq Threads
  PROVE  Boosts'
  BY DEF ListInv, Boosts

-----------------------------------------------------------------------------
\* The types, and what the invariants say of one thread.
LEMMA Typed ==
  ASSUME IInv
  PROVE  /\ pc \in [Threads -> PCs] /\ dte_value \in [Threads -> 0..UINT32_MAX]
         /\ dow_next \in [Threads -> Threads \cup {NULL}]
         /\ dow_thread \in [Threads -> Threads \cup {NULL}]
         /\ next \in [Threads -> Threads \cup {NULL, DISPATCH_ONCE_DONE}]
         /\ event \in [Threads -> Threads \cup {NULL}]
         /\ val \in Threads \cup {NULL, DISPATCH_ONCE_DONE} /\ overrides \subseteq Threads
  BY DEF IInv, TypeOK, EventTypeOK

LEMMA Own ==
  ASSUME ListInv, NEW t \in Threads
  PROVE  crashed = "no" /\ EventOK(t) /\ RecordOK(t)
  BY DEF ListInv, Events, Records

\* dow.dow_thread = next->dow_thread; the record it copies from is in the list.
LEMMA CopyStep ==
  ASSUME IInv, ListInv, NEW t \in Threads, CopyThread(t)
  PROVE  ListInv'
<1>1. Elsewhere(t) /\ val' = val /\ crashed' = "no"
  BY Typed, Own DEF CopyThread, At, Goto, event_vars, Elsewhere, EventOK
<1>2. /\ EventOK(t)' /\ RecordOK(t)' /\ (Unsignalled(t)' <=> Unsignalled(t))
      /\ Unsignalled(t) => Link(t)' = Link(t)
  BY Typed, Own, MaxValue, PredicateWords
     DEF CopyThread, At, Goto, event_vars, EventOK, RecordOK, Unsignalled, Link, IInv
<1>3. /\ pc'[t] \in Running <=> pc[t] \in Running
      /\ pc[t] \notin Walking /\ pc'[t] \notin Walking
      /\ pc'[t] \in {"copy_thread", "link"} => pc[t] \in {"copy_thread", "link"}
  BY Typed DEF CopyThread, At, Goto, event_vars, Running, Walking
<1>4. Boosts'
  <2>1. next[t] \in Threads
    BY DEF CopyThread, At, IInv
  <2> QED
    BY <2>1, Typed, PredicateWords DEF CopyThread, At, Goto, event_vars, ListInv, Boosts
<1> QED
  BY <1>1, <1>2, <1>3, <1>4, PlainStep DEF ListInv

\* A call begins with a record of its own.
LEMMA OnceStep ==
  ASSUME IInv, ListInv, NEW t \in Threads, _dispatch_once(t)
  PROVE  ListInv'
<1>1. Elsewhere(t) /\ val' = val /\ crashed' = "no"
  BY Typed, Own DEF _dispatch_once, At, Goto, event_vars, Elsewhere, EventOK
<1>2. /\ EventOK(t)' /\ RecordOK(t)' /\ (Unsignalled(t)' <=> Unsignalled(t))
      /\ Unsignalled(t) => Link(t)' = Link(t)
  BY Typed, Own, MaxValue, PredicateWords
     DEF _dispatch_once, At, Goto, event_vars, EventOK, RecordOK, Unsignalled, Link, IInv
<1>3. /\ pc'[t] \in Running <=> pc[t] \in Running
      /\ pc[t] \notin Walking /\ pc'[t] \notin Walking
      /\ pc'[t] \in {"copy_thread", "link"} => pc[t] \in {"copy_thread", "link"}
  BY Typed DEF _dispatch_once, At, Goto, event_vars, Running, Walking
<1>4. Boosts'
  BY Typed, PredicateWords DEF _dispatch_once, At, Goto, event_vars, ListInv, Boosts
<1> QED
  BY <1>1, <1>2, <1>3, <1>4, PlainStep DEF ListInv

\* The runner names itself in its record.
LEMMA SetThreadStep ==
  ASSUME IInv, ListInv, NEW t \in Threads, SetThread(t)
  PROVE  ListInv'
<1>1. Elsewhere(t) /\ val' = val /\ crashed' = "no"
  BY Typed, Own DEF SetThread, At, Goto, event_vars, Elsewhere, EventOK
<1>2. /\ EventOK(t)' /\ RecordOK(t)' /\ (Unsignalled(t)' <=> Unsignalled(t))
      /\ Unsignalled(t) => Link(t)' = Link(t)
  BY Typed, Own, MaxValue, PredicateWords
     DEF SetThread, At, Goto, event_vars, EventOK, RecordOK, Unsignalled, Link, IInv
<1>3. /\ pc'[t] \in Running <=> pc[t] \in Running
      /\ pc[t] \notin Walking /\ pc'[t] \notin Walking
      /\ pc'[t] \in {"copy_thread", "link"} => pc[t] \in {"copy_thread", "link"}
  BY Typed DEF SetThread, At, Goto, event_vars, Running, Walking
<1>4. Boosts'
  <2>1. val \in Threads /\ \A u \in Threads : pc'[u] # "set_thread"
    BY Typed DEF SetThread, At, Goto, IInv, IsOwner
  <2> QED
    BY <2>1, Typed, PredicateWords DEF SetThread, At, Goto, event_vars, ListInv, Boosts
<1> QED
  BY <1>1, <1>2, <1>3, <1>4, PlainStep DEF ListInv

\* The block returns.
LEMMA CalloutStep ==
  ASSUME IInv, ListInv, NEW t \in Threads, Callout(t)
  PROVE  ListInv'
<1>1. Elsewhere(t) /\ val' = val /\ crashed' = "no"
  BY Typed, Own DEF Callout, At, Goto, event_vars, frame_vars, Elsewhere, EventOK
<1>2. /\ EventOK(t)' /\ RecordOK(t)' /\ (Unsignalled(t)' <=> Unsignalled(t))
      /\ Unsignalled(t) => Link(t)' = Link(t)
  BY Typed, Own, MaxValue, PredicateWords
     DEF Callout, At, Goto, event_vars, frame_vars, EventOK, RecordOK, Unsignalled, Link, IInv
<1>3. /\ pc'[t] \in Running <=> pc[t] \in Running
      /\ pc[t] \notin Walking /\ pc'[t] \notin Walking
      /\ pc'[t] \in {"copy_thread", "link"} => pc[t] \in {"copy_thread", "link"}
  BY Typed DEF Callout, At, Goto, event_vars, frame_vars, Running, Walking
<1>4. Boosts'
  BY SMTT(30), Typed, BoostsKept DEF Callout, At, Goto, event_vars, frame_vars, ListInv, Boosts
<1> QED
  BY <1>1, <1>2, <1>3, <1>4, PlainStep DEF ListInv

\* A waiter prepares its event and loads the predicate.
LEMMA InitEventStep ==
  ASSUME IInv, ListInv, NEW t \in Threads, InitEvent(t)
  PROVE  ListInv'
<1>1. Elsewhere(t) /\ val' = val /\ crashed' = "no"
  BY Typed, Own DEF InitEvent, At, Goto, event_init, Elsewhere, EventOK
<1>2. /\ EventOK(t)' /\ RecordOK(t)' /\ (Unsignalled(t)' <=> Unsignalled(t))
      /\ Unsignalled(t) => Link(t)' = Link(t)
  BY Typed, Own, MaxValue, PredicateWords
     DEF InitEvent, At, Goto, event_init, EventOK, RecordOK, Unsignalled, Link, IInv
<1>3. /\ pc'[t] \in Running <=> pc[t] \in Running
      /\ pc[t] \notin Walking /\ pc'[t] \notin Walking
      /\ pc'[t] \in {"copy_thread", "link"} => pc[t] \in {"copy_thread", "link"}
  BY Typed DEF InitEvent, At, Goto, event_init, Running, Walking
<1>4. Boosts'
  BY SMTT(30), Typed, BoostsKept DEF InitEvent, At, Goto, event_init, ListInv, Boosts
<1> QED
  BY <1>1, <1>2, <1>3, <1>4, PlainStep DEF ListInv

\* dow.dow_next = next; until now the link was in the local variable.
LEMMA LinkStep ==
  ASSUME IInv, ListInv, NEW t \in Threads, LinkRecord(t)
  PROVE  ListInv'
<1>1. Elsewhere(t) /\ val' = val /\ crashed' = "no"
  BY Typed, Own DEF LinkRecord, At, Goto, event_vars, Elsewhere, EventOK
<1>2. /\ EventOK(t)' /\ RecordOK(t)' /\ (Unsignalled(t)' <=> Unsignalled(t))
      /\ Unsignalled(t) => Link(t)' = Link(t)
  BY Typed, Own, MaxValue, PredicateWords
     DEF LinkRecord, At, Goto, event_vars, EventOK, RecordOK, Unsignalled, Link, IInv
<1>3. /\ pc'[t] \in Running <=> pc[t] \in Running
      /\ pc[t] \notin Walking /\ pc'[t] \notin Walking
      /\ pc'[t] \in {"copy_thread", "link"} => pc[t] \in {"copy_thread", "link"}
  BY Typed DEF LinkRecord, At, Goto, event_vars, Running, Walking
<1>4. Boosts'
  BY SMTT(30), Typed, BoostsKept DEF LinkRecord, At, Goto, event_vars, ListInv, Boosts
<1> QED
  BY <1>1, <1>2, <1>3, <1>4, PlainStep DEF ListInv

\* A boost begins.
LEMMA OverrideStep ==
  ASSUME IInv, ListInv, NEW t \in Threads, _dispatch_thread_override_start(t)
  PROVE  ListInv'
<1>1. Elsewhere(t) /\ val' = val /\ crashed' = "no"
  BY Typed, Own
     DEF _dispatch_thread_override_start, At, Goto, event_vars, frame_vars, Elsewhere, EventOK
<1>2. /\ EventOK(t)' /\ RecordOK(t)' /\ (Unsignalled(t)' <=> Unsignalled(t))
      /\ Unsignalled(t) => Link(t)' = Link(t)
  BY Typed, Own, MaxValue, PredicateWords
     DEF _dispatch_thread_override_start, At, Goto, event_vars, frame_vars, EventOK, RecordOK,
         Unsignalled, Link, IInv
<1>3. /\ pc'[t] \in Running <=> pc[t] \in Running
      /\ pc[t] \notin Walking /\ pc'[t] \notin Walking
      /\ pc'[t] \in {"copy_thread", "link"} => pc[t] \in {"copy_thread", "link"}
  BY Typed
     DEF _dispatch_thread_override_start, At, Goto, event_vars, frame_vars, Running, Walking
<1>4. Boosts'
  BY SMTT(30), Typed, PredicateWords
     DEF _dispatch_thread_override_start, At, Goto, event_vars, frame_vars, ListInv, Boosts
<1> QED
  BY <1>1, <1>2, <1>3, <1>4, PlainStep DEF ListInv

\* The waiter decrements its event.
LEMMA WaitStep ==
  ASSUME IInv, ListInv, NEW t \in Threads, _dispatch_thread_event_wait(t)
  PROVE  ListInv'
<1>1. Elsewhere(t) /\ val' = val /\ crashed' = "no"
  BY Typed, Own
     DEF _dispatch_thread_event_wait, At, Goto, event_dec, event_signalled, AfterWait,
         frame_vars, Elsewhere, EventOK
<1>2. /\ EventOK(t)' /\ RecordOK(t)' /\ (Unsignalled(t)' <=> Unsignalled(t))
      /\ Unsignalled(t) => Link(t)' = Link(t)
  BY SMTT(30), Typed, Own, MaxValue, PredicateWords
     DEF _dispatch_thread_event_wait, At, Goto, event_dec, event_signalled, AfterWait,
         frame_vars, EventOK, RecordOK, Unsignalled, Link, IInv
<1>3. /\ pc'[t] \in Running <=> pc[t] \in Running
      /\ pc[t] \notin Walking /\ pc'[t] \notin Walking
      /\ pc'[t] \in {"copy_thread", "link"} => pc[t] \in {"copy_thread", "link"}
  BY Typed
     DEF _dispatch_thread_event_wait, At, Goto, event_dec, event_signalled, AfterWait,
         frame_vars, Running, Walking
<1>4. Boosts'
  BY SMTT(30), Typed, BoostsKept
     DEF _dispatch_thread_event_wait, At, Goto, event_dec, event_signalled, AfterWait,
         frame_vars, ListInv, Boosts
<1> QED
  BY <1>1, <1>2, <1>3, <1>4, PlainStep DEF ListInv

\* The waiter looks at its event again.
LEMMA WaitSlowStep ==
  ASSUME IInv, ListInv, NEW t \in Threads, _dispatch_thread_event_wait_slow(t)
  PROVE  ListInv'
<1>1. Elsewhere(t) /\ val' = val /\ crashed' = "no"
  BY Typed, Own
     DEF _dispatch_thread_event_wait_slow, At, Goto, AfterWait, event_vars, frame_vars,
         Elsewhere, EventOK
<1>2. /\ EventOK(t)' /\ RecordOK(t)' /\ (Unsignalled(t)' <=> Unsignalled(t))
      /\ Unsignalled(t) => Link(t)' = Link(t)
  BY SMTT(30), Typed, Own, MaxValue, PredicateWords
     DEF _dispatch_thread_event_wait_slow, At, Goto, AfterWait, event_vars, frame_vars,
         EventOK, RecordOK, Unsignalled, Link, IInv
<1>3. /\ pc'[t] \in Running <=> pc[t] \in Running
      /\ pc[t] \notin Walking /\ pc'[t] \notin Walking
      /\ pc'[t] \in {"copy_thread", "link"} => pc[t] \in {"copy_thread", "link"}
  BY Typed
     DEF _dispatch_thread_event_wait_slow, At, Goto, AfterWait, event_vars, frame_vars,
         Running, Walking
<1>4. Boosts'
  BY SMTT(30), Typed, BoostsKept
     DEF _dispatch_thread_event_wait_slow, At, Goto, AfterWait, event_vars, frame_vars,
         ListInv, Boosts
<1> QED
  BY <1>1, <1>2, <1>3, <1>4, PlainStep DEF ListInv

\* The waiter goes to sleep.
LEMMA SleepStep ==
  ASSUME IInv, ListInv, NEW t \in Threads, _dispatch_ulock_wait(t)
  PROVE  ListInv'
<1>1. Elsewhere(t) /\ val' = val /\ crashed' = "no"
  BY Typed, Own DEF _dispatch_ulock_wait, At, Goto, event_sleep, frame_vars, Elsewhere, EventOK
<1>2. /\ EventOK(t)' /\ RecordOK(t)' /\ (Unsignalled(t)' <=> Unsignalled(t))
      /\ Unsignalled(t) => Link(t)' = Link(t)
  BY Typed, Own, MaxValue, PredicateWords
     DEF _dispatch_ulock_wait, At, Goto, event_sleep, frame_vars, EventOK, RecordOK,
         Unsignalled, Link, IInv
<1>3. /\ pc'[t] \in Running <=> pc[t] \in Running
      /\ pc[t] \notin Walking /\ pc'[t] \notin Walking
      /\ pc'[t] \in {"copy_thread", "link"} => pc[t] \in {"copy_thread", "link"}
  BY Typed DEF _dispatch_ulock_wait, At, Goto, event_sleep, frame_vars, Running, Walking
<1>4. Boosts'
  BY SMTT(30), Typed, BoostsKept
     DEF _dispatch_ulock_wait, At, Goto, event_sleep, frame_vars, ListInv, Boosts
<1> QED
  BY <1>1, <1>2, <1>3, <1>4, PlainStep DEF ListInv

\* The kernel wakes it without a signal.
LEMMA SpuriousStep ==
  ASSUME IInv, ListInv, NEW t \in Threads, SpuriousWakeup(t)
  PROVE  ListInv'
<1>1. Elsewhere(t) /\ val' = val /\ crashed' = "no"
  BY Typed, Own DEF SpuriousWakeup, At, Goto, event_spurious, frame_vars, Elsewhere, EventOK
<1>2. /\ EventOK(t)' /\ RecordOK(t)' /\ (Unsignalled(t)' <=> Unsignalled(t))
      /\ Unsignalled(t) => Link(t)' = Link(t)
  BY Typed, Own, MaxValue, PredicateWords
     DEF SpuriousWakeup, At, Goto, event_spurious, frame_vars, EventOK, RecordOK, Unsignalled,
         Link, IInv
<1>3. /\ pc'[t] \in Running <=> pc[t] \in Running
      /\ pc[t] \notin Walking /\ pc'[t] \notin Walking
      /\ pc'[t] \in {"copy_thread", "link"} => pc[t] \in {"copy_thread", "link"}
  BY Typed DEF SpuriousWakeup, At, Goto, event_spurious, frame_vars, Running, Walking
<1>4. Boosts'
  BY Typed, BoostsKept
     DEF SpuriousWakeup, At, Goto, event_spurious, frame_vars, ListInv, Boosts
<1> QED
  BY <1>1, <1>2, <1>3, <1>4, PlainStep DEF ListInv

\* A boost ends.
LEMMA OverrideEndStep ==
  ASSUME IInv, ListInv, NEW t \in Threads, _dispatch_thread_override_end(t)
  PROVE  ListInv'
<1>1. Elsewhere(t) /\ val' = val /\ crashed' = "no"
  BY Typed, Own
     DEF _dispatch_thread_override_end, At, Goto, event_vars, frame_vars, Elsewhere, EventOK
<1>2. /\ EventOK(t)' /\ RecordOK(t)' /\ (Unsignalled(t)' <=> Unsignalled(t))
      /\ Unsignalled(t) => Link(t)' = Link(t)
  BY Typed, Own, MaxValue, PredicateWords
     DEF _dispatch_thread_override_end, At, Goto, event_vars, frame_vars, EventOK, RecordOK,
         Unsignalled, Link, IInv
<1>3. /\ pc'[t] \in Running <=> pc[t] \in Running
      /\ pc[t] \notin Walking /\ pc'[t] \notin Walking
      /\ pc'[t] \in {"copy_thread", "link"} => pc[t] \in {"copy_thread", "link"}
  BY Typed
     DEF _dispatch_thread_override_end, At, Goto, event_vars, frame_vars, Running, Walking
<1>4. Boosts'
  BY Typed, PredicateWords
     DEF _dispatch_thread_override_end, At, Goto, event_vars, frame_vars, ListInv, Boosts
<1> QED
  BY <1>1, <1>2, <1>3, <1>4, PlainStep DEF ListInv

\* A waiter returns; its event is final.
LEMMA DestroyStep ==
  ASSUME IInv, ListInv, NEW t \in Threads, _dispatch_thread_event_destroy(t)
  PROVE  ListInv'
<1>1. Elsewhere(t) /\ val' = val /\ crashed' = "no"
  BY Typed, Own
     DEF _dispatch_thread_event_destroy, At, Goto, event_vars, frame_vars, Elsewhere, EventOK
<1>2. /\ EventOK(t)' /\ RecordOK(t)' /\ (Unsignalled(t)' <=> Unsignalled(t))
      /\ Unsignalled(t) => Link(t)' = Link(t)
  BY Typed, Own, MaxValue, PredicateWords
     DEF _dispatch_thread_event_destroy, At, Goto, event_vars, frame_vars, EventOK, RecordOK,
         Unsignalled, Link, IInv
<1>3. /\ pc'[t] \in Running <=> pc[t] \in Running
      /\ pc[t] \notin Walking /\ pc'[t] \notin Walking
      /\ pc'[t] \in {"copy_thread", "link"} => pc[t] \in {"copy_thread", "link"}
  BY Typed
     DEF _dispatch_thread_event_destroy, At, Goto, event_vars, frame_vars, Running, Walking
<1>4. Boosts'
  BY SMTT(30), Typed, BoostsKept
     DEF _dispatch_thread_event_destroy, At, Goto, event_vars, frame_vars, ListInv, Boosts
<1> QED
  BY <1>1, <1>2, <1>3, <1>4, PlainStep DEF ListInv

-----------------------------------------------------------------------------
\* What the pointers of the list reach, thread by thread.
LEMMA Pointers ==
  ASSUME ListInv, NEW u \in Threads
  PROVE  /\ Listed(u) => Target(Link(u)) /\ Link(u) \in Threads /\ Link(u) # val
         /\ val \in Threads => Target(val)
         /\ pc[u] \in Walking => Target(next[u]) /\ next[u] \in Threads
  BY DEF ListInv, Chain, Target

\* Nobody else runs while t does, and a listed record is not a runner's.
LEMMA Alone ==
  ASSUME ListInv, NEW t \in Threads, pc[t] \in Running
  PROVE  /\ \A u \in Threads \ {t} : pc[u] \notin Running
         /\ \A u \in Threads : Listed(u) => u # t
  BY DEF ListInv, OneRunner, Listed, Unsignalled, Running

\* The first thread to come takes the predicate: the list is its own record.
LEMMA EnterStep ==
  ASSUME IInv, ListInv, NEW t \in Threads, dispatch_once_f_slow(t)
  PROVE  ListInv'
<1>1. /\ Elsewhere(t) /\ crashed' = "no" /\ pc[t] = "tryenter"
      /\ UNCHANGED <<dow_thread, overrides, dte_value, next, dow_next, event>>
  BY Typed, Own DEF dispatch_once_f_slow, At, Goto, event_vars, frame_vars, Elsewhere
<1>2. EventOK(t)' /\ RecordOK(t)' /\ ~Unsignalled(t) /\ ~Unsignalled(t)'
  BY Typed, Own
     DEF dispatch_once_f_slow, At, Goto, event_vars, frame_vars, EventOK, RecordOK, Unsignalled
<1>3. CASE val # NULL
  <2>1. val' = val /\ pc'[t] = "init"
    BY <1>3, Typed DEF dispatch_once_f_slow, Goto
  <2>2. Boosts'
    BY <1>1, <2>1, Typed, BoostsKept DEF Elsewhere, ListInv, Boosts
  <2> QED
    BY <1>1, <1>2, <2>1, <2>2, PlainStep DEF ListInv, Running, Walking
<1>4. CASE val = NULL
  <2>1. val' = t /\ pc'[t] = "set_thread"
    BY <1>4, Typed DEF dispatch_once_f_slow, Goto
  <2>2. \A u \in Threads : pc[u] \in {"idle", "tryenter"}
    BY <1>4, Typed, PredicateWords DEF IInv, IsOwner, Done, PCs, Waiting, Running
  <2>3. \A u \in Threads : u = t \/ pc'[u] \in {"idle", "tryenter"}
    BY <1>1, <2>2 DEF Elsewhere
  <2>4. \A u \in Threads : ~Listed(u)'
    BY <1>1, <1>2, <2>3 DEF Listed, Unsignalled
  <2>5. Chain'
    BY <2>1, <2>3, <2>4 DEF Chain, Target, Running, Walking
  <2>6. Events' /\ Records' /\ OneRunner'
    BY <1>1, <1>2, <2>1, <2>3, Own
    DEF Events, Records, OneRunner, EventOK, SignalOK, RecordOK, Running, Elsewhere
  <2>7. Boosts'
    BY <1>1, <1>4, <2>1, <2>2, <2>3, Typed, PredicateWords DEF ListInv, Boosts
  <2> QED
    BY <1>1, <2>5, <2>6, <2>7 DEF ListInv
<1> QED
  BY <1>3, <1>4

\* The exchange: the runner's next takes over what the predicate referred to.
LEMMA ExchangeStep ==
  ASSUME IInv, ListInv, NEW t \in Threads, _dispatch_once_xchg_done(t)
  PROVE  ListInv'
<1>1. /\ Elsewhere(t) /\ crashed' = "no" /\ pc[t] = "xchg_done" /\ val \in Threads
      /\ val' = DISPATCH_ONCE_DONE /\ pc'[t] = IF val = t THEN "idle" ELSE "pop"
      /\ UNCHANGED <<dow_thread, overrides, dte_value, dow_next, event>> /\ next'[t] = val
  BY Typed, Own
     DEF _dispatch_once_xchg_done, At, Goto, event_vars, Elsewhere, IInv, IsOwner
<1>2. /\ EventOK(t)' /\ RecordOK(t)' /\ SignalOK(t)' /\ ~Unsignalled(t) /\ ~Unsignalled(t)'
      /\ \A r \in Threads : pc[r] # "signal" /\ pc'[r] # "signal"
      /\ \A r \in Threads \ {t} : pc'[r] \notin Running
  BY <1>1, Alone DEF EventOK, SignalOK, RecordOK, Unsignalled, Elsewhere, Running
<1>3. \A u \in Threads : Listed(u)' <=> Listed(u)
  BY <1>1, <1>2 DEF Listed, Unsignalled, Elsewhere
<1>4. \A u \in Threads : Listed(u) => u # t /\ Link(u)' = Link(u)
  BY <1>1, <1>2 DEF Listed, Link, Elsewhere
<1>5. \A x : Target(x) /\ (x = t => val # t) => Target(x)'
  BY <1>1, <1>3 DEF Target, Elsewhere, Running
<1>6. /\ \A u \in Threads : Listed(u) => Link(u) \in Threads /\ Link(u) # val /\ Target(Link(u))
      /\ Target(val)
  BY <1>1, Pointers
<1>7. \A u \in Threads : Listed(u)' => Target(Link(u))'
  <2> SUFFICES ASSUME NEW u \in Threads, Listed(u) PROVE Target(Link(u))'
    BY <1>3
  <2>1. PICK x : x = Link(u)
    OBVIOUS
  <2> QED
    BY <1>4, <1>5, <1>6, <2>1
<1>8. Chain'
  <2>1. \A u, w \in Threads : Listed(u)' /\ Listed(w)' /\ Link(u)' = Link(w)' => u = w
    BY <1>3, <1>4 DEF ListInv, Chain
  <2>2. \A u \in Threads : Listed(u)' => Link(u)' # val
    BY <1>3, <1>4, <1>6
  <2>3. \A u \in Threads : Listed(u)' => Link(u)' # DISPATCH_ONCE_DONE
    BY <1>3, <1>4, <1>6, PredicateWords
  <2>4. pc'[t] \in Walking => val # t /\ Target(next[t])'
    <3> SUFFICES ASSUME pc'[t] \in Walking PROVE val # t /\ Target(next[t])'
      OBVIOUS
    <3>1. PICK x : x = val
      OBVIOUS
    <3> QED
      BY <1>1, <1>5, <1>6, <3>1 DEF Walking
  <2> QED
    BY <1>1, <1>2, <1>7, <2>1, <2>2, <2>3, <2>4, PredicateWords DEF Chain, Walking, Running
<1>9. Events' /\ Records' /\ OneRunner'
  BY <1>1, <1>2, Own
  DEF Events, Records, OneRunner, EventOK, SignalOK, RecordOK, Elsewhere
<1>10. Boosts'
  BY <1>1, Typed, PredicateWords, BoostsKept DEF Elsewhere, ListInv, Boosts
<1> QED
  BY <1>1, <1>8, <1>9, <1>10 DEF ListInv

\* The runner takes the record at the front off the list and follows its link.
LEMMA PopStep ==
  ASSUME IInv, ListInv, NEW t \in Threads, PopWaiter(t)
  PROVE  ListInv'
<1>1. /\ Elsewhere(t) /\ crashed' = "no" /\ pc[t] = "pop" /\ pc'[t] = "signal"
      /\ UNCHANGED <<dow_thread, overrides, dte_value, dow_next, val>>
      /\ event'[t] = next[t] /\ next'[t] = dow_next[next[t]] /\ dow_next[next[t]] # NULL
  BY Typed, Own DEF PopWaiter, At, Goto, event_vars, Elsewhere
<1>2. /\ next[t] \in Threads /\ next[t] # t /\ Target(next[t])
      /\ \A u \in Threads : Listed(u) => Link(u) # next[t]
  BY <1>1, Pointers DEF ListInv, Chain, Walking
<1>3. /\ EventOK(t)' /\ RecordOK(t)' /\ ~Unsignalled(t) /\ ~Unsignalled(t)'
      /\ \A r \in Threads \ {t} : pc[r] \notin Running /\ pc'[r] \notin Running
  BY <1>1, Alone DEF EventOK, RecordOK, Unsignalled, Elsewhere, Running
<1>4. /\ Listed(next[t]) /\ pc[next[t]] \notin {"copy_thread", "link"}
      /\ Link(next[t]) = dow_next[next[t]]
  <2>1. Listed(next[t])
    BY <1>2, <1>3 DEF Target
  <2>2. pc[next[t]] \notin {"copy_thread", "link"}
    BY <1>1, <1>2, Own DEF RecordOK
  <2> QED
    BY <2>1, <2>2 DEF Link
<1>5. \A u \in Threads : Unsignalled(u)' <=> Unsignalled(u)
  BY <1>1, <1>3 DEF Unsignalled, Elsewhere
<1>6. \A u \in Threads : Listed(u)' <=> Listed(u) /\ u # next[t]
  BY <1>1, <1>3, <1>5 DEF Listed, Elsewhere, Running
<1>7. \A u \in Threads : Listed(u) => u # t /\ Link(u)' = Link(u)
  BY <1>1, <1>3 DEF Listed, Link, Elsewhere
<1>8. \A x : Target(x) /\ x # next[t] => Target(x)'
  BY <1>1, <1>6 DEF Target, Elsewhere, Running
<1>9. \A u \in Threads : Listed(u) => Target(Link(u))'
  <2> SUFFICES ASSUME NEW u \in Threads, Listed(u) PROVE Target(Link(u))'
    OBVIOUS
  <2>1. PICK x : x = Link(u)
    OBVIOUS
  <2> QED
    BY <1>2, <1>7, <1>8, <2>1, Pointers
<1>10. Chain'
  <2>1. /\ \A u, w \in Threads : Listed(u)' /\ Listed(w)' /\ Link(u)' = Link(w)' => u = w
        /\ \A u \in Threads : Listed(u)' => Link(u)' # val /\ Link(u)' # next'[t]
    BY SMTT(30), <1>1, <1>2, <1>4, <1>6, <1>7 DEF ListInv, Chain
  <2>2. val \notin Threads
    BY <1>1, PredicateWords DEF IInv, Done
  <2>3. Target(next[t])'
    <3>1. PICK x : x = next'[t]
      OBVIOUS
    <3> QED
      BY <1>1, <1>2, <1>4, <1>7, <1>9, <3>1 DEF Target
  <2> QED
    BY <1>1, <1>3, <1>6, <1>9, <2>1, <2>2, <2>3 DEF Chain, Walking, Running
<1>11. Events' /\ Records' /\ OneRunner'
  <2>1. SignalOK(t)'
    BY <1>1, <1>2, <1>4, <1>5 DEF SignalOK, Listed, Elsewhere
  <2> QED
    BY <1>1, <1>3, <2>1, Own
    DEF Events, Records, OneRunner, EventOK, SignalOK, RecordOK, Elsewhere, Running
<1>12. Boosts'
  BY <1>1, Typed, BoostsKept DEF Elsewhere, ListInv, Boosts
<1> QED
  BY <1>1, <1>10, <1>11, <1>12 DEF ListInv

(* The runner signals, or wakes: the list stays, and the runner leaves when  *)
(* its pointer has come to its own record, which nobody else refers to.      *)
LEMMA WalkOn ==
  ASSUME IInv, ListInv, NEW t \in Threads, pc[t] \in Walking,
         pc'[t] \in {"signal_slow", AfterSignal(t)}, UNCHANGED <<val, next, dow_next>>,
         \A u \in Threads \ {t} : pc'[u] = pc[u],
         \A u \in Threads : Listed(u)' <=> Listed(u)
  PROVE  Chain'
<1>1. /\ Target(next[t]) /\ next[t] \in Threads /\ val \notin Threads
      /\ \A u \in Threads : Listed(u) => Link(u) # next[t]
  BY Pointers, PredicateWords DEF ListInv, Chain, IInv, Done, Walking
<1>2. \A u \in Threads : Listed(u) => u # t /\ Link(u)' = Link(u)
  BY Alone DEF Link, Running, Walking
<1>3. \A x : Target(x) /\ (x = t => next[t] # t \/ pc'[t] = "signal_slow") => Target(x)'
  BY DEF Target, Running, AfterSignal
<1>4. \A u \in Threads : Listed(u) => Target(Link(u))'
  <2> SUFFICES ASSUME NEW u \in Threads, Listed(u) PROVE Target(Link(u))'
    OBVIOUS
  <2>1. PICK x : x = Link(u)
    OBVIOUS
  <2> QED
    BY <1>1, <1>2, <1>3, <2>1, Pointers
<1>5. \A r \in Threads \ {t} : pc'[r] \notin Walking
  BY Alone DEF Running, Walking
<1>6. pc'[t] \in Walking => Target(next[t])' /\ (pc'[t] = "pop" => next[t] # t)
  <2> SUFFICES ASSUME pc'[t] \in Walking
               PROVE  Target(next[t])' /\ (pc'[t] = "pop" => next[t] # t)
    OBVIOUS
  <2>1. PICK x : x = next[t]
    OBVIOUS
  <2> QED
    BY <1>1, <1>3, <2>1 DEF Walking, AfterSignal
<1> QED
  BY SMTT(30), <1>1, <1>2, <1>4, <1>5, <1>6 DEF Chain, ListInv

\* The increment of the event: its record has been off the list since the pop.
LEMMA SignalStep ==
  ASSUME IInv, ListInv, NEW t \in Threads, _dispatch_thread_event_signal(t)
  PROVE  ListInv'
<1>0. PICK e : e = event[t]
  OBVIOUS
<1>1. /\ crashed' = "no" /\ pc[t] = "signal" /\ pc'[t] \in {"signal_slow", AfterSignal(t)}
      /\ UNCHANGED <<dow_thread, overrides, dow_next, val, next, event>>
      /\ dte_value' = [dte_value EXCEPT ![e] = IF @ = UINT32_MAX THEN 0 ELSE @ + 1]
      /\ \A u \in Threads \ {t} : pc'[u] = pc[u]
  BY <1>0, Typed, Own DEF _dispatch_thread_event_signal, At, Goto, event_inc, frame_vars
<1>2. /\ e \in Threads /\ Unsignalled(e) /\ pc[e] \notin {"copy_thread", "link"} /\ e # t
      /\ AfterSignal(t) \in {"idle", "pop"}
  BY <1>0, <1>1 DEF IInv, ListInv, Events, SignalOK, Unsignalled, AfterSignal
<1>3. /\ \A r \in Threads \ {t} : pc[r] \notin Running
      /\ \A r \in Threads : pc'[r] # "signal"
  BY <1>1, <1>2, Alone DEF Running
<1>4. \A u \in Threads : u # e => (Unsignalled(u)' <=> Unsignalled(u))
  BY <1>1, <1>2, Typed DEF Unsignalled
<1>5. ~Unsignalled(e)' /\ EventOK(e)'
  BY SMTT(30), <1>1, <1>2, Typed, Own, MaxValue DEF Unsignalled, EventOK
<1>6. \A u \in Threads : Listed(u)' <=> Listed(u)
  <2>1. ~Listed(e)
    BY <1>0, <1>1 DEF Listed
  <2> QED
    BY <1>0, <1>1, <1>3, <1>4, <1>5, <2>1 DEF Listed, Running
<1>7. Chain'
  BY <1>1, <1>6, WalkOn DEF Walking
<1>8. \A u \in Threads : EventOK(u)' /\ RecordOK(u)' /\ SignalOK(u)'
  <2>1. \A u \in Threads \ {t, e} : dte_value'[u] = dte_value[u]
    BY <1>1, Typed
  <2>2. \A u \in Threads \ {e} : EventOK(u)'
    BY <1>1, <1>2, <2>1, Own DEF EventOK
  <2> QED
    BY <1>1, <1>2, <1>3, <1>5, <2>2, Own DEF RecordOK, SignalOK
<1>9. OneRunner'
  BY <1>1, <1>3 DEF OneRunner
<1>10. Boosts'
  BY <1>1, <1>2, Typed, BoostsKept DEF ListInv, Boosts
<1> QED
  BY <1>1, <1>7, <1>8, <1>9, <1>10 DEF ListInv, Events, Records

\* The wake-up after the increment.
LEMMA SignalSlowStep ==
  ASSUME IInv, ListInv, NEW t \in Threads, _dispatch_thread_event_signal_slow(t)
  PROVE  ListInv'
<1>1. /\ crashed' = "no" /\ pc[t] = "signal_slow" /\ pc'[t] = AfterSignal(t)
      /\ UNCHANGED <<dow_thread, overrides, dow_next, val, next, event, dte_value>>
      /\ \A u \in Threads \ {t} : pc'[u] = pc[u]
  BY Typed, Own DEF _dispatch_thread_event_signal_slow, At, Goto, event_wake, frame_vars
<1>2. /\ AfterSignal(t) \in {"idle", "pop"}
      /\ \A r \in Threads \ {t} : pc[r] \notin Running
      /\ \A r \in Threads : pc[r] # "signal" /\ pc'[r] # "signal"
  BY <1>1, Alone DEF AfterSignal, Running
<1>3. \A u \in Threads : Listed(u)' <=> Listed(u)
  BY <1>1, <1>2 DEF Listed, Unsignalled
<1>4. Chain'
  BY <1>1, <1>3, WalkOn DEF Walking
<1>5. Events' /\ Records' /\ OneRunner'
  BY <1>1, <1>2, Own DEF Events, Records, OneRunner, EventOK, SignalOK, RecordOK
<1>6. Boosts'
  BY <1>1, <1>2, Typed, BoostsKept DEF ListInv, Boosts
<1> QED
  BY <1>1, <1>4, <1>5, <1>6 DEF ListInv

\* A waiter pushes its record in front, unless the predicate has changed.
LEMMA PushStep ==
  ASSUME IInv, ListInv, NEW t \in Threads, PushWaiter(t)
  PROVE  ListInv'
<1>1. /\ Elsewhere(t) /\ crashed' = "no" /\ pc[t] = "cas"
      /\ UNCHANGED <<dow_thread, overrides, dte_value, dow_next, event>>
  BY Typed, Own DEF PushWaiter, At, Goto, event_vars, Elsewhere
<1>2. dte_value[t] = 0 /\ dow_next[t] = NULL /\ ~Unsignalled(t)
  BY <1>1, Own DEF EventOK, RecordOK, Unsignalled
<1>3. CASE pc'[t] # "copy_thread"
  <2>1. val' = val /\ pc'[t] \in {"cas", "destroy"}
    BY <1>1, <1>3, Typed DEF PushWaiter, Goto
  <2>2. EventOK(t)' /\ RecordOK(t)' /\ ~Unsignalled(t)'
    BY <1>1, <1>2, <2>1 DEF EventOK, RecordOK, Unsignalled
  <2>3. Boosts'
    BY <1>1, <2>1, Typed, BoostsKept DEF Elsewhere, ListInv, Boosts
  <2> QED
    BY <1>1, <1>2, <2>1, <2>2, <2>3, PlainStep DEF ListInv, Running, Walking
<1>4. CASE pc'[t] = "copy_thread"
  <2>1. val' = t /\ next' = next /\ next[t] = val /\ val \in Threads
    BY <1>1, <1>4, Typed DEF PushWaiter, Goto, IInv
  <2>2. \A r \in Threads : pc[r] \notin Walking /\ pc'[r] \notin Walking
    BY SMTT(30), <1>1, <1>4, <2>1, PredicateWords DEF IInv, Done, Walking, Elsewhere
  <2>3. EventOK(t)' /\ RecordOK(t)' /\ Unsignalled(t)' /\ Link(t)' = val
    BY <1>1, <1>2, <1>4, <2>1 DEF EventOK, RecordOK, Unsignalled, Link
  <2>4. \A u \in Threads : Listed(u)' <=> Listed(u) \/ u = t
    BY <1>1, <2>2, <2>3 DEF Listed, Unsignalled, Elsewhere, Walking
  <2>5. ~Listed(t) /\ \A u \in Threads : Listed(u) => Link(u)' = Link(u)
    BY <1>1, <1>2 DEF Listed, Link, Elsewhere
  <2>6. ~Target(t) /\ \A x : Target(x) => Target(x)'
    BY <1>1, <1>4, <2>4, <2>5 DEF Target, Elsewhere, Running
  <2>7. \A u \in Threads : Listed(u)' => Target(Link(u))' /\ Link(u)' # t
    <3> SUFFICES ASSUME NEW u \in Threads, Listed(u)' PROVE Target(Link(u))' /\ Link(u)' # t
      OBVIOUS
    <3>1. PICK x : x = Link(u)'
      OBVIOUS
    <3>2. Target(x)
      BY <2>1, <2>3, <2>4, <2>5, <3>1, Pointers
    <3> QED
      BY <2>6, <3>1, <3>2
  <2>8. \A u, w \in Threads : Listed(u)' /\ Listed(w)' /\ Link(u)' = Link(w)' => u = w
    BY <2>3, <2>4, <2>5 DEF ListInv, Chain
  <2>9. Chain'
    BY <2>1, <2>2, <2>4, <2>7, <2>8 DEF Chain, Target
  <2>10. Events' /\ Records' /\ OneRunner'
    BY <1>1, <1>4, <2>2, <2>3, Own
    DEF Events, Records, ListInv, OneRunner, EventOK, SignalOK, RecordOK, Elsewhere, Running,
        Walking
  <2>11. Boosts'
    BY <1>1, <1>4, <2>1, Typed, PredicateWords, BoostsKept DEF Elsewhere, ListInv, Boosts
  <2> QED
    BY <1>1, <2>9, <2>10, <2>11 DEF ListInv
<1> QED
  BY <1>3, <1>4

(* Every step of dispatch_once_f_slow keeps the list: a push puts a record   *)
(* nobody refers to in front, a pop takes the record only the runner refers  *)
(* to, and the runner leaves when its pointer has come back to the tail.     *)
LEMMA ListStep == IInv /\ ListInv /\ [Next]_vars => ListInv'
<1> SUFFICES ASSUME IInv, ListInv, [Next]_vars PROVE ListInv'
  OBVIOUS
<1>1. ASSUME NEW t \in Threads, _dispatch_once(t) \/ Step(t) \/ SpuriousWakeup(t)
      PROVE  ListInv'
  BY <1>1, OnceStep, EnterStep, SetThreadStep, CalloutStep, ExchangeStep, PopStep, SignalStep,
     SignalSlowStep, InitEventStep, PushStep, CopyStep, LinkStep, OverrideStep, WaitStep,
     WaitSlowStep, SleepStep, SpuriousStep, OverrideEndStep, DestroyStep DEF Step
<1>2. CASE UNCHANGED vars
  <2> USE <1>2 DEF vars, event_vars, frame_vars
  <2>1. \A u \in Threads : (Listed(u)' <=> Listed(u)) /\ Link(u)' = Link(u)
    BY DEF Listed, Unsignalled, Link
  <2>2. \A x : Target(x)' <=> Target(x)
    BY <2>1 DEF Target
  <2>3. Events' /\ Records' /\ OneRunner' /\ Boosts'
    BY
       DEF ListInv, Events, EventOK, SignalOK, Records, RecordOK, OneRunner, Boosts,
           Unsignalled
  <2>4. Chain'
    BY <2>1, <2>2 DEF ListInv, Chain
  <2> QED
    BY <2>3, <2>4 DEF ListInv
<1> QED
  BY <1>1, <1>2 DEF Next

LEMMA ListInvariance == Spec => []ListInv
<1>1. ListInv /\ IInv /\ [Next]_vars => ListInv'
  BY ListStep
<1> QED
  BY <1>1, ListInit, Invariance, PTL DEF Spec

(* No thread follows a link, copies a field or signals an event of a record  *)
(* whose thread has left dispatch_once_f_slow, and each event is signalled   *)
(* once per wait, for any number of threads.                                 *)
THEOREM RecordsLive == Spec => []RecordsExist
<1>1. IInv /\ ListInv => RecordsExist
  <2> SUFFICES ASSUME IInv, ListInv PROVE RecordsExist
    OBVIOUS
  <2>1. ASSUME NEW t \in Threads, pc[t] = "pop" PROVE pc[next[t]] # "idle"
    BY <2>1 DEF ListInv, Chain, Walking, Target, Listed, Unsignalled, Running
  <2>2. ASSUME NEW t \in Threads, pc[t] = "copy_thread" PROVE pc[next[t]] # "idle"
    <3>1. Listed(t) /\ Link(t) = next[t]
      BY <2>2 DEF ListInv, Events, EventOK, SignalOK, Listed, Unsignalled, Link
    <3> QED
      BY <3>1 DEF ListInv, Chain, Target, Listed, Unsignalled, Running
  <2>3. ASSUME NEW t \in Threads, pc[t] = "signal" PROVE pc[event[t]] # "idle"
    BY <2>3 DEF ListInv, Events, SignalOK, Unsignalled
  <2> QED
    BY <2>1, <2>2, <2>3 DEF RecordsExist, ListInv
<1> QED
  BY <1>1, Invariance, ListInvariance, PTL

(* Only waiters hold a boost, they hold it on one and the same thread (the   *)
(* one that runs the block), and a call that has returned holds none         *)
(* (_dispatch_thread_override_start and _end).                               *)
THEOREM BoostsBalanced == Spec => []OverridesBalanced
<1>1. IInv /\ ListInv => OverridesBalanced
  BY DEF IInv, ListInv, Boosts, OverridesBalanced, Waiting, TypeOK
<1> QED
  BY <1>1, Invariance, ListInvariance, PTL
=============================================================================
