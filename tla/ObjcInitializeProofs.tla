------------------------ MODULE ObjcInitializeProofs ------------------------
(***************************************************************************)
(* Proofs about the +initialize protocol (module ObjcInitialize), for any  *)
(* set of threads, any class hierarchy, and +initialize methods that       *)
(* message any classes, throw and fork: the inductive invariant, what the  *)
(* steps do to the stacks of calls and to the flags, the threads' lists    *)
(* and the pending map, that every step keeps the invariant, and what      *)
(* follows from it.                                                        *)
(***************************************************************************)
EXTENDS ObjcInitialize, TLAPS

USE ZenonT(30)

\* Thread t is inside +initialize of c; it is about to make up for it in a child.
Runs(t, c) ==
  \E i \in DOMAIN stack[t] : stack[t][i].at = "run" /\ stack[t][i].cls = c
Forks(t, c) ==
  stack[t] # <<>> /\ stack[t][1].at = "fork_child" /\ stack[t][1].cls = c

\* What _class_initialize has made sure of before it goes on with c itself.
SuperReady(t, c) ==
  superclass[c] # nil => isInitialized(superclass[c]) \/ superclass[c] \in mine[t]

\* Below the first frame, a call waits for its superclass or for a message of
\* its own +initialize; no class has two of its +initialize open on a thread.
Stacks ==
  \A t \in Threads : \A i \in DOMAIN stack[t] :
    /\ i # 1 => stack[t][i].at \in {"set", "run"}
    /\ i # 1 /\ stack[t][i].at = "set"
         => stack[t][i - 1].cls = superclass[stack[t][i].cls]
    /\ i # 1 /\ stack[t][i].at = "run" => stack[t][i].cls \notin Trivial
    /\ stack[t][i].at = "run" => stack[t][i].todo \subseteq Messages[stack[t][i].cls]
    /\ \A j \in DOMAIN stack[t] :
         /\ stack[t][i].at = "run" /\ stack[t][j].at = "run"
         /\ stack[t][i].cls = stack[t][j].cls
         => i = j

\* What the first frame of t relies on.
TopOK(t) ==
  /\ stack[t][1].at # "enter" => SuperReady(t, stack[t][1].cls)
  /\ stack[t][1].at = "check" => flags[stack[t][1].cls] # "none"
  /\ stack[t][1].at = "check_done" => isInitialized(stack[t][1].cls)
  /\ stack[t][1].at = "return"
       => isInitialized(stack[t][1].cls) \/ stack[t][1].cls \in mine[t]
Tops == \A t \in Threads : stack[t] # <<>> => TopOK(t)

\* Who runs +initialize of a class, or makes up for it, has it on its list.
Opens ==
  \A t \in Threads, c \in Classes :
    /\ Runs(t, c) => /\ c \in mine[t] /\ isInitializing(c) /\ SuperReady(t, c)
                     /\ forked = 1 => c \notin Trivial
    /\ Forks(t, c) => c \in mine[t] /\ forked = 1 /\ ~Runs(t, c) /\ SuperReady(t, c)

\* A class on a list is initializing, and its holder is in its +initialize or
\* has left it to wait for a superclass on the same list; two threads hold a
\* class only to make up for it in the child of a fork.
Holders ==
  /\ \A t \in Threads : \A c \in mine[t] :
       /\ isInitializing(c) \/ (flags[c] # "none" /\ Forks(t, c))
       /\ \/ Runs(t, c) \/ Forks(t, c)
          \/ superclass[c] \in mine[t] /\ c \in pending[superclass[c]]
  /\ \A t, u \in Threads : \A c \in mine[t] \cap mine[u] :
       t = u \/ Forks(t, c) \/ Forks(u, c)

\* A class in the pending map waits there for its own superclass, with its
\* holder; its +initialize is over.
Pending ==
  /\ \A s \in Classes : \A c \in pending[s] :
       /\ s = superclass[c] /\ isInitializing(s) /\ isInitializing(c)
       /\ \A t \in Threads :
            s \in mine[t] => c \in mine[t] \/ (s \notin Trivial /\ Forks(t, s))
       /\ s \in Trivial => superclass[s] # nil /\ s \in pending[superclass[s]]
  /\ \A t \in Threads, c \in Classes :
       Runs(t, c) \/ (Forks(t, c) /\ c \in Trivial)
         => \A s \in Classes : c \notin pending[s]

\* InitializedInOrder, but for the open +initialize methods.
Order ==
  /\ \A c \in Classes : sent[c] <= 1 /\ (flags[c] = "none" => sent[c] = 0)
  /\ \A c \in Classes : superclass[c] # nil /\ flags[c] # "none" =>
       \/ isInitialized(superclass[c])
       \/ /\ isInitializing(superclass[c]) /\ isInitializing(c)
          /\ forked = 0 => \E t \in Threads : {c, superclass[c]} \subseteq mine[t]

IInv ==
  /\ TypeOK /\ Stacks /\ Tops /\ Opens /\ Holders /\ Pending /\ Order
  /\ StateNotBroken

-----------------------------------------------------------------------------
\* The places of a frame.
Positions == {"enter", "set", "run", "check", "check_done", "wait", "fork_child", "return"}

\* Replacing the first element of a sequence leaves the rest of it.
LEMMA TopReplaced ==
  ASSUME NEW s \in Seq(Frames), s # <<>>, NEW f \in Frames
  PROVE  LET r == [s EXCEPT ![1] = f] IN
         /\ r \in Seq(Frames) /\ r # <<>> /\ DOMAIN r = DOMAIN s /\ 1 \in DOMAIN s
         /\ r[1] = f /\ \A i \in DOMAIN s : i # 1 => r[i] = s[i]
<1> DEFINE r == [s EXCEPT ![1] = f]
<1>1. Len(s) \in Nat /\ s \in [1..Len(s) -> Frames] /\ 1 \in 1..Len(s)
  BY SMTT(30)
<1>2. r \in [1..Len(s) -> Frames]
  BY <1>1
<1>3. r \in Seq(Frames) /\ DOMAIN r = DOMAIN s /\ r # <<>>
  BY SMTT(30), <1>1, <1>2
<1> QED
  BY <1>1, <1>3

\* What a call pushed on a stack leaves at each place.
LEMMA Pushed ==
  ASSUME NEW s \in Seq(Frames), NEW f \in Frames
  PROVE  LET r == <<f>> \o s IN
         /\ r \in Seq(Frames) /\ r # <<>> /\ DOMAIN r = 1..(Len(s) + 1) /\ r[1] = f
         /\ \A i \in DOMAIN r : i # 1 => i - 1 \in DOMAIN s /\ r[i] = s[i - 1]
  BY SMTT(30)

\* A stack from its k-th frame on.
LEMMA Dropped ==
  ASSUME NEW s \in Seq(Frames), NEW k \in 1..Len(s)
  PROVE  LET r == SubSeq(s, k, Len(s)) IN
         /\ r \in Seq(Frames) /\ DOMAIN r = 1..(Len(s) + 1 - k) 
         /\ \A i \in DOMAIN r : i + k - 1 \in DOMAIN s /\ r[i] = s[i + k - 1]
  BY SMTT(30)

\* A stack without its first frame.
LEMMA Popped ==
  ASSUME NEW s \in Seq(Frames), s # <<>>
  PROVE  LET r == Tail(s) IN
         /\ r \in Seq(Frames) /\ DOMAIN r = 1..(Len(s) - 1)
         /\ \A i \in DOMAIN r : i + 1 \in DOMAIN s /\ r[i] = s[i + 1]
  BY SMTT(30)
-----------------------------------------------------------------------------
\* Thread t's top frame moves to a, the frames below it stay.
NewTop(t, a) ==
  /\ stack' \in [Threads -> Seq(Frames)] /\ stack'[t] # <<>>
  /\ \A u \in Threads : u # t => stack'[u] = stack[u]
  /\ DOMAIN stack'[t] = DOMAIN stack[t] /\ 1 \in DOMAIN stack[t]
  /\ stack'[t][1].at = a /\ stack'[t][1].cls = stack[t][1].cls
  /\ \A i \in DOMAIN stack[t] : i # 1 => stack'[t][i] = stack[t][i]

\* Replacing the first frame of t by one for the same class is a NewTop.
LEMMA TopStep ==
  ASSUME TypeOK, NEW t \in Threads, stack[t] # <<>>, NEW f \in Frames,
         f.cls = stack[t][1].cls,
         stack' = [stack EXCEPT ![t] = [stack[t] EXCEPT ![1] = f]]
  PROVE  NewTop(t, f.at) /\ stack'[t][1].todo = f.todo
<1>1. stack[t] \in Seq(Frames) /\ stack'[t] = [stack[t] EXCEPT ![1] = f]
  BY DEF TypeOK
<1>2. /\ stack'[t] \in Seq(Frames) /\ stack'[t] # <<>> /\ 1 \in DOMAIN stack[t]
      /\ DOMAIN stack'[t] = DOMAIN stack[t] /\ stack'[t][1] = f
      /\ \A i \in DOMAIN stack[t] : i # 1 => stack'[t][i] = stack[t][i]
  BY SMTT(30), <1>1, TopReplaced
<1> QED
  BY <1>2 DEF TypeOK, NewTop

\* Goto moves the first frame of t and keeps its messages.
LEMMA GotoTop ==
  ASSUME TypeOK, NEW t \in Threads, stack[t] # <<>>, NEW a \in Positions, Goto(t, a)
  PROVE  NewTop(t, a) /\ stack'[t][1].todo = stack[t][1].todo
<1> DEFINE f == [stack[t][1] EXCEPT !.at = a]
<1>1. stack[t][1] \in Frames
  BY SMTT(30) DEF TypeOK
<1>2. f \in Frames /\ f.at = a /\ f.cls = stack[t][1].cls /\ f.todo = stack[t][1].todo
  BY <1>1 DEF Frames, Positions
<1>3. stack' = [stack EXCEPT ![t] = [stack[t] EXCEPT ![1] = f]]
  BY <1>1 DEF TypeOK, Goto
<1> HIDE DEF f
<1> QED
  BY <1>2, <1>3, TopStep

\* setInitializing turns the first frame of t into a +initialize.
LEMMA RunTop ==
  ASSUME TypeOK, NEW t \in Threads, stack[t] # <<>>, NEW T \in SUBSET Classes,
         stack' = [stack EXCEPT ![t][1].at = "run", ![t][1].todo = T]
  PROVE  NewTop(t, "run") /\ stack'[t][1].todo = T
<1> DEFINE f == [stack[t][1] EXCEPT !.at = "run", !.todo = T]
<1>1. stack[t][1] \in Frames
  BY SMTT(30) DEF TypeOK
<1>2. f \in Frames /\ f.at = "run" /\ f.cls = stack[t][1].cls /\ f.todo = T
  BY <1>1 DEF Frames, Positions
<1>3. stack' = [stack EXCEPT ![t] = [stack[t] EXCEPT ![1] = f]]
  BY <1>1 DEF TypeOK, Goto
<1> HIDE DEF f
<1> QED
  BY ZenonT(60), <1>2, <1>3, TopStep

\* What a moved first frame changes in the +initialize methods that are open.
LEMMA NewTopViews ==
  ASSUME TypeOK, Stacks, NEW t \in Threads, NEW a \in Positions, NewTop(t, a)
  PROVE  /\ \A u \in Threads \ {t}, c \in Classes :
              (Runs(u, c)' <=> Runs(u, c)) /\ (Forks(u, c)' <=> Forks(u, c))
         /\ \A c \in Classes : Runs(t, c)' <=>
              \/ a = "run" /\ c = stack[t][1].cls
              \/ Runs(t, c) /\ (stack[t][1].at = "run" => c # stack[t][1].cls)
         /\ \A c \in Classes : Forks(t, c)' <=> a = "fork_child" /\ c = stack[t][1].cls
<1>1. \A u \in Threads \ {t}, c \in Classes :
        (Runs(u, c)' <=> Runs(u, c)) /\ (Forks(u, c)' <=> Forks(u, c))
  BY DEF NewTop, Runs, Forks
<1>2. \A c \in Classes : Forks(t, c)' <=> a = "fork_child" /\ c = stack[t][1].cls
  BY DEF NewTop, Forks
<1>3. \A c \in Classes : Runs(t, c)' <=>
        \/ a = "run" /\ c = stack[t][1].cls
        \/ \E i \in DOMAIN stack[t] :
             i # 1 /\ stack[t][i].at = "run" /\ stack[t][i].cls = c
  BY DEF NewTop, Runs
<1>4. \A c \in Classes :
        Runs(t, c) /\ (stack[t][1].at = "run" => c # stack[t][1].cls) <=>
        /\ \E i \in DOMAIN stack[t] :
             i # 1 /\ stack[t][i].at = "run" /\ stack[t][i].cls = c
  BY SMTT(30) DEF NewTop, Stacks, Runs
<1> QED
  BY <1>1, <1>2, <1>3, <1>4

\* A moved first frame keeps the shape of the stacks.
LEMMA NewTopStacks ==
  ASSUME TypeOK, Stacks, NEW t \in Threads, NEW a \in Positions, NewTop(t, a),
         a = "run" => /\ ~Runs(t, stack[t][1].cls)
                      /\ stack'[t][1].todo \subseteq Messages[stack[t][1].cls]
  PROVE  Stacks'
<1> SUFFICES ASSUME NEW u \in Threads, NEW i \in DOMAIN stack'[u]
             PROVE  /\ i # 1 => stack'[u][i].at \in {"set", "run"}
                    /\ i # 1 /\ stack'[u][i].at = "set"
                         => stack'[u][i - 1].cls = superclass[stack'[u][i].cls]
                    /\ i # 1 /\ stack'[u][i].at = "run" => stack'[u][i].cls \notin Trivial
                    /\ stack'[u][i].at = "run"
                         => stack'[u][i].todo \subseteq Messages[stack'[u][i].cls]
                    /\ \A j \in DOMAIN stack'[u] :
                         /\ stack'[u][i].at = "run" /\ stack'[u][j].at = "run"
                         /\ stack'[u][i].cls = stack'[u][j].cls
                         => i = j
  BY DEF Stacks
<1>1. CASE u # t
  BY SMTT(30), <1>1 DEF Stacks, NewTop
<1>2. CASE u = t
  <2>1. /\ stack[t] \in Seq(Frames) /\ DOMAIN stack'[t] = DOMAIN stack[t]
        /\ \A k \in DOMAIN stack[t] : stack'[t][k].cls = stack[t][k].cls
    BY DEF NewTop, TypeOK
  <2>4. \A k \in DOMAIN stack[t] : k # 1 => k - 1 \in DOMAIN stack[t]
    BY SMTT(30), <2>1
  <2>2. CASE i = 1
    BY SMTT(30), <1>2, <2>1, <2>2 DEF NewTop, Runs
  <2>3. CASE i # 1
    BY SMTT(30), <1>2, <2>1, <2>3, <2>4 DEF Stacks, NewTop, Runs
  <2> QED
    BY <2>2, <2>3
<1> QED
  BY <1>1, <1>2

\* A call that begins relies on nothing yet.
LEMMA EnterOK ==
  ASSUME NEW t \in Threads, stack'[t][1].at = "enter"
  PROVE  TopOK(t)'
  BY SMTT(30) DEF TopOK

\* Steps that move no flag, list or open +initialize keep what is said of them.
LEMMA SameOpens ==
  ASSUME IInv, UNCHANGED <<flags, mine, pending, forked, sent>>,
         \A u \in Threads, c \in Classes :
           (Runs(u, c)' <=> Runs(u, c)) /\ (Forks(u, c)' <=> Forks(u, c))
  PROVE  Opens' /\ Holders' /\ Pending' /\ Order'
<1>1. Opens'
  BY DEF IInv, Opens, SuperReady, isInitialized, isInitializing
<1>2. Holders'
  BY DEF IInv, TypeOK, Holders, isInitializing
<1>3. Pending'
  BY ZenonT(60) DEF IInv, TypeOK, Pending, isInitializing
<1>4. Order'
  BY DEF IInv, Order, isInitializing, isInitialized
<1> QED
  BY <1>1, <1>2, <1>3, <1>4
-----------------------------------------------------------------------------
Others(t) == \A u \in Threads : u # t => stack'[u] = stack[u]

\* Every frame of t is now below a new one.
Shifted(t) ==
  /\ \A k \in DOMAIN stack[t] : k + 1 \in DOMAIN stack'[t]
  /\ \A i \in DOMAIN stack'[t] : i = 1 \/ \E k \in DOMAIN stack[t] : i = k + 1
  /\ \A k \in DOMAIN stack[t] :
       /\ stack'[t][k + 1].cls = stack[t][k].cls
       /\ stack'[t][k + 1].at = "run" <=> stack[t][k].at = "run"
       /\ stack'[t][k + 1].at \in {"set", "run"}
       /\ stack'[t][k + 1].todo \subseteq stack[t][k].todo

\* Thread t calls _class_initialize for c.
NewCall(t, c) ==
  /\ stack' \in [Threads -> Seq(Frames)] /\ Others(t) /\ Shifted(t)
  /\ stack'[t] # <<>> /\ stack'[t][1] = Call(c)

\* callInitialize and _class_initialize push a call over the first frame.
LEMMA CallStep ==
  ASSUME TypeOK, Stacks, NEW t \in Threads, stack[t] # <<>>, NEW c \in Classes,
         NEW f \in Frames, f.cls = stack[t][1].cls, f.todo \subseteq stack[t][1].todo,
         f.at \in {"set", "run"}, f.at = "run" <=> stack[t][1].at = "run",
         stack' = [stack EXCEPT ![t] = <<Call(c)>> \o [stack[t] EXCEPT ![1] = f]]
  PROVE  /\ NewCall(t, c) /\ stack'[t][2] = f
         /\ \A k \in DOMAIN stack[t] : k # 1 => stack'[t][k + 1] = stack[t][k]
<1> DEFINE r == [stack[t] EXCEPT ![1] = f]
<1>1. /\ stack[t] \in Seq(Frames) /\ Call(c) \in Frames
      /\ stack'[t] = <<Call(c)>> \o r
  BY DEF TypeOK, Call, Frames
<1>2. /\ r \in Seq(Frames) /\ DOMAIN r = DOMAIN stack[t] /\ 1 \in DOMAIN stack[t]
      /\ r[1] = f /\ \A i \in DOMAIN stack[t] : i # 1 => r[i] = stack[t][i]
  BY <1>1, TopReplaced
<1> HIDE DEF r
<1>3. /\ stack'[t] \in Seq(Frames) /\ stack'[t] # <<>> /\ stack'[t][1] = Call(c)
      /\ DOMAIN stack'[t] = 1..(Len(r) + 1)
      /\ \A i \in DOMAIN stack'[t] :
           i # 1 => i - 1 \in DOMAIN r /\ stack'[t][i] = r[i - 1]
  BY SMTT(30), <1>1, <1>2, Pushed
<1>4. \A i \in DOMAIN r : i + 1 \in DOMAIN stack'[t] /\ (i + 1) - 1 = i /\ i + 1 # 1
  BY SMTT(30), <1>2, <1>3
<1>5. \A i \in DOMAIN r : stack'[t][i + 1] = r[i]
  BY <1>3, <1>4
<1>6. \A i \in DOMAIN stack'[t] : i = 1 \/ \E k \in DOMAIN r : i = k + 1
  <2> TAKE i \in DOMAIN stack'[t]
  <2>1. i # 1 => i - 1 \in DOMAIN r /\ i = (i - 1) + 1
    BY SMTT(30), <1>3
  <2> QED
    BY <2>1
<1>7. stack'[t][2] = f /\ \A k \in DOMAIN stack[t] : k # 1 => stack'[t][k + 1] = stack[t][k]
  <2>1. stack'[t][1 + 1] = f
    BY <1>2, <1>5
  <2> QED
    BY SMTT(30), <1>2, <1>5, <2>1
<1>8. ASSUME NEW k \in DOMAIN stack[t]
      PROVE  /\ r[k].cls = stack[t][k].cls /\ (r[k].at = "run" <=> stack[t][k].at = "run")
             /\ r[k].at \in {"set", "run"} /\ r[k].todo \subseteq stack[t][k].todo
  BY <1>2 DEF Stacks
<1>9. Shifted(t)
  BY ZenonT(60), <1>2, <1>4, <1>5, <1>6, <1>8 DEF Shifted
<1>10. stack' \in [Threads -> Seq(Frames)] /\ Others(t)
  BY <1>3 DEF TypeOK, Others
<1> QED
  BY <1>3, <1>7, <1>9, <1>10 DEF NewCall

\* A new call opens no +initialize.
LEMMA NewCallViews ==
  ASSUME NEW t \in Threads, NEW d \in Classes, NewCall(t, d), stack[t][1].at # "fork_child"
  PROVE  \A u \in Threads, c \in Classes :
           (Runs(u, c)' <=> Runs(u, c)) /\ (Forks(u, c)' <=> Forks(u, c))
<1>1. \A u \in Threads \ {t}, c \in Classes :
        (Runs(u, c)' <=> Runs(u, c)) /\ (Forks(u, c)' <=> Forks(u, c))
  BY DEF NewCall, Others, Runs, Forks
<1>2. stack'[t][1].at = "enter"
  BY SMTT(30) DEF NewCall, Call
<1>3. \A c \in Classes : ~Forks(t, c)' /\ ~Forks(t, c)
  BY <1>2 DEF Forks
<1>4. ASSUME NEW c \in Classes PROVE Runs(t, c) => Runs(t, c)'
  BY SMTT(30) DEF NewCall, Shifted, Runs
<1>5. ASSUME NEW c \in Classes PROVE Runs(t, c)' => Runs(t, c)
  BY SMTT(30), <1>2 DEF NewCall, Shifted, Runs
<1> QED
  BY <1>1, <1>3, <1>4, <1>5

\* A new call keeps the shape of the stacks.
LEMMA NewCallStacks ==
  ASSUME TypeOK, Stacks, NEW t \in Threads, NEW d \in Classes, NewCall(t, d), stack[t] # <<>>,
         stack'[t][2].at = "set" => d = superclass[stack[t][1].cls],
         stack'[t][2].at = "run" => stack[t][1].cls \notin Trivial,
         \A k \in DOMAIN stack[t] : k # 1 => stack'[t][k + 1] = stack[t][k]
  PROVE  Stacks'
<1> SUFFICES ASSUME NEW u \in Threads, NEW i \in DOMAIN stack'[u]
             PROVE  /\ i # 1 => stack'[u][i].at \in {"set", "run"}
                    /\ i # 1 /\ stack'[u][i].at = "set"
                         => stack'[u][i - 1].cls = superclass[stack'[u][i].cls]
                    /\ i # 1 /\ stack'[u][i].at = "run" => stack'[u][i].cls \notin Trivial
                    /\ stack'[u][i].at = "run"
                         => stack'[u][i].todo \subseteq Messages[stack'[u][i].cls]
                    /\ \A j \in DOMAIN stack'[u] :
                         /\ stack'[u][i].at = "run" /\ stack'[u][j].at = "run"
                         /\ stack'[u][i].cls = stack'[u][j].cls
                         => i = j
  BY DEF Stacks
<1>1. CASE u # t
  BY SMTT(30), <1>1 DEF Stacks, NewCall, Others
<1>2. stack'[t][1].at = "enter" /\ stack'[t][1].cls = d
  BY SMTT(30) DEF NewCall, Call
<1>3. CASE u = t /\ i = 1
  BY <1>2, <1>3
<1>4. CASE u = t /\ i # 1
  <2>1. PICK k \in DOMAIN stack[t] : i = k + 1
    BY <1>4 DEF NewCall, Shifted
  <2>2. stack'[t][i].at \in {"set", "run"}
    BY <2>1 DEF NewCall, Shifted
  <2>3. k \in Nat /\ i - 1 = k /\ (k # 1 => k - 1 \in DOMAIN stack[t] /\ k = (k - 1) + 1)
    BY SMTT(30), <2>1 DEF TypeOK
  <2>4. stack'[t][i].at = "set" => stack'[t][k].cls = superclass[stack'[t][i].cls]
    <3>1. CASE k = 1
      <4>1. i = 2 /\ stack'[t][i].cls = stack[t][1].cls
        BY SMTT(30), <2>1, <3>1 DEF NewCall, Shifted
      <4> QED
        BY <1>2, <3>1, <4>1
    <3>2. CASE k # 1
      <4>1. stack'[t][i] = stack[t][k] /\ stack'[t][k].cls = stack[t][k - 1].cls
        BY <2>1, <2>3, <3>2 DEF NewCall, Shifted
      <4> QED
        BY SMTT(30), <3>2, <4>1 DEF Stacks
    <3> QED
      BY <3>1, <3>2
  <2>5. stack'[t][i].at = "run" => stack'[t][i].cls \notin Trivial
    <3>1. k = 1 => i = 2 /\ stack'[t][i].cls = stack[t][1].cls
      BY SMTT(30), <2>1 DEF NewCall, Shifted
    <3> QED
      BY SMTT(30), <2>1, <3>1 DEF Stacks
  <2>6. stack'[t][i].at = "run" => stack'[t][i].todo \subseteq Messages[stack'[t][i].cls]
    BY SMTT(30), <2>1 DEF Stacks, NewCall, Shifted
  <2>7. ASSUME NEW j \in DOMAIN stack'[t], stack'[t][i].at = "run", stack'[t][j].at = "run",
               stack'[t][i].cls = stack'[t][j].cls
        PROVE  i = j
    <3>1. PICK l \in DOMAIN stack[t] : j = l + 1
      BY <1>2, <2>7 DEF NewCall, Shifted
    <3>2. k = l
      BY SMTT(30), <2>1, <2>7, <3>1 DEF Stacks, NewCall, Shifted
    <3> QED
      BY <2>1, <3>1, <3>2
  <2> QED
    BY <1>4, <2>2, <2>3, <2>4, <2>5, <2>6, <2>7
<1> QED
  BY <1>1, <1>3, <1>4
-----------------------------------------------------------------------------
\* The m frames on top of t's stack are gone, and of them only the first may run.
Unwinds(t, m) ==
  /\ stack' \in [Threads -> Seq(Frames)] /\ Others(t)
  /\ \A i \in DOMAIN stack'[t] :
       i + m \in DOMAIN stack[t] /\ stack'[t][i] = stack[t][i + m]
  /\ \A j \in DOMAIN stack[t] : stack[t][j].at = "run" =>
       j = 1 \/ \E i \in DOMAIN stack'[t] : j = i + m

\* Dropping frames keeps the shape of the stacks.
LEMMA UnwindsStacks ==
  ASSUME Stacks, NEW t \in Threads, NEW m \in Nat \ {0}, Unwinds(t, m)
  PROVE  Stacks' /\ (stack'[t] # <<>> => stack'[t][1].at \in {"set", "run"})
<1>1. stack'[t] \in Seq(Frames)
  BY DEF Unwinds
<1>2. \A i \in DOMAIN stack'[t] :
        i \in Nat /\ i + m # 1 /\ (i # 1 => i - 1 \in DOMAIN stack'[t]
                               /\ (i - 1) + m = (i + m) - 1)
  BY SMTT(30), <1>1
<1>3. stack'[t] # <<>> => stack'[t][1].at \in {"set", "run"}
  <2>1. stack'[t] # <<>> => 1 \in DOMAIN stack'[t]
    BY SMTT(30), <1>1
  <2> QED
    BY SMTT(30), <1>2, <2>1 DEF Unwinds, Stacks
<1> SUFFICES ASSUME NEW u \in Threads, NEW i \in DOMAIN stack'[u]
             PROVE  /\ i # 1 => stack'[u][i].at \in {"set", "run"}
                    /\ i # 1 /\ stack'[u][i].at = "set"
                         => stack'[u][i - 1].cls = superclass[stack'[u][i].cls]
                    /\ i # 1 /\ stack'[u][i].at = "run" => stack'[u][i].cls \notin Trivial
                    /\ stack'[u][i].at = "run"
                         => stack'[u][i].todo \subseteq Messages[stack'[u][i].cls]
                    /\ \A j \in DOMAIN stack'[u] :
                         /\ stack'[u][i].at = "run" /\ stack'[u][j].at = "run"
                         /\ stack'[u][i].cls = stack'[u][j].cls
                         => i = j
  BY <1>3 DEF Stacks
<1>4. CASE u # t
  BY SMTT(30), <1>4 DEF Stacks, Unwinds, Others
<1>5. CASE u = t
  <2>1. /\ i + m \in DOMAIN stack[t] /\ i + m # 1 /\ stack'[t][i] = stack[t][i + m]
        /\ i # 1 => stack'[t][i - 1] = stack[t][(i + m) - 1]
    BY <1>2, <1>5 DEF Unwinds
  <2>2. ASSUME NEW j \in DOMAIN stack'[t], stack'[t][i].at = "run", stack'[t][j].at = "run",
               stack'[t][i].cls = stack'[t][j].cls
        PROVE  i = j
    <3>1. i + m = j + m
      BY SMTT(30), <2>1, <2>2 DEF Unwinds, Stacks
    <3> QED
      BY SMTT(30), <1>2, <1>5, <3>1
  <2> QED
    BY SMTT(30), <1>5, <2>1, <2>2 DEF Stacks
<1> QED
  BY <1>4, <1>5

\* Dropping frames closes no +initialize but the one of the first frame.
LEMMA UnwindsViews ==
  ASSUME TypeOK, Stacks, NEW t \in Threads, stack[t] # <<>>, NEW m \in Nat \ {0}, Unwinds(t, m)
  PROVE  /\ \A u \in Threads \ {t}, c \in Classes :
              (Runs(u, c)' <=> Runs(u, c)) /\ (Forks(u, c)' <=> Forks(u, c))
         /\ \A c \in Classes : ~Forks(t, c)' /\
              (Runs(t, c)' <=> Runs(t, c) /\ (stack[t][1].at = "run" => c # stack[t][1].cls))
<1>1. \A u \in Threads \ {t}, c \in Classes :
        (Runs(u, c)' <=> Runs(u, c)) /\ (Forks(u, c)' <=> Forks(u, c))
  BY DEF Unwinds, Others, Runs, Forks
<1>2. 1 \in DOMAIN stack[t] /\ \A i \in DOMAIN stack'[t] : i \in Nat /\ i + m # 1
  BY SMTT(30) DEF TypeOK, Unwinds
<1>3. ASSUME NEW c \in Classes PROVE ~Forks(t, c)'
  BY UnwindsStacks DEF Forks
<1>4. ASSUME NEW c \in Classes, Runs(t, c)'
      PROVE  Runs(t, c) /\ (stack[t][1].at = "run" => c # stack[t][1].cls)
  BY SMTT(30), <1>2, <1>4 DEF Unwinds, Runs, Stacks
<1>5. ASSUME NEW c \in Classes, Runs(t, c), stack[t][1].at = "run" => c # stack[t][1].cls
      PROVE  Runs(t, c)'
  BY SMTT(30), <1>5 DEF Unwinds, Runs
<1> QED
  BY <1>1, <1>3, <1>4, <1>5

\* MessageSent drops one frame.
LEMMA PopUnwinds ==
  ASSUME TypeOK, Stacks, NEW t \in Threads, stack[t] # <<>>, 
         stack' = [stack EXCEPT ![t] = Tail(@)]
  PROVE  Unwinds(t, 1)
<1>1. stack[t] \in Seq(Frames) /\ stack'[t] = Tail(stack[t])
  BY DEF TypeOK
<1>2. /\ stack'[t] \in Seq(Frames) /\ DOMAIN stack'[t] = 1..(Len(stack[t]) - 1)
      /\ \A i \in DOMAIN stack'[t] : i + 1 \in DOMAIN stack[t] /\ stack'[t][i] = stack[t][i + 1]
  BY <1>1, Popped
<1>3. \A j \in DOMAIN stack[t] : j = 1 \/ (j - 1 \in DOMAIN stack'[t] /\ j = (j - 1) + 1)
  BY SMTT(30), <1>1, <1>2
<1>4. stack' \in [Threads -> Seq(Frames)] /\ Others(t)
  BY <1>2 DEF TypeOK, Others
<1> QED
  BY <1>2, <1>3, <1>4 DEF Unwinds

\* InitializeThrows drops the frames down to the next open +initialize.
LEMMA ThrowUnwinds ==
  ASSUME TypeOK, NEW t \in Threads, stack[t] # <<>>, Unwind(t)
  PROVE  /\ \E m \in Nat \ {0} : Unwinds(t, m)
         /\ stack'[t] # <<>> => stack'[t][1].at = "run"
<1> DEFINE s == stack[t]
<1>1. s \in Seq(Frames) /\ Len(s) \in Nat /\ DOMAIN s = 1..Len(s)
  BY SMTT(30) DEF TypeOK
<1>2. PICK k \in 2..Len(s) + 1 :
        /\ \A i \in 2..k - 1 : s[i].at # "run"
        /\ k <= Len(s) => s[k].at = "run"
        /\ stack' = [stack EXCEPT ![t] = SubSeq(s, k, Len(s))]
  BY DEF Unwind
<1>3. stack'[t] = SubSeq(s, k, Len(s)) /\ Others(t)
  BY <1>2 DEF TypeOK, Others
<1>4. k \in Nat /\ k - 1 \in Nat \ {0}
  BY SMTT(30), <1>1, <1>2
<1>5. \A j \in DOMAIN s : s[j].at = "run" /\ j # 1 => k <= j /\ k <= Len(s)
  BY SMTT(30), <1>1, <1>2, <1>4
<1>6. CASE k = Len(s) + 1
  <2>1. stack'[t] = <<>>
    BY SMTT(30), <1>1, <1>3, <1>6
  <2>2. stack' \in [Threads -> Seq(Frames)]
    BY SMTT(30), <1>2, <1>3, <2>1 DEF TypeOK
  <2>3. \A j \in DOMAIN s : s[j].at = "run" => j = 1
    BY SMTT(30), <1>1, <1>5, <1>6
  <2>4. Unwinds(t, 1)
    BY SMTT(30), <1>3, <2>1, <2>2, <2>3 DEF Unwinds
  <2> QED
    BY SMTT(30), <2>1, <2>4
<1>7. CASE k # Len(s) + 1
  <2>1. k \in 1..Len(s) /\ s[k].at = "run"
    BY SMTT(30), <1>1, <1>2, <1>7
  <2>2. /\ stack'[t] \in Seq(Frames) /\ DOMAIN stack'[t] = 1..(Len(s) + 1 - k)
        /\ \A i \in DOMAIN stack'[t] : i + k - 1 \in DOMAIN s /\ stack'[t][i] = s[i + k - 1]
    BY SMTT(30), <1>1, <1>3, <2>1, Dropped
  <2>3. Unwinds(t, k - 1)
    <3>1. stack' \in [Threads -> Seq(Frames)]
      BY <1>2, <1>3, <2>2 DEF TypeOK
    <3>2. \A i \in DOMAIN stack'[t] : i + (k - 1) = i + k - 1
      BY <1>1, <1>4, <2>2
    <3>3. ASSUME NEW j \in DOMAIN s, s[j].at = "run", j # 1
          PROVE  \E i \in DOMAIN stack'[t] : j = i + (k - 1)
      <4>1. k <= j
        BY <1>5, <3>3
      <4>2. j + 1 - k \in DOMAIN stack'[t] /\ j = (j + 1 - k) + (k - 1)
        BY SMTT(30), <1>1, <1>4, <2>2, <4>1
      <4> QED
        BY <4>2
    <3> QED
      BY <1>3, <1>4, <2>2, <3>1, <3>2, <3>3 DEF Unwinds
  <2>4. stack'[t][1].at = "run"
    <3>1. 1 \in DOMAIN stack'[t] /\ 1 + k - 1 = k
      BY SMTT(30), <1>1, <2>1, <2>2
    <3>2. stack'[t][1] = s[1 + k - 1]
      BY <2>2, <3>1
    <3> QED
      BY <2>1, <3>1, <3>2
  <2> QED
    BY <1>4, <2>3, <2>4
<1> QED
  BY <1>6, <1>7
-----------------------------------------------------------------------------
\* Finishing(c) is the least set with c that is closed under the pending map.
LEMMA FinishingClosed ==
  ASSUME TypeOK, NEW c \in Classes
  PROVE  /\ c \in Finishing(c) /\ Finishing(c) \subseteq Classes
         /\ \A d \in Finishing(c) : pending[d] \subseteq Finishing(c)
<1>1. CASE pending[c] = {}
  BY <1>1 DEF Finishing
<1>2. CASE pending[c] # {}
  BY <1>2 DEF Finishing, TypeOK
<1> QED
  BY <1>1, <1>2

\* ... and it is within every such set.
LEMMA FinishingLeast ==
  ASSUME NEW c \in Classes, NEW S \in SUBSET Classes, c \in S,
         \A s \in S : pending[s] \subseteq S
  PROVE  Finishing(c) \subseteq S
<1>1. CASE pending[c] = {}
  BY <1>1 DEF Finishing
<1>2. CASE pending[c] # {}
  BY <1>2 DEF Finishing
<1> QED
  BY <1>1, <1>2

\* Every class that is finished with c waited for a superclass that is, too.
LEMMA FinishingChain ==
  ASSUME TypeOK, Pending, NEW c \in Classes
  PROVE  \A d \in Finishing(c) :
           d = c \/ (superclass[d] \in Finishing(c) /\ d \in pending[superclass[d]])
<1> DEFINE F == Finishing(c)
           S == {d \in F : d = c \/ (superclass[d] \in F /\ d \in pending[superclass[d]])}
<1>1. c \in F /\ F \subseteq Classes /\ \A d \in F : pending[d] \subseteq F
  BY FinishingClosed
<1> HIDE DEF F
<1>2. S \in SUBSET Classes /\ c \in S
  BY <1>1
<1>3. ASSUME NEW s \in S, NEW d \in pending[s] PROVE d \in S
  <2>1. s \in F /\ s \in Classes /\ d \in F /\ s = superclass[d]
    BY <1>1, <1>3 DEF Pending
  <2> QED
    BY <2>1
<1>4. Finishing(c) \subseteq S
  BY <1>2, <1>3, FinishingLeast
<1> QED
  BY <1>4 DEF F

-----------------------------------------------------------------------------
Core == TypeOK /\ Opens /\ Holders /\ Pending /\ Order

\* Thread t is about to leave its +initialize of c, or to make up for it.
Closing(t, c) ==
  /\ Runs(t, c) \/ (Forks(t, c) /\ c \in Trivial)
  /\ \A d \in Classes : Forks(t, d) => d = c /\ c \in Trivial
  /\ \A d \in Classes : Runs(t, d) /\ d # c => d \notin Trivial

\* A thread makes up for one class at a time.
LEMMA ForksOne ==
  ASSUME NEW t, NEW c, NEW d, Forks(t, c), Forks(t, d) PROVE c = d
  BY DEF Forks

\* t, which closes c, holds c and every class that is finished with it.
LEMMA ClosingHolds ==
  ASSUME Core, NEW t \in Threads, NEW c \in Classes, Closing(t, c)
  PROVE  /\ c \in mine[t] /\ flags[c] # "none" /\ SuperReady(t, c)
         /\ \A s \in Classes : c \notin pending[s]
         /\ Finishing(c) \subseteq mine[t]
<1>1. c \in mine[t] /\ flags[c] # "none" /\ SuperReady(t, c)
  BY DEF Core, Opens, Holders, Closing, isInitializing
<1>2. \A s \in Classes : c \notin pending[s]
  BY DEF Core, Pending, Closing
<1>3. mine[t] \in SUBSET Classes
  BY DEF Core, TypeOK
<1>4. \A s \in mine[t] : pending[s] \subseteq mine[t]
  BY SMTT(30), <1>3 DEF Core, Pending, Closing
<1> QED
  BY <1>1, <1>2, <1>3, <1>4, FinishingLeast

\* Nobody else holds what is finished, but to make up for c too.
LEMMA FinishingAlone ==
  ASSUME Core, NEW t \in Threads, NEW c \in Classes, Closing(t, c),
         NEW v \in Threads, v # t, NEW d \in Finishing(c), d \in mine[v]
  PROVE  d = c /\ Forks(v, c)
<1>1. Finishing(c) \subseteq mine[t] /\ d \in Classes
  BY ClosingHolds, FinishingClosed DEF Core
<1>2. Forks(t, d) \/ Forks(v, d)
  BY <1>1 DEF Core, Holders
<1>3. CASE d = c
  BY <1>2, <1>3, ClosingHolds DEF Core, Closing, Opens, Holders, TypeOK
<1>4. CASE d # c
  <2>1. superclass[d] \in Finishing(c) /\ d \in pending[superclass[d]]
    BY <1>4, FinishingChain DEF Core
  <2>2. superclass[d] \in Classes /\ superclass[d] \in mine[t] /\ isInitializing(superclass[d])
    BY <1>1, <2>1, FinishingClosed DEF Core, Pending
  <2>3. Forks(v, d)
    BY <1>1, <1>2, <1>4 DEF Closing
  <2>4. superclass[d] \in mine[v]
    BY <1>1, <2>2, <2>3, InitializeConstants
       DEF Core, Opens, SuperReady, isInitialized, isInitializing
  <2>5. superclass[d] # d
    BY <1>1, InitializeConstants
  <2>6. Forks(t, superclass[d])
    BY <2>2, <2>3, <2>4, <2>5, ForksOne DEF Core, Holders
  <2>7. superclass[d] = c /\ c \in Trivial /\ c \in mine[v] /\ ~Forks(v, c)
    BY <2>2, <2>3, <2>4, <2>5, <2>6, ForksOne DEF Closing
  <2> QED
    BY <2>6, <2>7, ClosingHolds DEF Core, Opens, Holders, TypeOK
<1> QED
  BY <1>3, <1>4

\* Of the classes that are finished, only t's c is being run.
LEMMA FinishingRuns ==
  ASSUME Core, NEW t \in Threads, NEW c \in Classes, Closing(t, c),
         NEW v \in Threads, NEW d \in Finishing(c), Runs(v, d)
  PROVE  v = t /\ d = c
<1>1. d \in Classes
  BY FinishingClosed DEF Core
<1>2. d = c
  BY SMTT(30), <1>1, FinishingChain, FinishingClosed DEF Core, Pending
<1>3. CASE v # t
  BY SMTT(30), <1>1, <1>3, FinishingAlone DEF Core, Opens
<1> QED
  BY <1>2, <1>3

-----------------------------------------------------------------------------
\* t leaves its +initialize of c, the stacks of the others stay.
Leaves(t, c) ==
  /\ \A u \in Threads \ {t}, d \in Classes :
       (Runs(u, d)' <=> Runs(u, d)) /\ (Forks(u, d)' <=> Forks(u, d))
  /\ \A d \in Classes : ~Forks(t, d)' /\ (Runs(t, d)' <=> Runs(t, d) /\ d # c)

\* What the other threads and the frames below rely on is kept.
Grows ==
  /\ \A d \in Classes : /\ isInitialized(d) => isInitialized(d)'
                        /\ flags[d] # "none" => flags'[d] # "none"
  /\ \A u \in Threads : \A d \in mine[u] : d \in mine'[u] \/ isInitialized(d)'

\* A superclass that is ready for t stays so.
LEMMA SuperKept ==
  ASSUME Grows, NEW t \in Threads, NEW c \in Classes, SuperReady(t, c)
  PROVE  SuperReady(t, c)'
  BY InitializeConstants DEF Grows, SuperReady

\* _finishInitializing keeps the invariant: c and what waited for it are done.
LEMMA FinishStep ==
  ASSUME Core, TypeOK', NEW t \in Threads, NEW c \in Classes, Closing(t, c), fatal = "no",
         superclass[c] = nil \/ isInitialized(superclass[c]),
         _finishInitializing(t, c), UNCHANGED <<forked, sent>>, Leaves(t, c)
  PROVE  /\ Opens' /\ Holders' /\ Pending' /\ Order' /\ Grows
         /\ fatal' = "no" /\ isInitialized(c)'
<1> DEFINE F == Finishing(c)
<1>1. /\ c \in F /\ F \subseteq Classes /\ F \subseteq mine[t]
      /\ \A d \in F : pending[d] \subseteq F
  BY FinishingClosed, ClosingHolds DEF Core
<1>2. \A d \in F : d = c \/ (superclass[d] \in F /\ d \in pending[superclass[d]])
  BY FinishingChain DEF Core
<1>3. \A v \in Threads \ {t}, d \in F : d \in mine[v] => d = c /\ Forks(v, c)
  BY FinishingAlone
<1>4. \A v \in Threads, d \in F : Runs(v, d) => v = t /\ d = c
  BY FinishingRuns
<1>5. /\ \A d \in Classes : flags'[d] = IF d \in F THEN "initialized" ELSE flags[d]
      /\ \A d \in Classes : pending'[d] = IF d \in F THEN {} ELSE pending[d]
      /\ mine'[t] = mine[t] \ F /\ \A u \in Threads \ {t} : mine'[u] = mine[u]
      /\ fatal' = "no"
  BY <1>1 DEF _finishInitializing, Core, TypeOK
<1>6. Grows /\ isInitialized(c)'
  BY <1>1, <1>5 DEF Grows, isInitialized
<1>7. /\ mine \in [Threads -> SUBSET Classes] /\ pending \in [Classes -> SUBSET Classes]
      /\ \A s \in Classes : c \notin pending[s]
  BY ClosingHolds DEF Core, TypeOK
<1> HIDE DEF F
<1>8. Opens'
  <2> SUFFICES ASSUME NEW u \in Threads, NEW d \in Classes
               PROVE  /\ Runs(u, d)' => /\ d \in mine'[u] /\ isInitializing(d)'
                                        /\ SuperReady(u, d)'
                                        /\ forked' = 1 => d \notin Trivial
                      /\ Forks(u, d)' => /\ d \in mine'[u] /\ forked' = 1 /\ ~Runs(u, d)'
                                         /\ SuperReady(u, d)'
    BY DEF Opens
  <2>1. SuperReady(u, d) => SuperReady(u, d)'
    BY <1>6, SuperKept
  <2>2. Runs(u, d)' => Runs(u, d) /\ d \notin F
    BY <1>4 DEF Leaves
  <2>3. Forks(u, d)' => Forks(u, d) /\ u # t
    BY DEF Leaves
  <2> QED
    BY <1>5, <2>1, <2>2, <2>3 DEF Core, Opens, isInitializing, Leaves
<1>9. Holders'
  <2>1. ASSUME NEW u \in Threads, NEW d \in mine'[u]
        PROVE  /\ isInitializing(d)' \/ (flags'[d] # "none" /\ Forks(u, d)')
               /\ \/ Runs(u, d)' \/ Forks(u, d)'
                  \/ superclass[d] \in mine'[u] /\ d \in pending'[superclass[d]]
    <3>1. d \in Classes /\ d \in mine[u] /\ (u = t => d \notin F)
      BY <1>5, <1>7, <2>1
    <3>2. CASE d \in F
      <4>1. u # t /\ d = c /\ Forks(u, d)
        BY <1>3, <3>1, <3>2
      <4> QED
        BY <1>5, <3>1, <3>2, <4>1 DEF Leaves
    <3>3. CASE d \notin F
      <4>1. isInitializing(d)' \/ (flags'[d] # "none" /\ Forks(u, d)')
        BY SMTT(30), <1>5, <1>7, <3>1, <3>3, <1>1
           DEF Core, Holders, isInitializing, Leaves, Closing
      <4>2. Runs(u, d) => Runs(u, d)'
        BY <1>1, <3>1, <3>3 DEF Leaves
      <4>3. Forks(u, d) => Forks(u, d)'
        BY <1>1, <3>1, <3>3 DEF Leaves, Closing
      <4>4. superclass[d] \in mine[u] /\ d \in pending[superclass[d]]
              => superclass[d] \in mine'[u] /\ d \in pending'[superclass[d]]
        BY <1>1, <1>5, <1>7, <3>3
      <4> QED
        BY <3>1, <4>1, <4>2, <4>3, <4>4 DEF Core, Holders
    <3> QED
      BY <3>2, <3>3
  <2>2. ASSUME NEW u \in Threads, NEW v \in Threads, NEW d \in mine'[u] \cap mine'[v], u # v
        PROVE  Forks(u, d)' \/ Forks(v, d)'
    <3>1. d \in Classes /\ d \in mine[u] \cap mine[v] /\ (u = t \/ v = t => d \notin F)
      BY <1>5, <1>7
    <3>2. Forks(u, d) \/ Forks(v, d)
      BY <2>2, <3>1 DEF Core, Holders
    <3> QED
      BY <1>1, <3>1, <3>2 DEF Leaves, Closing
  <2> QED
    BY <2>1, <2>2 DEF Holders
<1>10. Pending'
  <2>1. ASSUME NEW s \in Classes, NEW d \in pending'[s]
        PROVE  /\ s = superclass[d] /\ isInitializing(s)' /\ isInitializing(d)'
               /\ \A u \in Threads :
                    s \in mine'[u] => d \in mine'[u] \/ (s \notin Trivial /\ Forks(u, s)')
               /\ s \in Trivial => superclass[s] # nil /\ s \in pending'[superclass[s]]
    <3>1. s \notin F /\ d \in pending[s] /\ d \in Classes
      BY <1>5, <1>7, <2>1
    <3>2. s = superclass[d] /\ isInitializing(s) /\ isInitializing(d)
      BY <3>1 DEF Core, Pending
    <3>3. d \notin F
      BY <1>2, <1>7, <3>1, <3>2
    <3>4. ASSUME NEW u \in Threads, s \in mine'[u]
          PROVE  d \in mine'[u] \/ (s \notin Trivial /\ Forks(u, s)')
      <4>1. s \in mine[u]
        BY <1>5, <3>4
      <4>2. d \in mine[u] \/ (s \notin Trivial /\ Forks(u, s))
        BY <3>1, <4>1 DEF Core, Pending
      <4> QED
        BY SMTT(30), <1>1, <1>5, <3>1, <3>3, <4>2 DEF Leaves, Closing
    <3>5. s \in Trivial => superclass[s] # nil /\ s \in pending'[superclass[s]]
      <4>1. s \in Trivial => superclass[s] # nil /\ s \in pending[superclass[s]]
        BY <3>1 DEF Core, Pending
      <4>2. superclass[s] # nil => superclass[s] \in Classes
        BY InitializeConstants
      <4> QED
        BY <1>1, <1>5, <3>1, <4>1, <4>2
    <3> QED
      BY <1>5, <3>1, <3>2, <3>3, <3>4, <3>5 DEF isInitializing
  <2>2. ASSUME NEW u \in Threads, NEW d \in Classes, NEW s \in Classes,
               Runs(u, d)' \/ (Forks(u, d)' /\ d \in Trivial)
        PROVE  d \notin pending'[s]
    <3>1. Runs(u, d) \/ (Forks(u, d) /\ d \in Trivial)
      BY <2>2 DEF Leaves
    <3> QED
      BY <1>5, <3>1 DEF Core, Pending
  <2> QED
    BY <2>1, <2>2 DEF Pending
<1>11. Order'
  <2>1. \A d \in Classes : sent'[d] <= 1 /\ (flags'[d] = "none" => sent'[d] = 0)
    BY <1>5 DEF Core, Order
  <2>2. ASSUME NEW d \in Classes, superclass[d] # nil, flags'[d] # "none"
        PROVE  \/ isInitialized(superclass[d])'
               \/ /\ isInitializing(superclass[d])' /\ isInitializing(d)'
                  /\ forked' = 0 => \E u \in Threads : {d, superclass[d]} \subseteq mine'[u]
    <3>1. superclass[d] \in Classes
      BY <2>2, InitializeConstants
    <3>2. CASE superclass[d] \in F \/ isInitialized(superclass[d])
      BY <1>5, <3>1, <3>2 DEF isInitialized
    <3>3. CASE superclass[d] \notin F /\ ~isInitialized(superclass[d])
      <4>1. d \notin F
        BY <1>2, <2>2, <3>3
      <4>2. /\ isInitializing(superclass[d]) /\ isInitializing(d)
            /\ forked = 0 => \E u \in Threads : {d, superclass[d]} \subseteq mine[u]
        BY <1>5, <2>2, <3>3, <4>1 DEF Core, Order
      <4> QED
        BY SMTT(30), <1>5, <3>1, <3>3, <4>1, <4>2 DEF isInitializing
    <3> QED
      BY <3>2, <3>3
  <2> QED
    BY <2>1, <2>2 DEF Order
<1> QED
  BY <1>5, <1>6, <1>8, <1>9, <1>10, <1>11
-----------------------------------------------------------------------------
\* The superclass that c is to wait for is t's own, and t is not done with it.
LEMMA PendAlone ==
  ASSUME Core, NEW t \in Threads, NEW c \in Classes, Closing(t, c),
         NEW s, s = superclass[c], s # nil, ~isInitialized(s)
  PROVE  /\ s \in Classes /\ s \in mine[t] /\ isInitializing(s) /\ isInitializing(c)
         /\ \A v \in Threads \ {t} : s \in mine[v] => Forks(v, s) /\ s \notin Trivial
         /\ \A v \in Threads \ {t} : ~Runs(v, c) /\ ~(Forks(v, c) /\ c \in Trivial)
         /\ s \in Trivial => superclass[s] # nil /\ s \in pending[superclass[s]]
<1>1. /\ s \in Classes /\ s # c /\ s \in mine[t] /\ c \in mine[t]
      /\ isInitializing(s) /\ isInitializing(c)
  BY ClosingHolds, InitializeConstants DEF SuperReady, Core, Order
<1>2. Runs(t, s) => s \notin Trivial
  BY <1>1 DEF Closing
<1>3. ~Forks(t, s)
  BY <1>1 DEF Closing
<1>4. Runs(t, s) \/ (superclass[s] \in mine[t] /\ s \in pending[superclass[s]])
  BY <1>1, <1>3 DEF Core, Holders
<1>5. mine[t] \subseteq Classes /\ nil \notin Classes
  BY InitializeConstants DEF Core, TypeOK
<1>6. ASSUME NEW v \in Threads \ {t}, s \in mine[v] PROVE Forks(v, s) /\ s \notin Trivial
  <2>1. Forks(v, s)
    BY <1>1, <1>3, <1>6 DEF Core, Holders
  <2>2. s \in Trivial => s \notin pending[superclass[s]] \/ superclass[s] \notin Classes
    BY <1>1, <2>1 DEF Core, Pending
  <2> QED
    BY <1>2, <1>4, <1>5, <2>1, <2>2
<1>7. ASSUME NEW v \in Threads \ {t}, Forks(v, c), c \in Trivial PROVE FALSE
  <2>1. SuperReady(v, c)
    BY <1>7 DEF Core, Opens
  <2>2. s \in mine[v]
    BY <2>1 DEF SuperReady
  <2> QED
    BY <1>1, <1>6, <1>7, <2>2, ForksOne
<1>8. ASSUME NEW v \in Threads \ {t}, Runs(v, c) PROVE FALSE
  <2>1. c \in mine[v] /\ ~Forks(v, c)
    BY <1>8 DEF Core, Opens
  <2>2. Forks(t, c)
    BY <1>1, <2>1 DEF Core, Holders
  <2> QED
    BY <1>8, <2>2 DEF Core, Opens, Closing
<1> QED
  BY <1>1, <1>2, <1>4, <1>5, <1>6, <1>7, <1>8

\* _finishInitializingAfter keeps the invariant: c waits for its superclass.
LEMMA PendStep ==
  ASSUME Core, TypeOK', NEW t \in Threads, NEW c \in Classes, Closing(t, c), fatal = "no",
         NEW s, s = superclass[c], s # nil, ~isInitialized(s),
         _finishInitializingAfter(c, s), UNCHANGED <<forked, sent>>, Leaves(t, c)
  PROVE  /\ Opens' /\ Holders' /\ Pending' /\ Order' /\ Grows
         /\ fatal' = "no" /\ c \in mine'[t]
<1>1. /\ s \in Classes /\ s \in mine[t] /\ isInitializing(s) /\ isInitializing(c)
      /\ \A v \in Threads \ {t} : s \in mine[v] => Forks(v, s) /\ s \notin Trivial
      /\ \A v \in Threads \ {t} : ~Runs(v, c) /\ ~(Forks(v, c) /\ c \in Trivial)
      /\ s \in Trivial => superclass[s] # nil /\ s \in pending[superclass[s]]
  BY PendAlone
<1>2. c \in mine[t] /\ c \notin pending[s] /\ mine \in [Threads -> SUBSET Classes]
  BY <1>1, ClosingHolds DEF Core, TypeOK
<1>3. /\ UNCHANGED <<flags, mine>> /\ fatal' = "no"
      /\ pending \in [Classes -> SUBSET Classes]
      /\ pending'[s] = pending[s] \cup {c}
      /\ \A d \in Classes \ {s} : pending'[d] = pending[d]
  BY SMTT(30), <1>1, <1>2 DEF _finishInitializingAfter, Core, TypeOK
<1>4. Grows
  BY <1>3 DEF Grows, isInitialized
<1>5. Opens'
  BY SMTT(30), <1>3 DEF Core, Opens, Leaves, SuperReady, isInitialized, isInitializing
<1>6. Holders'
  <2>1. ASSUME NEW u \in Threads, NEW d \in mine[u]
        PROVE  /\ isInitializing(d) \/ (flags[d] # "none" /\ Forks(u, d)')
               /\ \/ Runs(u, d)' \/ Forks(u, d)'
                  \/ superclass[d] \in mine[u] /\ d \in pending'[superclass[d]]
    <3>1. d \in Classes /\ (u = t /\ d # c => ~Forks(t, d))
      BY <1>2 DEF Closing
    <3>2. isInitializing(d) \/ (flags[d] # "none" /\ Forks(u, d)')
      BY <1>1, <3>1 DEF Core, Holders, Leaves
    <3>3. CASE u = t /\ d = c
      BY <1>1, <1>3, <3>2, <3>3
    <3>4. CASE ~(u = t /\ d = c)
      <4>1. (Runs(u, d) => Runs(u, d)') /\ (Forks(u, d) => Forks(u, d)')
        BY <3>1, <3>4 DEF Leaves
      <4>2. superclass[d] \in mine[u] => pending[superclass[d]] \subseteq pending'[superclass[d]]
        BY <1>2, <1>3
      <4> QED
        BY <3>2, <4>1, <4>2 DEF Core, Holders
    <3> QED
      BY <3>3, <3>4
  <2>2. ASSUME NEW u \in Threads, NEW v \in Threads, NEW d \in mine[u] \cap mine[v], u # v
        PROVE  Forks(u, d)' \/ Forks(v, d)'
    <3>1. d \in Classes /\ (Forks(u, d) \/ Forks(v, d))
      BY <1>2, <2>2 DEF Core, Holders
    <3>2. CASE d # c
      BY <3>1, <3>2 DEF Leaves, Closing
    <3>3. CASE d = c
      <4>1. \A w \in Threads \ {t} : c \in mine[w] => Forks(w, c)
        <5> TAKE w \in Threads \ {t}
        <5>1. c \in mine[w] =>
                Forks(w, c) \/ (superclass[c] \in mine[w] /\ c \in pending[superclass[c]])
          BY <1>1 DEF Core, Holders
        <5> QED
          BY <1>2, <5>1
      <4> QED
        BY <2>2, <3>3, <4>1 DEF Leaves
    <3> QED
      BY <3>2, <3>3
  <2> QED
    BY <1>3, <2>1, <2>2 DEF Holders, isInitializing
<1>7. Pending'
  <2>1. ASSUME NEW r \in Classes, NEW d \in pending'[r]
        PROVE  /\ r = superclass[d] /\ isInitializing(r) /\ isInitializing(d)
               /\ \A u \in Threads :
                    r \in mine[u] => d \in mine[u] \/ (r \notin Trivial /\ Forks(u, r)')
               /\ r \in Trivial => superclass[r] # nil /\ r \in pending'[superclass[r]]
    <3>1. superclass[r] # nil => superclass[r] \in Classes
      BY InitializeConstants
    <3>2. \A q \in Classes : pending[q] \subseteq pending'[q]
      BY <1>3
    <3>3. CASE r = s /\ d = c
      BY <1>1, <1>2, <3>1, <3>2, <3>3 DEF Leaves
    <3>4. CASE ~(r = s /\ d = c)
      <4>1. d \in pending[r]
        BY <1>3, <3>4, <2>1
      <4>2. \A u \in Threads : r \notin Trivial /\ Forks(u, r) => r \notin Trivial /\ Forks(u, r)'
        BY DEF Leaves, Closing
      <4> QED
        BY <3>1, <3>2, <4>1, <4>2 DEF Core, Pending
    <3> QED
      BY <3>3, <3>4
  <2>2. ASSUME NEW u \in Threads, NEW d \in Classes, NEW r \in Classes,
               Runs(u, d)' \/ (Forks(u, d)' /\ d \in Trivial)
        PROVE  d \notin pending'[r]
    <3>1. (Runs(u, d) \/ (Forks(u, d) /\ d \in Trivial)) /\ (u = t => d # c)
      BY <2>2 DEF Leaves
    <3>2. d # c /\ d \notin pending[r]
      BY SMTT(30), <1>1, <3>1 DEF Core, Pending
    <3> QED
      BY <1>3, <3>2
  <2> QED
    BY <1>3, <2>1, <2>2 DEF Pending, isInitializing
<1>8. Order'
  BY SMTT(30), <1>3 DEF Core, Order, isInitializing, isInitialized
<1> QED
  BY <1>2, <1>3, <1>4, <1>5, <1>6, <1>7, <1>8

\* lockAndFinishInitializing keeps the invariant, whichever way it goes.
LEMMA CloseStep ==
  ASSUME Core, TypeOK', NEW t \in Threads, NEW c \in Classes, Closing(t, c), fatal = "no",
         lockAndFinishInitializing(t, c), UNCHANGED <<forked, sent>>, Leaves(t, c)
  PROVE  /\ Opens' /\ Holders' /\ Pending' /\ Order' /\ Grows
         /\ fatal' = "no" /\ (isInitialized(c)' \/ c \in mine'[t])
<1>1. CASE superclass[c] = nil \/ isInitialized(superclass[c])
  BY <1>1, FinishStep DEF lockAndFinishInitializing
<1>2. CASE ~(superclass[c] = nil \/ isInitialized(superclass[c]))
  BY <1>2, PendStep DEF lockAndFinishInitializing
<1> QED
  BY <1>1, <1>2
-----------------------------------------------------------------------------
\* RW_INITIALIZING is set by t, which runs +initialize of c or makes up for it.
LEMMA OpenStep ==
  ASSUME Core, TypeOK', NEW t \in Threads, NEW c \in Classes, flags[c] = "none",
         SuperReady(t, c), \A d \in Classes : ~Forks(t, d),
         flags' = [flags EXCEPT ![c] = "initializing"],
         mine' = [mine EXCEPT ![t] = @ \cup {c}], UNCHANGED <<pending, forked>>,
         IF forked = 1 THEN UNCHANGED sent ELSE sent' = [sent EXCEPT ![c] = @ + 1],
         \A u \in Threads \ {t}, d \in Classes :
           (Runs(u, d)' <=> Runs(u, d)) /\ (Forks(u, d)' <=> Forks(u, d)),
         \A d \in Classes : /\ Runs(t, d)' <=> Runs(t, d) \/ (d = c /\ forked # 1)
                            /\ Forks(t, d)' <=> d = c /\ forked = 1
  PROVE  Opens' /\ Holders' /\ Pending' /\ Order' /\ Grows
<1>1. /\ flags'[c] = "initializing" /\ \A d \in Classes \ {c} : flags'[d] = flags[d]
      /\ mine'[t] = mine[t] \cup {c} /\ \A u \in Threads \ {t} : mine'[u] = mine[u]
      /\ forked \in {0, 1, 2} /\ mine \in [Threads -> SUBSET Classes]
      /\ pending \in [Classes -> SUBSET Classes]
  BY DEF Core, TypeOK
<1>2. /\ \A u \in Threads : c \notin mine[u] /\ ~Runs(u, c) /\ ~Forks(u, c)
      /\ \A s \in Classes : c \notin pending[s]
      /\ pending[c] = {}
  BY SMTT(30), <1>1 DEF Core, Opens, Holders, Pending, isInitializing
<1>3. Grows
  BY <1>1 DEF Grows, isInitialized
<1>4. SuperReady(t, c)'
  BY <1>3, SuperKept
<1>5. Opens'
  <2> SUFFICES ASSUME NEW u \in Threads, NEW d \in Classes
               PROVE  /\ Runs(u, d)' => /\ d \in mine'[u] /\ isInitializing(d)'
                                        /\ SuperReady(u, d)'
                                        /\ forked' = 1 => d \notin Trivial
                      /\ Forks(u, d)' => /\ d \in mine'[u] /\ forked' = 1 /\ ~Runs(u, d)'
                                         /\ SuperReady(u, d)'
    BY DEF Opens
  <2>1. SuperReady(u, d) => SuperReady(u, d)'
    BY <1>3, SuperKept
  <2>2. CASE d = c
    BY SMTT(30), <1>1, <1>2, <1>4, <2>2 DEF isInitializing
  <2>3. CASE d # c
    BY SMTT(30), <1>1, <2>1, <2>3 DEF Core, Opens, isInitializing
  <2> QED
    BY <2>2, <2>3
<1>6. Holders'
  <2>1. ASSUME NEW u \in Threads, NEW d \in mine'[u]
        PROVE  /\ isInitializing(d)' \/ (flags'[d] # "none" /\ Forks(u, d)')
               /\ \/ Runs(u, d)' \/ Forks(u, d)'
                  \/ superclass[d] \in mine'[u] /\ d \in pending[superclass[d]]
    <3>1. CASE d = c
      BY SMTT(30), <1>1, <1>2, <3>1 DEF isInitializing
    <3>2. CASE d # c
      <4>1. d \in mine[u] /\ d \in Classes
        BY <1>1, <3>2
      <4> QED
        BY SMTT(30), <1>1, <3>2, <4>1 DEF Core, Holders, isInitializing
    <3> QED
      BY <3>1, <3>2
  <2>2. ASSUME NEW u \in Threads, NEW v \in Threads, NEW d \in mine'[u] \cap mine'[v], u # v
        PROVE  Forks(u, d)' \/ Forks(v, d)'
    <3>1. d \in Classes /\ d # c /\ d \in mine[u] \cap mine[v]
      BY SMTT(30), <1>1, <1>2, <2>2
    <3> QED
      BY <2>2, <3>1 DEF Core, Holders
  <2> QED
    BY <2>1, <2>2 DEF Holders
<1>7. Pending'
  <2>1. ASSUME NEW s \in Classes, NEW d \in pending[s]
        PROVE  /\ s = superclass[d] /\ isInitializing(s)' /\ isInitializing(d)'
               /\ \A u \in Threads :
                    s \in mine'[u] => d \in mine'[u] \/ (s \notin Trivial /\ Forks(u, s)')
               /\ s \in Trivial => superclass[s] # nil /\ s \in pending[superclass[s]]
    <3>1. s # c /\ d # c /\ d \in Classes
      BY SMTT(30), <1>1, <1>2
    <3> QED
      BY SMTT(30), <1>1, <2>1, <3>1 DEF Core, Pending, isInitializing
  <2>2. ASSUME NEW u \in Threads, NEW d \in Classes, NEW s \in Classes,
               Runs(u, d)' \/ (Forks(u, d)' /\ d \in Trivial)
        PROVE  d \notin pending[s]
    BY SMTT(30), <1>2, <2>2 DEF Core, Pending
  <2> QED
    BY <2>1, <2>2 DEF Pending
<1>8. Order'
  <2>1. \A d \in Classes : sent'[d] <= 1 /\ (flags'[d] = "none" => sent'[d] = 0)
    BY SMTT(30), <1>1 DEF Core, Order, TypeOK
  <2>2. ASSUME NEW d \in Classes, superclass[d] # nil, flags'[d] # "none"
        PROVE  \/ isInitialized(superclass[d])'
               \/ /\ isInitializing(superclass[d])' /\ isInitializing(d)'
                  /\ forked' = 0 => \E u \in Threads : {d, superclass[d]} \subseteq mine'[u]
    <3>1. superclass[d] \in Classes /\ superclass[d] # d
      BY <2>2, InitializeConstants
    <3>2. CASE d = c
      <4>1. superclass[c] \in mine[t] => isInitializing(superclass[c])
        BY <3>1, <3>2 DEF Core, Holders
      <4> QED
        BY SMTT(30), <1>1, <2>2, <3>1, <3>2, <4>1 DEF SuperReady, isInitializing, isInitialized
    <3>3. CASE d # c
      BY SMTT(30), <1>1, <2>2, <3>1, <3>3 DEF Core, Order, isInitializing, isInitialized
    <3> QED
      BY <3>2, <3>3
  <2> QED
    BY <2>1, <2>2 DEF Order
<1> QED
  BY <1>3, <1>5, <1>6, <1>7, <1>8

\* In the child of a fork, t takes over a class that nobody will finish.
LEMMA TakeStep ==
  ASSUME Core, TypeOK', NEW t \in Threads, NEW c \in Classes, isInitializing(c),
         SuperReady(t, c), \A d \in Classes : ~Forks(t, d), c \notin mine[t], forked = 1,
         mine' = [mine EXCEPT ![t] = @ \cup {c}], UNCHANGED <<flags, pending, forked, sent>>,
         \A u \in Threads \ {t}, d \in Classes :
           (Runs(u, d)' <=> Runs(u, d)) /\ (Forks(u, d)' <=> Forks(u, d)),
         \A d \in Classes : (Runs(t, d)' <=> Runs(t, d)) /\ (Forks(t, d)' <=> d = c)
  PROVE  Opens' /\ Holders' /\ Pending' /\ Order' /\ Grows
<1>1. /\ mine'[t] = mine[t] \cup {c} /\ \A u \in Threads \ {t} : mine'[u] = mine[u]
      /\ mine \in [Threads -> SUBSET Classes] /\ pending \in [Classes -> SUBSET Classes]
  BY DEF Core, TypeOK
<1>2. \A s \in Classes : c \notin pending[s]
  <2> SUFFICES ASSUME NEW s \in Classes, c \in pending[s] PROVE FALSE
    OBVIOUS
  <2>1. s = superclass[c] /\ isInitializing(s) /\ (s \in mine[t] => c \in mine[t])
    BY DEF Core, Pending
  <2>2. s \in mine[t]
    BY <2>1, InitializeConstants DEF SuperReady, isInitialized, isInitializing
  <2> QED
    BY <2>1, <2>2
<1>3. c \in Trivial => pending[c] = {}
  BY SMTT(30), <1>2, InitializeConstants DEF Core, Pending
<1>4. ~Runs(t, c)
  BY DEF Core, Opens
<1>5. Grows
  BY <1>1 DEF Grows, isInitialized
<1>6. Opens'
  <2> SUFFICES ASSUME NEW u \in Threads, NEW d \in Classes
               PROVE  /\ Runs(u, d)' => /\ d \in mine'[u] /\ isInitializing(d)'
                                        /\ SuperReady(u, d)'
                                        /\ forked' = 1 => d \notin Trivial
                      /\ Forks(u, d)' => /\ d \in mine'[u] /\ forked' = 1 /\ ~Runs(u, d)'
                                         /\ SuperReady(u, d)'
    BY DEF Opens
  <2>1. SuperReady(u, d) => SuperReady(u, d)'
    BY <1>5, SuperKept
  <2> QED
    BY SMTT(30), <1>1, <1>4, <2>1 DEF Core, Opens, isInitializing
<1>7. Holders'
  <2>1. ASSUME NEW u \in Threads, NEW d \in mine'[u]
        PROVE  /\ isInitializing(d) \/ (flags[d] # "none" /\ Forks(u, d)')
               /\ \/ Runs(u, d)' \/ Forks(u, d)'
                  \/ superclass[d] \in mine'[u] /\ d \in pending[superclass[d]]
    <3>1. CASE u = t /\ d = c
      BY <3>1
    <3>2. CASE ~(u = t /\ d = c)
      <4>1. d \in mine[u] /\ d \in Classes
        BY <1>1, <3>2, <2>1
      <4> QED
        BY SMTT(30), <1>1, <3>2, <4>1 DEF Core, Holders
    <3> QED
      BY <3>1, <3>2
  <2>2. ASSUME NEW u \in Threads, NEW v \in Threads, NEW d \in mine'[u] \cap mine'[v], u # v
        PROVE  Forks(u, d)' \/ Forks(v, d)'
    <3>1. CASE d = c /\ (u = t \/ v = t)
      BY <3>1
    <3>2. CASE ~(d = c /\ (u = t \/ v = t))
      <4>1. d \in Classes /\ d \in mine[u] \cap mine[v]
        BY <1>1, <2>2, <3>2
      <4> QED
        BY <2>2, <4>1 DEF Core, Holders
    <3> QED
      BY <3>1, <3>2
  <2> QED
    BY <2>1, <2>2 DEF Holders, isInitializing
<1>8. Pending'
  <2>1. ASSUME NEW s \in Classes, NEW d \in pending[s]
        PROVE  /\ s = superclass[d] /\ isInitializing(s) /\ isInitializing(d)
               /\ \A u \in Threads :
                    s \in mine'[u] => d \in mine'[u] \/ (s \notin Trivial /\ Forks(u, s)')
               /\ s \in Trivial => superclass[s] # nil /\ s \in pending[superclass[s]]
    BY SMTT(30), <1>1, <1>3, <2>1 DEF Core, Pending
  <2>2. ASSUME NEW u \in Threads, NEW d \in Classes, NEW s \in Classes,
               Runs(u, d)' \/ (Forks(u, d)' /\ d \in Trivial)
        PROVE  d \notin pending[s]
    BY SMTT(30), <1>2, <2>2 DEF Core, Pending
  <2> QED
    BY <2>1, <2>2 DEF Pending, isInitializing
<1>9. Order'
  BY SMTT(30) DEF Core, Order, isInitializing, isInitialized
<1> QED
  BY <1>5, <1>6, <1>7, <1>8, <1>9

-----------------------------------------------------------------------------
\* The first frame of a stack is a frame.
LEMMA TopFrame ==
  ASSUME TypeOK, NEW t \in Threads, stack[t] # <<>>
  PROVE  /\ stack[t][1] \in Frames /\ stack[t][1].cls \in Classes /\ 1 \in DOMAIN stack[t]
         /\ stack[t][1].todo \in SUBSET Classes
         /\ Head(stack[t]) = stack[t][1] /\ cls(t) = stack[t][1].cls
<1>1. stack[t] \in Seq(Frames)
  BY DEF TypeOK
<1>2. stack[t][1] \in Frames /\ 1 \in DOMAIN stack[t] /\ Head(stack[t]) = stack[t][1]
  BY SMTT(30), <1>1
<1>3. stack[t][1].cls \in Classes /\ stack[t][1].todo \in SUBSET Classes
  BY <1>2 DEF Frames
<1> QED
  BY <1>2, <1>3 DEF cls

\* The first frames of the other threads keep what they rely on.
LEMMA TopsStep ==
  ASSUME TypeOK, Tops, Grows, NEW t \in Threads, Others(t), stack'[t] # <<>> => TopOK(t)'
  PROVE  Tops'
<1> SUFFICES ASSUME NEW u \in Threads, u # t, stack[u] # <<>>, stack'[u] = stack[u]
             PROVE  TopOK(u)'
  BY DEF Tops, Others
<1>1. TopOK(u) /\ stack[u][1].cls \in Classes
  BY TopFrame DEF Tops
<1>2. SuperReady(u, stack[u][1].cls) => SuperReady(u, stack[u][1].cls)'
  <2>1. \A c \in Classes : SuperReady(u, c) => SuperReady(u, c)'
    BY SuperKept
  <2> QED
    BY <1>1, <2>1 DEF SuperReady
<1> QED
  BY <1>1, <1>2 DEF TopOK, Grows, isInitialized, SuperReady

\* A step that changes neither flags nor lists takes nothing away.
LEMMA SameGrows ==
  ASSUME UNCHANGED <<flags, mine>> PROVE Grows
  BY DEF Grows, isInitialized

\* A step that changes no more than the stack of t keeps the invariant.
LEMMA StackStep ==
  ASSUME IInv, TypeOK', Stacks', NEW t \in Threads, Others(t), stack'[t] # <<>> => TopOK(t)',
         UNCHANGED <<flags, mine, pending, forked, sent, fatal>>,
         \A u \in Threads, c \in Classes :
           (Runs(u, c)' <=> Runs(u, c)) /\ (Forks(u, c)' <=> Forks(u, c))
  PROVE  IInv'
<1>1. Tops'
  BY TopsStep, SameGrows DEF IInv
<1>2. Opens' /\ Holders' /\ Pending' /\ Order'
  BY SameOpens
<1> QED
  BY <1>1, <1>2 DEF IInv, StateNotBroken

\* So does one that moves the first frame between places outside +initialize.
LEMMA GotoStep ==
  ASSUME IInv, NEW t \in Threads, stack[t] # <<>>, NEW a \in Positions \ {"run", "fork_child"},
         Goto(t, a), stack[t][1].at \notin {"run", "fork_child"},
         UNCHANGED <<flags, mine, pending, forked, sent, fatal>>, waiting' \subseteq Threads,
         a # "enter" => SuperReady(t, stack[t][1].cls),
         a = "check" => flags[stack[t][1].cls] # "none",
         a = "check_done" => isInitialized(stack[t][1].cls),
         a = "return" => isInitialized(stack[t][1].cls) \/ stack[t][1].cls \in mine[t]
  PROVE  IInv'
<1>1. NewTop(t, a)
  BY GotoTop DEF IInv
<1>2. TypeOK' /\ Others(t)
  BY <1>1 DEF IInv, TypeOK, NewTop, Others
<1>3. Stacks'
  BY <1>1, NewTopStacks DEF IInv
<1>4. TopOK(t)'
  BY <1>1 DEF NewTop, TopOK, SuperReady, isInitialized
<1>5. \A u \in Threads, c \in Classes :
        (Runs(u, c)' <=> Runs(u, c)) /\ (Forks(u, c)' <=> Forks(u, c))
  <2>1. \A c \in Classes : ~Forks(t, c)
    BY DEF Forks
  <2> QED
    BY <1>1, <2>1, NewTopViews DEF IInv
<1> QED
  BY <1>2, <1>3, <1>4, <1>5, StackStep
-----------------------------------------------------------------------------
\* Messages: the calls, the check of the superclass, and the return.
LEMMA MessageSteps ==
  ASSUME IInv, NEW t \in Threads,
         \/ \E c \in Classes : objc_msgSend(t, c) \/ callInitialize(t, c)
         \/ _class_initialize(t) \/ MessageSent(t)
  PROVE  IInv'
<1>0. TypeOK /\ Stacks /\ Tops /\ Opens
  BY DEF IInv
<1>1. ASSUME NEW c \in Classes, objc_msgSend(t, c) PROVE IInv'
  <2>1. /\ stack' = [stack EXCEPT ![t] = <<Call(c)>>] /\ stack[t] = <<>>
        /\ UNCHANGED <<flags, mine, pending, waiting, forked, sent, fatal>>
    BY <1>1 DEF objc_msgSend
  <2>2. Call(c) \in Frames /\ Call(c).at = "enter"
    BY DEF Call, Frames
  <2>3. /\ stack' \in [Threads -> Seq(Frames)] /\ Others(t) /\ stack'[t] # <<>>
        /\ DOMAIN stack'[t] = {1} /\ stack'[t][1].at = "enter"
    BY SMTT(30), <1>0, <2>1, <2>2 DEF TypeOK, Others
  <2>4. TypeOK' /\ TopOK(t)'
    BY <1>0, <2>1, <2>3 DEF TypeOK, TopOK
  <2>5. Stacks'
    BY SMTT(30), <1>0, <2>3 DEF Stacks, Others
  <2>6. \A u \in Threads, d \in Classes :
          (Runs(u, d)' <=> Runs(u, d)) /\ (Forks(u, d)' <=> Forks(u, d))
    BY SMTT(30), <2>1, <2>3 DEF Runs, Forks, Others
  <2> QED
    BY <2>1, <2>3, <2>4, <2>5, <2>6, StackStep
<1>2. ASSUME NEW c \in Classes, callInitialize(t, c) PROVE IInv'
  <2> DEFINE f == [stack[t][1] EXCEPT !.todo = @ \ {c}]
  <2>1. /\ stack[t] # <<>> /\ stack[t][1].at = "run" /\ c \in stack[t][1].todo
        /\ UNCHANGED <<flags, mine, pending, waiting, forked, sent, fatal>>
    BY <1>0, <1>2, TopFrame DEF callInitialize, At
  <2>2. /\ f \in Frames /\ f.cls = stack[t][1].cls /\ f.at = "run"
        /\ f.todo = stack[t][1].todo \ {c}
    BY <1>0, <2>1, TopFrame DEF Frames
  <2>3. [stack[t] EXCEPT ![1].todo = @ \ {c}] = [stack[t] EXCEPT ![1] = f]
    BY <1>0, <2>1 DEF TypeOK
  <2>4. stack' = [stack EXCEPT ![t] = IF isInitialized(c) THEN [stack[t] EXCEPT ![1] = f]
                                      ELSE <<Call(c)>> \o [stack[t] EXCEPT ![1] = f]]
    BY <1>2, <2>3 DEF callInitialize
  <2>5. Runs(t, stack[t][1].cls) /\ SuperReady(t, stack[t][1].cls)
    BY <1>0, <2>1, TopFrame DEF Runs, Opens
  <2>6. stack[t][1].todo \subseteq Messages[stack[t][1].cls]
    BY <1>0, <2>1, TopFrame DEF Stacks
  <2>7. stack[t][1].cls \notin Trivial
    BY <1>0, <2>1, <2>6, TopFrame, InitializeConstants
  <2> HIDE DEF f
  <2>8. CASE isInitialized(c)
    <3>1. NewTop(t, "run") /\ stack'[t][1].todo \subseteq stack[t][1].todo
      BY <1>0, <2>1, <2>2, <2>4, <2>8, TopStep
    <3>2. TypeOK' /\ Others(t)
      BY <1>0, <2>1, <3>1 DEF TypeOK, NewTop, Others
    <3>3. Stacks'
      BY SMTT(30), <1>0, <2>1, <2>6, <3>1 DEF Stacks, NewTop
    <3>4. TopOK(t)'
      BY <2>1, <2>5, <3>1 DEF NewTop, TopOK, SuperReady, isInitialized
    <3>5. \A u \in Threads, d \in Classes :
            (Runs(u, d)' <=> Runs(u, d)) /\ (Forks(u, d)' <=> Forks(u, d))
      <4>1. \A d \in Classes : ~Forks(t, d)
        BY <2>1 DEF Forks
      <4> QED
        BY SMTT(30), <1>0, <2>1, <2>5, <3>1, <4>1, NewTopViews DEF Positions
    <3> QED
      BY <2>1, <3>2, <3>3, <3>4, <3>5, StackStep
  <2>9. CASE ~isInitialized(c)
    <3>1. /\ NewCall(t, c) /\ stack'[t][2] = f
          /\ \A k \in DOMAIN stack[t] : k # 1 => stack'[t][k + 1] = stack[t][k]
      BY ZenonT(60), <1>0, <2>1, <2>2, <2>4, <2>9, CallStep
    <3>2. Stacks'
      BY <1>0, <2>1, <2>2, <2>7, <3>1, NewCallStacks
    <3>3. TypeOK' /\ Others(t) /\ TopOK(t)'
      <4>1. TypeOK' /\ Others(t)
        BY <1>0, <2>1, <3>1 DEF TypeOK, NewCall, Others
      <4>2. stack'[t][1].at = "enter"
        BY SMTT(30), <3>1 DEF NewCall, Call
      <4>3. TopOK(t)'
        BY <4>2, EnterOK
      <4> QED
        BY <4>1, <4>3
    <3>4. \A u \in Threads, d \in Classes :
            (Runs(u, d)' <=> Runs(u, d)) /\ (Forks(u, d)' <=> Forks(u, d))
      BY <2>1, <3>1, NewCallViews
    <3> QED
      BY <2>1, <3>2, <3>3, <3>4, StackStep
  <2> QED
    BY <2>8, <2>9
<1>3. ASSUME _class_initialize(t) PROVE IInv'
  <2> DEFINE f == [stack[t][1] EXCEPT !.at = "set"]
             super == superclass[stack[t][1].cls]
  <2>1. /\ stack[t] # <<>> /\ stack[t][1].at = "enter"
        /\ UNCHANGED <<flags, mine, pending, waiting, forked, sent, fatal>>
    BY <1>0, <1>3, TopFrame DEF _class_initialize, At
  <2>2. /\ f \in Frames /\ f.cls = stack[t][1].cls /\ f.at = "set"
        /\ f.todo = stack[t][1].todo
    BY <1>0, <2>1, TopFrame DEF Frames
  <2>3. [stack[t] EXCEPT ![1].at = "set"] = [stack[t] EXCEPT ![1] = f]
    BY <1>0, <2>1 DEF TypeOK
  <2>4. stack' = [stack EXCEPT ![t] =
                    IF super # nil /\ ~isInitialized(super)
                      THEN <<Call(super)>> \o [stack[t] EXCEPT ![1] = f]
                      ELSE [stack[t] EXCEPT ![1] = f]]
    BY <1>0, <1>3, <2>1, <2>3, TopFrame DEF _class_initialize
  <2> HIDE DEF f
  <2>5. CASE super # nil /\ ~isInitialized(super)
    <3>0. super \in Classes
      BY <1>0, <2>1, <2>5, TopFrame, InitializeConstants
    <3>1. /\ NewCall(t, super) /\ stack'[t][2] = f
          /\ \A k \in DOMAIN stack[t] : k # 1 => stack'[t][k + 1] = stack[t][k]
      BY <1>0, <2>1, <2>2, <2>4, <2>5, <3>0, CallStep
    <3>2. Stacks'
      BY <1>0, <2>1, <2>2, <3>0, <3>1, NewCallStacks
    <3>3. TypeOK' /\ Others(t) /\ TopOK(t)'
      <4>1. TypeOK' /\ Others(t)
        BY <1>0, <2>1, <3>1 DEF TypeOK, NewCall, Others
      <4>2. stack'[t][1].at = "enter"
        BY SMTT(30), <3>1 DEF NewCall, Call
      <4>3. TopOK(t)'
        BY <4>2, EnterOK
      <4> QED
        BY <4>1, <4>3
    <3>4. \A u \in Threads, d \in Classes :
            (Runs(u, d)' <=> Runs(u, d)) /\ (Forks(u, d)' <=> Forks(u, d))
      BY <2>1, <3>0, <3>1, NewCallViews
    <3> QED
      BY <2>1, <3>2, <3>3, <3>4, StackStep
  <2>6. CASE ~(super # nil /\ ~isInitialized(super))
    <3>1. NewTop(t, "set")
      BY <1>0, <2>1, <2>2, <2>4, <2>6, TopStep
    <3>2. TypeOK' /\ Others(t)
      BY <1>0, <2>1, <3>1 DEF TypeOK, NewTop, Others
    <3>3. Stacks'
      BY <1>0, <3>1, NewTopStacks DEF Positions
    <3>4. TopOK(t)'
      BY <2>1, <2>6, <3>1 DEF NewTop, TopOK, SuperReady, isInitialized
    <3>5. \A u \in Threads, d \in Classes :
            (Runs(u, d)' <=> Runs(u, d)) /\ (Forks(u, d)' <=> Forks(u, d))
      <4>1. \A d \in Classes : ~Forks(t, d)
        BY <2>1 DEF Forks
      <4> QED
        BY <1>0, <2>1, <3>1, <4>1, NewTopViews DEF Positions
    <3> QED
      BY <2>1, <3>2, <3>3, <3>4, <3>5, StackStep
  <2> QED
    BY <2>5, <2>6
<1>4. ASSUME MessageSent(t) PROVE IInv'
  <2>1. /\ stack[t] # <<>> /\ stack[t][1].at = "return"
        /\ stack' = [stack EXCEPT ![t] = Tail(@)]
        /\ UNCHANGED <<flags, mine, pending, waiting, forked, sent, fatal>>
    BY <1>0, <1>4, TopFrame DEF MessageSent, At
  <2>2. Unwinds(t, 1)
    BY <1>0, <2>1, PopUnwinds
  <2>3. Stacks' /\ (stack'[t] # <<>> => stack'[t][1].at \in {"set", "run"})
    BY SMTT(30), <1>0, <2>2, UnwindsStacks
  <2>4. TypeOK' /\ Others(t)
    BY <1>0, <2>1, <2>2 DEF TypeOK, Unwinds
  <2>5. \A u \in Threads, d \in Classes :
          (Runs(u, d)' <=> Runs(u, d)) /\ (Forks(u, d)' <=> Forks(u, d))
    <3>1. \A d \in Classes : ~Forks(t, d)
      BY <2>1 DEF Forks
    <3> QED
      BY SMTT(30), <1>0, <2>1, <2>2, <3>1, UnwindsViews
  <2>6. ASSUME stack'[t] # <<>> PROVE TopOK(t)'
    <3>1. /\ 1 \in DOMAIN stack'[t] /\ 2 \in DOMAIN stack[t] /\ stack'[t][1] = stack[t][2]
      BY SMTT(30), <2>2, <2>6 DEF Unwinds
    <3>2. stack[t][2].cls \in Classes
      <4>1. stack[t] \in Seq(Frames)
        BY <1>0 DEF TypeOK
      <4>2. stack[t][2] \in Frames
        BY SMTT(30), <3>1, <4>1
      <4> QED
        BY <4>2 DEF Frames
    <3>3. CASE stack[t][2].at = "set"
      <4>1. stack[t][1].cls = superclass[stack[t][2].cls]
        BY SMTT(30), <1>0, <3>1, <3>3 DEF Stacks
      <4>2. isInitialized(stack[t][1].cls) \/ stack[t][1].cls \in mine[t]
        BY <1>0, <2>1 DEF Tops, TopOK
      <4> QED
        BY <2>1, <3>1, <3>3, <4>1, <4>2 DEF TopOK, SuperReady, isInitialized
    <3>4. CASE stack[t][2].at = "run"
      <4>1. SuperReady(t, stack[t][2].cls)
        BY <1>0, <3>1, <3>2, <3>4 DEF Opens, Runs
      <4> QED
        BY <2>1, <3>1, <3>4, <4>1 DEF TopOK, SuperReady, isInitialized
    <3> QED
      BY <2>3, <2>6, <3>1, <3>3, <3>4
  <2> QED
    BY <2>1, <2>3, <2>4, <2>5, <2>6, StackStep
<1> QED
  BY <1>1, <1>2, <1>3, <1>4
-----------------------------------------------------------------------------
\* What every step of the open frames ends with.
LEMMA LockedStep ==
  ASSUME IInv, TypeOK', Stacks', NEW t \in Threads, Others(t), stack'[t] # <<>> => TopOK(t)',
         Opens' /\ Holders' /\ Pending' /\ Order' /\ Grows, fatal' = "no"
  PROVE  IInv'
<1>1. Tops'
  BY TopsStep DEF IInv
<1> QED
  BY <1>1 DEF IInv, StateNotBroken

\* setInitializing keeps the invariant.
LEMMA SetStep ==
  ASSUME IInv, NEW t \in Threads, setInitializing(t) PROVE IInv'
<1>0. TypeOK /\ Stacks /\ Tops /\ Opens /\ Core
  BY DEF IInv, Core
<1>a. /\ stack[t] # <<>> /\ stack[t][1].at = "set" /\ cls(t) = stack[t][1].cls
      /\ stack[t][1].cls \in Classes
      /\ fatal = "no" /\ UNCHANGED <<pending, waiting, forked>>
  BY <1>0, TopFrame DEF setInitializing, At
<1> PICK c \in Classes : c = stack[t][1].cls
  BY <1>a
<1>1. /\ stack[t] # <<>> /\ stack[t][1].at = "set" /\ cls(t) = c /\ stack[t][1].cls = c
      /\ fatal = "no" /\ UNCHANGED <<pending, waiting, forked>>
  BY <1>a
<1>2. SuperReady(t, c)
  BY <1>0, <1>1 DEF Tops, TopOK
<1>3. \A d \in Classes : ~Forks(t, d)
  BY <1>1 DEF Forks
<1>4. CASE flags[c] # "none"
  <2>1. Goto(t, "check") /\ UNCHANGED <<flags, mine, sent, fatal>>
    BY <1>1, <1>4 DEF setInitializing
  <2>2. waiting' \subseteq Threads
    BY <1>0, <1>1 DEF TypeOK
  <2> QED
    BY <1>1, <1>2, <1>4, <2>1, <2>2, GotoStep DEF Positions
<1>5. CASE flags[c] = "none"
  <2>1. c \notin mine[t]
    BY <1>0, <1>3, <1>5 DEF Core, Holders, isInitializing
  <2>2. /\ flags' = [flags EXCEPT ![c] = "initializing"]
        /\ mine' = [mine EXCEPT ![t] = @ \cup {c}] /\ fatal' = "no"
    BY <1>1, <1>5, <2>1 DEF setInitializing, _setThisThreadIsInitializingClass
  <2>3. ~Runs(t, c)
    BY <1>0, <1>1, <2>1 DEF Opens
  <2> DEFINE a == IF forked = 1 THEN "fork_child" ELSE "run"
  <2>4. /\ IF forked = 1 THEN UNCHANGED sent ELSE sent' = [sent EXCEPT ![c] = @ + 1]
        /\ NewTop(t, a) /\ (a = "run" => stack'[t][1].todo = Messages[c])
    <3>1. CASE forked = 1
      <4>1. Goto(t, "fork_child") /\ UNCHANGED sent
        BY <1>1, <1>5, <3>1 DEF setInitializing
      <4> QED
        BY <1>0, <1>1, <3>1, <4>1, GotoTop DEF Positions
    <3>2. CASE forked # 1
      <4>1. /\ stack' = [stack EXCEPT ![t][1].at = "run", ![t][1].todo = Messages[c]]
            /\ sent' = [sent EXCEPT ![c] = @ + 1]
        BY <1>1, <1>5, <3>2 DEF setInitializing
      <4>2. Messages[c] \in SUBSET Classes
        BY <1>1, InitializeConstants
      <4>3. NewTop(t, "run") /\ stack'[t][1].todo = Messages[c]
        BY <1>0, <1>1, <4>1, <4>2, RunTop
      <4> QED
        BY <3>2, <4>1, <4>3
    <3> QED
      BY <3>1, <3>2
  <2>5. a \in Positions /\ (a = "run" <=> forked # 1) /\ (a = "fork_child" <=> forked = 1)
    BY SMTT(30), <1>0 DEF TypeOK, Positions
  <2> HIDE DEF a
  <2>6. Stacks'
    BY <1>0, <1>1, <2>3, <2>4, <2>5, NewTopStacks
  <2>7. TypeOK' /\ Others(t)
    <3>1. flags' \in [Classes -> {"none", "initializing", "initialized"}]
      BY <1>0, <2>2 DEF TypeOK
    <3>2. mine' \in [Threads -> SUBSET Classes]
      BY <1>0, <2>2 DEF TypeOK
    <3>3. sent' \in [Classes -> Nat]
      <4>1. sent \in [Classes -> Nat]
        BY <1>0 DEF TypeOK
      <4> QED
        BY SMTT(30), <2>4, <4>1
    <3> QED
      BY <1>0, <1>1, <2>4, <3>1, <3>2, <3>3 DEF TypeOK, NewTop, Others
  <2>8. /\ \A u \in Threads \ {t}, d \in Classes :
             (Runs(u, d)' <=> Runs(u, d)) /\ (Forks(u, d)' <=> Forks(u, d))
        /\ \A d \in Classes : /\ Runs(t, d)' <=> Runs(t, d) \/ (d = c /\ forked # 1)
                              /\ Forks(t, d)' <=> d = c /\ forked = 1
    BY <1>0, <1>1, <2>4, <2>5, NewTopViews
  <2>9. Opens' /\ Holders' /\ Pending' /\ Order' /\ Grows
    BY <1>0, <1>1, <1>2, <1>3, <1>5, <2>2, <2>4, <2>7, <2>8, OpenStep
  <2>10. TopOK(t)'
    <3>1. SuperReady(t, c)'
      BY <1>1, <1>2, <2>9, SuperKept
    <3>2. stack'[t][1].at \in {"run", "fork_child"} /\ stack'[t][1].cls = c
      BY <1>1, <2>4, <2>5 DEF NewTop, a
    <3> QED
      BY <3>1, <3>2 DEF TopOK, SuperReady
  <2> QED
    BY <2>2, <2>6, <2>7, <2>9, <2>10, LockedStep
<1> QED
  BY <1>4, <1>5

\* The looks at a class that another call is initializing keep the invariant.
LEMMA CheckSteps ==
  ASSUME IInv, NEW t \in Threads,
         CheckInitializing(t) \/ CheckInitialized(t) \/ waitForInitializeToComplete(t)
  PROVE  IInv'
<1>0. TypeOK /\ Stacks /\ Tops /\ Opens /\ Core
  BY DEF IInv, Core
<1>a. /\ stack[t] # <<>> /\ stack[t][1].at \in {"check", "check_done", "wait"}
      /\ stack[t][1].cls \in Classes /\ cls(t) = stack[t][1].cls
      /\ fatal = "no" /\ UNCHANGED <<flags, pending, forked, sent>> /\ waiting' \subseteq Threads
  BY <1>0, TopFrame
     DEF CheckInitializing, CheckInitialized, waitForInitializeToComplete, At, TypeOK
<1> PICK c \in Classes : c = stack[t][1].cls
  BY <1>a
<1>1. /\ stack[t] # <<>> /\ stack[t][1].at \in {"check", "check_done", "wait"}
      /\ cls(t) = c /\ stack[t][1].cls = c
      /\ fatal = "no" /\ UNCHANGED <<flags, pending, forked, sent>> /\ waiting' \subseteq Threads
  BY <1>a
<1>2. SuperReady(t, c)
  BY <1>0, <1>1 DEF Tops, TopOK
<1>3. ASSUME UNCHANGED <<mine, fatal>>, NEW a \in {"check_done", "wait", "return"}, Goto(t, a),
             a = "check_done" => isInitialized(c),
             a = "return" => isInitialized(c) \/ c \in mine[t]
      PROVE  IInv'
  BY <1>1, <1>2, <1>3, GotoStep DEF Positions
<1>4. CASE CheckInitializing(t)
  <2>1. stack[t][1].at = "check" /\ flags[c] # "none" /\ UNCHANGED waiting
    BY <1>0, <1>1, <1>4, TopFrame DEF CheckInitializing, At, Tops, TopOK
  <2>2. CASE ~isInitializing(c)
    <3>1. Goto(t, "check_done") /\ UNCHANGED <<mine, fatal>>
      BY <1>1, <1>4, <2>2 DEF CheckInitializing
    <3>2. isInitialized(c)
      BY <1>0, <1>1, <2>1, <2>2 DEF TypeOK, isInitialized, isInitializing
    <3> QED
      BY <1>3, <3>1, <3>2
  <2>3. CASE isInitializing(c) /\ c \in mine[t]
    BY <1>1, <1>3, <1>4, <2>3 DEF CheckInitializing, _thisThreadIsInitializingClass
  <2>4. CASE isInitializing(c) /\ c \notin mine[t] /\ forked # 1
    BY <1>1, <1>3, <1>4, <2>4 DEF CheckInitializing, _thisThreadIsInitializingClass
  <2>5. CASE isInitializing(c) /\ c \notin mine[t] /\ forked = 1
    <3>1. /\ mine' = [mine EXCEPT ![t] = @ \cup {c}] /\ fatal' = "no"
          /\ Goto(t, "fork_child") /\ forked = 1
      BY <1>0, <1>1, <1>4, <2>5
         DEF CheckInitializing, _thisThreadIsInitializingClass,
             _setThisThreadIsInitializingClass,
             TypeOK
    <3>2. NewTop(t, "fork_child")
      BY <1>0, <1>1, <3>1, GotoTop DEF Positions
    <3>3. Stacks'
      BY <1>0, <3>2, NewTopStacks DEF Positions
    <3>4. TypeOK' /\ Others(t)
      BY <1>0, <1>1, <2>1, <3>1, <3>2 DEF TypeOK, NewTop, Others
    <3>5. \A d \in Classes : ~Forks(t, d)
      BY <2>1 DEF Forks
    <3>6. /\ \A u \in Threads \ {t}, d \in Classes :
               (Runs(u, d)' <=> Runs(u, d)) /\ (Forks(u, d)' <=> Forks(u, d))
          /\ \A d \in Classes : (Runs(t, d)' <=> Runs(t, d)) /\ (Forks(t, d)' <=> d = c)
      BY <1>0, <2>1, <3>2, NewTopViews DEF Positions
    <3>7. Opens' /\ Holders' /\ Pending' /\ Order' /\ Grows
      BY <1>0, <1>1, <1>2, <2>5, <3>1, <3>4, <3>5, <3>6, TakeStep
    <3>8. SuperReady(t, c)'
      BY <1>1, <1>2, <3>7, SuperKept
    <3>9. TopOK(t)'
      BY <1>1, <3>2, <3>8 DEF NewTop, TopOK, SuperReady
    <3> QED
      BY <3>1, <3>3, <3>4, <3>7, <3>9, LockedStep
  <2> QED
    BY <2>2, <2>3, <2>4, <2>5
<1>5. CASE CheckInitialized(t)
  <2>1. stack[t][1].at = "check_done"
    BY <1>0, <1>1, <1>5, TopFrame DEF CheckInitialized, At
  <2>2. isInitialized(c)
    BY <1>0, <1>1, <2>1 DEF Tops, TopOK
  <2> QED
    BY <1>1, <1>3, <1>5, <2>2 DEF CheckInitialized
<1>6. CASE waitForInitializeToComplete(t)
  <2>1. CASE isInitialized(c)
    BY <1>1, <1>3, <1>6, <2>1 DEF waitForInitializeToComplete
  <2>2. CASE ~isInitialized(c)
    <3>1. UNCHANGED <<stack, mine, fatal>>
      BY <1>1, <1>6, <2>2 DEF waitForInitializeToComplete
    <3>a. /\ TypeOK' /\ Others(t) /\ UNCHANGED flags
      BY <1>0, <1>6, <3>1 DEF waitForInitializeToComplete, TypeOK, Others
    <3>b. Stacks'
      BY <1>0, <3>1 DEF Stacks
    <3>2. TypeOK' /\ Stacks' /\ Others(t) /\ TopOK(t)'
      <4>1. TopOK(t)
        BY <1>0, <1>1 DEF Tops
      <4>2. TopOK(t)'
        BY <3>1, <3>a, <4>1 DEF TopOK, SuperReady, isInitialized
      <4> QED
        BY <3>a, <3>b, <4>2
    <3>3. \A u \in Threads, d \in Classes :
            (Runs(u, d)' <=> Runs(u, d)) /\ (Forks(u, d)' <=> Forks(u, d))
      BY <3>1 DEF Runs, Forks
    <3> QED
      BY <1>1, <3>1, <3>2, <3>3, StackStep
  <2> QED
    BY <2>1, <2>2
<1> QED
  BY <1>4, <1>5, <1>6

\* lockAndFinishInitializing keeps the types.
LEMMA FinishType ==
  ASSUME TypeOK, NEW t \in Threads, NEW c \in Classes, superclass[c] \in Classes \cup {nil},
         lockAndFinishInitializing(t, c), UNCHANGED <<forked, sent>>,
         stack' \in [Threads -> Seq(Frames)]
  PROVE  TypeOK'
<1>1. CASE superclass[c] = nil \/ isInitialized(superclass[c])
  <2>1. flags' \in [Classes -> {"none", "initializing", "initialized"}]
    <3>1. flags' = [d \in Classes |-> IF d \in Finishing(c) THEN "initialized" ELSE flags[d]]
      BY <1>1 DEF lockAndFinishInitializing, _finishInitializing
    <3> QED
      BY <3>1 DEF TypeOK
  <2>2. pending' \in [Classes -> SUBSET Classes]
    <3>1. pending' = [d \in Classes |-> IF d \in Finishing(c) THEN {} ELSE pending[d]]
      BY <1>1 DEF lockAndFinishInitializing, _finishInitializing
    <3> QED
      BY <3>1 DEF TypeOK
  <2>3. mine' \in [Threads -> SUBSET Classes]
    <3>1. mine' = [mine EXCEPT ![t] = @ \ Finishing(c)]
      BY <1>1 DEF lockAndFinishInitializing, _finishInitializing
    <3> QED
      BY <3>1 DEF TypeOK
  <2>4. waiting' = {}
    BY <1>1 DEF lockAndFinishInitializing, _finishInitializing
  <2> QED
    BY <2>1, <2>2, <2>3, <2>4 DEF TypeOK
<1>2. CASE ~(superclass[c] = nil \/ isInitialized(superclass[c]))
  <2>1. /\ pending' = [pending EXCEPT ![superclass[c]] = @ \cup {c}]
        /\ UNCHANGED <<flags, mine, waiting>>
    BY <1>2 DEF lockAndFinishInitializing, _finishInitializingAfter
  <2>2. pending' \in [Classes -> SUBSET Classes]
    BY <1>2, <2>1 DEF TypeOK
  <2> QED
    BY <2>1, <2>2 DEF TypeOK
<1> QED
  BY <1>1, <1>2

\* A thread whose first frame is a +initialize may close it.
LEMMA RunClosing ==
  ASSUME TypeOK, Stacks, NEW t \in Threads, stack[t] # <<>>, stack[t][1].at = "run"
  PROVE  Closing(t, stack[t][1].cls)
<1>1. 1 \in DOMAIN stack[t]
  BY TopFrame
<1>2. \A d \in Classes : ~Forks(t, d)
  BY DEF Forks
<1>3. \A d \in Classes : Runs(t, d) /\ d # stack[t][1].cls => d \notin Trivial
  BY SMTT(30), <1>1 DEF Runs, Stacks
<1> QED
  BY <1>1, <1>2, <1>3 DEF Closing, Runs

\* The end of +initialize, by return, exception or in a forked child.
LEMMA ReturnSteps ==
  ASSUME IInv, NEW t \in Threads,
         InitializeReturns(t) \/ InitializeThrows(t) \/ performForkChildInitialize(t)
  PROVE  IInv'
<1>0. TypeOK /\ Stacks /\ Tops /\ Opens /\ Core
  BY DEF IInv, Core
<1>a. /\ stack[t] # <<>> /\ stack[t][1].at \in {"run", "fork_child"}
      /\ stack[t][1].cls \in Classes
      /\ cls(t) = stack[t][1].cls /\ fatal = "no" /\ UNCHANGED <<forked, sent>>
  BY <1>0, TopFrame
     DEF InitializeReturns, InitializeThrows, performForkChildInitialize, At
<1> PICK c \in Classes : c = stack[t][1].cls
  BY <1>a
<1>1. /\ stack[t] # <<>> /\ cls(t) = c /\ stack[t][1].cls = c /\ fatal = "no"
      /\ UNCHANGED <<forked, sent>> /\ superclass[c] \in Classes \cup {nil}
  BY <1>a, InitializeConstants
<1>2. SuperReady(t, c)
  BY <1>0, <1>a, <1>1 DEF Tops, TopOK
<1>3. ASSUME Closing(t, c), lockAndFinishInitializing(t, c), Goto(t, "return")
      PROVE  IInv'
  <2>1. NewTop(t, "return")
    BY <1>0, <1>1, <1>3, GotoTop DEF Positions
  <2>2. Stacks'
    BY <1>0, <2>1, NewTopStacks DEF Positions
  <2>3. TypeOK' /\ Others(t)
    BY <1>0, <1>1, <1>3, <2>1, FinishType DEF NewTop, Others
  <2>4. Leaves(t, c)
    <3>1. stack[t][1].at # "run" => ~Runs(t, c)
      BY <1>0, <1>a, <1>1 DEF Opens, Forks
    <3> QED
      BY SMTT(30), <1>0, <1>1, <2>1, <3>1, NewTopViews DEF Leaves, Positions
  <2>5. /\ Opens' /\ Holders' /\ Pending' /\ Order' /\ Grows
        /\ fatal' = "no" /\ (isInitialized(c)' \/ c \in mine'[t])
    BY <1>0, <1>1, <1>3, <2>3, <2>4, CloseStep
  <2>6. TopOK(t)'
    <3>1. SuperReady(t, c)'
      BY <1>2, <2>5, SuperKept
    <3> QED
      BY <1>1, <2>1, <2>5, <3>1 DEF NewTop, TopOK, SuperReady, isInitialized
  <2> QED
    BY <2>2, <2>3, <2>5, <2>6, LockedStep
<1>4. CASE InitializeReturns(t)
  <2>1. Closing(t, c)
    BY <1>0, <1>1, <1>4, TopFrame, RunClosing DEF InitializeReturns, At
  <2> QED
    BY <1>1, <1>3, <1>4, <2>1 DEF InitializeReturns
<1>5. CASE InitializeThrows(t)
  <2>1. /\ stack[t][1].at = "run" /\ lockAndFinishInitializing(t, c)
        /\ Unwind(t)
    BY <1>0, <1>1, <1>5, TopFrame DEF InitializeThrows, At
  <2>2. Closing(t, c)
    BY <1>0, <1>1, <2>1, RunClosing
  <2>3. PICK m \in Nat \ {0} : Unwinds(t, m)
    BY <1>0, <1>1, <2>1, ThrowUnwinds
  <2>4. stack'[t] # <<>> => stack'[t][1].at = "run"
    BY <1>0, <1>1, <2>1, ThrowUnwinds
  <2>5. Stacks'
    BY <1>0, <2>3, UnwindsStacks
  <2>6. TypeOK' /\ Others(t)
    BY <1>0, <1>1, <2>1, <2>3, FinishType DEF Unwinds
  <2>7. Leaves(t, c)
    BY <1>0, <1>1, <2>1, <2>3, UnwindsViews DEF Leaves
  <2>8. Opens' /\ Holders' /\ Pending' /\ Order' /\ Grows /\ fatal' = "no"
    BY <1>0, <1>1, <2>1, <2>2, <2>6, <2>7, CloseStep
  <2>9. ASSUME stack'[t] # <<>> PROVE TopOK(t)'
    <3>1. stack'[t] \in Seq(Frames) /\ stack'[t][1].at = "run"
      BY <2>4, <2>6, <2>9 DEF TypeOK
    <3>2. 1 \in DOMAIN stack'[t] /\ stack'[t][1] \in Frames
      BY SMTT(30), <2>9, <3>1
    <3>3. PICK d \in Classes : d = stack'[t][1].cls
      BY <3>2 DEF Frames
    <3>4. Runs(t, d)'
      BY <3>1, <3>2, <3>3 DEF Runs
    <3>5. SuperReady(t, d)'
      BY <2>8, <3>4 DEF Opens
    <3> QED
      BY <3>1, <3>3, <3>5 DEF TopOK, SuperReady
  <2> QED
    BY <2>5, <2>6, <2>8, <2>9, LockedStep
<1>6. CASE performForkChildInitialize(t)
  <2>1. /\ stack[t][1].at = "fork_child" /\ Forks(t, c) /\ forked = 1
        /\ \A d \in Classes : Forks(t, d) => d = c
    BY <1>0, <1>1, <1>6, TopFrame DEF performForkChildInitialize, At, Forks, Opens
  <2>2. CASE c \in Trivial
    <3>1. Closing(t, c)
      BY <1>0, <2>1, <2>2 DEF Closing, Opens
    <3> QED
      BY <1>1, <1>3, <1>6, <2>2, <3>1 DEF performForkChildInitialize
  <2>3. CASE c \notin Trivial
    <3>1. UNCHANGED <<flags, mine, pending, waiting, stack, forked, sent>> /\ fatal' = "after fork"
      BY <1>1, <1>6, <2>3 DEF performForkChildInitialize, Die
    <3>2. TypeOK' /\ Stacks' /\ Tops'
      <4>1. TypeOK' /\ Stacks'
        BY <1>0, <3>1 DEF TypeOK, Stacks
      <4>2. Tops'
        BY <1>0, <3>1 DEF Tops, TopOK, SuperReady, isInitialized
      <4> QED
        BY <4>1, <4>2
    <3>3. Opens' /\ Holders' /\ Pending' /\ Order'
      <4>1. \A u \in Threads, d \in Classes :
              (Runs(u, d)' <=> Runs(u, d)) /\ (Forks(u, d)' <=> Forks(u, d))
        BY <3>1 DEF Runs, Forks
      <4> QED
        BY <3>1, <4>1, SameOpens
    <3> QED
      BY <2>1, <3>1, <3>2, <3>3 DEF IInv, StateNotBroken
  <2> QED
    BY <2>2, <2>3
<1> QED
  BY <1>4, <1>5, <1>6

\* fork(): the other threads and their lists are gone in the child.
LEMMA ForkStep ==
  ASSUME IInv, NEW t \in Threads, _objc_atfork_child(t) PROVE IInv'
<1>0. TypeOK /\ Stacks /\ Tops /\ Opens /\ Holders /\ Pending /\ Order
  BY DEF IInv
<1>1. /\ fatal' = "no" /\ forked = 0 /\ forked' \in {1, 2} /\ waiting' = {}
      /\ stack'[t] = stack[t] /\ mine'[t] = mine[t]
      /\ \A u \in Threads \ {t} : stack'[u] = <<>> /\ mine'[u] = {}
      /\ stack' \in [Threads -> Seq(Frames)] /\ mine' \in [Threads -> SUBSET Classes]
      /\ UNCHANGED <<flags, pending, sent>>
  BY SMTT(30), <1>0 DEF _objc_atfork_child, TypeOK
<1>2. stack[t] # <<>> => stack[t][1].at = "run" /\ stack[t][1].cls \notin Trivial
  BY <1>0, TopFrame DEF _objc_atfork_child, At
<1>3. TypeOK'
  BY <1>0, <1>1 DEF TypeOK
<1>4. Stacks' /\ Tops'
  <2>1. \A u \in Threads \ {t} : DOMAIN stack'[u] = {}
    BY SMTT(30), <1>1
  <2>2. stack[t] # <<>> => TopOK(t)'
    BY <1>0, <1>1 DEF Tops, TopOK, SuperReady, isInitialized
  <2> QED
    BY SMTT(30), <1>0, <1>1, <2>1, <2>2 DEF Stacks, Tops
<1>5. /\ \A u \in Threads \ {t}, d \in Classes : ~Runs(u, d)' /\ ~Forks(u, d)'
      /\ \A d \in Classes : (Runs(t, d)' <=> Runs(t, d)) /\ ~Forks(t, d)' /\ ~Forks(t, d)
  BY SMTT(30), <1>1, <1>2 DEF Runs, Forks
<1>6. \A d \in Classes : Runs(t, d) => d \notin Trivial
  <2>1. stack[t] # <<>> => 1 \in DOMAIN stack[t]
    BY <1>0, TopFrame
  <2>2. stack[t] = <<>> => DOMAIN stack[t] = {}
    BY SMTT(30)
  <2> QED
    BY SMTT(30), <1>0, <1>2, <2>1, <2>2 DEF Stacks, Runs
<1>7. Opens'
  BY SMTT(30), <1>0, <1>1, <1>5, <1>6 DEF Opens, SuperReady, isInitialized, isInitializing
<1>a. mine[t] \subseteq Classes /\ pending \in [Classes -> SUBSET Classes]
  BY <1>0 DEF TypeOK
<1>8. Holders'
  <2>1. ASSUME NEW d \in mine[t]
        PROVE  /\ isInitializing(d)
               /\ Runs(t, d)' \/ (superclass[d] \in mine[t] /\ d \in pending[superclass[d]])
    BY <1>0, <1>5, <1>a DEF Holders
  <2>2. \A u \in Threads : \A d \in mine'[u] : u = t /\ d \in mine[t]
    BY <1>1
  <2> QED
    BY <1>1, <2>1, <2>2 DEF Holders, isInitializing
<1>9. Pending'
  <2>1. ASSUME NEW s \in Classes, NEW d \in pending[s]
        PROVE  /\ s = superclass[d] /\ isInitializing(s) /\ isInitializing(d)
               /\ \A u \in Threads : s \in mine'[u] => d \in mine'[u]
               /\ s \in Trivial => superclass[s] # nil /\ s \in pending[superclass[s]]
    BY SMTT(30), <1>0, <1>1, <1>5 DEF Pending
  <2>2. \A u \in Threads, d \in Classes :
          Runs(u, d)' \/ (Forks(u, d)' /\ d \in Trivial) => \A s \in Classes : d \notin pending[s]
    BY SMTT(30), <1>0, <1>5 DEF Pending
  <2> QED
    BY SMTT(30), <1>1, <2>1, <2>2 DEF Pending, isInitializing
<1>10. Order'
  BY SMTT(30), <1>0, <1>1 DEF Order, isInitialized, isInitializing
<1> QED
  BY <1>1, <1>3, <1>4, <1>7, <1>8, <1>9, <1>10 DEF IInv, StateNotBroken

-----------------------------------------------------------------------------
\* The three facts about the inductive invariant.
LEMMA InitInv == Init => IInv
<1> SUFFICES ASSUME Init PROVE IInv
  OBVIOUS
<1>1. \A t \in Threads : stack[t] = <<>> /\ DOMAIN stack[t] = {} /\ mine[t] = {}
  BY SMTT(30) DEF Init
<1>2. TypeOK /\ Stacks /\ Tops
  BY SMTT(30), <1>1 DEF Init, TypeOK, Stacks, Tops
<1>3. \A t \in Threads, c \in Classes : ~Runs(t, c) /\ ~Forks(t, c)
  BY <1>1 DEF Runs, Forks
<1> QED
  BY SMTT(30), <1>1, <1>2, <1>3 DEF Init, IInv, Opens, Holders, Pending, Order, StateNotBroken

LEMMA NextInv == IInv /\ [Next]_vars => IInv'
<1> SUFFICES ASSUME IInv, [Next]_vars PROVE IInv'
  OBVIOUS
<1>1. CASE UNCHANGED vars
  <2>1. UNCHANGED <<flags, mine, pending, stack, waiting, forked, sent, fatal>>
    BY <1>1 DEF vars
  <2>2. TypeOK' /\ Stacks' /\ Tops'
    BY SMTT(30), <2>1 DEF IInv, TypeOK, Stacks, Tops, TopOK, SuperReady, isInitialized
  <2>3. \A u \in Threads, d \in Classes :
          (Runs(u, d)' <=> Runs(u, d)) /\ (Forks(u, d)' <=> Forks(u, d))
    BY <2>1 DEF Runs, Forks
  <2>4. Opens' /\ Holders' /\ Pending' /\ Order'
    BY <2>1, <2>3, SameOpens
  <2> QED
    BY <2>1, <2>2, <2>4 DEF IInv, StateNotBroken
<1>2. ASSUME NEW t \in Threads, Step(t) PROVE IInv'
  BY <1>2, MessageSteps, SetStep, CheckSteps, ReturnSteps DEF Step
<1>3. ASSUME NEW t \in Threads, _objc_atfork_child(t) PROVE IInv'
  BY <1>3, ForkStep
<1>4. ASSUME NEW t \in Threads, NEW c \in Classes, objc_msgSend(t, c) PROVE IInv'
  BY <1>4, MessageSteps
<1> QED
  BY <1>1, <1>2, <1>3, <1>4 DEF Next

LEMMA Invariance == Spec => []IInv
  BY InitInv, NextInv, PTL DEF Spec

(* +initialize is sent at most once to a class and superclasses come first,  *)
(* whatever the hierarchy and whatever the +initialize methods message,      *)
(* throw or fork.                                                            *)
THEOREM InitializeOrder == Spec => []InitializedInOrder
<1>1. IInv => InitializedInOrder
  <2> SUFFICES ASSUME IInv PROVE InitializedInOrder
    OBVIOUS
  <2>1. ASSUME NEW t \in Threads, NEW i \in DOMAIN stack[t], stack[t][i].at = "run"
        PROVE  isInitializing(stack[t][i].cls)
    <3>1. stack[t] \in Seq(Frames)
      BY DEF IInv, TypeOK
    <3>2. stack[t][i] \in Frames
      BY SMTT(30), <2>1, <3>1
    <3>3. stack[t][i].cls \in Classes
      BY <3>2 DEF Frames
    <3>4. Runs(t, stack[t][i].cls)
      BY <2>1 DEF Runs
    <3> QED
      BY <3>3, <3>4 DEF IInv, Opens
  <2> QED
    BY <2>1 DEF IInv, Order, InitializedInOrder
<1> QED
  BY <1>1, Invariance, PTL

(* No message reaches a class, and no subclass goes on, before the class is  *)
(* initialized, but for the thread that initializes it (_class_initialize).  *)
THEOREM MessagesWaitForInitialize == Spec => []MessagesWait
<1>1. IInv => MessagesWait
  <2> SUFFICES ASSUME IInv, NEW t \in Threads, stack[t] # <<>>, Head(stack[t]).at = "return"
               PROVE  isInitialized(cls(t)) \/ _thisThreadIsInitializingClass(t, cls(t))
    BY DEF MessagesWait
  <2>1. stack[t][1].at = "return" /\ cls(t) = stack[t][1].cls
    BY TopFrame DEF IInv
  <2> QED
    BY <2>1 DEF IInv, Tops, TopOK, _thisThreadIsInitializingClass
<1> QED
  BY <1>1, Invariance, PTL

(* The runtime's own checks on the thread lists and the pending map never    *)
(* fail (_finishInitializing, _setThisThreadIsInitializingClass and the last *)
(* branch of _class_initialize); only a child of a fork may be stopped.      *)
THEOREM InitializeStateSound == Spec => []StateNotBroken
<1>1. IInv => StateNotBroken
  BY DEF IInv
<1> QED
  BY <1>1, Invariance, PTL
=============================================================================
