--------------------------- MODULE ObjcSyncProofs ---------------------------
(***************************************************************************)
(* Proofs about @synchronized (module ObjcSync): the inductive invariant,  *)
(* the steps that keep it, and what follows from it, for any sets of       *)
(* threads and objects and any nesting.                                    *)
(***************************************************************************)
EXTENDS ObjcSync, FiniteSetTheorems, TLAPS

USE ZenonT(30)

\* t still has to unlock the mutex of d; it has counted an enter and waits for
\* the mutex; it is about to look for the SyncData of an object to exit it.
Owes(t, d) == pc[t] \in {"decrement", "try_unlock"} /\ local[t].result = d
Wants(t, d) == pc[t] = "mutex_lock" /\ local[t].result = d
Leaving(t, o) == pc[t] = "id2data" /\ local[t].why = "RELEASE" /\ local[t].obj = o
Missing == {"lock", "walk", "unlock", "save"}

\* t is one of Users(d).
Has(t, d) == \E x \in Cached(t) : x.data = d
Uses(t, d) == Has(t, d) \/ (local[t].result = d /\ pc[t] \in {"unlock", "save", "decrement"})

\* No SyncData is twice in a thread's caches, and a miss leaves room for one.
CacheOK(t) ==
  /\ \A i, j \in DOMAIN cache[t] : cache[t][i].data = cache[t][j].data => i = j
  /\ fast[t] # NoItem => \A i \in DOMAIN cache[t] : cache[t][i].data # fast[t].data
  /\ Len(cache[t]) <= allocated[t]
  /\ pc[t] \in Missing => allocated[t] = 0 \/ Len(cache[t]) < allocated[t]

\* The list has the SyncData in the order in which they were allocated.
Listed ==
  /\ \A i \in DOMAIN list : list[i] = i /\ object[i] \in Objects
  /\ \A d \in Data : d \notin DOMAIN list => threadCount[d] = 0

Free == \A d \in Data : mutex[d].owner = NULL <=> mutex[d].depth = 0

\* What a thread knows of the list where it is.
Place(t) ==
  /\ lock = t <=> pc[t] \in {"walk", "unlock"}
  /\ pc[t] # "idle" => local[t].obj \in Objects
  /\ pc[t] \in {"decrement", "try_unlock"} =>
       local[t].why = "RELEASE" /\ local[t].result \in DOMAIN list
  /\ pc[t] = "mutex_lock" =>
       /\ local[t].result \in DOMAIN list /\ object[local[t].result] = local[t].obj
       /\ Has(t, local[t].result)
  /\ pc[t] = "decrement" => ~Has(t, local[t].result)
  /\ pc[t] \in Missing => \A x \in Cached(t) : object[x.data] # local[t].obj
  /\ pc[t] \in {"id2data", "lock", "walk"} => local[t].result = 0
  /\ pc[t] \in {"id2data", "lock"} => local[t].firstUnused = 0
  /\ pc[t] \in {"unlock", "save"} =>
       \/ local[t].why = "RELEASE" /\ local[t].result = 0
       \/ local[t].result \in DOMAIN list /\ object[local[t].result] = local[t].obj
  /\ pc[t] = "walk" =>
       /\ local[t].p \in 0..Len(list)
       /\ \A d \in DOMAIN list : d > local[t].p => object[d] # local[t].obj
       /\ local[t].firstUnused # 0 =>
            local[t].firstUnused \in DOMAIN list /\ threadCount[local[t].firstUnused] = 0

\* The lock count of an item, against the nesting and against the mutex.
Count(t, x) ==
  /\ x.data \in DOMAIN list
  /\ x.lockCount = IF Wants(t, x.data) \/ Leaving(t, object[x.data])
                     THEN held[t][object[x.data]] + 1 ELSE held[t][object[x.data]]
  /\ ~Wants(t, x.data) =>
       /\ mutex[x.data].owner = t
       /\ mutex[x.data].depth = IF Owes(t, x.data) THEN x.lockCount + 1 ELSE x.lockCount
  /\ Wants(t, x.data) =>
       \/ x.lockCount = 1 /\ mutex[x.data].owner # t
       \/ x.lockCount > 1 /\ mutex[x.data].owner = t /\ mutex[x.data].depth = x.lockCount - 1
Counts(t) ==
  /\ \A x \in Cached(t) : Count(t, x)
  /\ \A o \in Objects : held[t][o] > 0 => \E x \in Cached(t) : object[x.data] = o

\* Who owns a mutex has it in its caches or is about to unlock it.
Debts(t) ==
  \A d \in Data :
    /\ mutex[d].owner = t => Owes(t, d) \/ Has(t, d)
    /\ Owes(t, d) => mutex[d].owner = t /\ (~Has(t, d) => mutex[d].depth = 1)

Mine(t) == CacheOK(t) /\ Place(t) /\ Counts(t) /\ Debts(t)
Shared == Listed /\ Free /\ OneDataPerObject /\ ThreadCountConserved
SyncInv == TypeOK /\ fatal = "no" /\ Shared /\ \A t \in Threads : Mine(t)

-----------------------------------------------------------------------------
\* What the caches of a thread hold.
LEMMA CachedItems ==
  ASSUME TypeOK, NEW t \in Threads
  PROVE  \A x \in Cached(t) : x \in Items /\ x.data \in Data /\ x.lockCount \in Nat \ {0}
<1>1. cache[t] \in Seq(Items) /\ fast[t] \in Items \cup {NoItem}
  BY DEF TypeOK
<1>2. \A i \in DOMAIN cache[t] : cache[t][i] \in Items
  BY SMTT(30), <1>1
<1>3. \A x \in Cached(t) : x \in Items
  BY <1>1, <1>2 DEF Cached
<1> QED
  BY <1>3 DEF Items

\* An item is found by its SyncData.
LEMMA CachedOnce ==
  ASSUME NEW t \in Threads, CacheOK(t)
  PROVE  \A x, y \in Cached(t) : x.data = y.data => x = y
  BY DEF CacheOK, Cached

\* A slot of a cache is overwritten.
LEMMA Replaced ==
  ASSUME NEW s \in Seq(Items), NEW i \in DOMAIN s, NEW y \in Items
  PROVE  LET r == [s EXCEPT ![i] = y] IN
         /\ r \in Seq(Items) /\ Len(r) = Len(s) /\ DOMAIN r = DOMAIN s
         /\ \A j \in DOMAIN s : r[j] = IF j = i THEN y ELSE s[j]
<1>1. Len(s) \in Nat /\ DOMAIN s = 1..Len(s) /\ s \in [1..Len(s) -> Items]
  BY SMTT(30)
<1>2. [s EXCEPT ![i] = y] \in [1..Len(s) -> Items]
  BY <1>1
<1>3. [s EXCEPT ![i] = y] \in Seq(Items) /\ Len([s EXCEPT ![i] = y]) = Len(s)
  BY SMTT(30), <1>1, <1>2
<1> QED
  BY <1>1, <1>3

\* A slot of a cache is filled with the last item, and the cache is one shorter.
LEMMA Removed ==
  ASSUME NEW s \in Seq(Items), NEW i \in DOMAIN s
  PROVE  LET r == SubSeq([s EXCEPT ![i] = s[Len(s)]], 1, Len(s) - 1) IN
         /\ r \in Seq(Items) /\ Len(r) = Len(s) - 1 /\ DOMAIN r = 1..(Len(s) - 1)
         /\ \A j \in DOMAIN r : r[j] = IF j = i THEN s[Len(s)] ELSE s[j]
<1> DEFINE q == [s EXCEPT ![i] = s[Len(s)]]
           r == SubSeq(q, 1, Len(s) - 1)
<1>1. Len(s) \in Nat /\ DOMAIN s = 1..Len(s) /\ Len(s) \in DOMAIN s /\ s[Len(s)] \in Items
  BY SMTT(30)
<1>2. /\ q \in Seq(Items) /\ Len(q) = Len(s)
      /\ \A j \in DOMAIN s : q[j] = IF j = i THEN s[Len(s)] ELSE s[j]
  BY <1>1, Replaced
<1> HIDE DEF q
<1>3. r \in Seq(Items) /\ Len(r) = Len(s) - 1 /\ DOMAIN r = 1..(Len(s) - 1)
  BY SMTT(30), <1>1, <1>2
<1>4. \A j \in 1..(Len(s) - 1) : r[j] = q[j]
  BY SMTT(30), <1>1, <1>2
<1> QED
  BY SMTT(30), <1>1, <1>2, <1>3, <1>4 DEF q

\* What a hit leaves of an item.
LEMMA UpdatedItem ==
  ASSUME TypeOK, NEW t \in Threads, NEW x \in Cached(t)
  PROVE  /\ Updated(t, x) \in Items \cup {NoItem}
         /\ Updated(t, x) # NoItem => Updated(t, x).data = x.data
         /\ local[t].why = "ACQUIRE" => Updated(t, x) # NoItem /\ Updated(t, x).lockCount = x.lockCount + 1
         /\ local[t].why # "ACQUIRE" =>
              /\ Updated(t, x) = NoItem <=> x.lockCount = 1
              /\ Updated(t, x) # NoItem => Updated(t, x).lockCount = x.lockCount - 1
<1>1. x \in Items /\ x.lockCount \in Nat \ {0}
  BY CachedItems
<1>2. [x EXCEPT !.lockCount = @ + 1] \in Items
  BY SMTT(30), <1>1 DEF Items
<1>3. x.lockCount # 1 => [x EXCEPT !.lockCount = @ - 1] \in Items
  BY SMTT(30), <1>1 DEF Items
<1>4. NoItem \notin Items
  BY DEF Items, NoItem
<1> QED
  BY <1>1, <1>2, <1>3, <1>4 DEF Updated, Items

\* The caches after a hit on item x, which becomes y.
Becomes(t, x, y) ==
  /\ Cached(t)' = (Cached(t) \ {x}) \cup ({y} \ {NoItem})
  /\ \A i, j \in DOMAIN cache'[t] : cache'[t][i].data = cache'[t][j].data => i = j
  /\ fast'[t] # NoItem => \A i \in DOMAIN cache'[t] : cache'[t][i].data # fast'[t].data
  /\ cache'[t] \in Seq(Items) /\ Len(cache'[t]) <= Len(cache[t])
  /\ fast'[t] \in Items \cup {NoItem}

\* The items of a thread after a step on its fast cache.
LEMMA FastBecomes ==
  ASSUME TypeOK, NEW t \in Threads, CacheOK(t), NEW y \in Items \cup {NoItem},
         fast[t] # NoItem, y # NoItem => y.data = fast[t].data,
         fast'[t] = y, cache'[t] = cache[t]
  PROVE  Becomes(t, fast[t], y)
<1>1. cache[t] \in Seq(Items) /\ fast[t] \in Items
  BY DEF TypeOK
<1>2. \A i \in DOMAIN cache[t] : cache[t][i].data # fast[t].data
  BY DEF CacheOK
<1>3. Cached(t)' = (Cached(t) \ {fast[t]}) \cup ({y} \ {NoItem})
  BY <1>2 DEF Cached
<1> QED
  BY SMTT(30), <1>1, <1>2, <1>3 DEF Becomes, CacheOK

\* The items of a thread after a step on slot i of its SyncCache.
LEMMA SlotBecomes ==
  ASSUME TypeOK, NEW t \in Threads, CacheOK(t), NEW y \in Items \cup {NoItem},
         NEW i \in DOMAIN cache[t], NEW x, x = cache[t][i], y # NoItem => y.data = x.data,
         fast'[t] = fast[t],
         cache'[t] = IF y # NoItem THEN [cache[t] EXCEPT ![i] = y]
                     ELSE SubSeq([cache[t] EXCEPT ![i] = cache[t][Len(cache[t])]], 1, Len(cache[t]) - 1)
  PROVE  Becomes(t, x, y)
<1> DEFINE s == cache[t]
           r == cache'[t]
<1>1. /\ s \in Seq(Items) /\ Len(s) \in Nat /\ DOMAIN s = 1..Len(s)
      /\ fast[t] \in Items \cup {NoItem} /\ x # NoItem
  <2>1. s \in Seq(Items) /\ fast[t] \in Items \cup {NoItem}
    BY DEF TypeOK
  <2>2. x \in Items
    BY SMTT(30), <2>1
  <2>3. x # NoItem
    BY SMTT(30), <2>2 DEF Items, NoItem
  <2> QED
    BY SMTT(30), <2>1, <2>3
<1>2. /\ \A j, k \in DOMAIN s : s[j].data = s[k].data => j = k
      /\ fast[t] # NoItem => \A j \in DOMAIN s : s[j].data # fast[t].data
  BY DEF CacheOK
<1>3. CASE y # NoItem
  <2>1. /\ r \in Seq(Items) /\ Len(r) = Len(s) /\ DOMAIN r = DOMAIN s
        /\ \A j \in DOMAIN s : r[j] = IF j = i THEN y ELSE s[j]
    BY SMTT(30), <1>1, <1>3, Replaced
  <2>2. Cached(t)' = (Cached(t) \ {x}) \cup {y}
    <3>1. \A z : z \in Cached(t)' => z \in (Cached(t) \ {x}) \cup {y}
      BY SMTT(30), <1>2, <2>1 DEF Cached
    <3>2. \A z : z \in (Cached(t) \ {x}) \cup {y} => z \in Cached(t)'
      BY SMTT(30), <1>2, <2>1 DEF Cached
    <3> QED
      BY <3>1, <3>2
  <2> QED
    BY SMTT(30), <1>1, <1>2, <1>3, <2>1, <2>2 DEF Becomes
<1>4. CASE y = NoItem
  <2>1. /\ r \in Seq(Items) /\ Len(r) = Len(s) - 1 /\ DOMAIN r = 1..(Len(s) - 1)
        /\ \A j \in DOMAIN r : r[j] = IF j = i THEN s[Len(s)] ELSE s[j]
    BY SMTT(30), <1>1, <1>4, Removed
  <2> DEFINE m == [j \in DOMAIN r |-> IF j = i THEN Len(s) ELSE j]
  <2>2. \A j \in DOMAIN r : m[j] \in DOMAIN s /\ m[j] # i /\ r[j] = s[m[j]]
    BY SMTT(30), <1>1, <2>1
  <2>3. \A j, k \in DOMAIN r : m[j] = m[k] => j = k
    BY SMTT(30), <1>1, <2>1
  <2>4. ASSUME NEW k \in DOMAIN s, k # i PROVE \E j \in DOMAIN r : m[j] = k
    <3>1. CASE k = Len(s)
      <4>1. i \in DOMAIN r
        BY SMTT(30), <1>1, <2>1, <2>4, <3>1
      <4> QED
        BY <3>1, <4>1
    <3>2. CASE k # Len(s)
      <4>1. k \in DOMAIN r
        BY SMTT(30), <1>1, <2>1, <3>2
      <4> QED
        BY <2>4, <4>1
    <3> QED
      BY <3>1, <3>2
  <2>5. /\ Cached(t) = ({fast[t]} \ {NoItem}) \cup {s[k] : k \in DOMAIN s}
        /\ Cached(t)' = ({fast[t]} \ {NoItem}) \cup {r[j] : j \in DOMAIN r}
    BY DEF Cached
  <2> HIDE DEF m, r, s
  <2>6. \A j, k \in DOMAIN r : r[j].data = r[k].data => j = k
    BY SMTT(30), <1>2, <2>2, <2>3
  <2>7. fast[t] # NoItem => \A j \in DOMAIN r : r[j].data # fast[t].data
    BY SMTT(30), <1>2, <2>2
  <2>8. Cached(t)' = Cached(t) \ {x}
    <3>1. \A j \in DOMAIN r : r[j] \in Cached(t) \ {x}
      BY SMTT(30), <1>2, <2>2, <2>5 DEF s
    <3>2. \A k \in DOMAIN s : k # i => s[k] \in Cached(t)'
      BY SMTT(30), <2>2, <2>4, <2>5
    <3>3. \A k \in DOMAIN s : s[k] # x => s[k] \in Cached(t)'
      BY <3>2 DEF s
    <3>4. fast[t] # NoItem => fast[t] # x
      BY <1>2 DEF s
    <3> QED
      BY SMTT(30), <2>5, <3>1, <3>3, <3>4
  <2> QED
    BY SMTT(30), <1>1, <1>4, <2>1, <2>6, <2>7, <2>8 DEF Becomes, r, s
<1> QED
  BY <1>3, <1>4

-----------------------------------------------------------------------------
\* What a step of t leaves to the other threads.
Others(t) ==
  \A u \in Threads \ {t} :
    /\ pc'[u] = pc[u] /\ local'[u] = local[u] /\ held'[u] = held[u]
    /\ fast'[u] = fast[u] /\ cache'[u] = cache[u] /\ allocated'[u] = allocated[u]

\* The list changes under the lock only and where nobody uses a SyncData; a
\* thread touches no mutex that another one owns.
Frame(t) ==
  /\ Others(t)
  /\ DOMAIN list \subseteq DOMAIN list'
  /\ \A d \in DOMAIN list : object'[d] = object[d] \/ \A u \in Threads : ~Uses(u, d)
  /\ \A u \in Threads \ {t} : lock' = u <=> lock = u
  /\ lock = t \/ (UNCHANGED <<list, object>> /\ \A d \in Data : threadCount[d] = 0 => threadCount'[d] = 0)
  /\ \A d \in Data, u \in Threads \ {t} :
       mutex'[d] = mutex[d] \/ (mutex[d].owner # u /\ mutex'[d].owner # u)

\* What other threads cache, use, owe and want is what it was.
LEMMA OthersSame ==
  ASSUME NEW t \in Threads, Others(t), NEW u \in Threads \ {t}
  PROVE  /\ Cached(u)' = Cached(u)
         /\ \A d : /\ Has(u, d)' <=> Has(u, d)
                   /\ Uses(u, d)' <=> Uses(u, d)
                   /\ Owes(u, d)' <=> Owes(u, d)
                   /\ Wants(u, d)' <=> Wants(u, d)
                   /\ Leaving(u, d)' <=> Leaving(u, d)
<1>1. /\ pc'[u] = pc[u] /\ local'[u] = local[u]
      /\ fast'[u] = fast[u] /\ cache'[u] = cache[u]
  BY DEF Others
<1>2. Cached(u)' = Cached(u)
  BY <1>1 DEF Cached
<1>3. \A d : Has(u, d)' <=> Has(u, d)
  BY <1>2 DEF Has
<1> QED
  BY <1>1, <1>2, <1>3 DEF Uses, Owes, Wants, Leaving

\* A step of t within its frame keeps what the invariant says of others.
LEMMA OthersKept ==
  ASSUME SyncInv, NEW t \in Threads, Frame(t), NEW u \in Threads \ {t}
  PROVE  Mine(u)'
<1>0. Mine(u) /\ Others(t) /\ TypeOK /\ Listed
  BY DEF SyncInv, Frame, Shared
<1>1. /\ Cached(u)' = Cached(u)
      /\ \A d : /\ Has(u, d)' <=> Has(u, d)
                /\ Uses(u, d)' <=> Uses(u, d)
                /\ Owes(u, d)' <=> Owes(u, d)
                /\ Wants(u, d)' <=> Wants(u, d)
                /\ Leaving(u, d)' <=> Leaving(u, d)
  BY <1>0, OthersSame
<1>2. /\ pc'[u] = pc[u] /\ local'[u] = local[u] /\ held'[u] = held[u]
      /\ fast'[u] = fast[u] /\ cache'[u] = cache[u] /\ allocated'[u] = allocated[u]
  BY <1>0 DEF Others
<1>3. CacheOK(u)'
  BY <1>0, <1>2 DEF CacheOK, Mine
<1>4. \A d \in DOMAIN list : Uses(u, d) => d \in DOMAIN list' /\ object'[d] = object[d]
  BY DEF Frame
<1>5. \A x \in Cached(u) : x.data \in DOMAIN list /\ object'[x.data] = object[x.data]
  BY <1>0, <1>4 DEF Mine, Counts, Count, Uses, Has
<1>6. Place(u)'
  <2>1. lock' = u <=> lock = u
    BY DEF Frame
  <2>2. pc[u] \in {"decrement", "try_unlock"} => local[u].result \in DOMAIN list'
    BY <1>0 DEF Mine, Place, Frame
  <2>3. pc[u] = "mutex_lock" => local[u].result \in DOMAIN list' /\ object'[local[u].result] = local[u].obj
    BY SMTT(30), <1>0, <1>4 DEF Mine, Place, Uses
  <2>4. pc[u] \in Missing => \A x \in Cached(u) : object'[x.data] # local[u].obj
    BY <1>0, <1>5 DEF Mine, Place
  <2>5. pc[u] \in {"unlock", "save"} =>
          \/ local[u].why = "RELEASE" /\ local[u].result = 0
          \/ local[u].result \in DOMAIN list' /\ object'[local[u].result] = local[u].obj
    BY <1>0, <1>4 DEF Mine, Place, Uses
  <2>6. pc[u] = "walk" =>
          /\ UNCHANGED <<list, object>>
          /\ \A d \in Data : threadCount[d] = 0 => threadCount'[d] = 0
    BY <1>0 DEF Mine, Place, Frame
  <2>7. DOMAIN list \subseteq Data
    BY SMTT(30), <1>0 DEF Listed, TypeOK
  <2>8. pc[u] = "walk" =>
          /\ local[u].p \in 0..Len(list')
          /\ \A d \in DOMAIN list' : d > local[u].p => object'[d] # local[u].obj
          /\ local[u].firstUnused # 0 =>
               local[u].firstUnused \in DOMAIN list' /\ threadCount'[local[u].firstUnused] = 0
    BY <1>0, <2>6, <2>7 DEF Mine, Place
  <2>9. Place(u)
    BY <1>0 DEF Mine
  <2> QED
    BY <1>1, <1>2, <2>1, <2>2, <2>3, <2>4, <2>5, <2>8, <2>9 DEF Place
<1>7. DOMAIN list \subseteq Data /\ \A x \in Cached(u) : x.data \in Data /\ x.lockCount \in Nat
  BY SMTT(30), <1>0, CachedItems DEF Listed, TypeOK
<1>8. Counts(u)'
  <2>1. ASSUME NEW x \in Cached(u) PROVE Count(u, x)'
    <3>1. Count(u, x) /\ object'[x.data] = object[x.data] /\ x.data \in DOMAIN list'
      BY <1>0, <1>5 DEF Mine, Counts, Frame
    <3>2. mutex'[x.data] = mutex[x.data] \/ (mutex[x.data].owner # u /\ mutex'[x.data].owner # u)
      BY <1>7 DEF Frame
    <3> QED
      BY <1>1, <1>2, <3>1, <3>2 DEF Count
  <2>2. \A o \in Objects : held'[u][o] > 0 => \E x \in Cached(u) : object'[x.data] = o
    BY <1>0, <1>2, <1>5 DEF Mine, Counts
  <2> QED
    BY <1>1, <2>1, <2>2 DEF Counts
<1>9. Debts(u)'
  <2> SUFFICES ASSUME NEW d \in Data
               PROVE  /\ mutex'[d].owner = u => Owes(u, d) \/ Has(u, d)
                      /\ Owes(u, d) => mutex'[d].owner = u /\ (~Has(u, d) => mutex'[d].depth = 1)
    BY <1>1 DEF Debts
  <2>1. mutex'[d] = mutex[d] \/ (mutex[d].owner # u /\ mutex'[d].owner # u)
    BY DEF Frame
  <2> QED
    BY <1>0, <2>1 DEF Mine, Debts
<1> QED
  BY <1>3, <1>6, <1>8, <1>9 DEF Mine

\* What is left to show of a step of t.
LEMMA Whole ==
  ASSUME SyncInv, NEW t \in Threads, Frame(t), TypeOK', fatal' = "no", Shared', Mine(t)'
  PROVE  SyncInv'
  BY OthersKept DEF SyncInv

\* Who uses d does not change when it does not change for t.
LEMMA UsersSame ==
  ASSUME NEW t \in Threads, Others(t), NEW d \in Data, Uses(t, d)' <=> Uses(t, d)
  PROVE  Cardinality(Users(d)') = Cardinality(Users(d))
<1>1. \A u \in Threads : Uses(u, d)' <=> Uses(u, d)
  BY OthersSame
<1>2. /\ Users(d) = {u \in Threads : Uses(u, d)}
      /\ Users(d)' = {u \in Threads : Uses(u, d)'}
  BY DEF Users, Uses, Has
<1>3. Users(d)' = Users(d)
  BY <1>1, <1>2
<1> QED
  BY <1>3

\* A step that changes neither a SyncData nor who uses it.
LEMMA SharedKept ==
  ASSUME SyncInv, NEW t \in Threads, Others(t), UNCHANGED <<list_vars, mutex, leaked>>,
         \A d \in Data : Uses(t, d)' <=> Uses(t, d)
  PROVE  Shared'
<1>1. UNCHANGED <<list, object, threadCount, mutex, leaked>>
  BY DEF list_vars
<1>2. ASSUME NEW d \in Data PROVE Cardinality(Users(d)') = Cardinality(Users(d))
  BY UsersSame
<1>3. ThreadCountConserved'
  BY <1>1, <1>2 DEF ThreadCountConserved, SyncInv, Shared
<1> QED
  BY <1>1, <1>3 DEF SyncInv, Shared, Listed, Free, OneDataPerObject

-----------------------------------------------------------------------------
\* The lock counts of a thread whose caches, nesting and mutexes stay.
LEMMA CountsKept ==
  ASSUME NEW t \in Threads, Counts(t), Cached(t)' = Cached(t), UNCHANGED mutex,
         held'[t] = held[t],
         \A x \in Cached(t) : x.data \in DOMAIN list' /\ object'[x.data] = object[x.data],
         \A x \in Cached(t) : (Wants(t, x.data)' <=> Wants(t, x.data))
                              /\ (Owes(t, x.data)' <=> Owes(t, x.data)),
         \A o : \A x \in Cached(t) : o = object[x.data] => (Leaving(t, o)' <=> Leaving(t, o))
  PROVE  Counts(t)'
<1>1. ASSUME NEW x \in Cached(t) PROVE Count(t, x)'
  <2>1. Count(t, x) /\ object'[x.data] = object[x.data] /\ x.data \in DOMAIN list'
    BY DEF Counts
  <2>2. Leaving(t, object[x.data])' <=> Leaving(t, object[x.data])
    BY <2>1 DEF Leaving
  <2> QED
    BY <2>1, <2>2 DEF Count
<1> QED
  BY <1>1 DEF Counts

\* What a thread owes, when its caches and all mutexes stay.
LEMMA DebtsKept ==
  ASSUME NEW t \in Threads, Debts(t), Cached(t)' = Cached(t), UNCHANGED mutex,
         \A d \in Data : Owes(t, d)' <=> Owes(t, d)
  PROVE  Debts(t)'
<1>1. \A d : Has(t, d)' <=> Has(t, d)
  BY DEF Has
<1> QED
  BY <1>1 DEF Debts

\* A step that changes nothing but where the thread is.
LEMMA Quiet ==
  ASSUME SyncInv, NEW t \in Threads, Others(t),
         UNCHANGED <<list_vars, mutex, held, leaked, fast, cache, fatal>>,
         TypeOK', CacheOK(t)', Place(t)',
         \A u \in Threads \ {t} : lock' = u <=> lock = u,
         pc[t] \notin {"mutex_lock", "try_unlock", "decrement"},
         pc'[t] \notin {"mutex_lock", "try_unlock", "decrement"},
         \A d \in Data : Uses(t, d)' <=> Uses(t, d),
         \A o : \A x \in Cached(t) : o = object[x.data] => (Leaving(t, o)' <=> Leaving(t, o))
  PROVE  SyncInv'
<1>1. UNCHANGED <<list, object, threadCount>>
  BY DEF list_vars
<1>2. Cached(t)' = Cached(t)
  BY DEF Cached
<1>3. \A d : (Wants(t, d)' <=> Wants(t, d)) /\ (Owes(t, d)' <=> Owes(t, d))
  BY DEF Wants, Owes
<1>4. Mine(t)'
  <2>1. Counts(t) /\ Debts(t)
    BY DEF SyncInv, Mine
  <2>2. \A x \in Cached(t) : x.data \in DOMAIN list
    BY <2>1 DEF Counts, Count
  <2>3. Counts(t)'
    BY <1>1, <1>2, <1>3, <2>1, <2>2, CountsKept
  <2>4. Debts(t)'
    BY <1>2, <1>3, <2>1, DebtsKept
  <2> QED
    BY <2>3, <2>4 DEF Mine
<1>5. Frame(t)
  BY <1>1 DEF Frame
<1>6. Shared'
  BY SharedKept
<1> QED
  BY <1>4, <1>5, <1>6, Whole DEF SyncInv

\* objc_sync_enter calls id2data.
LEMMA EnterStep ==
  ASSUME SyncInv, NEW t \in Threads, NEW o \in Objects, objc_sync_enter(t, o)
  PROVE  SyncInv'
<1>1. TypeOK /\ CacheOK(t) /\ Place(t)
  BY DEF SyncInv, Mine
<1>2. /\ pc[t] = "idle" /\ pc' = [pc EXCEPT ![t] = "id2data"]
      /\ local' = [local EXCEPT ![t] = [obj |-> o, why |-> "ACQUIRE", result |-> 0,
                                        p |-> 0, firstUnused |-> 0]]
      /\ UNCHANGED <<list_vars, mutex, lock, fast, cache, allocated, held, leaked, badExits, fatal>>
  <2>1. At(t, "idle") /\ Call(t, o, "ACQUIRE")
        /\ UNCHANGED <<list_vars, mutex, lock, cache_vars, ghost_vars, fatal>>
    BY DEF objc_sync_enter
  <2> QED
    BY <2>1 DEF Call, Goto, At, cache_vars, ghost_vars
<1>3. /\ pc'[t] = "id2data" /\ local'[t].obj = o /\ local'[t].why = "ACQUIRE"
      /\ local'[t].result = 0 /\ local'[t].firstUnused = 0
  BY <1>1, <1>2 DEF TypeOK
<1>4. Others(t)
  BY <1>1, <1>2 DEF Others, TypeOK
<1>5. TypeOK'
  BY <1>1, <1>2 DEF TypeOK, PCs, Locals, list_vars
<1>6. CacheOK(t)' /\ Place(t)'
  <2>1. CacheOK(t)'
    BY <1>1, <1>2, <1>3 DEF CacheOK, Missing
  <2>2. Place(t)'
    BY <1>1, <1>2, <1>3 DEF Place, Missing
  <2> QED
    BY <2>1, <2>2
<1>7. Cached(t)' = Cached(t)
  BY <1>2 DEF Cached
<1>8. \A d \in Data : Uses(t, d)' <=> Uses(t, d)
  BY <1>2, <1>3, <1>7 DEF Uses, Has
<1>9. \A c : Leaving(t, c)' <=> Leaving(t, c)
  BY <1>2, <1>3 DEF Leaving
<1> QED
  BY <1>2, <1>3, <1>4, <1>5, <1>6, <1>8, <1>9, Quiet

\* id2data finds the object in neither cache.
LEMMA MissStep ==
  ASSUME SyncInv, NEW t \in Threads, CacheMiss(t)
  PROVE  SyncInv'
<1>1. TypeOK /\ CacheOK(t) /\ Place(t)
  BY DEF SyncInv, Mine
<1>2. /\ pc[t] = "id2data" /\ pc' = [pc EXCEPT ![t] = "lock"]
      /\ ~Matches(t, fast[t]) /\ Slots(t) = {} /\ fetch_cache(t)
      /\ UNCHANGED <<list_vars, mutex, lock, fast, cache, held, leaked, badExits, fatal, local>>
  BY DEF CacheMiss, Goto, At, ghost_vars
<1>3. pc'[t] = "lock" /\ local'[t] = local[t]
  BY <1>1, <1>2 DEF TypeOK
<1>4. Others(t)
  BY <1>1, <1>2 DEF Others, TypeOK, fetch_cache
<1>5. /\ allocated' \in [Threads -> Nat] /\ Len(cache[t]) <= allocated'[t]
      /\ allocated'[t] = 0 \/ Len(cache[t]) < allocated'[t]
  <2>1. allocated[t] \in Nat /\ cache[t] \in Seq(Items) /\ Len(cache[t]) <= allocated[t]
    BY <1>1 DEF TypeOK, CacheOK
  <2>2. Len(cache[t]) \in Nat
    BY SMTT(30), <2>1
  <2> QED
    BY SMTT(30), <1>1, <1>2, <2>1, <2>2 DEF TypeOK, fetch_cache
<1>6. TypeOK'
  <2>1. pc' \in [Threads -> PCs]
    BY <1>1, <1>2 DEF TypeOK, PCs
  <2>2. allocated' \in [Threads -> Nat]
    BY <1>5
  <2> QED
    BY <1>1, <1>2, <2>1, <2>2 DEF TypeOK, list_vars
<1>7. Cached(t)' = Cached(t)
  BY <1>2 DEF Cached
<1>8. \A x \in Cached(t) : object[x.data] # local[t].obj
  <2>1. \A i \in DOMAIN cache[t] : cache[t][i] \in Items
    BY SMTT(30), <1>1 DEF TypeOK
  <2>2. NoItem \notin Items
    BY DEF Items, NoItem
  <2>3. \A i \in DOMAIN cache[t] : object[cache[t][i].data] # local[t].obj
    BY <1>2, <2>1, <2>2 DEF Slots, Matches
  <2>4. fast[t] # NoItem => object[fast[t].data] # local[t].obj
    BY <1>2 DEF Matches
  <2> QED
    BY <2>3, <2>4 DEF Cached
<1>9. CacheOK(t)'
  BY <1>1, <1>2, <1>5 DEF CacheOK
<1>10. Place(t)'
  BY <1>1, <1>2, <1>3, <1>7, <1>8 DEF Place, list_vars
<1>11. \A d \in Data : Uses(t, d)' <=> Uses(t, d)
  BY <1>2, <1>3, <1>7 DEF Uses, Has
<1>12. \A c : \A x \in Cached(t) : c = object[x.data] => (Leaving(t, c)' <=> Leaving(t, c))
  BY <1>2, <1>3, <1>8 DEF Leaving
<1> QED
  BY <1>2, <1>3, <1>4, <1>6, <1>9, <1>10, <1>11, <1>12, Quiet

\* id2data takes the lock of the list.
LEMMA SpinLockStep ==
  ASSUME SyncInv, NEW t \in Threads, SpinLock(t)
  PROVE  SyncInv'
<1>1. TypeOK /\ CacheOK(t) /\ Place(t)
  BY DEF SyncInv, Mine
<1>2. /\ pc[t] = "lock" /\ pc' = [pc EXCEPT ![t] = "walk"] /\ lock = NULL /\ lock' = t
      /\ local' = [local EXCEPT ![t].p = Len(list)]
      /\ UNCHANGED <<list_vars, mutex, fast, cache, allocated, held, leaked, badExits, fatal>>
  BY DEF SpinLock, Goto, At, cache_vars, ghost_vars
<1>3. /\ pc'[t] = "walk" /\ local'[t] = [local[t] EXCEPT !.p = Len(list)]
      /\ local[t] \in Locals /\ Len(list) \in Nat
  BY SMTT(30), <1>1, <1>2 DEF TypeOK
<1>4. /\ local'[t] \in Locals /\ local'[t].obj = local[t].obj /\ local'[t].why = local[t].why
      /\ local'[t].result = local[t].result /\ local'[t].p = Len(list)
      /\ local'[t].firstUnused = local[t].firstUnused
  BY <1>3 DEF Locals
<1>5. Others(t)
  BY <1>1, <1>2 DEF Others, TypeOK
<1>6. TypeOK'
  BY <1>1, <1>2, <1>4 DEF TypeOK, PCs, list_vars
<1>7. Cached(t)' = Cached(t)
  BY <1>2 DEF Cached
<1>8. CacheOK(t)'
  BY <1>1, <1>2 DEF CacheOK, Missing
<1>9. Place(t)'
  <2>1. DOMAIN list = 1..Len(list)
    BY SMTT(30), <1>1 DEF TypeOK
  <2> QED
    BY SMTT(30), <1>1, <1>2, <1>3, <1>4, <1>7, <2>1 DEF Place, Missing, list_vars
<1>10. \A d \in Data : Uses(t, d)' <=> Uses(t, d)
  BY <1>2, <1>3, <1>4, <1>7 DEF Uses, Has
<1>11. \A c : \A x \in Cached(t) : c = object[x.data] => (Leaving(t, c)' <=> Leaving(t, c))
  BY <1>2, <1>3 , <1>1 DEF Leaving, Place, Missing
<1>12. \A u \in Threads \ {t} : lock' = u <=> lock = u
  BY <1>2, SyncConstants
<1> QED
  BY <1>2, <1>3, <1>5, <1>6, <1>8, <1>9, <1>10, <1>11, <1>12, Quiet

\* id2data releases the lock of the list.
LEMMA SpinUnlockStep ==
  ASSUME SyncInv, NEW t \in Threads, SpinUnlock(t)
  PROVE  SyncInv'
<1>1. TypeOK /\ CacheOK(t) /\ Place(t)
  BY DEF SyncInv, Mine
<1>2. /\ pc[t] = "unlock" /\ pc' = [pc EXCEPT ![t] = "save"] /\ lock' = NULL
      /\ UNCHANGED <<list_vars, mutex, fast, cache, allocated, held, leaked, badExits, fatal, local>>
  BY DEF SpinUnlock, Goto, At, cache_vars, ghost_vars
<1>3. pc'[t] = "save" /\ local'[t] = local[t] /\ lock = t
  BY <1>1, <1>2 DEF TypeOK, Place
<1>4. Others(t)
  BY <1>1, <1>2 DEF Others, TypeOK
<1>5. TypeOK'
  BY <1>1, <1>2 DEF TypeOK, PCs, list_vars
<1>6. Cached(t)' = Cached(t)
  BY <1>2 DEF Cached
<1>7. CacheOK(t)'
  BY <1>1, <1>2 DEF CacheOK, Missing
<1>8. Place(t)'
  BY <1>1, <1>2, <1>3, <1>6, SyncConstants DEF Place, Missing, list_vars
<1>9. \A d \in Data : Uses(t, d)' <=> Uses(t, d)
  BY <1>2, <1>3, <1>6 DEF Uses, Has
<1>10. \A c : Leaving(t, c)' <=> Leaving(t, c)
  BY <1>2, <1>3 DEF Leaving
<1>11. \A u \in Threads \ {t} : lock' = u <=> lock = u
  BY <1>2, <1>3, SyncConstants
<1> QED
  BY <1>2, <1>3, <1>4, <1>5, <1>7, <1>8, <1>9, <1>10, <1>11, Quiet

\* A step in id2data that neither hits nor fills a cache.
LEMMA MineKept ==
  ASSUME SyncInv, NEW t \in Threads, UNCHANGED <<mutex, held, fast, cache>>,
         CacheOK(t)', Place(t)', DOMAIN list \subseteq DOMAIN list',
         \A x \in Cached(t) : object'[x.data] = object[x.data],
         pc[t] \notin {"mutex_lock", "try_unlock", "decrement", "id2data"},
         pc'[t] \notin {"mutex_lock", "try_unlock", "decrement", "id2data"}
  PROVE  Mine(t)'
<1>1. Cached(t)' = Cached(t)
  BY DEF Cached
<1>2. \A d : /\ Wants(t, d)' <=> Wants(t, d)
             /\ Owes(t, d)' <=> Owes(t, d)
             /\ Leaving(t, d)' <=> Leaving(t, d)
  BY DEF Wants, Owes, Leaving
<1>3. Counts(t) /\ Debts(t)
  BY DEF SyncInv, Mine
<1>4. \A x \in Cached(t) : x.data \in DOMAIN list'
  BY <1>3 DEF Counts, Count
<1>5. Counts(t)'
  BY <1>1, <1>2, <1>3, <1>4, CountsKept
<1>6. Debts(t)'
  BY <1>1, <1>2, <1>3, DebtsKept
<1> QED
  BY <1>5, <1>6 DEF Mine

\* The end of the walk of an exit.
LEMMA GiveUpStep ==
  ASSUME SyncInv, NEW t \in Threads, EndOfList(t), local[t].why = "RELEASE"
  PROVE  SyncInv'
<1>1. TypeOK /\ CacheOK(t) /\ Place(t)
  BY DEF SyncInv, Mine
<1>2. /\ pc[t] = "walk" /\ pc' = [pc EXCEPT ![t] = "unlock"]
      /\ UNCHANGED <<list_vars, mutex, lock, fast, cache, allocated, held, leaked, badExits, fatal, local>>
  BY DEF EndOfList, Goto, At, cache_vars, ghost_vars
<1>3. pc'[t] = "unlock" /\ local'[t] = local[t] /\ local[t].result = 0
  BY <1>1, <1>2 DEF TypeOK, Place
<1>4. Others(t)
  BY <1>1, <1>2 DEF Others, TypeOK
<1>5. TypeOK'
  BY <1>1, <1>2 DEF TypeOK, PCs, list_vars
<1>6. Cached(t)' = Cached(t)
  BY <1>2 DEF Cached
<1>7. CacheOK(t)'
  BY <1>1, <1>2 DEF CacheOK, Missing
<1>8. Place(t)'
  BY <1>1, <1>2, <1>3, <1>6 DEF Place, Missing, list_vars
<1>9. \A d \in Data : Uses(t, d)' <=> Uses(t, d)
  BY SMTT(30), <1>2, <1>3, <1>6 DEF Uses, Has, Data
<1>10. \A c : Leaving(t, c)' <=> Leaving(t, c)
  BY <1>2, <1>3 DEF Leaving
<1> QED
  BY <1>2, <1>3, <1>4, <1>5, <1>7, <1>8, <1>9, <1>10, Quiet

-----------------------------------------------------------------------------
\* objc_sync_exit counts the exit before the SyncData is looked for.
LEMMA ExitStep ==
  ASSUME SyncInv, NEW t \in Threads, NEW o \in Objects, objc_sync_exit(t, o)
  PROVE  SyncInv'
<1>1. TypeOK /\ CacheOK(t) /\ Place(t) /\ Counts(t) /\ Debts(t)
  BY DEF SyncInv, Mine
<1>2. /\ pc[t] = "idle" /\ pc' = [pc EXCEPT ![t] = "id2data"]
      /\ local' = [local EXCEPT ![t] = [obj |-> o, why |-> "RELEASE", result |-> 0,
                                        p |-> 0, firstUnused |-> 0]]
      /\ UNCHANGED <<list_vars, mutex, lock, fast, cache, allocated, leaked, fatal>>
  BY DEF objc_sync_exit, Call, Goto, At, cache_vars
<1>3. /\ pc'[t] = "id2data" /\ local'[t].obj = o /\ local'[t].why = "RELEASE"
      /\ local'[t].result = 0 /\ local'[t].firstUnused = 0
  BY <1>1, <1>2 DEF TypeOK
<1>4. /\ held' \in [Threads -> [Objects -> Nat]] /\ badExits' \in 0..MaxBadExits
      /\ \A u \in Threads \ {t} : held'[u] = held[u]
      /\ \A c \in Objects : c # o => held'[t][c] = held[t][c]
      /\ IF held[t][o] > 0 THEN held'[t][o] = held[t][o] - 1 ELSE held'[t][o] = held[t][o]
  <2>1. held \in [Threads -> [Objects -> Nat]] /\ badExits \in 0..MaxBadExits /\ held[t][o] \in Nat
    BY <1>1 DEF TypeOK
  <2>2. CASE held[t][o] > 0
    BY SMTT(30), <2>1, <2>2 DEF objc_sync_exit
  <2>3. CASE ~(held[t][o] > 0)
    BY SMTT(30), <2>1, <2>3, SyncConstants DEF objc_sync_exit
  <2> QED
    BY <2>2, <2>3
<1>5. Others(t)
  BY <1>1, <1>2, <1>4 DEF Others, TypeOK
<1>6. TypeOK'
  <2>1. local' \in [Threads -> Locals] /\ pc' \in [Threads -> PCs]
    BY <1>1, <1>2 DEF TypeOK, PCs, Locals
  <2> QED
    BY <1>1, <1>2, <1>4, <2>1 DEF TypeOK, list_vars
<1>7. Cached(t)' = Cached(t)
  BY <1>2 DEF Cached
<1>8. UNCHANGED <<list, object, threadCount, mutex, lock, fast, cache, allocated>>
  BY <1>2 DEF list_vars
<1>9. CacheOK(t)'
  BY <1>1, <1>3, <1>8 DEF CacheOK, Missing
<1>10. Place(t)'
  BY <1>1, <1>2, <1>3, <1>8 DEF Place, Missing
<1>11. Counts(t)'
  <2>1. ASSUME NEW x \in Cached(t) PROVE Count(t, x)'
    <3>1. PICK c : c = object[x.data]
      OBVIOUS
    <3>2. /\ x.data \in DOMAIN list /\ x.lockCount = held[t][c]
          /\ mutex[x.data].owner = t /\ mutex[x.data].depth = x.lockCount
      BY <1>1, <1>2, <3>1 DEF Counts, Count, Wants, Leaving, Owes
    <3>3. x.lockCount \in Nat \ {0} /\ c \in Objects
      <4>1. x.lockCount \in Nat \ {0}
        BY <1>1, CachedItems
      <4> QED
        BY <3>1, <3>2, <4>1 DEF SyncInv, Shared, Listed
    <3>4. x.lockCount = IF c = o THEN held'[t][c] + 1 ELSE held'[t][c]
      BY SMTT(30), <1>4, <3>2, <3>3
    <3>5. /\ ~Wants(t, x.data)' /\ ~Owes(t, x.data)'
          /\ (pc[t] = "id2data" /\ local[t].why = "RELEASE" /\ local[t].obj = c)' <=> c = o
      BY <1>3 DEF Wants, Owes
    <3> QED
      BY <1>8, <3>1, <3>2, <3>4, <3>5 DEF Count, Leaving
  <2>2. ASSUME NEW c \in Objects, held'[t][c] > 0 PROVE held[t][c] > 0
    <3>1. c # o => held[t][c] = held'[t][c]
      BY <1>4
    <3>2. c = o /\ ~(held[t][c] > 0) => held[t][c] = held'[t][c]
      BY <1>4
    <3> QED
      BY <2>2, <3>1, <3>2
  <2> QED
    BY <1>1, <1>7, <1>8, <2>1, <2>2 DEF Counts
<1>12. \A d : ~Owes(t, d) /\ ~Owes(t, d)'
  BY <1>2, <1>3 DEF Owes
<1>13. Debts(t)'
  BY <1>1, <1>7, <1>8, <1>12, DebtsKept
<1>14. \A d \in Data : Uses(t, d)' <=> Uses(t, d)
  BY <1>2, <1>3, <1>7 DEF Uses, Has
<1>15. Shared'
  BY <1>2, <1>5, <1>14, SharedKept
<1>16. Frame(t)
  BY <1>5, <1>8 DEF Frame
<1>17. Mine(t)'
  BY <1>9, <1>10, <1>11, <1>13 DEF Mine
<1> QED
  BY <1>2, <1>6, <1>15, <1>16, <1>17, Whole DEF SyncInv

\* The caches after a save: there is room, and one item more.
LEMMA Saved ==
  ASSUME SyncInv, NEW t \in Threads, SaveInCache(t),
         NEW d, d = local[t].result, NEW y, y = [data |-> d, lockCount |-> 1]
  PROVE  /\ d \in DOMAIN list /\ d \in Data /\ object[d] = local[t].obj
         /\ \A x \in Cached(t) : x.data # d
         /\ Cached(t)' = Cached(t) \cup {y}
         /\ fast' \in [Threads -> Items \cup {NoItem}] /\ cache' \in [Threads -> Seq(Items)]
         /\ allocated' \in [Threads -> Nat]
         /\ \A i, j \in DOMAIN cache'[t] : cache'[t][i].data = cache'[t][j].data => i = j
         /\ fast'[t] # NoItem => \A i \in DOMAIN cache'[t] : cache'[t][i].data # fast'[t].data
         /\ Len(cache'[t]) <= allocated'[t]
<1>1. TypeOK /\ CacheOK(t) /\ Place(t) /\ Listed
  BY DEF SyncInv, Mine, Shared
<1>2. /\ pc[t] = "save" /\ local[t].why = "ACQUIRE"
      /\ IF fast[t] = NoItem
           THEN fast' = [fast EXCEPT ![t] = y] /\ UNCHANGED <<cache, allocated>>
           ELSE /\ cache' = [cache EXCEPT ![t] = Append(@, y)]
                /\ allocated' = [allocated EXCEPT ![t] = IF @ = 0 THEN CacheSlots ELSE @]
                /\ UNCHANGED fast
  BY DEF SaveInCache, At
<1>3. d \in DOMAIN list /\ d \in Data /\ object[d] = local[t].obj
  <2>1. d \in DOMAIN list /\ object[d] = local[t].obj
    BY <1>1, <1>2 DEF Place
  <2> QED
    BY SMTT(30), <1>1, <2>1 DEF Listed, TypeOK
<1>4. \A x \in Cached(t) : x.data # d
  BY <1>1, <1>2, <1>3 DEF Place, Missing
<1>5. y \in Items /\ y # NoItem /\ y.data = d
  BY SMTT(30), <1>3 DEF Items, NoItem
<1>6. /\ fast \in [Threads -> Items \cup {NoItem}] /\ cache \in [Threads -> Seq(Items)]
      /\ allocated \in [Threads -> Nat] /\ cache[t] \in Seq(Items) /\ Len(cache[t]) \in Nat
  BY SMTT(30), <1>1 DEF TypeOK
<1>7. CASE fast[t] = NoItem
  <2>1. fast' = [fast EXCEPT ![t] = y] /\ UNCHANGED <<cache, allocated>> /\ fast'[t] = y
    BY <1>2, <1>6, <1>7
  <2>2. fast' \in [Threads -> Items \cup {NoItem}]
    BY <1>5, <1>6, <2>1
  <2>3. \A i \in DOMAIN cache[t] : cache[t][i].data # d
    BY <1>4 DEF Cached
  <2>4. Cached(t)' = Cached(t) \cup {y}
    BY <1>5, <1>7, <2>1 DEF Cached
  <2> QED
    BY <1>1, <1>3, <1>4, <1>5, <1>6, <2>1, <2>2, <2>3, <2>4 DEF CacheOK
<1>8. CASE fast[t] # NoItem
  <2>1. /\ cache' = [cache EXCEPT ![t] = Append(@, y)] /\ UNCHANGED fast
        /\ allocated' = [allocated EXCEPT ![t] = IF @ = 0 THEN CacheSlots ELSE @]
        /\ cache'[t] = Append(cache[t], y)
    BY <1>2, <1>6, <1>8
  <2>2. /\ cache'[t] \in Seq(Items) /\ Len(cache'[t]) = Len(cache[t]) + 1
        /\ DOMAIN cache[t] = 1..Len(cache[t]) /\ DOMAIN cache'[t] = 1..(Len(cache[t]) + 1)
        /\ cache'[t][Len(cache[t]) + 1] = y
        /\ \A i \in DOMAIN cache[t] : cache'[t][i] = cache[t][i]
    BY SMTT(30), <1>5, <1>6, <2>1
  <2>3. \A i \in DOMAIN cache'[t] : i = Len(cache[t]) + 1 \/ i \in DOMAIN cache[t]
    BY SMTT(30), <1>6, <2>2
  <2>4. /\ \A i \in DOMAIN cache[t] : cache[t][i].data # d
        /\ fast[t].data # d
    BY <1>4, <1>8 DEF Cached
  <2>5. /\ \A i, j \in DOMAIN cache[t] : cache[t][i].data = cache[t][j].data => i = j
        /\ \A i \in DOMAIN cache[t] : cache[t][i].data # fast[t].data
        /\ allocated[t] = 0 \/ Len(cache[t]) < allocated[t]
        /\ Len(cache[t]) <= allocated[t]
    BY <1>1, <1>2, <1>8 DEF CacheOK, Missing
  <2>6. Len(cache'[t]) <= allocated'[t] /\ allocated' \in [Threads -> Nat]
    BY SMTT(30), <1>6, <2>1, <2>2, <2>5, SyncConstants
  <2>7. cache' \in [Threads -> Seq(Items)]
    BY <1>6, <2>1, <2>2
  <2>8. \A i, j \in DOMAIN cache'[t] : cache'[t][i].data = cache'[t][j].data => i = j
    BY SMTT(30), <1>5, <2>2, <2>3, <2>4, <2>5
  <2>9. \A i \in DOMAIN cache'[t] : cache'[t][i].data # fast'[t].data
    BY SMTT(30), <1>5, <2>1, <2>2, <2>3, <2>4, <2>5
  <2>10. Cached(t)' = Cached(t) \cup {y}
    <3> DEFINE S == {cache[t][i] : i \in DOMAIN cache[t]}
               R == {cache'[t][i] : i \in DOMAIN cache'[t]}
    <3>1. \A z \in R : z \in S \cup {y}
      BY <2>2, <2>3
    <3>2. y \in R
      <4>1. Len(cache[t]) + 1 \in DOMAIN cache'[t]
        BY SMTT(30), <1>6, <2>2
      <4> QED
        BY <2>2, <4>1
    <3>3. \A z \in S : z \in R
      BY SMTT(30), <1>6, <2>2
    <3>4. R = S \cup {y}
      BY <3>1, <3>2, <3>3
    <3> QED
      BY <2>1, <3>4 DEF Cached
  <2> QED
    BY <1>3, <1>4, <1>6, <2>1, <2>6, <2>7, <2>8, <2>9, <2>10
<1> QED
  BY <1>7, <1>8

\* id2data puts what it found in the list into a cache.
LEMMA SaveStep ==
  ASSUME SyncInv, NEW t \in Threads, SaveInCache(t)
  PROVE  SyncInv'
<1>1. TypeOK /\ Place(t) /\ Counts(t) /\ Debts(t)
  BY DEF SyncInv, Mine
<1>2. PICK d : d = local[t].result
  OBVIOUS
<1>3. PICK y : y = [data |-> d, lockCount |-> 1]
  OBVIOUS
<1>4. /\ d \in DOMAIN list /\ d \in Data /\ object[d] = local[t].obj
      /\ \A x \in Cached(t) : x.data # d
      /\ Cached(t)' = Cached(t) \cup {y}
  BY <1>2, <1>3, Saved
<1>5. /\ fast' \in [Threads -> Items \cup {NoItem}] /\ cache' \in [Threads -> Seq(Items)]
      /\ allocated' \in [Threads -> Nat]
      /\ \A i, j \in DOMAIN cache'[t] : cache'[t][i].data = cache'[t][j].data => i = j
      /\ fast'[t] # NoItem => \A i \in DOMAIN cache'[t] : cache'[t][i].data # fast'[t].data
      /\ Len(cache'[t]) <= allocated'[t]
  BY <1>2, <1>3, Saved
<1>6. /\ pc[t] = "save" /\ pc' = [pc EXCEPT ![t] = "mutex_lock"] /\ fatal' = "no"
      /\ UNCHANGED <<list, object, threadCount, mutex, lock, held, leaked, badExits, local>>
  BY <1>2, <1>4 DEF SaveInCache, At, Goto, ghost_vars, list_vars
<1>7. pc'[t] = "mutex_lock" /\ local'[t] = local[t]
  BY <1>1, <1>6 DEF TypeOK
<1>8. Others(t)
  <2>1. \A u \in Threads \ {t} : fast'[u] = fast[u] /\ cache'[u] = cache[u] /\ allocated'[u] = allocated[u]
    BY <1>1 DEF TypeOK, SaveInCache
  <2> QED
    BY <1>1, <1>6, <2>1 DEF Others, TypeOK
<1>9. TypeOK'
  <2>1. pc' \in [Threads -> PCs]
    BY <1>1, <1>6 DEF TypeOK, PCs
  <2> QED
    BY <1>1, <1>5, <1>6, <2>1 DEF TypeOK
<1>10. \A e : Has(t, e)' <=> (Has(t, e) \/ e = d)
  BY SMTT(30), <1>3, <1>4 DEF Has
<1>11. CacheOK(t)'
  BY <1>5, <1>7 DEF CacheOK, Missing
<1>12. Place(t)'
  <2>1. Has(t, d)'
    BY <1>10
  <2>2. Has(t, local[t].result)'
    BY <1>2, <1>7, <2>1 DEF Has
  <2> QED
    BY <1>1, <1>2, <1>4, <1>6, <1>7, <2>2 DEF Place, Missing
<1>13. \A e : /\ ~Owes(t, e) /\ ~Owes(t, e)' /\ ~Wants(t, e) /\ (Wants(t, e)' <=> e = d)
              /\ ~Leaving(t, e) /\ ~Leaving(t, e)'
  BY <1>2, <1>6, <1>7 DEF Owes, Wants, Leaving
<1>14. Debts(t)'
  BY <1>1, <1>6, <1>10, <1>13 DEF Debts
<1>15. Counts(t)'
  <2>1. ASSUME NEW x \in Cached(t) PROVE Count(t, x)'
    <3>1. Count(t, x) /\ x.data # d
      BY <1>1, <1>4 DEF Counts
    <3>2. ~(pc'[t] = "id2data")
      BY <1>7
    <3> QED
      BY <1>6, <1>13, <3>1, <3>2 DEF Count, Leaving
  <2>2. held[t][object[d]] = 0
    <3>1. object[d] \in Objects /\ held[t][object[d]] \in Nat
      BY <1>1, <1>4, <1>6 DEF Place, TypeOK
    <3>2. \A x \in Cached(t) : object[x.data] # object[d]
      BY <1>1, <1>4, <1>6 DEF Place, Missing
    <3> QED
      BY SMTT(30), <1>1, <3>1, <3>2 DEF Counts
  <2>3. mutex[d].owner # t
    BY <1>1, <1>4, <1>13 DEF Debts, Has
  <2>4. Count(t, y)'
    BY SMTT(30), <1>3, <1>4, <1>6, <1>13, <2>2, <2>3 DEF Count
  <2> QED
    BY <1>1, <1>4, <1>6, <2>1, <2>4 DEF Counts
<1>16. \A e \in Data : Uses(t, e)' <=> Uses(t, e)
  BY <1>2, <1>6, <1>7, <1>10 DEF Uses
<1>17. Shared'
  BY <1>6, <1>8, <1>16, SharedKept DEF list_vars
<1>18. Frame(t)
  BY <1>6, <1>8 DEF Frame
<1>19. Mine(t)'
  BY <1>11, <1>12, <1>14, <1>15 DEF Mine
<1> QED
  BY <1>6, <1>9, <1>17, <1>18, <1>19, Whole

-----------------------------------------------------------------------------
\* An item that no call is about to change.
LEMMA CountPlain ==
  ASSUME NEW t \in Threads, NEW x, x.data \in DOMAIN list',
         ~Wants(t, x.data)', ~Owes(t, x.data)', pc'[t] # "id2data",
         x.lockCount = held'[t][object'[x.data]],
         mutex'[x.data].owner = t, mutex'[x.data].depth = x.lockCount
  PROVE  Count(t, x)'
  BY DEF Count, Leaving

\* The mutex of objc_sync_enter.
LEMMA MutexLockStep ==
  ASSUME SyncInv, NEW t \in Threads, MutexLock(t)
  PROVE  SyncInv'
<1>1. TypeOK /\ CacheOK(t) /\ Place(t) /\ Counts(t) /\ Debts(t) /\ Listed /\ Free
  BY DEF SyncInv, Mine, Shared
<1>2. PICK d : d = local[t].result
  OBVIOUS
<1>3. PICK o : o = local[t].obj
  OBVIOUS
<1>4. /\ pc[t] = "mutex_lock" /\ pc' = [pc EXCEPT ![t] = "idle"]
      /\ local' = [local EXCEPT ![t] = [obj |-> NULL, why |-> "ACQUIRE", result |-> 0,
                                        p |-> 0, firstUnused |-> 0]]
      /\ mutex[d].owner \in {t, NULL}
      /\ mutex' = [mutex EXCEPT ![d] = [owner |-> t, depth |-> @.depth + 1]]
      /\ held' = [held EXCEPT ![t][o] = @ + 1]
      /\ UNCHANGED <<list, object, threadCount, lock, fast, cache, allocated, leaked, badExits, fatal>>
  BY <1>2, <1>3 DEF MutexLock, Return, Goto, At, cache_vars, list_vars
<1>5. pc'[t] = "idle" /\ local'[t].result = 0
  BY <1>1, <1>4 DEF TypeOK
<1>6. d \in DOMAIN list /\ d \in Data /\ object[d] = o /\ o \in Objects /\ Has(t, d)
  <2>1. d \in DOMAIN list /\ object[d] = o /\ o \in Objects /\ Has(t, d)
    BY <1>1, <1>2, <1>3, <1>4 DEF Place
  <2> QED
    BY SMTT(30), <1>1, <2>1 DEF Listed, TypeOK
<1>7. /\ mutex' \in [Data -> [owner : Threads \cup {NULL}, depth : Nat]]
      /\ mutex'[d].owner = t /\ mutex'[d].depth = mutex[d].depth + 1 /\ mutex[d].depth \in Nat
      /\ \A e \in Data : e # d => mutex'[e] = mutex[e]
  <2>1. /\ mutex \in [Data -> [owner : Threads \cup {NULL}, depth : Nat]]
        /\ mutex[d] \in [owner : Threads \cup {NULL}, depth : Nat]
    BY <1>1, <1>6 DEF TypeOK
  <2>2. PICK m : m = [owner |-> t, depth |-> mutex[d].depth + 1]
    OBVIOUS
  <2>3. /\ m \in [owner : Threads \cup {NULL}, depth : Nat] /\ m.owner = t
        /\ m.depth = mutex[d].depth + 1 /\ mutex[d].depth \in Nat
    BY SMTT(30), <2>1, <2>2
  <2>4. mutex' = [mutex EXCEPT ![d] = m]
    BY <1>4, <2>2
  <2> QED
    BY <1>6, <2>1, <2>3, <2>4
<1>8. /\ held' \in [Threads -> [Objects -> Nat]] /\ \A u \in Threads \ {t} : held'[u] = held[u]
      /\ held'[t][o] = held[t][o] + 1 /\ \A c \in Objects : c # o => held'[t][c] = held[t][c]
  <2>1. held \in [Threads -> [Objects -> Nat]] /\ held[t] \in [Objects -> Nat]
    BY <1>1 DEF TypeOK
  <2>2. PICK h : h = [held[t] EXCEPT ![o] = @ + 1]
    OBVIOUS
  <2>3. /\ h \in [Objects -> Nat] /\ h[o] = held[t][o] + 1
        /\ \A c \in Objects : c # o => h[c] = held[t][c]
    BY SMTT(30), <1>6, <2>1, <2>2
  <2>4. held' = [held EXCEPT ![t] = h]
    BY <1>4, <2>1, <2>2
  <2> QED
    BY <2>1, <2>3, <2>4
<1>9. Others(t)
  BY <1>1, <1>4, <1>8 DEF Others, TypeOK
<1>10. TypeOK'
  <2>1. local' \in [Threads -> Locals] /\ pc' \in [Threads -> PCs]
    BY <1>1, <1>4 DEF TypeOK, PCs, Locals
  <2> QED
    BY <1>1, <1>4, <1>7, <1>8, <2>1 DEF TypeOK
<1>11. Cached(t)' = Cached(t)
  BY <1>4 DEF Cached
<1>12. CacheOK(t)'
  BY <1>1, <1>4, <1>5 DEF CacheOK, Missing
<1>13. Place(t)'
  BY <1>1, <1>4, <1>5 DEF Place, Missing
<1>14. \A e : /\ ~Owes(t, e) /\ ~Owes(t, e)' /\ ~Wants(t, e)' /\ (Wants(t, e) <=> e = d)
              /\ ~Leaving(t, e) /\ ~Leaving(t, e)'
  BY <1>2, <1>4, <1>5 DEF Owes, Wants, Leaving
<1>15. Debts(t)'
  <2>1. \A e : Has(t, e)' <=> Has(t, e)
    BY <1>11 DEF Has
  <2> QED
    BY <1>1, <1>6, <1>7, <1>14, <2>1 DEF Debts
<1>16. Counts(t)'
  <2>1. ASSUME NEW x \in Cached(t) PROVE Count(t, x)'
    <3>1. PICK c : c = object[x.data]
      OBVIOUS
    <3>2. Count(t, x) /\ x.data \in DOMAIN list /\ c \in Objects /\ x.data \in Data /\ x.lockCount \in Nat \ {0}
      BY <1>1, <3>1, CachedItems DEF Counts, Count, Listed
    <3>3. pc'[t] # "id2data" /\ ~Wants(t, x.data)' /\ ~Owes(t, x.data)'
      BY <1>5, <1>14
    <3>4. CASE x.data = d
      <4>1. x.lockCount = held[t][o] + 1 /\ mutex[d].depth = x.lockCount - 1
        <5>1. Wants(t, x.data)
          BY <1>14, <3>4
        <5>2. /\ x.lockCount = held[t][o] + 1
              /\ \/ x.lockCount = 1 /\ mutex[d].owner # t
                 \/ x.lockCount > 1 /\ mutex[d].depth = x.lockCount - 1
          BY <1>6, <3>2, <3>4, <5>1 DEF Count
        <5>3. mutex[d].owner # t => mutex[d].depth = 0
          BY <1>1, <1>4, <1>6 DEF Free
        <5> QED
          BY SMTT(30), <5>2, <5>3
      <4>2. /\ x.lockCount = held'[t][object'[x.data]]
            /\ mutex'[x.data].owner = t /\ mutex'[x.data].depth = x.lockCount
        BY SMTT(30), <1>4, <1>6, <1>7, <1>8, <3>2, <3>4, <4>1
      <4> QED
        BY <1>4, <3>2, <3>3, <4>2, CountPlain
    <3>5. CASE x.data # d
      <4>1. c # o
        BY <1>1, <1>6, <3>1, <3>2, <3>5 DEF SyncInv, Shared, OneDataPerObject, Listed
      <4>2. mutex'[x.data] = mutex[x.data] /\ held'[t][c] = held[t][c]
        BY <1>7, <1>8, <3>2, <3>5, <4>1
      <4>3. /\ x.lockCount = held[t][c]
            /\ mutex[x.data].owner = t /\ mutex[x.data].depth = x.lockCount
        <5>1. ~Wants(t, x.data) /\ ~Owes(t, x.data) /\ ~Leaving(t, object[x.data])
          BY <1>14, <3>5
        <5> QED
          BY <3>1, <3>2, <5>1 DEF Count
      <4> QED
        BY <1>4, <3>1, <3>2, <3>3, <4>2, <4>3, CountPlain
    <3> QED
      BY <3>4, <3>5
  <2>2. \A c \in Objects : held'[t][c] > 0 => \E x \in Cached(t) : object[x.data] = c
    BY SMTT(30), <1>1, <1>6, <1>8 DEF Counts, Has
  <2> QED
    BY <1>4, <1>11, <2>1, <2>2 DEF Counts
<1>17. \A e \in Data : Uses(t, e)' <=> Uses(t, e)
  BY <1>4, <1>5, <1>11 DEF Uses, Has
<1>18. Shared'
  <2>1. ThreadCountConserved'
    <3>1. ASSUME NEW e \in Data PROVE Cardinality(Users(e)') = Cardinality(Users(e))
      BY <1>9, <1>17, UsersSame
    <3> QED
      BY <1>4, <3>1 DEF ThreadCountConserved, SyncInv, Shared
  <2>2. Free'
    BY SMTT(30), <1>1, <1>6, <1>7, SyncConstants DEF Free
  <2> QED
    BY <1>4, <2>1, <2>2 DEF SyncInv, Shared, Listed, OneDataPerObject
<1>19. Frame(t)
  <2>1. \A e \in Data, u \in Threads \ {t} :
          mutex'[e] = mutex[e] \/ (mutex[e].owner # u /\ mutex'[e].owner # u)
    BY SMTT(30), <1>4, <1>7, SyncConstants
  <2> QED
    BY <1>4, <1>9, <2>1 DEF Frame
<1>20. Mine(t)'
  BY <1>12, <1>13, <1>15, <1>16 DEF Mine
<1> QED
  BY <1>4, <1>10, <1>18, <1>19, <1>20, Whole DEF SyncInv

\* The mutex of objc_sync_exit, which t owns.
LEMMA TryUnlockStep ==
  ASSUME SyncInv, NEW t \in Threads, MutexTryUnlock(t)
  PROVE  SyncInv'
<1>1. TypeOK /\ CacheOK(t) /\ Place(t) /\ Counts(t) /\ Debts(t) /\ Listed /\ Free
  BY DEF SyncInv, Mine, Shared
<1>2. PICK d : d = local[t].result
  OBVIOUS
<1>3. /\ pc[t] = "try_unlock" /\ pc' = [pc EXCEPT ![t] = "idle"]
      /\ local' = [local EXCEPT ![t] = [obj |-> NULL, why |-> "ACQUIRE", result |-> 0,
                                        p |-> 0, firstUnused |-> 0]]
      /\ mutex' = IF mutex[d].owner # t THEN mutex
                  ELSE IF mutex[d].depth = 1
                    THEN [mutex EXCEPT ![d] = [owner |-> NULL, depth |-> 0]]
                  ELSE [mutex EXCEPT ![d].depth = @ - 1]
      /\ UNCHANGED <<list, object, threadCount, lock, fast, cache, allocated, held, leaked, badExits, fatal>>
  BY <1>2 DEF MutexTryUnlock, Return, Goto, At, cache_vars, list_vars, ghost_vars
<1>4. pc'[t] = "idle" /\ local'[t].result = 0
  BY <1>1, <1>3 DEF TypeOK
<1>5. /\ d \in DOMAIN list /\ d \in Data /\ mutex[d].owner = t
      /\ ~Has(t, d) => mutex[d].depth = 1
      /\ mutex[d].depth \in Nat \ {0}
  <2>1. d \in DOMAIN list /\ d \in Data
    BY SMTT(30), <1>1, <1>2, <1>3 DEF Place, Listed, TypeOK
  <2>2. Owes(t, d)
    BY <1>2, <1>3 DEF Owes
  <2>3. mutex[d].owner = t /\ (~Has(t, d) => mutex[d].depth = 1)
    BY <1>1, <2>1, <2>2 DEF Debts
  <2> QED
    BY <1>1, <2>1, <2>3, SyncConstants DEF Free, TypeOK
<1>6. /\ mutex' \in [Data -> [owner : Threads \cup {NULL}, depth : Nat]]
      /\ \A e \in Data : e # d => mutex'[e] = mutex[e]
      /\ mutex[d].depth = 1 => mutex'[d].owner = NULL /\ mutex'[d].depth = 0
      /\ mutex[d].depth # 1 => mutex'[d].owner = t /\ mutex'[d].depth = mutex[d].depth - 1
  <2>1. mutex \in [Data -> [owner : Threads \cup {NULL}, depth : Nat]]
    BY <1>1 DEF TypeOK
  <2>2. CASE mutex[d].depth = 1
    BY <1>3, <1>5, <2>1, <2>2
  <2>3. CASE mutex[d].depth # 1
    <3>1. mutex' = [mutex EXCEPT ![d].depth = @ - 1] /\ mutex[d].depth - 1 \in Nat
      BY SMTT(30), <1>3, <1>5, <2>3
    <3>2. /\ mutex'[d] = [mutex[d] EXCEPT !.depth = @ - 1]
          /\ \A e \in Data : e # d => mutex'[e] = mutex[e]
      BY <1>5, <2>1, <3>1
    <3>3. /\ mutex'[d] \in [owner : Threads \cup {NULL}, depth : Nat]
          /\ mutex'[d].owner = t /\ mutex'[d].depth = mutex[d].depth - 1
      BY <1>5, <2>1, <3>1, <3>2
    <3>4. mutex' \in [Data -> [owner : Threads \cup {NULL}, depth : Nat]]
      BY <2>1, <3>1, <3>2, <3>3
    <3> QED
      BY <2>3, <3>2, <3>3, <3>4
  <2> QED
    BY <2>2, <2>3
<1>7. Others(t)
  BY <1>1, <1>3 DEF Others, TypeOK
<1>8. TypeOK'
  <2>1. local' \in [Threads -> Locals] /\ pc' \in [Threads -> PCs]
    BY <1>1, <1>3 DEF TypeOK, PCs, Locals
  <2> QED
    BY <1>1, <1>3, <1>6, <2>1 DEF TypeOK
<1>9. Cached(t)' = Cached(t)
  BY <1>3 DEF Cached
<1>10. CacheOK(t)'
  BY <1>1, <1>3, <1>4 DEF CacheOK, Missing
<1>11. Place(t)'
  BY <1>1, <1>3, <1>4 DEF Place, Missing
<1>12. \A e : /\ ~Owes(t, e)' /\ (Owes(t, e) <=> e = d) /\ ~Wants(t, e) /\ ~Leaving(t, e)
  BY <1>2, <1>3, <1>4 DEF Owes, Wants, Leaving
<1>13. Debts(t)'
  <2>1. \A e : Has(t, e)' <=> Has(t, e)
    BY <1>9 DEF Has
  <2>2. \A e \in Data : mutex'[e].owner = t => Has(t, e)
    BY <1>1, <1>5, <1>6, <1>12, SyncConstants DEF Debts
  <2> QED
    BY <1>12, <2>1, <2>2 DEF Debts
<1>14. Counts(t)'
  <2>1. ASSUME NEW x \in Cached(t) PROVE Count(t, x)'
    <3>1. Count(t, x) /\ x.data \in DOMAIN list /\ x.data \in Data /\ x.lockCount \in Nat \ {0}
      BY <1>1, CachedItems DEF Counts, Count
    <3>2. pc'[t] # "id2data" /\ ~Wants(t, x.data)' /\ ~Owes(t, x.data)'
      BY <1>4 DEF Wants, Owes
    <3>3. ~Wants(t, x.data) /\ ~Leaving(t, object[x.data]) /\ (Owes(t, x.data) <=> x.data = d)
      BY <1>12
    <3>4. /\ x.lockCount = held[t][object[x.data]] /\ mutex[x.data].owner = t
          /\ mutex[x.data].depth = IF x.data = d THEN x.lockCount + 1 ELSE x.lockCount
      BY <3>1, <3>3 DEF Count
    <3>5. mutex'[x.data].owner = t /\ mutex'[x.data].depth = x.lockCount
      BY SMTT(30), <1>6, <3>1, <3>4
    <3> QED
      BY <1>3, <3>1, <3>2, <3>4, <3>5, CountPlain
  <2> QED
    BY <1>1, <1>3, <1>9, <2>1 DEF Counts
<1>15. \A e \in Data : Uses(t, e)' <=> Uses(t, e)
  BY <1>3, <1>4, <1>9 DEF Uses, Has
<1>16. Shared'
  <2>1. ThreadCountConserved'
    <3>1. ASSUME NEW e \in Data PROVE Cardinality(Users(e)') = Cardinality(Users(e))
      BY <1>7, <1>15, UsersSame
    <3> QED
      BY <1>3, <3>1 DEF ThreadCountConserved, SyncInv, Shared
  <2>2. Free'
    BY SMTT(30), <1>1, <1>5, <1>6, SyncConstants DEF Free
  <2> QED
    BY <1>3, <2>1, <2>2 DEF SyncInv, Shared, Listed, OneDataPerObject
<1>17. Frame(t)
  <2>1. \A e \in Data, u \in Threads \ {t} :
          mutex'[e] = mutex[e] \/ (mutex[e].owner # u /\ mutex'[e].owner # u)
    BY <1>5, <1>6, SyncConstants
  <2> QED
    BY <1>3, <1>7, <2>1 DEF Frame
<1>18. Mine(t)'
  BY <1>10, <1>11, <1>13, <1>14 DEF Mine
<1> QED
  BY <1>3, <1>8, <1>16, <1>17, <1>18, Whole DEF SyncInv

-----------------------------------------------------------------------------
(***************************************************************************)
(* The steps that count a use of a SyncData in or out                      *)
(***************************************************************************)

\* Users(d) is finite, and grows and shrinks by one thread.
LEMMA UsersCount ==
  ASSUME NEW d \in Data
  PROVE  /\ IsFiniteSet(Users(d)) /\ Cardinality(Users(d)) \in Nat
         /\ \A t \in Threads : Uses(t, d) <=> t \in Users(d)
         /\ Cardinality(Users(d)) = 0 <=> \A t \in Threads : ~Uses(t, d)
<1>1. Users(d) \subseteq Threads /\ \A t \in Threads : Uses(t, d) <=> t \in Users(d)
  BY DEF Users, Uses, Has
<1>2. IsFiniteSet(Users(d)) /\ Cardinality(Users(d)) \in Nat
  BY <1>1, SyncConstants, FS_Subset, FS_CardinalityType
<1>3. Cardinality(Users(d)) = 0 <=> Users(d) = {}
  BY <1>2, FS_EmptySet
<1> QED
  BY <1>1, <1>2, <1>3

\* The same of the users after a step.
LEMMA UsersAfter ==
  ASSUME NEW d \in Data
  PROVE  /\ IsFiniteSet(Users(d)') /\ \A t \in Threads : Uses(t, d)' <=> t \in Users(d)'
         /\ Users(d)' \subseteq Threads
<1>1. Users(d)' \subseteq Threads /\ \A t \in Threads : Uses(t, d)' <=> t \in Users(d)'
  BY DEF Users, Uses, Has
<1> QED
  BY <1>1, SyncConstants, FS_Subset

\* How a step of t changes the number of users of d.
LEMMA UsersStep ==
  ASSUME NEW d \in Data, NEW t \in Threads,
         \A u \in Threads \ {t} : Uses(u, d)' <=> Uses(u, d)
  PROVE  /\ (Uses(t, d)' <=> Uses(t, d)) => Cardinality(Users(d)') = Cardinality(Users(d))
         /\ Uses(t, d)' /\ ~Uses(t, d) => Cardinality(Users(d)') = Cardinality(Users(d)) + 1
         /\ ~Uses(t, d)' /\ Uses(t, d) => Cardinality(Users(d)') = Cardinality(Users(d)) - 1
<1>1. /\ IsFiniteSet(Users(d)) /\ Users(d) \subseteq Threads
      /\ \A u \in Threads : Uses(u, d) <=> u \in Users(d)
  BY UsersCount DEF Users
<1>2. Users(d)' \subseteq Threads /\ \A u \in Threads : Uses(u, d)' <=> u \in Users(d)'
  BY UsersAfter
<1>3. ASSUME Uses(t, d)' <=> Uses(t, d) PROVE Users(d)' = Users(d)
  BY <1>1, <1>2, <1>3
<1>4. ASSUME Uses(t, d)' /\ ~Uses(t, d)
      PROVE  Users(d)' = Users(d) \cup {t} /\ t \notin Users(d)
  BY <1>1, <1>2, <1>4
<1>5. ASSUME ~Uses(t, d)' /\ Uses(t, d) PROVE Users(d)' = Users(d) \ {t} /\ t \in Users(d)
  BY <1>1, <1>2, <1>5
<1>6. ASSUME t \notin Users(d) PROVE Cardinality(Users(d) \cup {t}) = Cardinality(Users(d)) + 1
  BY <1>1, <1>6, FS_AddElement
<1>7. ASSUME t \in Users(d) PROVE Cardinality(Users(d) \ {t}) = Cardinality(Users(d)) - 1
  BY <1>1, <1>7, FS_RemoveElement
<1> QED
  BY <1>3, <1>4, <1>5, <1>6, <1>7

\* A thread that becomes a user of d counts itself.
LEMMA CountedUse ==
  ASSUME SyncInv, NEW t \in Threads, Others(t), NEW d \in Data,
         threadCount' = [threadCount EXCEPT ![d] = @ + 1], UNCHANGED leaked,
         Uses(t, d)', ~Uses(t, d),
         \A e \in Data \ {d} : Uses(t, e)' <=> Uses(t, e)
  PROVE  ThreadCountConserved'
<1> SUFFICES ASSUME NEW e \in Data
             PROVE  threadCount'[e] = Cardinality(Users(e)') + leaked'[e]
  BY DEF ThreadCountConserved
<1>1. /\ threadCount[e] = Cardinality(Users(e)) + leaked[e]
      /\ threadCount \in [Data -> Nat] /\ leaked \in [Data -> Nat]
  BY DEF SyncInv, Shared, ThreadCountConserved, TypeOK
<1>2. Cardinality(Users(e)) \in Nat
  BY UsersCount
<1>3. e = d => Cardinality(Users(e)') = Cardinality(Users(e)) + 1
  BY OthersSame, UsersStep
<1>4. e # d => Cardinality(Users(e)') = Cardinality(Users(e))
  BY OthersSame, UsersStep
<1> QED
  BY SMTT(30), <1>1, <1>2, <1>3, <1>4

\* Nobody uses a SyncData of count 0.
LEMMA Unused ==
  ASSUME SyncInv, NEW d \in Data
  PROVE  threadCount[d] = 0 => leaked[d] = 0 /\ \A u \in Threads : ~Uses(u, d)
<1>1. threadCount[d] = Cardinality(Users(d)) + leaked[d] /\ leaked[d] \in Nat
  BY DEF SyncInv, Shared, ThreadCountConserved, TypeOK
<1> QED
  BY SMTT(30), <1>1, UsersCount

-----------------------------------------------------------------------------
\* id2data looks at one SyncData of the list.
LEMMA WalkStep ==
  ASSUME SyncInv, NEW t \in Threads, WalkList(t)
  PROVE  SyncInv'
<1>1. TypeOK /\ CacheOK(t) /\ Place(t) /\ Listed
  BY DEF SyncInv, Mine, Shared
<1>2. PICK d : d = local[t].p
  OBVIOUS
<1>3. /\ pc[t] = "walk" /\ d > 0 /\ d \in DOMAIN list /\ list[d] = d
      /\ DOMAIN list = 1..Len(list) /\ Len(list) \in Nat /\ local[t] \in Locals
      /\ lock = t /\ d \in Data /\ local[t].result = 0
  <2>1. pc[t] = "walk" /\ d > 0 /\ d \in 0..Len(list)
    BY <1>1, <1>2 DEF WalkList, At, Place
  <2>2. DOMAIN list = 1..Len(list) /\ Len(list) \in Nat /\ local[t] \in Locals /\ list \in Seq(Data)
    BY SMTT(30), <1>1 DEF TypeOK
  <2>3. d \in DOMAIN list /\ list[d] = d
    BY SMTT(30), <1>1, <2>1, <2>2 DEF Listed
  <2> QED
    BY SMTT(30), <1>1, <2>1, <2>2, <2>3 DEF Place
<1>4. UNCHANGED <<list, object, mutex, lock, fast, cache, allocated, held, leaked, badExits, fatal>>
  BY DEF WalkList, cache_vars, ghost_vars
<1>5. Cached(t)' = Cached(t)
  BY <1>4 DEF Cached
<1>6. CASE object[d] = local[t].obj
  <2>1. /\ threadCount' = [threadCount EXCEPT ![d] = @ + 1]
        /\ local' = [local EXCEPT ![t].result = d] /\ pc' = [pc EXCEPT ![t] = "unlock"]
    BY <1>2, <1>3, <1>6 DEF WalkList, Goto
  <2>2. pc'[t] = "unlock" /\ local'[t] = [local[t] EXCEPT !.result = d]
    BY <1>1, <2>1 DEF TypeOK
  <2>3. /\ local'[t] \in Locals /\ local'[t].obj = local[t].obj /\ local'[t].why = local[t].why
        /\ local'[t].result = d
    BY <1>3, <2>2 DEF Locals
  <2>4. Others(t)
    BY <1>1, <1>4, <2>1 DEF Others, TypeOK
  <2>5. TypeOK'
    <3>0. threadCount \in [Data -> Nat]
      BY <1>1 DEF TypeOK
    <3>1. threadCount' \in [Data -> Nat]
      BY SMTT(30), <1>3, <2>1, <3>0
    <3>2. local' \in [Threads -> Locals] /\ pc' \in [Threads -> PCs]
      BY <1>1, <2>1, <2>2, <2>3 DEF TypeOK, PCs
    <3> QED
      BY <1>1, <1>4, <3>1, <3>2 DEF TypeOK
  <2>6. CacheOK(t)'
    BY <1>1, <1>3, <1>4, <2>2 DEF CacheOK, Missing
  <2>7. Place(t)'
    BY SMTT(30), <1>1, <1>3, <1>4, <1>5, <1>6, <2>2, <2>3 DEF Place, Missing
  <2>8. Mine(t)'
    BY <1>3, <1>4, <2>2, <2>6, <2>7, MineKept
  <2>9. Uses(t, d)' /\ ~Uses(t, d) /\ \A e \in Data \ {d} : Uses(t, e)' <=> Uses(t, e)
    <3>1. ~Has(t, d)
      BY <1>1, <1>3, <1>6 DEF Has, Place, Missing
    <3>2. \A e : Has(t, e)' <=> Has(t, e)
      BY <1>5 DEF Has
    <3> QED
      BY <1>3, <2>2, <2>3, <3>1, <3>2 DEF Uses
  <2>10. ThreadCountConserved'
    <3>1. d \in Data /\ UNCHANGED leaked
      BY <1>3, <1>4
    <3> QED
      BY <2>1, <2>4, <2>9, <3>1, CountedUse
  <2>11. Listed'
    BY <1>1, <1>3, <1>4, <2>1 DEF Listed, TypeOK
  <2>12. Shared'
    BY <1>4, <2>10, <2>11 DEF SyncInv, Shared, Free, OneDataPerObject
  <2>13. Frame(t)
    BY <1>3, <1>4, <2>4 DEF Frame
  <2> QED
    BY <1>4, <2>5, <2>8, <2>12, <2>13, Whole DEF SyncInv
<1>7. CASE object[d] # local[t].obj
  <2>1. PICK f : f = IF local[t].firstUnused = 0 /\ threadCount[d] = 0 THEN d ELSE local[t].firstUnused
    OBVIOUS
  <2>2. /\ local' = [local EXCEPT ![t].p = @ - 1, ![t].firstUnused = f]
        /\ UNCHANGED <<threadCount, pc>>
    BY <1>2, <1>3, <1>7, <2>1 DEF WalkList
  <2>3. local'[t] = [local[t] EXCEPT !.p = d - 1, !.firstUnused = f] /\ d - 1 \in Nat
    BY SMTT(30), <1>1, <1>2, <1>3, <2>2 DEF TypeOK
  <2>4. f \in Data \cup {0} /\ (f # 0 => f \in DOMAIN list /\ threadCount[f] = 0)
    BY <1>1, <1>3, <2>1 DEF Place, Locals
  <2>5. /\ local'[t] \in Locals /\ local'[t].obj = local[t].obj /\ local'[t].why = local[t].why
        /\ local'[t].result = 0 /\ local'[t].p = d - 1 /\ local'[t].firstUnused = f
    <3>1. PICK l : l = local[t]
      OBVIOUS
    <3>2. PICK q : q = d - 1
      OBVIOUS
    <3>3. PICK r : r = local'[t]
      OBVIOUS
    <3>4. l \in Locals /\ q \in Nat /\ f \in Data \cup {0} /\ l.result = 0
      BY <1>3, <2>3, <2>4, <3>1, <3>2
    <3>5. r = [l EXCEPT !.p = q, !.firstUnused = f]
      BY <2>3, <3>1, <3>2, <3>3
    <3>6. PICK k : k = [l EXCEPT !.p = q]
      OBVIOUS
    <3>7. r = [k EXCEPT !.firstUnused = f]
      BY <3>5, <3>6
    <3>8. k \in Locals /\ k.obj = l.obj /\ k.why = l.why /\ k.result = l.result /\ k.p = q
      BY <3>4, <3>6 DEF Locals
    <3>9. /\ r \in Locals /\ r.obj = l.obj /\ r.why = l.why /\ r.result = l.result
          /\ r.p = q /\ r.firstUnused = f
      BY <3>4, <3>7, <3>8 DEF Locals
    <3> QED
      BY <3>1, <3>2, <3>3, <3>4, <3>9
  <2>6. Others(t)
    BY <1>1, <1>4, <2>2 DEF Others, TypeOK
  <2>7. TypeOK'
    BY <1>1, <1>4, <2>2, <2>5 DEF TypeOK
  <2>8. CacheOK(t)'
    BY <1>1, <1>4, <2>2 DEF CacheOK
  <2>9. Place(t)'
    <3>1. d - 1 \in 0..Len(list) /\ \A e \in DOMAIN list : e > d - 1 => object[e] # local[t].obj
      BY SMTT(30), <1>1, <1>2, <1>3, <1>7 DEF Place
    <3>2. pc'[t] = "walk" /\ lock' = t
      BY <1>3, <1>4, <2>2
    <3>3. /\ UNCHANGED <<list, object, threadCount>> /\ local[t].obj \in Objects
          /\ \A x \in Cached(t) : object[x.data] # local[t].obj
      BY <1>1, <1>3, <1>4, <2>2 DEF Place, Missing
    <3> QED
      BY <1>5, <2>4, <2>5, <3>1, <3>2, <3>3 DEF Place
  <2>10. \A e \in Data : Uses(t, e)' <=> Uses(t, e)
    BY <1>3, <1>5, <2>2 DEF Uses, Has
  <2>11. \A c : Leaving(t, c)' <=> Leaving(t, c)
    BY <1>3, <2>2 DEF Leaving
  <2> QED
    BY <1>3, <1>4, <2>2, <2>6, <2>7, <2>8, <2>9, <2>10, <2>11, Quiet DEF list_vars
<1> QED
  BY <1>6, <1>7

\* The end of the walk: an enter takes a SyncData that nobody uses.
LEMMA TakeStep ==
  ASSUME SyncInv, NEW t \in Threads, EndOfList(t), local[t].why = "ACQUIRE"
  PROVE  SyncInv'
<1>1. TypeOK /\ CacheOK(t) /\ Place(t) /\ Listed /\ OneDataPerObject
  BY DEF SyncInv, Mine, Shared
<1>2. PICK d : d = IF local[t].firstUnused # 0 THEN local[t].firstUnused ELSE Len(list) + 1
  OBVIOUS
<1>3. /\ pc[t] = "walk" /\ local[t].p = 0 /\ d \in Data
      /\ object' = [object EXCEPT ![d] = local[t].obj]
      /\ threadCount' = [threadCount EXCEPT ![d] = 1]
      /\ list' = IF d > Len(list) THEN Append(list, d) ELSE list
      /\ local' = [local EXCEPT ![t].result = d] /\ pc' = [pc EXCEPT ![t] = "unlock"]
      /\ UNCHANGED <<mutex, lock, fast, cache, allocated, held, leaked, badExits, fatal>>
  BY <1>2 DEF EndOfList, At, Goto, cache_vars, ghost_vars
<1>4. /\ local[t] \in Locals /\ local[t].obj \in Objects /\ local[t].result = 0 /\ lock = t
      /\ \A x \in Cached(t) : object[x.data] # local[t].obj
      /\ \A e \in DOMAIN list : object[e] # local[t].obj
      /\ DOMAIN list = 1..Len(list) /\ Len(list) \in Nat /\ list \in Seq(Data)
  <2>1. DOMAIN list = 1..Len(list) /\ Len(list) \in Nat /\ list \in Seq(Data) /\ local[t] \in Locals
    BY SMTT(30), <1>1 DEF TypeOK
  <2>2. /\ local[t].obj \in Objects /\ local[t].result = 0 /\ lock = t
        /\ \A x \in Cached(t) : object[x.data] # local[t].obj
    BY <1>1, <1>3 DEF Place, Missing
  <2>3. \A e \in DOMAIN list : object[e] # local[t].obj
    BY SMTT(30), <1>1, <1>3, <2>1 DEF Place
  <2> QED
    BY <2>1, <2>2, <2>3
<1>5. threadCount[d] = 0 /\ (d \in DOMAIN list \/ d = Len(list) + 1)
  <2>1. CASE local[t].firstUnused # 0
    BY <1>1, <1>2, <1>3, <2>1 DEF Place
  <2>2. CASE local[t].firstUnused = 0
    BY SMTT(30), <1>1, <1>2, <1>3, <1>4, <2>2 DEF Listed
  <2> QED
    BY <2>1, <2>2
<1>6. leaked[d] = 0 /\ \A u \in Threads : ~Uses(u, d)
  BY <1>3, <1>5, Unused
<1>7. /\ list' \in Seq(Data) /\ d \in DOMAIN list' /\ DOMAIN list \subseteq DOMAIN list'
      /\ \A i \in DOMAIN list' : i = d \/ i \in DOMAIN list
      /\ \A i \in DOMAIN list' : list'[i] = i
  <2>1. CASE d \in DOMAIN list
    BY SMTT(30), <1>1, <1>3, <1>4, <2>1 DEF Listed
  <2>2. CASE d = Len(list) + 1
    <3>1. list' = Append(list, d)
      BY SMTT(30), <1>3, <1>4, <2>2
    <3>2. /\ list' \in Seq(Data) /\ DOMAIN list' = 1..d /\ list'[d] = d
          /\ \A i \in DOMAIN list : list'[i] = list[i]
      BY SMTT(30), <1>3, <1>4, <2>2, <3>1
    <3> QED
      BY SMTT(30), <1>1, <1>3, <1>4, <2>2, <3>2 DEF Listed
  <2> QED
    BY <1>5, <2>1, <2>2
<1>8. /\ object' \in [Data -> Objects \cup {NULL}] /\ threadCount' \in [Data -> Nat]
      /\ object'[d] = local[t].obj /\ \A e \in Data : e # d => object'[e] = object[e]
      /\ \A e \in Data : e # d => threadCount'[e] = threadCount[e]
      /\ threadCount' = [threadCount EXCEPT ![d] = @ + 1]
  BY SMTT(30), <1>1, <1>3, <1>4, <1>5 DEF TypeOK
<1>9. pc'[t] = "unlock" /\ local'[t] = [local[t] EXCEPT !.result = d]
  BY <1>1, <1>3 DEF TypeOK
<1>10. /\ local'[t] \in Locals /\ local'[t].obj = local[t].obj /\ local'[t].why = local[t].why
       /\ local'[t].result = d
  BY SMTT(30), <1>3, <1>4, <1>9 DEF Locals
<1>11. Others(t)
  BY <1>1, <1>3 DEF Others, TypeOK
<1>12. TypeOK'
  <2>1. local' \in [Threads -> Locals] /\ pc' \in [Threads -> PCs]
    BY <1>1, <1>3, <1>10 DEF TypeOK, PCs
  <2> QED
    BY <1>1, <1>3, <1>7, <1>8, <2>1 DEF TypeOK
<1>13. Cached(t)' = Cached(t)
  BY <1>3 DEF Cached
<1>14. \A x \in Cached(t) : x.data \in Data /\ x.data # d /\ object'[x.data] = object[x.data]
  BY <1>1, <1>6, <1>8, CachedItems DEF Uses, Has
<1>15. CacheOK(t)'
  BY <1>1, <1>3, <1>9 DEF CacheOK, Missing
<1>16. Place(t)'
  <2>1. lock' = t /\ \A x \in Cached(t)' : object'[x.data] # local'[t].obj
    BY <1>3, <1>4, <1>10, <1>13, <1>14
  <2> QED
    BY <1>4, <1>7, <1>8, <1>9, <1>10, <2>1 DEF Place
<1>17. Mine(t)'
  BY <1>3, <1>7, <1>9, <1>14, <1>15, <1>16, MineKept
<1>18. Uses(t, d)' /\ ~Uses(t, d) /\ \A e \in Data \ {d} : Uses(t, e)' <=> Uses(t, e)
  BY <1>3, <1>4, <1>6, <1>9, <1>10, <1>13 DEF Uses, Has
<1>19. ThreadCountConserved'
  <2>1. d \in Data /\ UNCHANGED leaked /\ threadCount' = [threadCount EXCEPT ![d] = @ + 1]
    BY <1>3, <1>8
  <2> QED
    BY <1>11, <1>18, <2>1, CountedUse
<1>20. Listed'
  <2>1. DOMAIN list \subseteq Data
    BY SMTT(30), <1>1, <1>4 DEF Listed
  <2> QED
    BY <1>1, <1>4, <1>7, <1>8, <2>1 DEF Listed
<1>21. OneDataPerObject'
  <2>1. DOMAIN list \subseteq Data
    BY SMTT(30), <1>1, <1>4 DEF Listed
  <2>2. \A i, j \in DOMAIN list : object[i] = object[j] => i = j
    BY <1>1 DEF OneDataPerObject, Listed
  <2>3. \A i, j \in DOMAIN list' : object'[i] = object'[j] => i = j
    BY SMTT(30), <1>4, <1>7, <1>8, <2>1, <2>2
  <2> QED
    BY <1>7, <2>3 DEF OneDataPerObject
<1>22. Shared'
  BY <1>3, <1>19, <1>20, <1>21 DEF SyncInv, Shared, Free
<1>23. Frame(t)
  <2>1. \A e \in DOMAIN list : object'[e] = object[e] \/ \A u \in Threads : ~Uses(u, e)
    BY SMTT(30), <1>1, <1>4, <1>6, <1>8 DEF Listed
  <2> QED
    BY <1>3, <1>4, <1>7, <1>11, <2>1 DEF Frame
<1> QED
  BY <1>3, <1>12, <1>17, <1>22, <1>23, Whole DEF SyncInv

\* id2data at the end of the list, when the object was not there.
LEMMA EndStep ==
  ASSUME SyncInv, NEW t \in Threads, EndOfList(t)
  PROVE  SyncInv'
<1>1. local[t].why \in {"ACQUIRE", "RELEASE"}
  BY DEF SyncInv, TypeOK, Locals
<1> QED
  BY <1>1, TakeStep, GiveUpStep

-----------------------------------------------------------------------------
\* The unlocked decrement of id2data.
LEMMA DecrementStep ==
  ASSUME SyncInv, NEW t \in Threads, DecrementThreadCount(t)
  PROVE  SyncInv'
<1>1. TypeOK /\ CacheOK(t) /\ Place(t) /\ Counts(t) /\ Debts(t) /\ Listed
  BY DEF SyncInv, Mine, Shared
<1>2. PICK d : d = local[t].result
  OBVIOUS
<1>3. /\ pc[t] = "decrement" /\ pc' = [pc EXCEPT ![t] = "try_unlock"]
      /\ threadCount' = [threadCount EXCEPT ![d] = @ - 1]
      /\ UNCHANGED <<list, object, mutex, lock, fast, cache, allocated, held, leaked, badExits, fatal, local>>
  BY <1>2 DEF DecrementThreadCount, Goto, At, cache_vars, ghost_vars
<1>4. pc'[t] = "try_unlock" /\ local'[t] = local[t]
  BY <1>1, <1>3 DEF TypeOK
<1>5. d \in DOMAIN list /\ d \in Data /\ ~Has(t, d)
  <2>1. d \in DOMAIN list /\ ~Has(t, d)
    BY <1>1, <1>2, <1>3 DEF Place
  <2> QED
    BY SMTT(30), <1>1, <2>1 DEF Listed, TypeOK
<1>6. Cached(t)' = Cached(t)
  BY <1>3 DEF Cached
<1>7. /\ Uses(t, d) /\ ~Uses(t, d)'
      /\ \A e \in Data \ {d} : Uses(t, e)' <=> Uses(t, e)
  BY <1>2, <1>3, <1>4, <1>5, <1>6 DEF Uses, Has
<1>8. threadCount[d] \in Nat \ {0}
  BY <1>1, <1>5, <1>7, Unused DEF TypeOK
<1>9. Others(t)
  BY <1>1, <1>3 DEF Others, TypeOK
<1>10. TypeOK'
  <2>1. threadCount[d] - 1 \in Nat /\ threadCount \in [Data -> Nat]
    BY SMTT(30), <1>1, <1>8 DEF TypeOK
  <2>2. threadCount' \in [Data -> Nat]
    BY <1>3, <1>5, <2>1
  <2>3. pc' \in [Threads -> PCs]
    BY <1>1, <1>3 DEF TypeOK, PCs
  <2> QED
    BY <1>1, <1>3, <2>2, <2>3 DEF TypeOK
<1>11. CacheOK(t)'
  BY <1>1, <1>3, <1>4 DEF CacheOK, Missing
<1>12. Place(t)'
  BY <1>1, <1>3, <1>4 DEF Place, Missing
<1>13. \A e : /\ Owes(t, e)' <=> Owes(t, e)
              /\ Wants(t, e)' <=> Wants(t, e)
              /\ Leaving(t, e)' <=> Leaving(t, e)
  BY <1>3, <1>4 DEF Owes, Wants, Leaving
<1>14. Debts(t)'
  BY <1>1, <1>3, <1>6, <1>13, DebtsKept
<1>15. Counts(t)'
  <2>1. \A x \in Cached(t) : x.data \in DOMAIN list
    BY <1>1 DEF Counts, Count
  <2> QED
    BY <1>1, <1>3, <1>6, <1>13, <2>1, CountsKept
<1>16. ThreadCountConserved'
  <2> SUFFICES ASSUME NEW e \in Data
               PROVE  threadCount'[e] = Cardinality(Users(e)') + leaked'[e]
    BY DEF ThreadCountConserved
  <2>1. /\ threadCount[e] = Cardinality(Users(e)) + leaked[e]
        /\ threadCount \in [Data -> Nat] /\ leaked \in [Data -> Nat]
    BY DEF SyncInv, Shared, ThreadCountConserved, TypeOK
  <2>2. Cardinality(Users(e)) \in Nat
    BY UsersCount
  <2>3. e = d => Cardinality(Users(e)') = Cardinality(Users(e)) - 1
    BY <1>7, <1>9, OthersSame, UsersStep
  <2>4. e # d => Cardinality(Users(e)') = Cardinality(Users(e))
    BY <1>7, <1>9, OthersSame, UsersStep
  <2> QED
    BY SMTT(30), <1>3, <2>1, <2>2, <2>3, <2>4
<1>17. Shared'
  <2>1. Listed'
    BY <1>1, <1>3, <1>5 DEF Listed, TypeOK
  <2> QED
    BY <1>3, <1>16, <2>1 DEF SyncInv, Shared, Free, OneDataPerObject
<1>18. Frame(t)
  <2>1. \A e \in Data : threadCount[e] = 0 => threadCount'[e] = 0
    BY <1>1, <1>3, <1>8 DEF TypeOK
  <2> QED
    BY <1>3, <1>9, <2>1 DEF Frame
<1>19. Mine(t)'
  BY <1>11, <1>12, <1>14, <1>15 DEF Mine
<1> QED
  BY <1>3, <1>10, <1>17, <1>18, <1>19, Whole DEF SyncInv

\* An exit without an enter: its increment of threadCount is not taken back.
LEMMA ExitFailsStep ==
  ASSUME SyncInv, NEW t \in Threads, ExitFails(t)
  PROVE  SyncInv'
<1>1. TypeOK /\ CacheOK(t) /\ Place(t) /\ Listed
  BY DEF SyncInv, Mine, Shared
<1>2. PICK d : d = local[t].result
  OBVIOUS
<1>3. /\ pc[t] = "save" /\ pc' = [pc EXCEPT ![t] = "idle"]
      /\ local' = [local EXCEPT ![t] = [obj |-> NULL, why |-> "ACQUIRE", result |-> 0,
                                        p |-> 0, firstUnused |-> 0]]
      /\ leaked' = IF d = 0 THEN leaked ELSE [leaked EXCEPT ![d] = @ + 1]
      /\ UNCHANGED <<list, object, threadCount, mutex, lock, fast, cache, allocated, held, badExits, fatal>>
  BY <1>2 DEF ExitFails, Return, Goto, At, cache_vars, list_vars
<1>4. pc'[t] = "idle" /\ local'[t].result = 0
  BY <1>1, <1>3 DEF TypeOK
<1>5. d \in Data \cup {0} /\ 0 \notin Data /\ (d # 0 => ~Has(t, d))
  <2>1. d \in Data \cup {0} /\ 0 \notin Data
    BY SMTT(30), <1>1, <1>2 DEF TypeOK, Locals, Data
  <2>2. d # 0 => object[d] = local[t].obj
    BY <1>1, <1>2, <1>3 DEF Place
  <2> QED
    BY <1>1, <1>3, <2>1, <2>2 DEF Place, Missing, Has
<1>6. Others(t)
  BY <1>1, <1>3 DEF Others, TypeOK
<1>7. TypeOK'
  <2>1. local' \in [Threads -> Locals] /\ pc' \in [Threads -> PCs]
    BY <1>1, <1>3 DEF TypeOK, PCs, Locals
  <2>2. leaked' \in [Data -> Nat]
    BY SMTT(30), <1>1, <1>3, <1>5 DEF TypeOK
  <2> QED
    BY <1>1, <1>3, <2>1, <2>2 DEF TypeOK
<1>8. Cached(t)' = Cached(t)
  BY <1>3 DEF Cached
<1>9. CacheOK(t)'
  BY <1>1, <1>3, <1>4 DEF CacheOK, Missing
<1>10. Place(t)'
  BY <1>1, <1>3, <1>4 DEF Place, Missing
<1>11. Mine(t)'
  BY <1>3, <1>4, <1>9, <1>10, MineKept
<1>12. ThreadCountConserved'
  <2> SUFFICES ASSUME NEW e \in Data
               PROVE  threadCount'[e] = Cardinality(Users(e)') + leaked'[e]
    BY DEF ThreadCountConserved
  <2>1. /\ threadCount[e] = Cardinality(Users(e)) + leaked[e]
        /\ threadCount \in [Data -> Nat] /\ leaked \in [Data -> Nat]
    BY DEF SyncInv, Shared, ThreadCountConserved, TypeOK
  <2>2. Cardinality(Users(e)) \in Nat
    BY UsersCount
  <2>3. e = d => Uses(t, e) /\ ~Uses(t, e)'
    BY <1>2, <1>3, <1>4, <1>5, <1>8 DEF Uses, Has
  <2>4. e # d => (Uses(t, e)' <=> Uses(t, e))
    BY <1>2, <1>3, <1>4, <1>8 DEF Uses, Has
  <2>5. e = d => Cardinality(Users(e)') = Cardinality(Users(e)) - 1
    BY <1>6, <2>3, OthersSame, UsersStep
  <2>6. e # d => Cardinality(Users(e)') = Cardinality(Users(e))
    BY <1>6, <2>4, OthersSame, UsersStep
  <2>7. leaked'[e] = IF e = d THEN leaked[e] + 1 ELSE leaked[e]
    BY <1>3, <1>5, <2>1
  <2> QED
    BY SMTT(30), <1>3, <2>1, <2>2, <2>5, <2>6, <2>7
<1>13. Shared'
  BY <1>3, <1>12 DEF SyncInv, Shared, Listed, Free, OneDataPerObject
<1>14. Frame(t)
  BY <1>3, <1>6 DEF Frame
<1> QED
  BY <1>3, <1>7, <1>11, <1>13, <1>14, Whole DEF SyncInv

-----------------------------------------------------------------------------
\* The locals of a hit.
LEMMA ResultLocal ==
  ASSUME NEW l \in Locals, NEW d \in Data, NEW r, r = [l EXCEPT !.result = d]
  PROVE  r \in Locals /\ r.result = d /\ r.obj = l.obj /\ r.why = l.why
  BY DEF Locals

\* A hit on item x, in either cache.
LEMMA HitStep ==
  ASSUME SyncInv, NEW t \in Threads, NEW x \in Cached(t), object[x.data] = local[t].obj,
         pc[t] = "id2data", Hit(t, x), NEW y, y = Updated(t, x), Becomes(t, x, y), Others(t),
         UNCHANGED <<list, object, threadCount, mutex, lock, held, leaked, badExits>>,
         fast' \in [Threads -> Items \cup {NoItem}], cache' \in [Threads -> Seq(Items)],
         allocated' \in [Threads -> Nat], Len(cache'[t]) <= allocated'[t]
  PROVE  SyncInv'
<1>1. TypeOK /\ CacheOK(t) /\ Place(t) /\ Counts(t) /\ Debts(t) /\ Listed
  BY DEF SyncInv, Mine, Shared
<1>2. PICK d : d = x.data
  OBVIOUS
<1>3. PICK o : o = local[t].obj
  OBVIOUS
<1>4. PICK n : n = x.lockCount
  OBVIOUS
<1>5. /\ d \in Data /\ n \in Nat \ {0} /\ d \in DOMAIN list /\ object[d] = o /\ o \in Objects
      /\ held[t][o] \in Nat /\ mutex[d].owner = t /\ mutex[d].depth = n
      /\ local[t].why = "ACQUIRE" => n = held[t][o]
      /\ local[t].why # "ACQUIRE" => n = held[t][o] + 1
  <2>1. d \in Data /\ n \in Nat \ {0} /\ Count(t, x)
    BY <1>1, <1>2, <1>4, CachedItems DEF Counts
  <2>2. ~Wants(t, d) /\ ~Owes(t, d) /\ (Leaving(t, o) <=> local[t].why # "ACQUIRE")
    BY <1>1, <1>3 DEF Wants, Owes, Leaving, TypeOK, Locals
  <2>3. d \in DOMAIN list /\ object[d] = o /\ mutex[d].owner = t /\ mutex[d].depth = n
    BY <1>2, <1>3, <1>4, <2>1, <2>2 DEF Count
  <2>4. n = IF Leaving(t, o) THEN held[t][o] + 1 ELSE held[t][o]
    BY <1>2, <1>4, <2>1, <2>2, <2>3 DEF Count
  <2>5. o \in Objects /\ held[t][o] \in Nat
    BY <1>1, <2>3 DEF Listed, TypeOK
  <2> QED
    BY <2>1, <2>2, <2>3, <2>4, <2>5
<1>6. /\ y # NoItem => y.data = d
      /\ local[t].why = "ACQUIRE" => y # NoItem /\ y.lockCount = n + 1
      /\ local[t].why # "ACQUIRE" => (y = NoItem <=> n = 1) /\ (y # NoItem => y.lockCount = n - 1)
  BY <1>1, <1>2, <1>4, UpdatedItem
<1>7. /\ Cached(t)' = (Cached(t) \ {x}) \cup ({y} \ {NoItem})
      /\ \A z \in Cached(t) \ {x} : z.data # d
  BY <1>1, <1>2, CachedOnce DEF Becomes
<1>8. \A e : Has(t, e)' <=> IF e = d THEN y # NoItem ELSE Has(t, e)
  <2>1. \A e : e # d => (Has(t, e)' <=> Has(t, e))
    BY <1>2, <1>6, <1>7 DEF Has
  <2>2. Has(t, d)' <=> y # NoItem
    BY <1>6, <1>7 DEF Has
  <2> QED
    BY <2>1, <2>2
<1>9. fatal' = "no"
  <2>1. Uses(t, d)
    BY <1>2 DEF Uses, Has
  <2> QED
    BY <1>2, <1>5, <2>1, Unused DEF Hit
<1>10. /\ local' = [local EXCEPT ![t].result = d]
       /\ pc' = [pc EXCEPT ![t] = IF local[t].why = "ACQUIRE" THEN "mutex_lock"
                                  ELSE IF y = NoItem THEN "decrement" ELSE "try_unlock"]
  BY <1>2 DEF Hit, Goto
<1>11. /\ pc'[t] = IF local[t].why = "ACQUIRE" THEN "mutex_lock"
                   ELSE IF y = NoItem THEN "decrement" ELSE "try_unlock"
       /\ local'[t] = [local[t] EXCEPT !.result = d] /\ local[t] \in Locals
  BY <1>1, <1>10 DEF TypeOK
<1>12. /\ local'[t] \in Locals /\ local'[t].obj = o /\ local'[t].why = local[t].why
       /\ local'[t].result = d /\ (local[t].why # "ACQUIRE" => local[t].why = "RELEASE")
  <2>1. d \in Data /\ local[t] \in Locals /\ local'[t] = [local[t] EXCEPT !.result = d]
    BY <1>5, <1>11
  <2>2. /\ local'[t] \in Locals /\ local'[t].result = d
        /\ local'[t].obj = local[t].obj /\ local'[t].why = local[t].why
    <3>1. PICK l : l = local[t]
      OBVIOUS
    <3>2. PICK r : r = local'[t]
      OBVIOUS
    <3>3. l \in Locals /\ r = [l EXCEPT !.result = d] /\ d \in Data
      BY <2>1, <3>1, <3>2
    <3>4. r \in Locals /\ r.result = d /\ r.obj = l.obj /\ r.why = l.why
      BY SMTT(30), <3>3, ResultLocal
    <3> QED
      BY <3>1, <3>2, <3>4
  <2>3. local[t].why \in {"ACQUIRE", "RELEASE"}
    BY <2>1 DEF Locals
  <2> QED
    BY <1>3, <2>2, <2>3
<1>13. TypeOK'
  <2>1. local' \in [Threads -> Locals] /\ pc' \in [Threads -> PCs]
    BY <1>1, <1>10, <1>12 DEF TypeOK, PCs
  <2> QED
    BY <1>1, <1>9, <2>1 DEF TypeOK
<1>14. CacheOK(t)'
  BY <1>11 DEF CacheOK, Becomes, Missing
<1>15. Place(t)'
  <2>1. Has(t, local[t].result)' <=> y # NoItem
    <3>1. Has(t, d)' <=> y # NoItem
      BY <1>8
    <3> QED
      BY <1>12, <3>1 DEF Has
  <2>2. lock # t
    BY <1>1 DEF Place
  <2> QED
    BY <1>5, <1>6, <1>11, <1>12, <2>1, <2>2 DEF Place, Missing
<1>16. \A e : /\ ~Owes(t, e) /\ ~Wants(t, e) /\ ~Leaving(t, e)'
              /\ Wants(t, e)' <=> e = d /\ local[t].why = "ACQUIRE"
              /\ Owes(t, e)' <=> e = d /\ local[t].why # "ACQUIRE"
  BY <1>11, <1>12 DEF Owes, Wants, Leaving
<1>17. Debts(t)'
  <2> SUFFICES ASSUME NEW e \in Data
               PROVE  /\ mutex[e].owner = t => Owes(t, e)' \/ Has(t, e)'
                      /\ Owes(t, e)' => mutex[e].owner = t /\ (~Has(t, e)' => mutex[e].depth = 1)
    BY DEF Debts
  <2>1. CASE e = d
    BY <1>5, <1>6, <1>8, <1>16, <2>1
  <2>2. CASE e # d
    BY <1>1, <1>8, <1>16, <2>2 DEF Debts
  <2> QED
    BY <2>1, <2>2
<1>18. Counts(t)'
  <2>1. ASSUME NEW z \in Cached(t) \ {x} PROVE Count(t, z)' /\ object[z.data] # o
    <3>1. PICK c : c = object[z.data]
      OBVIOUS
    <3>2. Count(t, z) /\ z.data # d /\ z.data \in DOMAIN list
      BY <1>1, <1>7 DEF Counts, Count
    <3>3. c # o
      BY <1>1, <1>5, <3>1, <3>2 DEF SyncInv, Shared, OneDataPerObject, Listed
    <3>4. ~Wants(t, z.data)' /\ ~Owes(t, z.data)' /\ ~Wants(t, z.data) /\ ~Owes(t, z.data)
      BY <1>16, <3>2
    <3>5. /\ z.lockCount = held[t][c] /\ mutex[z.data].owner = t
          /\ mutex[z.data].depth = z.lockCount
      <4>1. ~Leaving(t, object[z.data])
        BY <1>3, <3>1, <3>3 DEF Leaving
      <4> QED
        BY <3>1, <3>2, <3>4, <4>1 DEF Count
    <3>6. pc'[t] # "id2data"
      BY <1>11
    <3>7. Count(t, z)'
      BY <3>1, <3>2, <3>4, <3>5, <3>6, CountPlain
    <3> QED
      BY <3>1, <3>3, <3>7
  <2>2. ASSUME y # NoItem PROVE Count(t, y)'
    <3>1. y.data = d /\ pc'[t] # "id2data"
      BY <1>6, <1>11, <2>2
    <3>2. CASE local[t].why = "ACQUIRE"
      <4>1. y.lockCount = held[t][o] + 1 /\ y.lockCount > 1 /\ mutex[d].depth = y.lockCount - 1
        <5>1. y.lockCount = n + 1 /\ n = held[t][o] /\ mutex[d].depth = n /\ n \in Nat \ {0}
          BY <1>5, <1>6, <3>2
        <5> QED
          BY SMTT(30), <5>1
      <4>2. Wants(t, d)'
        BY <1>16, <3>2
      <4> QED
        BY <1>5, <3>1, <4>1, <4>2 DEF Count
    <3>3. CASE local[t].why # "ACQUIRE"
      <4>1. ~Wants(t, d)' /\ Owes(t, d)' /\ y.lockCount = held[t][o] /\ mutex[d].depth = y.lockCount + 1
        BY SMTT(30), <1>5, <1>6, <1>16, <2>2, <3>3
      <4> QED
        BY <1>5, <3>1, <4>1 DEF Count, Leaving
    <3> QED
      BY <3>2, <3>3
  <2>3. ASSUME NEW c \in Objects, held[t][c] > 0 PROVE \E z \in Cached(t)' : object[z.data] = c
    <3>1. PICK z \in Cached(t) : object[z.data] = c
      BY <1>1, <2>3 DEF Counts
    <3>2. CASE z # x
      BY <1>7, <3>1, <3>2
    <3>3. CASE z = x
      <4>1. c = o
        BY <1>2, <1>5, <3>1, <3>3
      <4>2. y # NoItem
        BY SMTT(30), <1>5, <1>6, <2>3, <4>1
      <4> QED
        BY <1>2, <1>6, <1>7, <3>1, <3>3, <4>2
    <3> QED
      BY <3>2, <3>3
  <2> QED
    BY <1>7, <2>1, <2>2, <2>3 DEF Counts
<1>19. \A e \in Data : Uses(t, e)' <=> Uses(t, e)
  <2>1. Has(t, d)
    BY <1>2 DEF Has
  <2> QED
    BY <1>6, <1>8, <1>11, <1>12, <2>1 DEF Uses
<1>20. Shared'
  BY <1>19, SharedKept DEF list_vars
<1>21. Frame(t)
  BY DEF Frame
<1>22. Mine(t)'
  BY <1>14, <1>15, <1>17, <1>18 DEF Mine
<1> QED
  BY <1>9, <1>13, <1>20, <1>21, <1>22, Whole

\* A hit in the fast cache.
LEMMA FastHitStep ==
  ASSUME SyncInv, NEW t \in Threads, FastCacheHit(t)
  PROVE  SyncInv'
<1>1. TypeOK /\ CacheOK(t)
  BY DEF SyncInv, Mine
<1>2. PICK y : y = Updated(t, fast[t])
  OBVIOUS
<1>3. /\ pc[t] = "id2data" /\ fast[t] # NoItem /\ object[fast[t].data] = local[t].obj
      /\ Hit(t, fast[t]) /\ fast' = [fast EXCEPT ![t] = y]
      /\ UNCHANGED <<list, object, threadCount, mutex, lock, held, leaked, badExits>>
      /\ UNCHANGED <<cache, allocated>>
  BY <1>1, <1>2 DEF FastCacheHit, At, Matches, ghost_vars, list_vars, TypeOK
<1>4. fast[t] \in Cached(t)
  BY <1>3 DEF Cached
<1>5. y \in Items \cup {NoItem} /\ (y # NoItem => y.data = fast[t].data)
  BY <1>1, <1>2, <1>4, UpdatedItem
<1>6. /\ fast'[t] = y /\ cache'[t] = cache[t] /\ fast' \in [Threads -> Items \cup {NoItem}]
      /\ cache' \in [Threads -> Seq(Items)] /\ allocated' \in [Threads -> Nat]
      /\ Len(cache'[t]) <= allocated'[t]
  BY <1>1, <1>3, <1>5 DEF TypeOK, CacheOK
<1>7. Becomes(t, fast[t], y)
  BY <1>1, <1>3, <1>5, <1>6, FastBecomes
<1>8. Others(t)
  BY <1>1, <1>3 DEF Others, TypeOK, Hit, Goto
<1> QED
  BY <1>2, <1>3, <1>4, <1>6, <1>7, <1>8, HitStep

\* A hit in the SyncCache.
LEMMA CacheHitStep ==
  ASSUME SyncInv, NEW t \in Threads, CacheHit(t)
  PROVE  SyncInv'
<1>1. TypeOK /\ CacheOK(t)
  BY DEF SyncInv, Mine
<1>2. /\ pc[t] = "id2data" /\ fetch_cache(t)
      /\ UNCHANGED <<list, object, threadCount, mutex, lock, held, leaked, badExits>>
      /\ UNCHANGED fast
  BY DEF CacheHit, At, ghost_vars, list_vars
<1>3. PICK i \in Slots(t) :
        /\ Hit(t, cache[t][i])
        /\ cache' = [cache EXCEPT ![t] =
                       IF Updated(t, cache[t][i]) # NoItem
                         THEN [cache[t] EXCEPT ![i] = Updated(t, cache[t][i])]
                       ELSE SubSeq([cache[t] EXCEPT ![i] = cache[t][Len(cache[t])]],
                                   1, Len(cache[t]) - 1)]
  BY DEF CacheHit
<1>4. PICK x : x = cache[t][i]
  OBVIOUS
<1>5. PICK y : y = Updated(t, x)
  OBVIOUS
<1>6. i \in DOMAIN cache[t] /\ x # NoItem /\ object[x.data] = local[t].obj /\ x \in Cached(t)
  BY <1>4 DEF Slots, Matches, Cached
<1>7. y \in Items \cup {NoItem} /\ (y # NoItem => y.data = x.data)
  BY <1>1, <1>5, <1>6, UpdatedItem
<1>8. /\ cache'[t] = IF y # NoItem THEN [cache[t] EXCEPT ![i] = y]
                     ELSE SubSeq([cache[t] EXCEPT ![i] = cache[t][Len(cache[t])]], 1, Len(cache[t]) - 1)
      /\ \A u \in Threads \ {t} : cache'[u] = cache[u]
  BY <1>1, <1>3, <1>4, <1>5 DEF TypeOK
<1>9. Becomes(t, x, y)
  <2>1. fast'[t] = fast[t]
    BY <1>2
  <2> QED
    BY <1>1, <1>4, <1>6, <1>7, <1>8, <2>1, SlotBecomes
<1>10. /\ cache'[t] \in Seq(Items) /\ Len(cache'[t]) <= Len(cache[t])
       /\ cache[t] \in Seq(Items) /\ Len(cache[t]) \in Nat /\ Len(cache'[t]) \in Nat
  <2>1. cache'[t] \in Seq(Items) /\ Len(cache'[t]) <= Len(cache[t]) /\ cache[t] \in Seq(Items)
    BY <1>1, <1>9 DEF Becomes, TypeOK
  <2> QED
    BY SMTT(30), <2>1
<1>11. cache' \in [Threads -> Seq(Items)]
  <2>1. PICK s : cache' = [cache EXCEPT ![t] = s]
    BY <1>3
  <2>2. cache \in [Threads -> Seq(Items)]
    BY <1>1 DEF TypeOK
  <2>3. s \in Seq(Items)
    BY <1>10, <2>1, <2>2
  <2> QED
    BY <2>1, <2>2, <2>3
<1>12. /\ allocated' \in [Threads -> Nat] /\ Len(cache'[t]) <= allocated'[t]
       /\ \A u \in Threads \ {t} : allocated'[u] = allocated[u]
  <2>1. allocated \in [Threads -> Nat] /\ Len(cache[t]) <= allocated[t]
    BY <1>1 DEF TypeOK, CacheOK
  <2> QED
    BY SMTT(30), <1>2, <1>10, <2>1 DEF fetch_cache
<1>13. Others(t)
  BY <1>1, <1>2, <1>3, <1>8, <1>12 DEF Others, TypeOK, Hit, Goto
<1>14. fast' \in [Threads -> Items \cup {NoItem}]
  BY <1>1, <1>2 DEF TypeOK
<1>15. Hit(t, x)
  BY <1>3, <1>4
<1> QED
  BY <1>2, <1>5, <1>6, <1>9, <1>11, <1>12, <1>13, <1>14, <1>15, HitStep

-----------------------------------------------------------------------------
\* The invariant holds before the first call.
LEMMA InitSync == Init => SyncInv
<1> SUFFICES ASSUME Init PROVE SyncInv
  OBVIOUS
<1>1. TypeOK /\ fatal = "no"
  BY SMTT(30), SyncConstants DEF Init, TypeOK, PCs, Locals, Items, NoItem
<1>2. ASSUME NEW t \in Threads
      PROVE  /\ cache[t] = <<>> /\ fast[t] = NoItem /\ pc[t] = "idle" /\ allocated[t] = 0
             /\ Cached(t) = {} /\ \A o \in Objects : held[t][o] = 0
  BY SMTT(30) DEF Init, Cached
<1>3. ASSUME NEW t \in Threads PROVE Mine(t)
  <2>1. CacheOK(t) /\ Place(t)
    BY SMTT(30), <1>2, <1>3, SyncConstants DEF Init, CacheOK, Place, Missing
  <2>2. Counts(t) /\ Debts(t)
    BY SMTT(30), <1>2, <1>3, SyncConstants DEF Init, Counts, Debts, Owes
  <2> QED
    BY <2>1, <2>2 DEF Mine
<1>4. ThreadCountConserved
  <2>1. ASSUME NEW d \in Data PROVE Cardinality(Users(d)) = 0
    BY <1>2, UsersCount DEF Uses, Has
  <2> QED
    BY SMTT(30), <2>1 DEF Init, ThreadCountConserved
<1>5. Listed /\ Free /\ OneDataPerObject
  BY SMTT(30) DEF Init, Listed, Free, OneDataPerObject
<1> QED
  BY <1>1, <1>3, <1>4, <1>5 DEF SyncInv, Shared

\* Every step keeps the invariant.
LEMMA NextSync == SyncInv /\ [Next]_vars => SyncInv'
<1> SUFFICES ASSUME SyncInv, [Next]_vars PROVE SyncInv'
  OBVIOUS
<1>1. CASE UNCHANGED vars
  <2>1. UNCHANGED <<list, object, threadCount, mutex, lock, fast, cache, allocated, held, leaked,
                    badExits, fatal, pc, local>>
    BY <1>1 DEF vars, list_vars, cache_vars, ghost_vars
  <2>2. TypeOK'
    BY <2>1 DEF SyncInv, TypeOK
  <2>3. \A t \in Threads : Cached(t)' = Cached(t)
    BY <2>1 DEF Cached
  <2>4. Shared'
    <3>1. \A d : Users(d)' = Users(d)
      BY <2>1, <2>3 DEF Users
    <3> QED
      BY <2>1, <3>1 DEF SyncInv, Shared, Listed, Free, OneDataPerObject, ThreadCountConserved
  <2>5. ASSUME NEW t \in Threads PROVE Mine(t)'
    <3>1. Mine(t) /\ Cached(t)' = Cached(t)
      BY <2>3 DEF SyncInv
    <3>2. CacheOK(t)' /\ Place(t)' /\ Debts(t)'
      BY SMTT(30), <2>1, <3>1 DEF Mine, CacheOK, Place, Debts, Has, Owes
    <3>3. Counts(t)'
      BY <2>1, <3>1 DEF Mine, Counts, Count, Wants, Owes, Leaving
    <3> QED
      BY <3>2, <3>3 DEF Mine
  <2> QED
    BY <2>1, <2>2, <2>4, <2>5 DEF SyncInv
<1>2. ASSUME NEW t \in Threads, Step(t) PROVE SyncInv'
  BY <1>2, FastHitStep, CacheHitStep, DecrementStep, MissStep, SpinLockStep, WalkStep, EndStep,
     SpinUnlockStep, ExitFailsStep, SaveStep, MutexLockStep, TryUnlockStep DEF Step
<1>3. ASSUME NEW t \in Threads, NEW o \in Objects, objc_sync_enter(t, o) \/ objc_sync_exit(t, o)
      PROVE  SyncInv'
  BY <1>3, EnterStep, ExitStep
<1> QED
  BY <1>1, <1>2, <1>3 DEF Next

(* Every call of objc_sync_enter and objc_sync_exit, step by step, keeps    *)
(* the invariant of the caches, the list and the mutexes.                   *)
THEOREM SyncInvariant == Spec => []SyncInv
  BY InitSync, NextSync, PTL DEF Spec

(* @synchronized excludes: two threads are never both between               *)
(* objc_sync_enter and objc_sync_exit on one object, for any number of      *)
(* threads, objects and SyncData, although id2data gives the SyncData of    *)
(* one object to another.                                                   *)
THEOREM SynchronizedExcludes == Spec => []MutualExclusion
<1>1. SyncInv => MutualExclusion
  <2> SUFFICES ASSUME SyncInv, NEW o \in Objects, NEW t \in Threads, NEW u \in Threads,
                      held[t][o] > 0, held[u][o] > 0
               PROVE  t = u
    BY DEF MutualExclusion
  <2>1. PICK x \in Cached(t) : object[x.data] = o
    BY DEF SyncInv, Mine, Counts
  <2>2. PICK y \in Cached(u) : object[y.data] = o
    BY DEF SyncInv, Mine, Counts
  <2>3. Count(t, x) /\ Count(u, y)
    BY DEF SyncInv, Mine, Counts
  <2>4. x.data = y.data
    BY SMTT(30), <2>1, <2>2, <2>3 DEF Count, SyncInv, Shared, Listed, OneDataPerObject
  <2>5. ASSUME NEW v \in Threads, NEW z \in Cached(v), Count(v, z), object[z.data] = o,
               held[v][o] > 0
        PROVE  mutex[z.data].owner = v
    <3>1. held[v][o] \in Nat
      BY DEF SyncInv, TypeOK
    <3>2. Wants(v, z.data) => z.lockCount = held[v][o] + 1
      BY <2>5 DEF Count
    <3> QED
      BY SMTT(30), <2>5, <3>1, <3>2 DEF Count
  <2> QED
    BY SMTT(30), <2>1, <2>2, <2>3, <2>4, <2>5
<1> QED
  BY <1>1, SyncInvariant, PTL

(* The lock of the SyncList does what id2data's comment asks of it: no two  *)
(* SyncData of the list belong to one object.                               *)
THEOREM OneLockPerObject == Spec => []OneDataPerObject
<1>1. SyncInv => OneDataPerObject
  BY DEF SyncInv, Shared
<1> QED
  BY <1>1, SyncInvariant, PTL

(* threadCount, which id2data increments under the lock and decrements      *)
(* without it, is the number of the threads that use the SyncData and of    *)
(* the failed exits that found it.                                          *)
THEOREM ThreadCountsExact == Spec => []ThreadCountConserved
<1>1. SyncInv => ThreadCountConserved
  BY DEF SyncInv, Shared
<1> QED
  BY <1>1, SyncInvariant, PTL

(* Between calls the lock counts of the caches, the nesting and the mutexes *)
(* agree; id2data's consistency checks never fail and no SyncCache is       *)
(* written past its end.                                                    *)
THEOREM LockCountsSound == Spec => []LockCountsAgree
<1>1. SyncInv => LockCountsAgree
  <2> SUFFICES ASSUME SyncInv PROVE LockCountsAgree
    OBVIOUS
  <2>1. TypeOK /\ fatal = "no" /\ \A t \in Threads : Len(cache[t]) <= allocated[t]
    BY DEF SyncInv, Mine, CacheOK
  <2>2. ASSUME NEW t \in Threads, pc[t] = "idle", NEW x \in Cached(t)
        PROVE  /\ x.lockCount = held[t][object[x.data]]
               /\ mutex[x.data] = [owner |-> t, depth |-> x.lockCount]
    <3>1. Count(t, x) /\ x.data \in Data
      BY <2>1, CachedItems DEF SyncInv, Mine, Counts
    <3>2. ~Wants(t, x.data) /\ ~Owes(t, x.data) /\ ~Leaving(t, object[x.data])
      BY <2>2 DEF Wants, Owes, Leaving
    <3>3. /\ x.lockCount = held[t][object[x.data]]
          /\ mutex[x.data].owner = t /\ mutex[x.data].depth = x.lockCount
      BY <3>1, <3>2 DEF Count
    <3>4. mutex[x.data] \in [owner : Threads \cup {NULL}, depth : Nat]
      BY <2>1, <3>1 DEF TypeOK
    <3> QED
      BY <3>3, <3>4
  <2>3. ASSUME NEW t \in Threads, pc[t] = "idle", NEW d \in Data, mutex[d].owner = t
        PROVE  \E item \in Cached(t) : item.data = d
    BY <2>3 DEF SyncInv, Mine, Debts, Owes, Has
  <2> QED
    BY <2>1, <2>2, <2>3 DEF LockCountsAgree
<1> QED
  BY <1>1, SyncInvariant, PTL
=============================================================================
