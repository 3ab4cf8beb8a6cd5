---------------------------- MODULE TimersProofs ----------------------------
(***************************************************************************)
(* Theorems about Timers.tla, for any number of timers, of threads of the  *)
(* primary agent, of workers and of nested ticks, any delays and any size  *)
(* of the ref registry.  The argument follows an entry from its queue into *)
(* the batch of one tick and out of it.                                    *)
(***************************************************************************)
EXTENDS Timers, FiniteSetTheorems, SequenceTheorems, TLAPS

OneShot == Kinds \ {"interval"}

\* The ticks a thread can have in progress, and the batch of each.
Depths      == 1 .. MaxDepth
Batch(t, m) == IF m \in 1 .. Len(stack[t]) THEN stack[t][m].batch ELSE <<>>

\* Only the threads of the primary agent tick, no deeper than they may, and a
\* phase that has not drained its queue has no batch.
FrameInv ==
  \A t \in Threads :
    /\ Len(stack[t]) <= MaxDepth
    /\ t \notin Pumps => stack[t] = <<>>
    /\ \A m \in 1 .. Len(stack[t]) :
         stack[t][m].pc \in {"start", "drain"} => stack[t][m].batch = <<>>

\* The entries of q are of timers of these kinds; in order of creation; each once.
Named(q, kd, ks) == \A n \in 1 .. Len(q) : q[n].kind \in ks /\ kd[q[n].id] = q[n].kind
Sorted(q)        == \A m, n \in 1 .. Len(q) : m < n => q[m].id < q[n].id
Distinct(q)      == \A m, n \in 1 .. Len(q) : q[m].id = q[n].id => m = n

\* Ids are handed out in order, and a queue has timers of its kinds, in order.
QueueInv ==
  /\ \E k \in 0 .. MaxTimers : Created = 1 .. k
  /\ Named(promiseQ, kind, {"promise"}) /\ Sorted(promiseQ)
  /\ Named(callbackQ, kind, {"timeout", "immediate"}) /\ Sorted(callbackQ)
  /\ Named(intervalQ, kind, {"interval"}) /\ Sorted(intervalQ)

\* A batch has each timer once; a one-shot timer in it is in no queue and in no
\* other batch.
BatchInv ==
  \A t \in Threads, m \in Depths :
    /\ Named(Batch(t, m), kind, Kinds) /\ Distinct(Batch(t, m))
    /\ \A i \in IdsOf(Batch(t, m)) : kind[i] \in OneShot =>
         /\ i \notin Queued
         /\ \A u \in Threads, l \in Depths : i \in IdsOf(Batch(u, l)) => u = t /\ l = m

Pends(i) == i \in Queued \/ \E t \in Threads, m \in Depths : i \in IdsOf(Batch(t, m))

\* A one-shot timer waits or has fired, unless it was cleared; an interval is in its
\* queue, unless it was cleared.
FireInv ==
  \A i \in Ids :
    /\ kind[i] = None => fires[i] = 0
    /\ kind[i] \in OneShot =>
         /\ Pends(i) => fires[i] = 0
         /\ ~Pends(i) /\ i \notin gone => fires[i] = 1
    /\ kind[i] = "interval" /\ i \notin gone => i \in IdsOf(intervalQ)

\* The agents an entry of q may be of.
Owned(q, A) == \A n \in 1 .. Len(q) : q[n].owner \in A

\* HeapAlive, batch by batch.
HeapInv ==
  /\ \A q \in {promiseQ, callbackQ, intervalQ} : Owned(q, live \cup {Primary})
  /\ \A t \in Threads, m \in Depths : Owned(Batch(t, m), {CurrentAgent(t)})

TimersInv == TypeOK /\ FrameInv /\ QueueInv /\ BatchInv /\ FireInv /\ HeapInv

-----------------------------------------------------------------------------
(* Arrange: the positions it is given, each once, in the order it is given. *)

\* R is a total order of K; the elements of K in that order.
Orders(R, K) ==
  /\ R \in SUBSET (K \X K)
  /\ \A m \in K : <<m, m>> \notin R
  /\ \A l, m, n \in K : <<l, m>> \in R /\ <<m, n>> \in R => <<l, n>> \in R
  /\ \A m, n \in K : m # n => <<m, n>> \in R \/ <<n, m>> \in R
Listed(K, R) ==
  [k \in 1 .. Cardinality(K) |->
     CHOOSE n \in K : 1 + Cardinality({m \in K : <<m, n>> \in R}) = k]

\* The places of a total order are 1 to the number of its elements.
LEMMA PlaceLemma ==
    ASSUME NEW K, IsFiniteSet(K), NEW R, Orders(R, K)
    PROVE  LET place == [n \in K |-> 1 + Cardinality({m \in K : <<m, n>> \in R})] IN
           /\ Cardinality(K) \in Nat
           /\ place \in [K -> 1 .. Cardinality(K)]
           /\ \A m, n \in K : <<m, n>> \in R <=> place[m] < place[n]
           /\ \A m, n \in K : place[m] = place[n] => m = n
           /\ \A k \in 1 .. Cardinality(K) : \E n \in K : place[n] = k
  <1> USE DEF Orders
  <1> DEFINE under(n) == {m \in K : <<m, n>> \in R}
             place == [n \in K |-> 1 + Cardinality(under(n))]
             c == Cardinality(K)
  <1>1. c \in Nat
    BY FS_CardinalityType
  <1>2. ASSUME NEW n \in K
        PROVE  /\ IsFiniteSet(under(n)) /\ Cardinality(under(n)) \in Nat
               /\ Cardinality(under(n)) < c
    <2>1. IsFiniteSet(under(n)) /\ Cardinality(under(n)) <= c /\ (c = Cardinality(under(n)) => K = under(n))
      <3>1. under(n) \in SUBSET K
        OBVIOUS
      <3> HIDE DEF under
      <3> QED  BY <3>1, FS_Subset
    <2>2. Cardinality(under(n)) \in Nat
      BY <2>1, FS_CardinalityType
    <2>3. K # under(n)
      OBVIOUS
    <2> QED  BY <1>1, <2>1, <2>2, <2>3
  <1>3. place \in [K -> 1 .. c]
    <2> HIDE DEF under, c
    <2>1. ASSUME NEW n \in K PROVE 1 + Cardinality(under(n)) \in 1 .. c
      BY <1>1, <1>2
    <2> QED  BY <2>1
  <1>4. ASSUME NEW m \in K, NEW n \in K, <<m, n>> \in R PROVE place[m] < place[n]
    <2>1. under(m) \subseteq under(n) /\ m \in under(n) /\ m \notin under(m)
      BY <1>4
    <2>2. Cardinality(under(m)) < Cardinality(under(n))
      <3> HIDE DEF under
      <3>1. /\ Cardinality(under(m)) <= Cardinality(under(n))
            /\ (Cardinality(under(n)) = Cardinality(under(m)) => under(n) = under(m))
        BY <2>1, <1>2, FS_Subset
      <3> QED  BY <1>2, <2>1, <3>1
    <2> HIDE DEF under
    <2> QED  BY <1>2, <2>2
  <1>5. \A m, n \in K : <<m, n>> \in R <=> place[m] < place[n]
    <2> SUFFICES ASSUME NEW m \in K, NEW n \in K, place[m] < place[n] PROVE <<m, n>> \in R
      BY <1>4
    <2>1. place[m] \in Nat /\ place[n] \in Nat
      BY <1>1, <1>3
    <2>2. m # n /\ <<n, m>> \notin R
      <3> HIDE DEF place
      <3> QED  BY <1>4, <2>1
    <2> QED  BY <2>2
  <1>6. \A m, n \in K : place[m] = place[n] => m = n
    <2> HIDE DEF place
    <2> SUFFICES ASSUME NEW m \in K, NEW n \in K, place[m] = place[n], m # n PROVE FALSE
      OBVIOUS
    <2>1. place[m] \in Nat /\ place[n] \in Nat
      BY <1>1, <1>3
    <2>2. CASE <<m, n>> \in R
      BY <1>4, <2>1, <2>2
    <2>3. CASE <<n, m>> \in R
      BY <1>4, <2>1, <2>3
    <2> QED  BY <2>2, <2>3
  <1>7. \A k \in 1 .. c : \E n \in K : place[n] = k
    <2> HIDE DEF place
    <2>1. place \in Injection(K, 1 .. c)
      BY <1>3, <1>6 DEF Injection, IsInjective
    <2>2. IsFiniteSet(1 .. c) /\ Cardinality(1 .. c) = c
      BY <1>1, FS_Interval
    <2>3. place \in Surjection(K, 1 .. c)
      BY <2>1, <2>2, FS_Injection
    <2> QED  BY <2>3 DEF Surjection
  <1> QED  BY <1>1, <1>3, <1>5, <1>6, <1>7

\* A list of distinct places in order: what CHOOSE picks for each of them.
LEMMA ChooseLemma ==
    ASSUME NEW K, IsFiniteSet(K), NEW R, Orders(R, K)
    PROVE  LET g == Listed(K, R) IN
           /\ Cardinality(K) \in Nat
           /\ g \in [1 .. Cardinality(K) -> K]
           /\ \A k, l \in 1 .. Cardinality(K) : k < l => <<g[k], g[l]>> \in R
           /\ \A n \in K : \E k \in 1 .. Cardinality(K) : g[k] = n
  <1> DEFINE place == [n \in K |-> 1 + Cardinality({m \in K : <<m, n>> \in R})]
             pick(k) == CHOOSE n \in K : 1 + Cardinality({m \in K : <<m, n>> \in R}) = k
             g == [k \in 1 .. Cardinality(K) |-> pick(k)]
             nth(k) == CHOOSE n \in K : place[n] = k
             h == [k \in 1 .. Cardinality(K) |-> nth(k)]
  <1>1. /\ Cardinality(K) \in Nat
        /\ place \in [K -> 1 .. Cardinality(K)]
        /\ \A m, n \in K : <<m, n>> \in R <=> place[m] < place[n]
        /\ \A m, n \in K : place[m] = place[n] => m = n
        /\ \A k \in 1 .. Cardinality(K) : \E n \in K : place[n] = k
    BY PlaceLemma
  <1>2. \A n \in K : place[n] = 1 + Cardinality({m \in K : <<m, n>> \in R})
    OBVIOUS
  <1>3. g = h
    <2> HIDE DEF place
    <2>1. \A k : pick(k) = nth(k)
      <3> TAKE k
      <3>1. \A n : (n \in K /\ 1 + Cardinality({m \in K : <<m, n>> \in R}) = k) <=> (n \in K /\ place[n] = k)
        BY <1>2
      <3> QED  BY <3>1
    <2> HIDE DEF pick, nth
    <2> QED  BY <2>1
  <1> HIDE DEF place, g
  <1>4. \A k \in 1 .. Cardinality(K) : h[k] \in K /\ place[h[k]] = k
    BY <1>1
  <1>5. h \in [1 .. Cardinality(K) -> K]
    BY <1>4
  <1> HIDE DEF h
  <1>6. \A k, l \in 1 .. Cardinality(K) : k < l => <<h[k], h[l]>> \in R
    BY <1>1, <1>4
  <1>7. \A n \in K : \E k \in 1 .. Cardinality(K) : h[k] = n
    <2> TAKE n \in K
    <2>1. place[n] \in 1 .. Cardinality(K)
      BY <1>1
    <2>2. h[place[n]] = n
      BY <1>1, <1>4, <2>1
    <2> QED  BY <2>1, <2>2
  <1> QED  BY <1>1, <1>3, <1>5, <1>6, <1>7 DEF g, pick, Listed

\* How Select and OrderBatch come from their queue: g gives the position of each
\* entry.
Picks(g, q, K, s) ==
  /\ g \in [1 .. Len(s) -> K]
  /\ \A k, l \in 1 .. Len(s) : g[k] = g[l] => k = l
  /\ \A n \in K : \E k \in 1 .. Len(s) : g[k] = n
  /\ \A k \in 1 .. Len(s) : s[k] = q[g[k]]

LEMMA SelectLemma ==
    ASSUME NEW E, NEW q \in Seq(E), NEW K \in SUBSET (1 .. Len(q))
    PROVE  /\ Select(q, K) \in Seq(E)
           /\ \E g : /\ Picks(g, q, K, Select(q, K))
                     /\ \A k, l \in 1 .. Len(Select(q, K)) : k < l => g[k] < g[l]
  <1>0. PICK R : R = {w \in K \X K : w[1] < w[2]}
    OBVIOUS
  <1> DEFINE c == Cardinality(K)
             nth(k) == CHOOSE n \in K : 1 + Cardinality({m \in K : m < n}) = k
             g == Listed(K, R)
  <1>1. IsFiniteSet(K)
    <2>1. IsFiniteSet(1 .. Len(q))
      BY FS_Interval
    <2> QED  BY <2>1, FS_Subset
  <1>2. \A m, n \in K : <<m, n>> \in R <=> m < n
    BY <1>0
  <1>3. /\ c \in Nat
        /\ g \in [1 .. c -> K]
        /\ \A k, l \in 1 .. c : k < l => <<g[k], g[l]>> \in R
        /\ \A n \in K : \E k \in 1 .. c : g[k] = n
    <2>1. K \subseteq Nat
      OBVIOUS
    <2>2. Orders(R, K)
      BY <1>0, <1>2, <2>1 DEF Orders
    <2> QED  BY <1>1, <2>2, ChooseLemma
  <1>4. Select(q, K) = [k \in 1 .. c |-> q[g[k]]]
    <2> DEFINE pick(k) == CHOOSE n \in K : 1 + Cardinality({m \in K : <<m, n>> \in R}) = k
    <2>0. g = [k \in 1 .. c |-> pick(k)]
      BY Zenon DEF Listed
    <2>1. \A n \in K : {m \in K : <<m, n>> \in R} = {m \in K : m < n}
      BY <1>2
    <2>2. \A k : pick(k) = nth(k)
      <3> TAKE k
      <3>1. \A n : (n \in K /\ 1 + Cardinality({m \in K : <<m, n>> \in R}) = k) <=> (n \in K /\ 1 + Cardinality({m \in K : m < n}) = k)
        BY <2>1
      <3> QED  BY <3>1
    <2>3. Select(q, K) = [k \in 1 .. c |-> q[nth(k)]]
      BY Zenon DEF Select, Arrange
    <2> HIDE DEF pick, nth
    <2>4. \A k \in 1 .. c : q[nth(k)] = q[g[k]]
      BY <2>0, <2>2
    <2> QED  BY <2>3, <2>4
  <1> HIDE DEF g, c
  <1>5. \A k \in 1 .. c : q[g[k]] \in E
    BY <1>3, ElementOfSeq
  <1>6. Select(q, K) \in Seq(E) /\ Len(Select(q, K)) = c
    BY <1>3, <1>4, <1>5
  <1>7. \A k \in 1 .. c : Select(q, K)[k] = q[g[k]]
    BY <1>4
  <1>8. \A k, l \in 1 .. c : k < l => g[k] < g[l]
    BY <1>2, <1>3
  <1>9. \A k, l \in 1 .. c : g[k] = g[l] => k = l
    <2>1. K \subseteq Nat
      OBVIOUS
    <2>2. \A k \in 1 .. c : g[k] \in Nat
      BY <1>3, <2>1
    <2> SUFFICES ASSUME NEW k \in 1 .. c, NEW l \in 1 .. c, k < l \/ l < k PROVE g[k] # g[l]
      BY <1>3
    <2> QED  BY <1>8, <2>2
  <1> QED  BY <1>3, <1>6, <1>7, <1>8, <1>9 DEF Picks


LEMMA OrderBatchLemma ==
    ASSUME NEW q \in Seq(Entry)
    PROVE  /\ OrderBatch(q) \in Seq(Entry)
           /\ \E g : /\ Picks(g, q, 1 .. Len(q), OrderBatch(q))
                     /\ \A k, l \in 1 .. Len(OrderBatch(q)) : k < l => Before(q, g[k], g[l])
  <1>0. PICK K : K = 1 .. Len(q)
    OBVIOUS
  <1>1. PICK R : R = {w \in K \X K : Before(q, w[1], w[2])}
    OBVIOUS
  <1> DEFINE c == Cardinality(K)
             nth(k) == CHOOSE n \in K : 1 + Cardinality({m \in K : Before(q, m, n)}) = k
             g == Listed(K, R)
  <1>2. IsFiniteSet(K)
    BY <1>0, FS_Interval
  <1>3. \A m, n \in K : <<m, n>> \in R <=> Before(q, m, n)
    BY <1>1
  <1>4. /\ c \in Nat
        /\ g \in [1 .. c -> K]
        /\ \A k, l \in 1 .. c : k < l => <<g[k], g[l]>> \in R
        /\ \A n \in K : \E k \in 1 .. c : g[k] = n
    <2>0. \A n \in K : q[n] \in Entry
      BY <1>0
    <2>1. K \subseteq Nat /\ \A n \in K : q[n].deadline \in Nat
      BY <1>0, <2>0 DEF Entry
    <2>2. ASSUME NEW l \in K, NEW m \in K, NEW n \in K
          PROVE  /\ ~Before(q, m, m)
                 /\ Before(q, l, m) /\ Before(q, m, n) => Before(q, l, n)
                 /\ m # n => Before(q, m, n) \/ Before(q, n, m)
      BY <2>1 DEF Before
    <2>3. Orders(R, K)
      <3>1. R \in SUBSET (K \X K)
        BY <1>1
      <3> QED  BY <1>3, <2>2, <3>1 DEF Orders
    <2> QED  BY <1>2, <2>3, ChooseLemma
  <1>5. OrderBatch(q) = [k \in 1 .. c |-> q[g[k]]]
    <2> DEFINE pick(k) == CHOOSE n \in K : 1 + Cardinality({m \in K : <<m, n>> \in R}) = k
    <2>0. g = [k \in 1 .. c |-> pick(k)]
      BY Zenon DEF Listed
    <2>1. \A n \in K : {m \in K : <<m, n>> \in R} = {m \in K : Before(q, m, n)}
      BY <1>3
    <2>2. \A k : pick(k) = nth(k)
      <3> TAKE k
      <3>1. \A n : (n \in K /\ 1 + Cardinality({m \in K : <<m, n>> \in R}) = k) <=> (n \in K /\ 1 + Cardinality({m \in K : Before(q, m, n)}) = k)
        BY <2>1
      <3> QED  BY <3>1
    <2>3. OrderBatch(q) = [k \in 1 .. c |-> q[nth(k)]]
      <3> DEFINE list(D) == [k \in 1 .. Cardinality(D) |->
                               q[CHOOSE n \in D : 1 + Cardinality({m \in D : Before(q, m, n)}) = k]]
      <3>1. DOMAIN q = K
        BY <1>0
      <3>2. OrderBatch(q) = list(DOMAIN q)
        BY Zenon DEF OrderBatch, Arrange
      <3>3. list(K) = [k \in 1 .. c |-> q[nth(k)]]
        BY Zenon
      <3> HIDE DEF list, nth, c
      <3> QED  BY <3>1, <3>2, <3>3
    <2> HIDE DEF pick, nth
    <2>4. \A k \in 1 .. c : q[nth(k)] = q[g[k]]
      BY <2>0, <2>2
    <2> QED  BY <2>3, <2>4
  <1> HIDE DEF g, c
  <1>6. \A k \in 1 .. c : q[g[k]] \in Entry
    BY <1>0, <1>4, ElementOfSeq
  <1>7. OrderBatch(q) \in Seq(Entry) /\ Len(OrderBatch(q)) = c
    BY <1>4, <1>5, <1>6
  <1>8. \A k \in 1 .. c : OrderBatch(q)[k] = q[g[k]]
    BY <1>5
  <1>9. \A k, l \in 1 .. c : k < l => Before(q, g[k], g[l])
    BY <1>3, <1>4
  <1>10. \A k, l \in 1 .. c : g[k] = g[l] => k = l
    <2>0. \A n \in K : q[n] \in Entry
      BY <1>0
    <2>1. \A n \in K : ~Before(q, n, n)
      BY <1>0, <2>0 DEF Before, Entry
    <2> QED  BY <1>4, <1>9, <2>1
  <1> QED  BY <1>0, <1>4, <1>7, <1>8, <1>9, <1>10 DEF Picks

-----------------------------------------------------------------------------
(* Queues and batches as what they hold.                                    *)

LEMMA IdsLemma ==
    ASSUME NEW q \in Seq(Entry)
    PROVE  /\ IdsOf(q) = {q[n].id : n \in 1 .. Len(q)}
           /\ IdsOf(q) \subseteq Ids
           /\ \A n \in 1 .. Len(q) : q[n] \in Entry /\ q[n].id \in IdsOf(q)
  <1>1. DOMAIN q = 1 .. Len(q) /\ \A n \in 1 .. Len(q) : q[n] \in Entry
    OBVIOUS
  <1>2. \A n \in 1 .. Len(q) : q[n].id \in Ids
    BY <1>1 DEF Entry
  <1> QED  BY <1>1, <1>2 DEF IdsOf

LEMMA SortedLemma ==
    ASSUME NEW q \in Seq(Entry), Sorted(q)
    PROVE  Distinct(q)
  <1> SUFFICES ASSUME NEW m \in 1 .. Len(q), NEW n \in 1 .. Len(q), q[m].id = q[n].id, m # n
               PROVE  FALSE
    BY DEF Distinct
  <1>1. q[m].id \in Nat /\ q[n].id \in Nat
    BY IdsLemma, TimersAssumption DEF Ids
  <1> QED  BY <1>1 DEF Sorted

\* What Select keeps of the queue.
LEMMA SelectKeeps ==
    ASSUME NEW q \in Seq(Entry), NEW K \in SUBSET (1 .. Len(q)), NEW kd, NEW ks
    PROVE  /\ Select(q, K) \in Seq(Entry)
           /\ \A k \in 1 .. Len(Select(q, K)) : \E n \in K : Select(q, K)[k] = q[n]
           /\ IdsOf(Select(q, K)) = {q[n].id : n \in K}
           /\ Named(q, kd, ks) => Named(Select(q, K), kd, ks)
           /\ Sorted(q) => Sorted(Select(q, K))
           /\ Distinct(q) => Distinct(Select(q, K))
  <1>1. PICK s : s = Select(q, K)
    OBVIOUS
  <1>2. /\ s \in Seq(Entry)
        /\ \E g : Picks(g, q, K, s) /\ \A k, l \in 1 .. Len(s) : k < l => g[k] < g[l]
    BY <1>1, SelectLemma
  <1>3. PICK g : Picks(g, q, K, s) /\ \A k, l \in 1 .. Len(s) : k < l => g[k] < g[l]
    BY <1>2
  <1>4. \A k \in 1 .. Len(s) : g[k] \in K /\ g[k] \in 1 .. Len(q) /\ s[k] = q[g[k]]
    BY <1>3 DEF Picks
  <1>5. IdsOf(s) = {q[n].id : n \in K}
    <2>1. IdsOf(s) = {s[n].id : n \in 1 .. Len(s)}
      BY <1>2, IdsLemma
    <2>2. \A n \in K : \E k \in 1 .. Len(s) : s[k] = q[n]
      BY <1>3 DEF Picks
    <2>3. \A i : i \in IdsOf(s) => i \in {q[n].id : n \in K}
      BY <1>4, <2>1
    <2>4. \A i : i \in {q[n].id : n \in K} => i \in IdsOf(s)
      BY <2>1, <2>2
    <2> QED  BY <2>3, <2>4
  <1>6. Named(q, kd, ks) => Named(s, kd, ks)
    BY <1>4 DEF Named
  <1>7. Sorted(q) => Sorted(s)
    BY <1>3, <1>4 DEF Sorted
  <1>8. Distinct(q) => Distinct(s)
    BY <1>3, <1>4 DEF Distinct, Picks
  <1> QED  BY <1>1, <1>2, <1>4, <1>5, <1>6, <1>7, <1>8

\* What the sort of a batch keeps.
LEMMA OrderKeeps ==
    ASSUME NEW q \in Seq(Entry), NEW kd, NEW ks
    PROVE  /\ OrderBatch(q) \in Seq(Entry)
           /\ \A k \in 1 .. Len(OrderBatch(q)) : \E n \in 1 .. Len(q) : OrderBatch(q)[k] = q[n]
           /\ IdsOf(OrderBatch(q)) = IdsOf(q)
           /\ Named(q, kd, ks) => Named(OrderBatch(q), kd, ks)
           /\ Distinct(q) => Distinct(OrderBatch(q))
  <1>1. PICK s : s = OrderBatch(q)
    OBVIOUS
  <1>2. s \in Seq(Entry) /\ \E g : Picks(g, q, 1 .. Len(q), s)
    BY <1>1, OrderBatchLemma
  <1>3. PICK g : Picks(g, q, 1 .. Len(q), s)
    BY <1>2
  <1>4. \A k \in 1 .. Len(s) : g[k] \in 1 .. Len(q) /\ s[k] = q[g[k]]
    BY <1>3 DEF Picks
  <1>5. IdsOf(s) = IdsOf(q)
    <2>1. IdsOf(s) = {s[n].id : n \in 1 .. Len(s)} /\ IdsOf(q) = {q[n].id : n \in 1 .. Len(q)}
      BY <1>2, IdsLemma
    <2>2. \A n \in 1 .. Len(q) : \E k \in 1 .. Len(s) : s[k] = q[n]
      BY <1>3 DEF Picks
    <2>3. \A i : i \in IdsOf(s) => i \in IdsOf(q)
      BY <1>4, <2>1
    <2>4. \A i : i \in IdsOf(q) => i \in IdsOf(s)
      BY <2>1, <2>2
    <2> QED  BY <2>3, <2>4
  <1>6. Named(q, kd, ks) => Named(s, kd, ks)
    BY <1>4 DEF Named
  <1>7. Distinct(q) => Distinct(s)
    BY <1>3, <1>4 DEF Distinct, Picks
  <1> QED  BY <1>1, <1>2, <1>4, <1>5, <1>6, <1>7

\* A queue whose entries get new deadlines, or one more entry, or lose the first.
LEMMA SameKeeps ==
    ASSUME NEW q \in Seq(Entry), NEW r \in Seq(Entry), Len(r) = Len(q), NEW kd, NEW ks,
           \A n \in 1 .. Len(q) : r[n].id = q[n].id /\ r[n].kind = q[n].kind
    PROVE  /\ IdsOf(r) = IdsOf(q)
           /\ Named(q, kd, ks) => Named(r, kd, ks)
           /\ Sorted(q) => Sorted(r)
  <1>1. IdsOf(r) = {r[n].id : n \in 1 .. Len(q)} /\ IdsOf(q) = {q[n].id : n \in 1 .. Len(q)}
    BY IdsLemma
  <1>2. IdsOf(r) = IdsOf(q)
    <2>1. \A i : i \in IdsOf(r) <=> \E n \in 1 .. Len(q) : r[n].id = i
      BY <1>1
    <2>2. \A i : i \in IdsOf(q) <=> \E n \in 1 .. Len(q) : q[n].id = i
      BY <1>1
    <2> QED  BY <2>1, <2>2
  <1> QED  BY <1>2 DEF Named, Sorted

LEMMA AppendKeeps ==
    ASSUME NEW q \in Seq(Entry), NEW e \in Entry, NEW kd, NEW ks,
           \A n \in 1 .. Len(q) : q[n].id < e.id
    PROVE  /\ Append(q, e) \in Seq(Entry)
           /\ IdsOf(Append(q, e)) = IdsOf(q) \cup {e.id}
           /\ Named(q, kd, ks) /\ e.kind \in ks /\ kd[e.id] = e.kind => Named(Append(q, e), kd, ks)
           /\ Sorted(q) => Sorted(Append(q, e))
  <1>1. PICK r : r = Append(q, e)
    OBVIOUS
  <1>2. /\ r \in Seq(Entry) /\ Len(r) = Len(q) + 1 /\ Len(q) \in Nat
        /\ r[Len(q) + 1] = e
        /\ \A n \in 1 .. Len(q) : r[n] = q[n]
    BY <1>1
  <1>3. IdsOf(r) = IdsOf(q) \cup {e.id}
    <2>1. IdsOf(r) = {r[n].id : n \in 1 .. Len(r)} /\ IdsOf(q) = {q[n].id : n \in 1 .. Len(q)}
      BY <1>2, IdsLemma
    <2>2. \A n \in 1 .. Len(r) : n \in 1 .. Len(q) \/ n = Len(q) + 1
      BY <1>2
    <2>3. \A i : i \in IdsOf(r) => i \in IdsOf(q) \cup {e.id}
      BY <1>2, <2>1, <2>2
    <2>4. \A n \in 1 .. Len(q) : n \in 1 .. Len(r) /\ r[n].id = q[n].id
      BY <1>2
    <2>5. Len(r) \in 1 .. Len(r) /\ r[Len(r)].id = e.id
      BY <1>2
    <2>6. \A i \in IdsOf(q) : i \in IdsOf(r)
      BY <2>1, <2>4
    <2>7. e.id \in IdsOf(r)
      BY <2>1, <2>5
    <2> QED  BY <2>3, <2>6, <2>7
  <1>4. Named(q, kd, ks) /\ e.kind \in ks /\ kd[e.id] = e.kind => Named(r, kd, ks)
    BY <1>2 DEF Named
  <1>5. Sorted(q) => Sorted(r)
    BY <1>2 DEF Sorted
  <1> QED  BY <1>1, <1>2, <1>3, <1>4, <1>5

LEMMA TailKeeps ==
    ASSUME NEW q \in Seq(Entry), q # <<>>, Distinct(q), NEW kd, NEW ks
    PROVE  /\ Tail(q) \in Seq(Entry) /\ Head(q) \in Entry
           /\ Len(Tail(q)) = Len(q) - 1 /\ Len(q) \in Nat \ {0}
           /\ Head(q) = q[1] /\ \A n \in 1 .. Len(Tail(q)) : Tail(q)[n] = q[n + 1]
           /\ IdsOf(Tail(q)) = IdsOf(q) \ {Head(q).id} /\ Head(q).id \in IdsOf(q)
           /\ Named(q, kd, ks) => Named(Tail(q), kd, ks)
           /\ Distinct(Tail(q))
  <1>1. PICK r : r = Tail(q)
    OBVIOUS
  <1>2. /\ r \in Seq(Entry) /\ Len(r) = Len(q) - 1 /\ Len(q) \in Nat \ {0}
        /\ Head(q) = q[1] /\ Head(q) \in Entry
        /\ \A n \in 1 .. Len(r) : r[n] = q[n + 1]
    BY <1>1
  <1>3. IdsOf(r) = {r[n].id : n \in 1 .. Len(r)} /\ IdsOf(q) = {q[n].id : n \in 1 .. Len(q)}
    BY <1>2, IdsLemma
  <1>4. \A n \in 1 .. Len(r) : n + 1 \in 1 .. Len(q) /\ r[n].id = q[n + 1].id /\ n + 1 # 1
    BY <1>2
  <1>5. \A n \in 1 .. Len(q) : n # 1 => n - 1 \in 1 .. Len(r) /\ r[n - 1].id = q[n].id
    BY <1>2
  <1>6. 1 \in 1 .. Len(q)
    BY <1>2
  <1>7. IdsOf(r) = IdsOf(q) \ {q[1].id} /\ q[1].id \in IdsOf(q)
    <2>1. \A i \in IdsOf(r) : i \in IdsOf(q) /\ i # q[1].id
      BY <1>3, <1>4, <1>6 DEF Distinct
    <2>2. \A i \in IdsOf(q) : i # q[1].id => i \in IdsOf(r)
      BY <1>3, <1>5
    <2> QED  BY <1>3, <1>6, <2>1, <2>2
  <1>8. Named(q, kd, ks) => Named(r, kd, ks)
    BY <1>2, <1>4 DEF Named
  <1>9. Distinct(r)
    BY <1>2, <1>4 DEF Distinct
  <1> QED  BY <1>1, <1>2, <1>7, <1>8, <1>9

-----------------------------------------------------------------------------
(* The stack of a thread.                                                   *)

LEMMA TopLemma ==
    ASSUME TypeOK, NEW t \in Threads, stack[t] # <<>>
    PROVE  /\ stack[t] \in Seq(Frame) /\ Len(stack[t]) \in Nat \ {0}
           /\ Top(t) = stack[t][Len(stack[t])] /\ Top(t) \in Frame
           /\ Front(stack[t]) \in Seq(Frame) /\ Len(Front(stack[t])) = Len(stack[t]) - 1
           /\ \A m \in 1 .. Len(stack[t]) - 1 : Front(stack[t])[m] = stack[t][m]
  <1>1. stack[t] \in Seq(Frame)
    BY DEF TypeOK
  <1> QED  BY <1>1 DEF Top, Last, Front

LEMMA SetTopLemma ==
    ASSUME TypeOK, NEW t \in Threads, stack[t] # <<>>, NEW f \in Frame, SetTop(t, f)
    PROVE  /\ stack' \in [Threads -> Seq(Frame)]
           /\ \A u \in Threads : Len(stack'[u]) = Len(stack[u])
           /\ \A u \in Threads : u # t => stack'[u] = stack[u]
           /\ stack'[t][Len(stack[t])] = f
           /\ \A m \in 1 .. Len(stack[t]) - 1 : stack'[t][m] = stack[t][m]
  <1>1. stack \in [Threads -> Seq(Frame)]
    BY DEF TypeOK
  <1>2. PICK fr : fr = Front(stack[t])
    OBVIOUS
  <1>3. /\ fr \in Seq(Frame) /\ Len(fr) = Len(stack[t]) - 1 /\ Len(stack[t]) \in Nat \ {0}
        /\ \A m \in 1 .. Len(stack[t]) - 1 : fr[m] = stack[t][m]
    BY <1>2, TopLemma
  <1>4. PICK s : s = Append(fr, f)
    OBVIOUS
  <1>5. /\ s \in Seq(Frame) /\ Len(s) = Len(stack[t])
        /\ s[Len(stack[t])] = f
        /\ \A m \in 1 .. Len(stack[t]) - 1 : s[m] = stack[t][m]
    BY <1>3, <1>4
  <1>6. stack' = [stack EXCEPT ![t] = s]
    BY <1>2, <1>4 DEF SetTop
  <1> QED  BY <1>1, <1>5, <1>6

LEMMA PushLemma ==
    ASSUME TypeOK, NEW t \in Threads, NEW f \in Frame, Push(t, f)
    PROVE  /\ stack' \in [Threads -> Seq(Frame)]
           /\ \A u \in Threads : u # t => stack'[u] = stack[u]
           /\ Len(stack'[t]) = Len(stack[t]) + 1 /\ Len(stack[t]) \in Nat
           /\ stack'[t][Len(stack[t]) + 1] = f
           /\ \A m \in 1 .. Len(stack[t]) : stack'[t][m] = stack[t][m]
  <1>1. stack \in [Threads -> Seq(Frame)]
    BY DEF TypeOK
  <1>2. PICK s : s = Append(stack[t], f)
    OBVIOUS
  <1>3. /\ s \in Seq(Frame) /\ Len(s) = Len(stack[t]) + 1 /\ Len(stack[t]) \in Nat
        /\ s[Len(stack[t]) + 1] = f
        /\ \A m \in 1 .. Len(stack[t]) : s[m] = stack[t][m]
    BY <1>1, <1>2
  <1>4. stack' = [stack EXCEPT ![t] = s]
    BY <1>2 DEF Push
  <1> QED  BY <1>1, <1>3, <1>4

LEMMA PopLemma ==
    ASSUME TypeOK, NEW t \in Threads, stack[t] # <<>>, stack' = [stack EXCEPT ![t] = Front(@)]
    PROVE  /\ stack' \in [Threads -> Seq(Frame)]
           /\ \A u \in Threads : u # t => stack'[u] = stack[u]
           /\ Len(stack'[t]) = Len(stack[t]) - 1 /\ Len(stack[t]) \in Nat \ {0}
           /\ \A m \in 1 .. Len(stack[t]) - 1 : stack'[t][m] = stack[t][m]
  <1>1. stack \in [Threads -> Seq(Frame)]
    BY DEF TypeOK
  <1>2. PICK s : s = Front(stack[t])
    OBVIOUS
  <1>3. /\ s \in Seq(Frame) /\ Len(s) = Len(stack[t]) - 1 /\ Len(stack[t]) \in Nat \ {0}
        /\ \A m \in 1 .. Len(stack[t]) - 1 : s[m] = stack[t][m]
    BY <1>2, TopLemma
  <1>4. stack' = [stack EXCEPT ![t] = s]
    BY <1>2
  <1> QED  BY <1>1, <1>3, <1>4

LEMMA SetTopFrames ==
    ASSUME TypeOK, FrameInv, NEW t \in Threads, stack[t] # <<>>, NEW f \in Frame, SetTop(t, f),
           f.pc \in {"start", "drain"} => f.batch = <<>>
    PROVE  /\ FrameInv'
           /\ t \in Pumps /\ Len(stack[t]) \in Depths /\ Batch(t, Len(stack[t])) = Top(t).batch
           /\ \A u \in Threads, m \in Depths :
                Batch(u, m)' = IF u = t /\ m = Len(stack[t]) THEN f.batch ELSE Batch(u, m)
  <1>1. PICK d : d = Len(stack[t])
    OBVIOUS
  <1>2. /\ \A u \in Threads : Len(stack'[u]) = Len(stack[u]) /\ Len(stack[u]) \in Nat
        /\ \A u \in Threads : u # t => stack'[u] = stack[u]
        /\ stack'[t][d] = f
        /\ \A m \in 1 .. d - 1 : stack'[t][m] = stack[t][m]
    BY <1>1, SetTopLemma DEF TypeOK
  <1>3. d \in Nat \ {0} /\ Top(t) = stack[t][d]
    BY <1>1, TopLemma
  <1>4. t \in Pumps /\ d <= MaxDepth /\ MaxDepth \in Nat
    BY <1>1, TimersAssumption DEF FrameInv
  <1>5. \A m \in 1 .. d : m = d \/ m \in 1 .. d - 1
    BY <1>3
  <1>6. ASSUME NEW u \in Threads
        PROVE  /\ Len(stack'[u]) <= MaxDepth
               /\ u \notin Pumps => stack'[u] = <<>>
               /\ \A m \in 1 .. Len(stack'[u]) :
                    stack'[u][m].pc \in {"start", "drain"} => stack'[u][m].batch = <<>>
    <2>1. CASE u = t
      BY <1>1, <1>2, <1>4, <1>5, <2>1 DEF FrameInv
    <2>2. CASE u # t
      BY <1>2, <2>2 DEF FrameInv
    <2> QED  BY <2>1, <2>2
  <1>7. FrameInv'
    BY <1>6 DEF FrameInv
  <1>8. d \in 1 .. Len(stack[t]) /\ d \in Depths
    BY <1>1, <1>3, <1>4 DEF Depths
  <1>9. ASSUME NEW u \in Threads, NEW m \in Depths
        PROVE  Batch(u, m)' = IF u = t /\ m = d THEN f.batch ELSE Batch(u, m)
    <2>1. CASE u = t
      BY <1>1, <1>2, <1>5, <1>8, <2>1 DEF Batch
    <2>2. CASE u # t
      BY <1>2, <2>2 DEF Batch
    <2> QED  BY <2>1, <2>2
  <1>10. Batch(t, d) = Top(t).batch
    BY <1>3, <1>8 DEF Batch
  <1> QED  BY <1>1, <1>4, <1>7, <1>8, <1>9, <1>10

LEMMA PushFrames ==
    ASSUME TypeOK, FrameInv, NEW t \in Threads, t \in Pumps, Len(stack[t]) < MaxDepth,
           NEW f \in Frame, Push(t, f), f.batch = <<>>
    PROVE  FrameInv' /\ \A u \in Threads, m \in Depths : Batch(u, m)' = Batch(u, m)
  <1>1. PICK d : d = Len(stack[t])
    OBVIOUS
  <1>2. /\ \A u \in Threads : u # t => stack'[u] = stack[u]
        /\ Len(stack'[t]) = d + 1 /\ d \in Nat
        /\ stack'[t][d + 1] = f
        /\ \A m \in 1 .. d : stack'[t][m] = stack[t][m]
    BY <1>1, PushLemma
  <1>3. MaxDepth \in Nat
    BY TimersAssumption
  <1>4. \A m \in 1 .. d + 1 : m = d + 1 \/ m \in 1 .. d
    BY <1>2
  <1>5. ASSUME NEW u \in Threads
        PROVE  /\ Len(stack'[u]) <= MaxDepth
               /\ u \notin Pumps => stack'[u] = <<>>
               /\ \A m \in 1 .. Len(stack'[u]) :
                    stack'[u][m].pc \in {"start", "drain"} => stack'[u][m].batch = <<>>
    <2>1. CASE u = t
      BY <1>1, <1>2, <1>3, <1>4, <2>1 DEF FrameInv
    <2>2. CASE u # t
      BY <1>2, <2>2 DEF FrameInv
    <2> QED  BY <2>1, <2>2
  <1>6. FrameInv'
    BY <1>5 DEF FrameInv
  <1>7. ASSUME NEW u \in Threads, NEW m \in Depths
        PROVE  Batch(u, m)' = Batch(u, m)
    <2>1. CASE u = t
      BY <1>1, <1>2, <1>4, <2>1 DEF Batch
    <2>2. CASE u # t
      BY <1>2, <2>2 DEF Batch
    <2> QED  BY <2>1, <2>2
  <1> QED  BY <1>6, <1>7

LEMMA PopFrames ==
    ASSUME TypeOK, FrameInv, NEW t \in Threads, stack[t] # <<>>, Top(t).batch = <<>>,
           stack' = [stack EXCEPT ![t] = Front(@)]
    PROVE  FrameInv' /\ \A u \in Threads, m \in Depths : Batch(u, m)' = Batch(u, m)
  <1>1. PICK d : d = Len(stack[t])
    OBVIOUS
  <1>2. /\ \A u \in Threads : u # t => stack'[u] = stack[u]
        /\ Len(stack'[t]) = d - 1 /\ d \in Nat \ {0}
        /\ \A m \in 1 .. d - 1 : stack'[t][m] = stack[t][m]
    BY <1>1, PopLemma
  <1>3. MaxDepth \in Nat /\ d <= MaxDepth /\ t \in Pumps
    BY <1>1, TimersAssumption DEF FrameInv
  <1>4. \A m \in 1 .. d : m = d \/ m \in 1 .. d - 1
    BY <1>2
  <1>5. ASSUME NEW u \in Threads
        PROVE  /\ Len(stack'[u]) <= MaxDepth
               /\ u \notin Pumps => stack'[u] = <<>>
               /\ \A m \in 1 .. Len(stack'[u]) :
                    stack'[u][m].pc \in {"start", "drain"} => stack'[u][m].batch = <<>>
    <2>1. CASE u = t
      BY <1>1, <1>2, <1>3, <2>1 DEF FrameInv
    <2>2. CASE u # t
      BY <1>2, <2>2 DEF FrameInv
    <2> QED  BY <2>1, <2>2
  <1>6. FrameInv'
    BY <1>5 DEF FrameInv
  <1>7. Top(t) = stack[t][d]
    BY <1>1, TopLemma
  <1>8. ASSUME NEW u \in Threads, NEW m \in Depths
        PROVE  Batch(u, m)' = Batch(u, m)
    <2>1. CASE u = t
      BY <1>1, <1>2, <1>4, <1>7, <2>1 DEF Batch
    <2>2. CASE u # t
      BY <1>2, <2>2 DEF Batch
    <2> QED  BY <2>1, <2>2
  <1> QED  BY <1>6, <1>8

-----------------------------------------------------------------------------
(* Types.                                                                   *)

LEMMA SetRefType ==
    ASSUME TypeOK, NEW i \in Ids, NEW b \in BOOLEAN, SetRef(i, b)
    PROVE  /\ order' \in Seq(Ids) /\ states' \in [Range(order') -> BOOLEAN] /\ Len(order') <= Cap
           /\ \A j \in DOMAIN states' : states'[j] = b \/ (j \in DOMAIN states /\ states'[j] = states[j])
  <1>1. order \in Seq(Ids) /\ states \in [Range(order) -> BOOLEAN] /\ Len(order) <= Cap
    BY DEF TypeOK
  <1>2. CASE i \in DOMAIN states
    <2>1. states' = [states EXCEPT ![i] = b] /\ order' = order
      BY <1>2 DEF SetRef
    <2>2. states' \in [Range(order) -> BOOLEAN]
      BY <1>1, <2>1
    <2>3. \A j \in DOMAIN states' : states'[j] = b \/ (j \in DOMAIN states /\ states'[j] = states[j])
      BY <2>1
    <2> QED  BY <1>1, <2>1, <2>2, <2>3
  <1>3. CASE i \notin DOMAIN states
    <2>1. PICK o : o = Append(order, i)
      OBVIOUS
    <2>2. PICK k : k = IF Len(o) > Cap THEN Tail(o) ELSE o
      OBVIOUS
    <2>3. order' = k /\ states' = [j \in Range(k) |-> IF j = i THEN b ELSE states[j]]
      BY <1>3, <2>1, <2>2 DEF SetRef
    <2>4. Cap \in Nat /\ Cap >= 1
      BY TimersAssumption
    <2>5. /\ o \in Seq(Ids) /\ Len(o) = Len(order) + 1
          /\ \A n \in 1 .. Len(o) : o[n] = i \/ \E m \in 1 .. Len(order) : o[n] = order[m]
      BY <1>1, <2>1
    <2>6. /\ k \in Seq(Ids) /\ Len(k) <= Cap
          /\ \A n \in 1 .. Len(k) : \E m \in 1 .. Len(o) : k[n] = o[m]
      <3>1. CASE Len(o) > Cap
        <4>1. k = Tail(o)
          BY <2>2, <3>1
        <4>2. k \in Seq(Ids) /\ Len(k) = Len(o) - 1 /\ \A n \in 1 .. Len(k) : k[n] = o[n + 1]
          BY <1>1, <2>4, <2>5, <4>1
        <4>3. \A n \in 1 .. Len(k) : n + 1 \in 1 .. Len(o)
          BY <2>5, <4>2
        <4> QED  BY <1>1, <2>4, <2>5, <4>2, <4>3
      <3>2. CASE ~(Len(o) > Cap)
        BY <2>2, <2>4, <2>5, <3>2
      <3> QED  BY <3>1, <3>2
    <2>7. \A j \in Range(k) : j = i \/ j \in Range(order)
      <3>1. \A j \in Range(k) : \E n \in 1 .. Len(k) : j = k[n]
        BY <2>6 DEF Range
      <3>2. \A m \in 1 .. Len(order) : order[m] \in Range(order)
        BY <1>1 DEF Range
      <3> QED  BY <2>5, <2>6, <3>1, <3>2
    <2>8. \A j \in Range(k) : (IF j = i THEN b ELSE states[j]) \in BOOLEAN
      BY <1>1, <2>7
    <2>9. \A j \in DOMAIN states' : states'[j] = b \/ (j \in DOMAIN states /\ states'[j] = states[j])
      BY <1>1, <2>3, <2>7
    <2> QED  BY <2>3, <2>6, <2>8, <2>9
  <1> QED  BY <1>2, <1>3

\* Steps of a thread that move no entry: ref and unref, and what enters, leaves or
\* resumes a tick.
Quiet(t) ==
  \/ LoopTick(t) \/ HandleTick(t) \/ AwaitTick(t) \/ Start(t) \/ Return(t) \/ NextPhase(t)
  \/ Resume(t) \/ NestedPump(t) \/ (\E i \in Ids : Await(t, i) \/ \E b \in BOOLEAN : Ref(t, i, b))

SameBatches == \A u \in Threads, m \in Depths : Batch(u, m)' = Batch(u, m)

LEMMA NewFrameType ==
    \A p \in BOOLEAN : NewFrame(p) \in Frame /\ NewFrame(p).batch = <<>>
  <1>1. 1 \in 1 .. Len(Phases) /\ <<>> \in Seq(Entry)
    BY DEF Phases
  <1> QED  BY <1>1 DEF NewFrame, Frame

\* A step that only sets the top frame keeps the types.
LEMMA StackType ==
    ASSUME TypeOK, stack' \in [Threads -> Seq(Frame)],
           UNCHANGED <<now, queues, kind, refs, live, history>>
    PROVE  TypeOK'
  BY DEF TypeOK, queues, refs, history

LEMMA QuietStep ==
    ASSUME TypeOK, FrameInv, NEW t \in Threads, Quiet(t)
    PROVE  TypeOK' /\ FrameInv' /\ SameBatches /\ UNCHANGED <<queues, kind, live, fires, gone>>
  <1> USE DEF Quiet
  <1>1. ASSUME stack[t] # <<>>, NEW f \in Frame, SetTop(t, f), f.batch = Top(t).batch,
               f.pc \in {"start", "drain"} => f.batch = <<>>,
               UNCHANGED <<now, queues, kind, refs, live, history>>
        PROVE  TypeOK' /\ FrameInv' /\ SameBatches /\ UNCHANGED <<queues, kind, live, fires, gone>>
    <2>1. stack' \in [Threads -> Seq(Frame)]
      BY <1>1, SetTopLemma
    <2>2. TypeOK'
      BY <1>1, <2>1, StackType
    <2>3. FrameInv' /\ SameBatches
      BY <1>1, SetTopFrames DEF SameBatches
    <2> QED  BY <1>1, <2>2, <2>3 DEF history
  <1>2. ASSUME t \in Pumps, Len(stack[t]) < MaxDepth, NEW p \in BOOLEAN, Push(t, NewFrame(p)),
               UNCHANGED <<now, queues, kind, refs, live, history>>
        PROVE  TypeOK' /\ FrameInv' /\ SameBatches /\ UNCHANGED <<queues, kind, live, fires, gone>>
    <2>0. PICK f \in Frame : f = NewFrame(p) /\ f.batch = <<>>
      BY NewFrameType
    <2>1. stack' \in [Threads -> Seq(Frame)]
      BY <1>2, <2>0, PushLemma
    <2>2. TypeOK'
      BY <1>2, <2>1, StackType
    <2>3. FrameInv' /\ SameBatches
      BY <1>2, <2>0, PushFrames DEF SameBatches
    <2> QED  BY <1>2, <2>2, <2>3 DEF history
  <1>3. ASSUME stack[t] # <<>>
        PROVE  Top(t) \in Frame /\ t \in Pumps
    BY <1>3, TopLemma DEF FrameInv
  <1>4. ASSUME stack[t] # <<>>, Top(t).pc \in {"start", "drain"}
        PROVE  Top(t).batch = <<>>
    <2>1. Len(stack[t]) \in 1 .. Len(stack[t]) /\ Top(t) = stack[t][Len(stack[t])]
      BY <1>4, TopLemma
    <2> QED  BY <1>4, <2>1 DEF FrameInv
  <1>5. CASE LoopTick(t) \/ HandleTick(t)
    <2>0. stack[t] = <<>>
      BY <1>5 DEF LoopTick, HandleTick
    <2>1. Len(stack[t]) < MaxDepth
      BY <2>0, TimersAssumption
    <2> QED  BY <1>2, <1>5, <2>1 DEF LoopTick, HandleTick
  <1>6. CASE AwaitTick(t)
    BY <1>2, <1>3, <1>6 DEF AwaitTick
  <1>7. CASE NestedPump(t)
    BY <1>2, <1>3, <1>7 DEF NestedPump
  <1>8. CASE Start(t)
    <2>0. PICK h \in Handles :
             SetTop(t, [Top(t) EXCEPT !.pc = IF Guarded(t) THEN "fire" ELSE "drain",
                                      !.at = now, !.unref = AnyRefed(t) \/ h])
      BY <1>8 DEF Start
    <2>1. PICK f : f = [Top(t) EXCEPT !.pc = IF Guarded(t) THEN "fire" ELSE "drain",
                                      !.at = now, !.unref = AnyRefed(t) \/ h]
      OBVIOUS
    <2>2. (AnyRefed(t) \/ h) \in BOOLEAN
      OBVIOUS
    <2>3. f \in Frame /\ f.batch = Top(t).batch /\ f.pc \in {"fire", "drain"}
      BY <1>3, <1>8, <2>1, <2>2 DEF Start, Frame, TypeOK
    <2>4. f.batch = <<>>
      BY <1>4, <1>8, <2>3 DEF Start
    <2> QED  BY <1>1, <1>8, <2>0, <2>1, <2>3, <2>4 DEF Start
  <1>9. CASE Return(t)
    <2>1. PICK f : f = [Top(t) EXCEPT !.pc = "fire", !.on = None]
      OBVIOUS
    <2>2. f \in Frame /\ f.batch = Top(t).batch /\ f.pc = "fire"
      BY <1>3, <1>9, <2>1 DEF Return, Frame
    <2> QED  BY <1>1, <1>9, <2>1, <2>2 DEF Return
  <1>10. CASE Resume(t)
    <2>1. PICK f : f = [Top(t) EXCEPT !.pc = "js"]
      OBVIOUS
    <2>2. f \in Frame /\ f.batch = Top(t).batch /\ f.pc = "js"
      BY <1>3, <1>10, <2>1 DEF Resume, Frame
    <2> QED  BY <1>1, <1>10, <2>1, <2>2 DEF Resume
  <1>11. CASE \E i \in Ids : Await(t, i)
    <2>0. PICK i \in Ids : Await(t, i)
      BY <1>11
    <2>1. PICK f : f = [Top(t) EXCEPT !.pc = "wait", !.on = i]
      OBVIOUS
    <2>2. f \in Frame /\ f.batch = Top(t).batch /\ f.pc = "wait"
      BY <1>3, <2>0, <2>1 DEF Await, Frame
    <2> QED  BY <1>1, <2>0, <2>1, <2>2 DEF Await
  <1>12. CASE NextPhase(t)
    <2>1. CASE Top(t).phase < Len(Phases)
      <3>1. PICK f : f = [NewFrame(Top(t).plain) EXCEPT !.phase = Top(t).phase + 1]
        OBVIOUS
      <3>2. Top(t) \in Frame /\ Top(t).plain \in BOOLEAN /\ Top(t).phase + 1 \in 1 .. Len(Phases)
        BY <1>3, <1>12, <2>1 DEF NextPhase, Frame, Phases
      <3>3. f \in Frame /\ f.batch = <<>>
        BY <3>1, <3>2, NewFrameType DEF Frame
      <3> QED  BY <1>1, <1>12, <2>1, <3>1, <3>3 DEF NextPhase
    <2>2. CASE ~(Top(t).phase < Len(Phases))
      <3>1. /\ stack[t] # <<>> /\ Top(t).batch = <<>> /\ stack' = [stack EXCEPT ![t] = Front(@)]
            /\ UNCHANGED <<now, queues, kind, refs, live, history>>
        BY <1>12, <2>2 DEF NextPhase
      <3>2. stack' \in [Threads -> Seq(Frame)]
        BY <3>1, PopLemma
      <3>3. TypeOK'
        BY <3>1, <3>2, StackType
      <3>4. FrameInv' /\ SameBatches
        BY <3>1, PopFrames DEF SameBatches
      <3> QED  BY <3>1, <3>3, <3>4 DEF history
    <2> QED  BY <2>1, <2>2
  <1>13. ASSUME stack' = stack
         PROVE  FrameInv' /\ SameBatches
    BY <1>13 DEF FrameInv, SameBatches, Batch
  <1>14. CASE \E i \in Ids, b \in BOOLEAN : Ref(t, i, b)
    <2>1. PICK i \in Ids, b \in BOOLEAN : Ref(t, i, b)
      BY <1>14
    <2>2. SetRef(i, b) /\ wish' = [wish EXCEPT ![i] = b]
          /\ UNCHANGED <<now, queues, kind, stack, live, fires, gone>>
      BY <2>1 DEF Ref
    <2>3. order' \in Seq(Ids) /\ states' \in [Range(order') -> BOOLEAN] /\ Len(order') <= Cap
      BY <2>2, SetRefType
    <2>4. TypeOK'
      BY <2>2, <2>3 DEF TypeOK, queues
    <2> QED  BY <1>13, <2>2, <2>4
  <1> QED  BY <1>5, <1>6, <1>7, <1>8, <1>9, <1>10, <1>11, <1>12, <1>14

-----------------------------------------------------------------------------
(* What each kind of step does to the entries.                              *)

LEMMA BatchType ==
    ASSUME TypeOK, NEW t \in Threads, NEW m \in Depths
    PROVE  Batch(t, m) \in Seq(Entry) /\ IdsOf(Batch(t, m)) \subseteq Ids
  <1>1. stack[t] \in Seq(Frame)
    BY DEF TypeOK
  <1>2. Batch(t, m) \in Seq(Entry)
    <2>1. CASE m \in 1 .. Len(stack[t])
      <3>1. stack[t][m] \in Frame
        BY <1>1, <2>1
      <3> QED  BY <2>1, <3>1 DEF Batch, Frame
    <2>2. CASE m \notin 1 .. Len(stack[t])
      BY <2>2 DEF Batch
    <2> QED  BY <2>1, <2>2
  <1> QED  BY <1>2, IdsLemma

\* A timer in a queue or in a batch has been created, as an entry of that kind.
LEMMA KindLemma ==
    ASSUME TypeOK, QueueInv, BatchInv
    PROVE  /\ IdsOf(promiseQ) \subseteq Ids /\ \A i \in IdsOf(promiseQ) : kind[i] = "promise"
           /\ IdsOf(callbackQ) \subseteq Ids /\ \A i \in IdsOf(callbackQ) : kind[i] \in {"timeout", "immediate"}
           /\ IdsOf(intervalQ) \subseteq Ids /\ \A i \in IdsOf(intervalQ) : kind[i] = "interval"
           /\ \A t \in Threads, m \in Depths : \A i \in IdsOf(Batch(t, m)) : kind[i] \in Kinds
           /\ \A i : Pends(i) => i \in Ids /\ kind[i] \in Kinds /\ kind[i] # None
  <1>1. ASSUME NEW q \in Seq(Entry), NEW ks, Named(q, kind, ks)
        PROVE  IdsOf(q) \subseteq Ids /\ \A i \in IdsOf(q) : kind[i] \in ks
    <2>1. IdsOf(q) = {q[n].id : n \in 1 .. Len(q)} /\ IdsOf(q) \subseteq Ids
      BY IdsLemma
    <2> QED  BY <1>1, <2>1 DEF Named
  <1>2. promiseQ \in Seq(Entry) /\ callbackQ \in Seq(Entry) /\ intervalQ \in Seq(Entry)
    BY DEF TypeOK
  <1>3. IdsOf(promiseQ) \subseteq Ids /\ \A i \in IdsOf(promiseQ) : kind[i] \in {"promise"}
    BY <1>1, <1>2 DEF QueueInv
  <1>4. IdsOf(callbackQ) \subseteq Ids /\ \A i \in IdsOf(callbackQ) : kind[i] \in {"timeout", "immediate"}
    BY <1>1, <1>2 DEF QueueInv
  <1>5. IdsOf(intervalQ) \subseteq Ids /\ \A i \in IdsOf(intervalQ) : kind[i] \in {"interval"}
    BY <1>1, <1>2 DEF QueueInv
  <1>6. ASSUME NEW t \in Threads, NEW m \in Depths
        PROVE  IdsOf(Batch(t, m)) \subseteq Ids /\ \A i \in IdsOf(Batch(t, m)) : kind[i] \in Kinds
    BY <1>1, BatchType DEF BatchInv
  <1>7. None \notin Kinds
    BY TimersAssumption
  <1>8. \A i : Pends(i) => i \in Ids /\ kind[i] \in Kinds
    BY <1>3, <1>4, <1>5, <1>6 DEF Pends, Queued, Kinds
  <1> QED  BY <1>3, <1>4, <1>5, <1>6, <1>7, <1>8

LEMMA QuietKeeps ==
    ASSUME QueueInv, BatchInv, FireInv, SameBatches, UNCHANGED <<queues, kind, fires, gone>>
    PROVE  QueueInv' /\ BatchInv' /\ FireInv'
  <1>1. promiseQ' = promiseQ /\ callbackQ' = callbackQ /\ intervalQ' = intervalQ /\ kind' = kind
        /\ fires' = fires /\ gone' = gone
    BY DEF queues
  <1>2. QueueInv'
    BY <1>1 DEF QueueInv, Created
  <1>3. Queued' = Queued
    BY <1>1 DEF Queued
  <1>4. BatchInv'
    BY <1>1, <1>3 DEF BatchInv, SameBatches
  <1>5. \A i : Pends(i)' <=> Pends(i)
    BY <1>3 DEF Pends, SameBatches
  <1>6. FireInv'
    BY <1>1, <1>5 DEF FireInv
  <1> QED  BY <1>2, <1>4, <1>6

\* New deadlines change nothing else.
LEMMA DeadlineKeeps ==
    ASSUME QueueInv, BatchInv, FireInv, SameBatches, UNCHANGED <<promiseQ, kind, fires, gone>>,
           IdsOf(callbackQ') = IdsOf(callbackQ), IdsOf(intervalQ') = IdsOf(intervalQ),
           Named(callbackQ', kind, {"timeout", "immediate"}), Sorted(callbackQ'),
           Named(intervalQ', kind, {"interval"}), Sorted(intervalQ')
    PROVE  QueueInv' /\ BatchInv' /\ FireInv'
  <1>2. QueueInv'
    BY DEF QueueInv, Created
  <1>3. Queued' = Queued
    BY DEF Queued
  <1>4. BatchInv'
    BY <1>3 DEF BatchInv, SameBatches
  <1>5. \A i : Pends(i)' <=> Pends(i)
    BY <1>3 DEF Pends, SameBatches
  <1>6. FireInv'
    BY <1>5 DEF FireInv
  <1> QED  BY <1>2, <1>4, <1>6

\* Entries leave their queues for good: clear, and the end of a worker.
LEMMA DropKeeps ==
    ASSUME QueueInv, BatchInv, FireInv, SameBatches, UNCHANGED <<kind, fires>>,
           Named(promiseQ', kind, {"promise"}), Sorted(promiseQ'),
           Named(callbackQ', kind, {"timeout", "immediate"}), Sorted(callbackQ'),
           Named(intervalQ', kind, {"interval"}), Sorted(intervalQ'),
           Queued' \subseteq Queued, Queued \ Queued' \subseteq gone',
           IdsOf(intervalQ) \ IdsOf(intervalQ') \subseteq gone', gone \subseteq gone'
    PROVE  QueueInv' /\ BatchInv' /\ FireInv'
  <1>1. QueueInv'
    BY DEF QueueInv, Created
  <1>2. BatchInv'
    BY DEF BatchInv, SameBatches
  <1>3. \A i : /\ Pends(i)' => Pends(i)
               /\ Pends(i) /\ ~Pends(i)' => i \in gone'
    BY DEF Pends, SameBatches
  <1>4. FireInv'
    BY <1>3 DEF FireInv
  <1> QED  BY <1>1, <1>2, <1>4

\* Step: the batch at depth d of thread t becomes b.
NewBatch(t, d, b) ==
  \A u \in Threads, m \in Depths : Batch(u, m)' = IF u = t /\ m = d THEN b ELSE Batch(u, m)

\* A drain: one-shot timers go from their queue to the batch, intervals are in both.
LEMMA MoveKeeps ==
    ASSUME TypeOK, QueueInv, BatchInv, FireInv, UNCHANGED <<kind, fires, gone>>,
           NEW t \in Threads, NEW d \in Depths, NEW b, Batch(t, d) = <<>>, NewBatch(t, d, b),
           Named(b, kind, Kinds), Distinct(b),
           Named(promiseQ', kind, {"promise"}), Sorted(promiseQ'),
           Named(callbackQ', kind, {"timeout", "immediate"}), Sorted(callbackQ'),
           Named(intervalQ', kind, {"interval"}), Sorted(intervalQ'),
           IdsOf(intervalQ') = IdsOf(intervalQ),
           \A i \in IdsOf(b) : kind[i] \in OneShot => i \in Queued,
           \A i : kind[i] \in OneShot => (i \in Queued' <=> i \in Queued /\ i \notin IdsOf(b))
    PROVE  QueueInv' /\ BatchInv' /\ FireInv'
  <1>1. QueueInv'
    BY DEF QueueInv, Created
  <1>2. IdsOf(Batch(t, d)) = {}
    BY DEF IdsOf
  <1>3. ASSUME NEW u \in Threads, NEW m \in Depths
        PROVE  Batch(u, m)' = IF u = t /\ m = d THEN b ELSE Batch(u, m)
    BY DEF NewBatch
  <1>4. ASSUME NEW u \in Threads, NEW m \in Depths
        PROVE  Named(Batch(u, m)', kind, Kinds) /\ Distinct(Batch(u, m)')
    BY <1>3 DEF BatchInv
  <1>5. ASSUME NEW u \in Threads, NEW m \in Depths, NEW i \in IdsOf(Batch(u, m)'), kind[i] \in OneShot
        PROVE  /\ i \notin Queued'
               /\ \A v \in Threads, l \in Depths : i \in IdsOf(Batch(v, l)') => v = u /\ l = m
    <2>1. CASE u = t /\ m = d
      <3>1. i \in IdsOf(b) /\ i \in Queued
        BY <1>3, <1>5, <2>1
      <3>2. \A v \in Threads, l \in Depths : i \notin IdsOf(Batch(v, l))
        BY <1>5, <3>1 DEF BatchInv
      <3> QED  BY <1>3, <1>5, <2>1, <3>1, <3>2
    <2>2. CASE ~(u = t /\ m = d)
      <3>1. i \in IdsOf(Batch(u, m))
        BY <1>3, <1>5, <2>2
      <3>2. i \notin Queued
        BY <1>5, <3>1 DEF BatchInv
      <3>3. i \notin IdsOf(b) /\ i \notin Queued'
        BY <1>5, <3>2
      <3> QED  BY <1>3, <1>5, <2>2, <3>1, <3>3 DEF BatchInv
    <2> QED  BY <2>1, <2>2
  <1>6. BatchInv'
    BY <1>4, <1>5 DEF BatchInv
  <1>7. ASSUME NEW i, kind[i] \in OneShot
        PROVE  Pends(i)' <=> Pends(i)
    <2>1. (\E u \in Threads, m \in Depths : i \in IdsOf(Batch(u, m)'))
            <=> i \in IdsOf(b) \/ (\E u \in Threads, m \in Depths : i \in IdsOf(Batch(u, m)))
      BY <1>2, <1>3
    <2> QED  BY <1>7, <2>1 DEF Pends
  <1>8. FireInv'
    BY <1>7 DEF FireInv
  <1> QED  BY <1>1, <1>6, <1>8

\* The first entry of a batch fires.
LEMMA FireKeeps ==
    ASSUME TypeOK, QueueInv, BatchInv, FireInv, UNCHANGED <<promiseQ, callbackQ, intervalQ, kind, gone>>,
           NEW t \in Threads, NEW d \in Depths, Batch(t, d) # <<>>,
           NEW h, h = Head(Batch(t, d)).id, NEW b, b = Tail(Batch(t, d)),
           NewBatch(t, d, b), Fired(h)
    PROVE  QueueInv' /\ BatchInv' /\ FireInv'
  <1>2. /\ IdsOf(b) = IdsOf(Batch(t, d)) \ {h} /\ h \in IdsOf(Batch(t, d)) /\ h \in Ids
        /\ Named(b, kind, Kinds) /\ Distinct(b)
    BY BatchType, TailKeeps DEF BatchInv
  <1>3. ASSUME NEW u \in Threads, NEW m \in Depths
        PROVE  Batch(u, m)' = IF u = t /\ m = d THEN b ELSE Batch(u, m)
    BY DEF NewBatch
  <1>4. QueueInv'
    BY DEF QueueInv, Created
  <1>5. Queued' = Queued
    BY DEF Queued
  <1>6. ASSUME NEW u \in Threads, NEW m \in Depths
        PROVE  /\ Named(Batch(u, m)', kind, Kinds) /\ Distinct(Batch(u, m)')
               /\ \A i \in IdsOf(Batch(u, m)') : i \in IdsOf(Batch(u, m))
    <2>1. Named(Batch(u, m), kind, Kinds) /\ Distinct(Batch(u, m))
      BY DEF BatchInv
    <2> QED  BY <1>2, <1>3, <2>1
  <1>7. BatchInv'
    BY <1>5, <1>6 DEF BatchInv
  <1>8. fires' = [fires EXCEPT ![h] = IF @ < 2 THEN @ + 1 ELSE @] /\ fires \in [Ids -> 0 .. 2]
    BY DEF Fired, TypeOK
  <1>9. kind[h] \in Kinds /\ kind[h] # None
    <2>1. Pends(h)
      BY <1>2 DEF Pends
    <2> QED  BY <2>1, KindLemma
  <1>10. ASSUME NEW i \in Ids, i # h
         PROVE  (Pends(i)' <=> Pends(i)) /\ fires'[i] = fires[i]
    <2>1. \A u \in Threads, m \in Depths : i \in IdsOf(Batch(u, m)') <=> i \in IdsOf(Batch(u, m))
      BY <1>2, <1>3, <1>10
    <2> QED  BY <1>5, <1>8, <1>10, <2>1 DEF Pends
  <1>11. ASSUME kind[h] \in OneShot
         PROVE  ~Pends(h)' /\ fires'[h] = 1
    <2>1. Pends(h) /\ fires[h] = 0
      BY <1>2, <1>11 DEF Pends, FireInv
    <2>2. h \notin Queued /\ \A u \in Threads, m \in Depths : h \in IdsOf(Batch(u, m)) => u = t /\ m = d
      BY <1>2, <1>11 DEF BatchInv
    <2>3. \A u \in Threads, m \in Depths : h \notin IdsOf(Batch(u, m)')
      BY <1>2, <1>3, <2>2
    <2> QED  BY <1>2, <1>5, <1>8, <2>1, <2>2, <2>3 DEF Pends
  <1>12. FireInv'
    <2> SUFFICES ASSUME NEW i \in Ids
                 PROVE  /\ kind[i] = None => fires'[i] = 0
                        /\ kind[i] \in OneShot =>
                             /\ Pends(i)' => fires'[i] = 0
                             /\ ~Pends(i)' /\ i \notin gone => fires'[i] = 1
                        /\ kind[i] = "interval" /\ i \notin gone => i \in IdsOf(intervalQ)
      BY DEF FireInv
    <2>1. CASE i = h
      BY <1>9, <1>11, <2>1 DEF FireInv
    <2>2. CASE i # h
      BY <1>10, <2>2 DEF FireInv
    <2> QED  BY <2>1, <2>2
  <1> QED  BY <1>4, <1>7, <1>12

\* The id a new timer gets, and the queues that get its entry.
LEMMA CreateKeeps ==
    ASSUME TypeOK, QueueInv, BatchInv, FireInv, SameBatches, UNCHANGED <<fires, gone>>,
           NEW i \in Ids, NEW c \in 0 .. MaxTimers, Created = 1 .. c, i = c + 1,
           NEW k \in Kinds, kind' = [kind EXCEPT ![i] = k],
           NEW e \in Entry, e.id = i, e.kind = k,
           promiseQ' = IF k = "promise" THEN Append(promiseQ, e) ELSE promiseQ,
           intervalQ' = IF k = "interval" THEN Append(intervalQ, e) ELSE intervalQ,
           callbackQ' = IF k \in {"timeout", "immediate"} THEN Append(callbackQ, e) ELSE callbackQ
    PROVE  QueueInv' /\ BatchInv' /\ FireInv'
  <1>0. kind \in [Ids -> Kinds \cup {None}] /\ None \notin Kinds /\ MaxTimers \in Nat
    BY TimersAssumption DEF TypeOK
  <1>1. kind[i] = None
    <2>1. i \notin Created
      OBVIOUS
    <2> QED  BY <2>1 DEF Created
  <1>2. ~Pends(i)
    BY <1>1, KindLemma
  <1>3. \A j \in Ids : kind'[j] = IF j = i THEN k ELSE kind[j]
    BY <1>0
  <1>4. Created' = 1 .. i
    <2>1. \A j \in Ids : j \in Created' <=> j \in Created \/ j = i
      BY <1>0, <1>3 DEF Created
    <2>2. Created' \subseteq Ids /\ 1 .. i \subseteq Ids
      BY <1>0 DEF Created, Ids
    <2>3. \A j \in Ids : j \in Created' <=> j \in 1 .. i
      BY <2>1 DEF Ids
    <2> QED  BY <2>2, <2>3
  <1>5. ASSUME NEW q \in Seq(Entry), NEW ks, Named(q, kind, ks), None \notin ks
        PROVE  /\ Named(q, kind', ks)
               /\ \A n \in 1 .. Len(q) : q[n].id < e.id
    <2>1. ASSUME NEW n \in 1 .. Len(q)
          PROVE  q[n].id \in Ids /\ kind'[q[n].id] = kind[q[n].id] /\ q[n].id < e.id
      <3>1. q[n].id \in Ids /\ kind[q[n].id] # None
        <4>1. q[n] \in Entry /\ q[n].id \in Ids
          BY IdsLemma
        <4> QED  BY <1>5, <4>1 DEF Named
      <3>2. q[n].id \in Created
        BY <3>1 DEF Created
      <3> QED  BY <1>1, <1>3, <3>1, <3>2
    <2> QED  BY <1>5, <2>1 DEF Named
  <1>6. None \notin {"promise"} /\ None \notin {"timeout", "immediate"} /\ None \notin {"interval"}
    BY TimersAssumption DEF Kinds
  <1>7. promiseQ \in Seq(Entry) /\ callbackQ \in Seq(Entry) /\ intervalQ \in Seq(Entry)
    BY DEF TypeOK
  <1>8. kind'[e.id] = e.kind
    BY <1>3
  <1>9. Named(promiseQ', kind', {"promise"}) /\ Sorted(promiseQ')
        /\ IdsOf(promiseQ') = IF k = "promise" THEN IdsOf(promiseQ) \cup {i} ELSE IdsOf(promiseQ)
    BY <1>5, <1>6, <1>7, <1>8, AppendKeeps DEF QueueInv
  <1>10. Named(callbackQ', kind', {"timeout", "immediate"}) /\ Sorted(callbackQ')
        /\ IdsOf(callbackQ') = IF k \in {"timeout", "immediate"} THEN IdsOf(callbackQ) \cup {i} ELSE IdsOf(callbackQ)
    BY <1>5, <1>6, <1>7, <1>8, AppendKeeps DEF QueueInv
  <1>11. Named(intervalQ', kind', {"interval"}) /\ Sorted(intervalQ')
        /\ IdsOf(intervalQ') = IF k = "interval" THEN IdsOf(intervalQ) \cup {i} ELSE IdsOf(intervalQ)
    BY <1>5, <1>6, <1>7, <1>8, AppendKeeps DEF QueueInv
  <1>12. QueueInv'
    <2>1. i \in 0 .. MaxTimers
      BY <1>0 DEF Ids
    <2> QED  BY <1>4, <1>9, <1>10, <1>11, <2>1 DEF QueueInv
  <1>13. Queued' = Queued \cup {i}
    BY <1>9, <1>10, <1>11 DEF Queued, Kinds
  <1>14. ASSUME NEW u \in Threads, NEW m \in Depths
         PROVE  /\ Batch(u, m)' = Batch(u, m) /\ i \notin IdsOf(Batch(u, m))
                /\ Named(Batch(u, m), kind', Kinds)
    <2>1. Batch(u, m)' = Batch(u, m) /\ i \notin IdsOf(Batch(u, m))
      BY <1>2 DEF Pends, SameBatches
    <2>2. Named(Batch(u, m), kind', Kinds)
      BY <1>0, <1>5, BatchType DEF BatchInv
    <2> QED  BY <2>1, <2>2
  <1>15. \A u \in Threads, m \in Depths : \A j \in IdsOf(Batch(u, m)) : j \in Ids /\ j # i /\ kind'[j] = kind[j]
    BY <1>3, <1>14, BatchType
  <1>16. BatchInv'
    <2>1. ASSUME NEW u \in Threads, NEW m \in Depths, NEW j \in IdsOf(Batch(u, m)), kind'[j] \in OneShot
          PROVE  /\ j \notin Queued'
                 /\ \A v \in Threads, l \in Depths : j \in IdsOf(Batch(v, l)) => v = u /\ l = m
      BY <1>13, <1>15, <2>1 DEF BatchInv
    <2>2. \A u \in Threads, m \in Depths : Distinct(Batch(u, m))
      BY DEF BatchInv
    <2>3. ASSUME NEW u \in Threads, NEW m \in Depths
          PROVE  /\ Named(Batch(u, m)', kind', Kinds) /\ Distinct(Batch(u, m)')
                 /\ \A j \in IdsOf(Batch(u, m)') : kind'[j] \in OneShot =>
                      /\ j \notin Queued'
                      /\ \A v \in Threads, l \in Depths : j \in IdsOf(Batch(v, l)') => v = u /\ l = m
      <3>1. Batch(u, m)' = Batch(u, m) /\ \A v \in Threads, l \in Depths : Batch(v, l)' = Batch(v, l)
        BY <1>14
      <3>2. Named(Batch(u, m), kind', Kinds)
        BY <1>14
      <3> QED  BY <2>1, <2>2, <3>1, <3>2
    <2> QED  BY <2>3 DEF BatchInv
  <1>17. \A j : Pends(j)' <=> Pends(j) \/ j = i
    BY <1>13, <1>14 DEF Pends
  <1>18. FireInv'
    <2> SUFFICES ASSUME NEW j \in Ids
                 PROVE  /\ kind'[j] = None => fires[j] = 0
                        /\ kind'[j] \in OneShot =>
                             /\ Pends(j)' => fires[j] = 0
                             /\ ~Pends(j)' /\ j \notin gone => fires[j] = 1
                        /\ kind'[j] = "interval" /\ j \notin gone => j \in IdsOf(intervalQ')
      BY DEF FireInv
    <2>1. CASE j = i
      <3>1. fires[i] = 0
        BY <1>1 DEF FireInv
      <3> QED  BY <1>3, <1>11, <1>17, <2>1, <3>1
    <2>2. CASE j # i
      BY <1>3, <1>11, <1>17, <2>2 DEF FireInv
    <2> QED  BY <2>1, <2>2
  <1> QED  BY <1>12, <1>16, <1>18

\* A partition of a queue: the positions K and the others, L.
Parts(q, kd, ks, K, L) ==
  /\ Select(q, K) \in Seq(Entry) /\ Select(q, L) \in Seq(Entry)
  /\ Named(Select(q, K), kd, ks) /\ Sorted(Select(q, K)) /\ Distinct(Select(q, K))
  /\ Named(Select(q, L), kd, ks) /\ Sorted(Select(q, L))
  /\ IdsOf(Select(q, K)) \subseteq IdsOf(q)
  /\ IdsOf(Select(q, L)) = IdsOf(q) \ IdsOf(Select(q, K))
  /\ \A k \in 1 .. Len(Select(q, K)) : \E n \in K : Select(q, K)[k] = q[n]
  /\ \A k \in 1 .. Len(Select(q, L)) : \E n \in L : Select(q, L)[k] = q[n]

LEMMA PartLemma ==
    ASSUME NEW q \in Seq(Entry), Sorted(q), NEW kd, NEW ks, Named(q, kd, ks),
           NEW K \in SUBSET (1 .. Len(q)), NEW L, L = (1 .. Len(q)) \ K
    PROVE  Parts(q, kd, ks, K, L)
  <1>1. Distinct(q)
    BY SortedLemma
  <1>2. L \in SUBSET (1 .. Len(q))
    OBVIOUS
  <1>3. /\ Select(q, K) \in Seq(Entry)
        /\ Named(Select(q, K), kd, ks) /\ Sorted(Select(q, K)) /\ Distinct(Select(q, K))
        /\ IdsOf(Select(q, K)) = {q[n].id : n \in K}
        /\ \A k \in 1 .. Len(Select(q, K)) : \E n \in K : Select(q, K)[k] = q[n]
    BY <1>1, SelectKeeps
  <1>4. /\ Select(q, L) \in Seq(Entry)
        /\ Named(Select(q, L), kd, ks) /\ Sorted(Select(q, L))
        /\ IdsOf(Select(q, L)) = {q[n].id : n \in L}
        /\ \A k \in 1 .. Len(Select(q, L)) : \E n \in L : Select(q, L)[k] = q[n]
    BY <1>2, SelectKeeps
  <1>5. IdsOf(q) = {q[n].id : n \in 1 .. Len(q)}
    BY IdsLemma
  <1>6. {q[n].id : n \in L} = {q[n].id : n \in 1 .. Len(q)} \ {q[n].id : n \in K}
    BY <1>1 DEF Distinct
  <1>7. {q[n].id : n \in K} \subseteq {q[n].id : n \in 1 .. Len(q)}
    OBVIOUS
  <1> QED  BY <1>3, <1>4, <1>5, <1>6, <1>7 DEF Parts

LEMMA PhaseLemma ==
    ASSUME TypeOK, NEW p \in 1 .. Len(Phases)
    PROVE  /\ Phases[p] \in {"promise", "callback", "interval"}
           /\ PhaseQueue(Phases[p]) \in Seq(Entry)
           /\ Phases[p] = "promise" => PhaseQueue(Phases[p]) = promiseQ
           /\ Phases[p] = "callback" => PhaseQueue(Phases[p]) = callbackQ
           /\ Phases[p] = "interval" => PhaseQueue(Phases[p]) = intervalQ
  <1>1. Phases[p] \in {"promise", "callback", "interval"}
    BY DEF Phases
  <1>2. promiseQ \in Seq(Entry) /\ callbackQ \in Seq(Entry) /\ intervalQ \in Seq(Entry)
    BY DEF TypeOK
  <1>3. ASSUME NEW x, x \in {"promise", "callback", "interval"}
        PROVE  /\ PhaseQueue(x) \in Seq(Entry)
               /\ x = "promise" => PhaseQueue(x) = promiseQ
               /\ x = "callback" => PhaseQueue(x) = callbackQ
               /\ x = "interval" => PhaseQueue(x) = intervalQ
    BY <1>2, <1>3 DEF PhaseQueue
  <1> QED  BY <1>1, <1>3

\* What a drain does, for the proofs about it: the positions K expired.
DrainFacts(t, f, q, K, L, b) ==
  /\ stack[t] # <<>> /\ f = Top(t) /\ f \in Frame /\ f.pc = "drain" /\ f.batch = <<>>
  /\ q \in Seq(Entry) /\ q = PhaseQueue(Phases[f.phase])
  /\ K = {n \in 1 .. Len(q) : Expired(t, f, q[n])} /\ L = (1 .. Len(q)) \ K
  /\ b = IF Phases[f.phase] = "interval" THEN Select(q, K) ELSE OrderBatch(Select(q, K))
  /\ SetTop(t, [f EXCEPT !.pc = "fire", !.batch = b])
  /\ promiseQ' = IF Phases[f.phase] = "promise" THEN Select(q, L) ELSE promiseQ
  /\ callbackQ' = IF Phases[f.phase] = "callback" THEN Select(q, L) ELSE callbackQ
  /\ intervalQ' = IF Phases[f.phase] = "interval" THEN Rearm(t, f, q) ELSE intervalQ

LEMMA DrainLemma ==
    ASSUME TypeOK, FrameInv, NEW t \in Threads, Drain(t)
    PROVE  \E f, q, K, L, b : DrainFacts(t, f, q, K, L, b)
  <1>1. PICK f : f = Top(t)
    OBVIOUS
  <1>2. stack[t] # <<>> /\ f.pc = "drain" /\ f \in Frame
    BY <1>1, TopLemma DEF Drain
  <1>3. f.batch = <<>>
    <2>1. Len(stack[t]) \in 1 .. Len(stack[t]) /\ f = stack[t][Len(stack[t])]
      BY <1>1, <1>2, TopLemma
    <2> QED  BY <1>2, <2>1 DEF FrameInv
  <1>4. f.phase \in 1 .. Len(Phases)
    BY <1>2 DEF Frame
  <1>5. PICK q \in Seq(Entry) : q = PhaseQueue(Phases[f.phase])
    BY <1>4, PhaseLemma
  <1>6. DOMAIN q = 1 .. Len(q)
    OBVIOUS
  <1>7. PICK K, L : K = {n \in 1 .. Len(q) : Expired(t, f, q[n])} /\ L = (1 .. Len(q)) \ K
    OBVIOUS
  <1>8. {n \in DOMAIN q : Expired(t, f, q[n])} = K /\ {n \in DOMAIN q : ~Expired(t, f, q[n])} = L
    BY <1>6, <1>7
  <1>9. DrainExpired(t, f, q) = [batch |-> Select(q, K), rest |-> Select(q, L)]
    BY <1>8 DEF DrainExpired, Without
  <1>10. PICK b : b = IF Phases[f.phase] = "interval" THEN Select(q, K) ELSE OrderBatch(Select(q, K))
    OBVIOUS
  <1>11. DrainExpired(t, f, q).batch = Select(q, K) /\ DrainExpired(t, f, q).rest = Select(q, L)
    BY <1>9
  <1>12. /\ SetTop(t, [f EXCEPT !.pc = "fire", !.batch = b])
         /\ promiseQ' = IF Phases[f.phase] = "promise" THEN Select(q, L) ELSE promiseQ
         /\ callbackQ' = IF Phases[f.phase] = "callback" THEN Select(q, L) ELSE callbackQ
         /\ intervalQ' = IF Phases[f.phase] = "interval" THEN Rearm(t, f, intervalQ) ELSE intervalQ
    BY <1>1, <1>5, <1>10, <1>11 DEF Drain
  <1>13. intervalQ' = IF Phases[f.phase] = "interval" THEN Rearm(t, f, q) ELSE intervalQ
    BY <1>4, <1>5, <1>12, PhaseLemma
  <1> QED  BY <1>1, <1>2, <1>3, <1>5, <1>7, <1>10, <1>12, <1>13 DEF DrainFacts

LEMMA RearmLemma ==
    ASSUME TypeOK, NEW t \in Threads, NEW f \in Frame, NEW q \in Seq(Entry)
    PROVE  /\ Rearm(t, f, q) \in Seq(Entry) /\ Len(Rearm(t, f, q)) = Len(q)
           /\ \A n \in 1 .. Len(q) : /\ Rearm(t, f, q)[n].id = q[n].id
                                     /\ Rearm(t, f, q)[n].kind = q[n].kind
                                     /\ Rearm(t, f, q)[n].owner = q[n].owner
  <1> DEFINE e(n) == IF Expired(t, f, q[n]) THEN [q[n] EXCEPT !.deadline = f.at + q[n].delay] ELSE q[n]
  <1>1. Rearm(t, f, q) = [n \in 1 .. Len(q) |-> e(n)] /\ Len(q) \in Nat
    BY DEF Rearm
  <1>2. f.at \in Nat
    BY DEF Frame
  <1>3. ASSUME NEW n \in 1 .. Len(q)
        PROVE  e(n) \in Entry /\ e(n).id = q[n].id /\ e(n).kind = q[n].kind /\ e(n).owner = q[n].owner
    <2>1. q[n] \in Entry
      OBVIOUS
    <2>2. PICK x : x = [q[n] EXCEPT !.deadline = f.at + q[n].delay]
      OBVIOUS
    <2>3. q[n].delay \in Nat
      BY <2>1 DEF Entry
    <2>4. f.at + q[n].delay \in Nat
      BY <1>2, <2>3
    <2>5. x \in Entry /\ x.id = q[n].id /\ x.kind = q[n].kind /\ x.owner = q[n].owner
      BY <2>1, <2>2, <2>4 DEF Entry
    <2>6. e(n) = x \/ e(n) = q[n]
      BY <2>2
    <2> HIDE DEF e
    <2> QED  BY <2>1, <2>5, <2>6
  <1> HIDE DEF e
  <1>4. Rearm(t, f, q) \in Seq(Entry) /\ Len(Rearm(t, f, q)) = Len(q)
    BY <1>1, <1>3
  <1> QED  BY <1>1, <1>3, <1>4

\* A drain keeps the invariant.
LEMMA DrainStep ==
    ASSUME TimersInv, NEW t \in Threads, Drain(t)
    PROVE  TimersInv'
  <1> USE DEF TimersInv
  <1>1. PICK f, q, K, L, b : DrainFacts(t, f, q, K, L, b)
    BY DrainLemma
  <1>2. /\ stack[t] # <<>> /\ f = Top(t) /\ f \in Frame /\ f.batch = <<>>
        /\ q \in Seq(Entry) /\ q = PhaseQueue(Phases[f.phase])
        /\ K \in SUBSET (1 .. Len(q)) /\ L = (1 .. Len(q)) \ K
        /\ SetTop(t, [f EXCEPT !.pc = "fire", !.batch = b])
    BY <1>1 DEF DrainFacts
  <1>3. /\ promiseQ' = IF Phases[f.phase] = "promise" THEN Select(q, L) ELSE promiseQ
        /\ callbackQ' = IF Phases[f.phase] = "callback" THEN Select(q, L) ELSE callbackQ
        /\ intervalQ' = IF Phases[f.phase] = "interval" THEN Rearm(t, f, q) ELSE intervalQ
        /\ b = IF Phases[f.phase] = "interval" THEN Select(q, K) ELSE OrderBatch(Select(q, K))
    BY <1>1 DEF DrainFacts
  <1>4. now' = now /\ kind' = kind /\ states' = states /\ order' = order /\ live' = live
        /\ fires' = fires /\ gone' = gone /\ wish' = wish
    BY DEF Drain, refs, history
  <1>5. /\ Phases[f.phase] \in {"promise", "callback", "interval"}
        /\ Phases[f.phase] = "promise" => q = promiseQ
        /\ Phases[f.phase] = "callback" => q = callbackQ
        /\ Phases[f.phase] = "interval" => q = intervalQ
    BY <1>2, PhaseLemma DEF Frame
  <1>6. PICK ks : ks = CASE Phases[f.phase] = "promise" -> {"promise"}
                         [] Phases[f.phase] = "callback" -> {"timeout", "immediate"}
                         [] Phases[f.phase] = "interval" -> {"interval"}
    OBVIOUS
  <1>7. Named(q, kind, ks) /\ Sorted(q) /\ ks \subseteq Kinds
    BY <1>5, <1>6 DEF QueueInv, Kinds
  <1>8. /\ Select(q, K) \in Seq(Entry) /\ Select(q, L) \in Seq(Entry)
        /\ Named(Select(q, K), kind, ks) /\ Sorted(Select(q, K)) /\ Distinct(Select(q, K))
        /\ Named(Select(q, L), kind, ks) /\ Sorted(Select(q, L))
        /\ IdsOf(Select(q, K)) \subseteq IdsOf(q)
        /\ IdsOf(Select(q, L)) = IdsOf(q) \ IdsOf(Select(q, K))
        /\ \A k \in 1 .. Len(Select(q, K)) : \E n \in K : Select(q, K)[k] = q[n]
        /\ \A k \in 1 .. Len(Select(q, L)) : \E n \in L : Select(q, L)[k] = q[n]
    <2>1. q \in Seq(Entry) /\ K \in SUBSET (1 .. Len(q)) /\ L = (1 .. Len(q)) \ K
      BY <1>2
    <2>2. Parts(q, kind, ks, K, L)
      BY <1>7, <2>1, PartLemma
    <2> QED  BY <2>2 DEF Parts
  <1>9. /\ b \in Seq(Entry) /\ IdsOf(b) = IdsOf(Select(q, K))
        /\ Named(b, kind, ks) /\ Distinct(b)
        /\ \A k \in 1 .. Len(b) : \E n \in K : b[k] = q[n]
    <2>1. CASE Phases[f.phase] = "interval"
      BY <1>3, <1>8, <2>1
    <2>2. CASE Phases[f.phase] # "interval"
      <3>1. PICK s \in Seq(Entry) : s = Select(q, K)
        BY <1>8
      <3>2. /\ OrderBatch(s) \in Seq(Entry) /\ IdsOf(OrderBatch(s)) = IdsOf(s)
            /\ \A k \in 1 .. Len(OrderBatch(s)) : \E n \in 1 .. Len(s) : OrderBatch(s)[k] = s[n]
            /\ Named(OrderBatch(s), kind, ks) /\ Distinct(OrderBatch(s))
        BY <1>8, <3>1, OrderKeeps
      <3> QED  BY <1>3, <1>8, <2>2, <3>1, <3>2
    <2> QED  BY <2>1, <2>2
  <1>10. PICK g \in Frame : g = [f EXCEPT !.pc = "fire", !.batch = b] /\ g.pc = "fire" /\ g.batch = b
    <2>1. PICK g : g = [f EXCEPT !.pc = "fire", !.batch = b]
      OBVIOUS
    <2>2. g \in Frame /\ g.pc = "fire" /\ g.batch = b
      BY <1>2, <1>9, <2>1 DEF Frame
    <2> QED  BY <2>1, <2>2
  <1>11. PICK d : d = Len(stack[t])
    OBVIOUS
  <1>12. FrameInv' /\ d \in Depths /\ Batch(t, d) = <<>> /\ NewBatch(t, d, b) /\ t \in Pumps
    <2>1. SetTop(t, g) /\ (g.pc \in {"start", "drain"} => g.batch = <<>>)
      BY <1>2, <1>10
    <2>2. /\ FrameInv' /\ t \in Pumps /\ d \in Depths /\ Batch(t, d) = Top(t).batch
          /\ \A u \in Threads, m \in Depths : Batch(u, m)' = IF u = t /\ m = d THEN g.batch ELSE Batch(u, m)
      BY <1>2, <1>11, <2>1, SetTopFrames
    <2> QED  BY <1>2, <1>10, <2>2 DEF NewBatch
  <1>13. stack' \in [Threads -> Seq(Frame)]
    BY <1>2, <1>10, SetTopLemma
  <1>14. promiseQ \in Seq(Entry) /\ callbackQ \in Seq(Entry) /\ intervalQ \in Seq(Entry)
    BY DEF TypeOK
  <1>14a. \A u \in Threads, m \in Depths : Owned(Batch(u, m)', {CurrentAgent(u)})
    <2>1. \A n \in K : q[n].owner = CurrentAgent(t)
      BY <1>1 DEF DrainFacts, Expired
    <2>2. Owned(b, {CurrentAgent(t)})
      BY <1>9, <2>1 DEF Owned
    <2>3. \A u \in Threads, m \in Depths : Owned(Batch(u, m), {CurrentAgent(u)})
      BY DEF HeapInv
    <2>4. \A u \in Threads, m \in Depths : Batch(u, m)' = IF u = t /\ m = d THEN b ELSE Batch(u, m)
      BY <1>12 DEF NewBatch
    <2> QED  BY <2>2, <2>3, <2>4
  <1>15. CASE Phases[f.phase] = "interval"
    <2>1. /\ intervalQ' \in Seq(Entry) /\ Len(intervalQ') = Len(intervalQ)
          /\ \A n \in 1 .. Len(intervalQ) : /\ intervalQ'[n].id = intervalQ[n].id
                                            /\ intervalQ'[n].kind = intervalQ[n].kind
                                            /\ intervalQ'[n].owner = intervalQ[n].owner
      BY <1>2, <1>3, <1>5, <1>15, RearmLemma
    <2>2. promiseQ' = promiseQ /\ callbackQ' = callbackQ /\ ks = {"interval"} /\ q = intervalQ
      BY <1>3, <1>5, <1>6, <1>15
    <2>3. TypeOK'
      BY <1>4, <1>13, <1>14, <2>1, <2>2 DEF TypeOK
    <2>4. IdsOf(intervalQ') = IdsOf(intervalQ) /\ Named(intervalQ', kind, {"interval"}) /\ Sorted(intervalQ')
      BY <1>14, <2>1, SameKeeps DEF QueueInv
    <2>5. \A i \in IdsOf(b) : kind[i] = "interval"
      BY <1>8, <1>9, <2>2, KindLemma
    <2>6. Queued' = Queued
      BY <2>2, <2>4 DEF Queued
    <2>7. Named(b, kind, Kinds)
      BY <1>7, <1>9 DEF Named
    <2>8. QueueInv' /\ BatchInv' /\ FireInv'
      <3>1. Named(promiseQ', kind, {"promise"}) /\ Sorted(promiseQ')
            /\ Named(callbackQ', kind, {"timeout", "immediate"}) /\ Sorted(callbackQ')
        BY <2>2 DEF QueueInv
      <3>2. \A i : kind[i] \in OneShot => (i \in Queued' <=> i \in Queued /\ i \notin IdsOf(b))
        BY <2>5, <2>6 DEF OneShot
      <3>3. \A i \in IdsOf(b) : kind[i] \in OneShot => i \in Queued
        BY <2>5 DEF OneShot
      <3> QED  BY <1>4, <1>9, <1>12, <2>4, <2>7, <3>1, <3>2, <3>3, MoveKeeps
    <2>9. \A p \in {promiseQ', callbackQ', intervalQ'} : Owned(p, live \cup {Primary})
      <3>1. Owned(promiseQ, live \cup {Primary}) /\ Owned(callbackQ, live \cup {Primary})
            /\ Owned(intervalQ, live \cup {Primary})
        BY DEF HeapInv
      <3>2. Owned(intervalQ', live \cup {Primary})
        BY <2>1, <3>1 DEF Owned
      <3> QED  BY <2>2, <3>1, <3>2
    <2> QED  BY <1>4, <1>12, <1>14a, <2>3, <2>8, <2>9 DEF HeapInv
  <1>16. ASSUME Phases[f.phase] # "interval"
         PROVE  /\ intervalQ' = intervalQ /\ ks \subseteq OneShot
                /\ \A i \in IdsOf(b) : kind[i] \in OneShot
                /\ \A k \in 1 .. Len(Select(q, L)) : Select(q, L)[k].owner \in live \cup {Primary}
                /\ Named(b, kind, Kinds)
    <2>1. intervalQ' = intervalQ /\ ks \subseteq OneShot
      BY <1>3, <1>5, <1>6, <1>16 DEF OneShot, Kinds
    <2>2. IdsOf(b) = {b[n].id : n \in 1 .. Len(b)}
      BY <1>9, IdsLemma
    <2>3. \A i \in IdsOf(b) : kind[i] \in OneShot
      BY <1>9, <2>1, <2>2 DEF Named
    <2>4. \A n \in 1 .. Len(q) : q[n].owner \in live \cup {Primary}
      <3>1. q \in {promiseQ, callbackQ, intervalQ}
        BY <1>5
      <3> QED  BY <3>1 DEF HeapInv, Owned
    <2>5. \A k \in 1 .. Len(Select(q, L)) : Select(q, L)[k].owner \in live \cup {Primary}
      <3>1. \A n \in L : q[n].owner \in live \cup {Primary}
        BY <1>2, <2>4
      <3> QED  BY <1>8, <3>1
    <2>6. Named(b, kind, Kinds)
      BY <1>7, <1>9 DEF Named
    <2> QED  BY <2>1, <2>3, <2>5, <2>6
  <1>17. Owned(promiseQ, live \cup {Primary}) /\ Owned(callbackQ, live \cup {Primary})
         /\ Owned(intervalQ, live \cup {Primary})
    BY DEF HeapInv
  <1>18. CASE Phases[f.phase] = "promise"
    <2>1. promiseQ' = Select(promiseQ, L) /\ callbackQ' = callbackQ /\ ks = {"promise"} /\ q = promiseQ
      BY <1>3, <1>5, <1>6, <1>18
    <2>2. TypeOK'
      BY <1>4, <1>8, <1>13, <1>14, <1>16, <1>18, <2>1 DEF TypeOK
    <2>3. IdsOf(b) \subseteq IdsOf(promiseQ) /\ IdsOf(promiseQ') = IdsOf(promiseQ) \ IdsOf(b)
      BY <1>8, <1>9, <2>1
    <2>4. \A i \in IdsOf(b) : kind[i] = "promise" /\ i \notin IdsOf(callbackQ) /\ i \notin IdsOf(intervalQ)
      BY <2>3, KindLemma
    <2>5. Queued' = Queued \ IdsOf(b) /\ IdsOf(b) \subseteq Queued
      BY <1>16, <1>18, <2>1, <2>3, <2>4 DEF Queued
    <2>6. QueueInv' /\ BatchInv' /\ FireInv'
      <3>1. Named(promiseQ', kind, {"promise"}) /\ Sorted(promiseQ')
            /\ Named(callbackQ', kind, {"timeout", "immediate"}) /\ Sorted(callbackQ')
            /\ Named(intervalQ', kind, {"interval"}) /\ Sorted(intervalQ')
        BY <1>8, <1>16, <1>18, <2>1 DEF QueueInv
      <3> QED  BY <1>4, <1>9, <1>12, <1>16, <1>18, <2>5, <3>1, MoveKeeps
    <2>7. \A p \in {promiseQ', callbackQ', intervalQ'} : Owned(p, live \cup {Primary})
      BY <1>16, <1>17, <1>18, <2>1 DEF Owned
    <2> QED  BY <1>4, <1>12, <1>14a, <2>2, <2>6, <2>7 DEF HeapInv
  <1>19. CASE Phases[f.phase] = "callback"
    <2>1. callbackQ' = Select(callbackQ, L) /\ promiseQ' = promiseQ /\ ks = {"timeout", "immediate"} /\ q = callbackQ
      BY <1>3, <1>5, <1>6, <1>19
    <2>2. TypeOK'
      BY <1>4, <1>8, <1>13, <1>14, <1>16, <1>19, <2>1 DEF TypeOK
    <2>3. IdsOf(b) \subseteq IdsOf(callbackQ) /\ IdsOf(callbackQ') = IdsOf(callbackQ) \ IdsOf(b)
      BY <1>8, <1>9, <2>1
    <2>4. \A i \in IdsOf(b) : kind[i] \in {"timeout", "immediate"} /\ i \notin IdsOf(promiseQ) /\ i \notin IdsOf(intervalQ)
      BY <2>3, KindLemma
    <2>5. Queued' = Queued \ IdsOf(b) /\ IdsOf(b) \subseteq Queued
      BY <1>16, <1>19, <2>1, <2>3, <2>4 DEF Queued
    <2>6. QueueInv' /\ BatchInv' /\ FireInv'
      <3>1. Named(promiseQ', kind, {"promise"}) /\ Sorted(promiseQ')
            /\ Named(callbackQ', kind, {"timeout", "immediate"}) /\ Sorted(callbackQ')
            /\ Named(intervalQ', kind, {"interval"}) /\ Sorted(intervalQ')
        BY <1>8, <1>16, <1>19, <2>1 DEF QueueInv
      <3> QED  BY <1>4, <1>9, <1>12, <1>16, <1>19, <2>5, <3>1, MoveKeeps
    <2>7. \A p \in {promiseQ', callbackQ', intervalQ'} : Owned(p, live \cup {Primary})
      BY <1>16, <1>17, <1>19, <2>1 DEF Owned
    <2> QED  BY <1>4, <1>12, <1>14a, <2>2, <2>6, <2>7 DEF HeapInv
  <1> QED  BY <1>5, <1>15, <1>18, <1>19

\* Firing an entry keeps the invariant.
LEMMA FireStep ==
    ASSUME TimersInv, NEW t \in Threads, Resolve(t) \/ Call(t)
    PROVE  TimersInv'
  <1> USE DEF TimersInv
  <1>1. /\ stack[t] # <<>> /\ Top(t).batch # <<>> /\ Fired(Head(Top(t).batch).id)
        /\ UNCHANGED <<now, promiseQ, callbackQ, intervalQ, kind, states, order, live, gone, wish>>
    BY DEF Resolve, Call, queues, refs
  <1>2. PICK d : d = Len(stack[t])
    OBVIOUS
  <1>3. PICK x, h, b : x = Top(t).batch /\ h = Head(Top(t).batch).id /\ b = Tail(Top(t).batch)
    OBVIOUS
  <1>4. Top(t) \in Frame /\ t \in Pumps
    BY <1>1, TopLemma DEF FrameInv
  <1>5. d \in Depths /\ Batch(t, d) = x
    <2>1. d \in 1 .. Len(stack[t]) /\ Top(t) = stack[t][d] /\ d \in Nat \ {0}
      BY <1>1, <1>2, TopLemma
    <2>2. d <= MaxDepth /\ MaxDepth \in Nat
      BY <1>2, TimersAssumption DEF FrameInv
    <2> QED  BY <1>3, <2>1, <2>2 DEF Batch, Depths
  <1>6. x \in Seq(Entry) /\ x # <<>> /\ Distinct(x) /\ Named(x, kind, Kinds)
    BY <1>1, <1>3, <1>5, BatchType DEF BatchInv
  <1>7. /\ b \in Seq(Entry) /\ h \in IdsOf(x) /\ IdsOf(x) \subseteq Ids
        /\ \A n \in 1 .. Len(b) : n + 1 \in 1 .. Len(x) /\ b[n] = x[n + 1]
    <2>1. /\ b \in Seq(Entry) /\ h \in IdsOf(x) /\ Len(b) = Len(x) - 1 /\ Len(x) \in Nat
          /\ \A n \in 1 .. Len(b) : b[n] = x[n + 1]
      BY <1>3, <1>6, TailKeeps
    <2> QED  BY <1>6, <2>1, IdsLemma
  <1>8. PICK f \in Frame : SetTop(t, f) /\ f.batch = b /\ f.pc \in {"fire", "js"}
    <2>1. CASE Resolve(t)
      <3>1. PICK f : f = [Top(t) EXCEPT !.batch = Tail(@)]
        OBVIOUS
      <3>2. f \in Frame /\ f.batch = b /\ f.pc = "fire"
        BY <1>3, <1>4, <1>7, <2>1, <3>1 DEF Frame, Resolve
      <3> QED  BY <2>1, <3>1, <3>2 DEF Resolve
    <2>2. CASE Call(t)
      <3>1. PICK f : f = [Top(t) EXCEPT !.pc = "js", !.on = Head(Top(t).batch).id, !.batch = Tail(@)]
        OBVIOUS
      <3>2. h \in Ids
        BY <1>7
      <3>3. f \in Frame /\ f.batch = b /\ f.pc = "js"
        BY <1>3, <1>4, <1>7, <3>1, <3>2 DEF Frame
      <3> QED  BY <2>2, <3>1, <3>3 DEF Call
    <2> QED  BY <2>1, <2>2
  <1>9. FrameInv' /\ NewBatch(t, d, b)
    BY <1>1, <1>2, <1>8, SetTopFrames DEF NewBatch
  <1>10. TypeOK'
    <2>1. stack' \in [Threads -> Seq(Frame)]
      BY <1>1, <1>8, SetTopLemma
    <2>2. fires' \in [Ids -> 0 .. 2]
      <3>1. fires \in [Ids -> 0 .. 2] /\ fires' = [fires EXCEPT ![h] = IF @ < 2 THEN @ + 1 ELSE @] /\ h \in Ids
        BY <1>1, <1>3, <1>7 DEF TypeOK, Fired
      <3>2. (IF fires[h] < 2 THEN fires[h] + 1 ELSE fires[h]) \in 0 .. 2
        BY <3>1
      <3> QED  BY <3>1, <3>2
    <2> QED  BY <1>1, <2>1, <2>2 DEF TypeOK
  <1>11. QueueInv' /\ BatchInv' /\ FireInv'
    <2>1. Batch(t, d) # <<>> /\ h = Head(Batch(t, d)).id /\ b = Tail(Batch(t, d)) /\ Fired(h)
      BY <1>1, <1>3, <1>5
    <2> QED  BY <1>1, <1>5, <1>9, <2>1, FireKeeps
  <1>12. HeapInv'
    <2>1. Owned(x, {CurrentAgent(t)})
      BY <1>5 DEF HeapInv
    <2>2. Owned(b, {CurrentAgent(t)})
      BY <1>7, <2>1 DEF Owned
    <2>3. \A u \in Threads, m \in Depths : Owned(Batch(u, m)', {CurrentAgent(u)})
      <3>1. \A u \in Threads, m \in Depths : Batch(u, m)' = IF u = t /\ m = d THEN b ELSE Batch(u, m)
        BY <1>9 DEF NewBatch
      <3> QED  BY <2>2, <3>1 DEF HeapInv
    <2> QED  BY <1>1, <2>3 DEF HeapInv
  <1> QED  BY <1>9, <1>10, <1>11, <1>12

LEMMA NoStackStep ==
    ASSUME FrameInv, stack' = stack
    PROVE  FrameInv' /\ SameBatches
  BY DEF FrameInv, SameBatches, Batch

\* Who may run JS: a thread of the primary agent, or a worker that has not ended.
LEMMA AgentLemma ==
    ASSUME NEW t \in Threads
    PROVE  CurrentAgent(t) \in Agents /\ (InJs(t) => CurrentAgent(t) \in live \cup {Primary})
  BY TimersAssumption DEF Threads, CurrentAgent, Agents, InJs

\* Creating a timer keeps the invariant.
LEMMA ScheduleStep ==
    ASSUME TimersInv, NEW t \in Threads, NEW k \in Kinds, NEW d \in Delays,
           NEW b \in BOOLEAN, Schedule(t, k, d, b)
    PROVE  TimersInv'
  <1> USE DEF TimersInv
  <1>1. PICK c \in 0 .. MaxTimers : Created = 1 .. c
    BY DEF QueueInv
  <1>2. MaxTimers \in Nat /\ c \in Nat /\ d \in Nat
    BY <1>1, TimersAssumption
  <1>3. Cardinality(Created) = c
    BY <1>1, <1>2, FS_Interval
  <1>4. PICK i : i = Cardinality(Created) + 1
    OBVIOUS
  <1>5. i \in Ids /\ i = c + 1
    <2>1. Created # Ids
      BY DEF Schedule
    <2>2. c # MaxTimers
      BY <1>1, <2>1 DEF Ids
    <2> QED  BY <1>1, <1>2, <1>3, <1>4, <2>2 DEF Ids
  <1>6. PICK e : e = [id |-> i, kind |-> k, deadline |-> now + d, delay |-> d,
                      owner |-> CurrentAgent(t), ref |-> b]
    OBVIOUS
  <1>7. e \in Entry /\ e.id = i /\ e.kind = k /\ e.owner = CurrentAgent(t)
    <2>1. now + d \in Nat /\ CurrentAgent(t) \in Agents
      BY <1>2, AgentLemma DEF TypeOK
    <2> QED  BY <1>2, <1>5, <1>6, <2>1 DEF Entry
  <1>8. /\ kind' = [kind EXCEPT ![i] = k]
        /\ promiseQ' = IF k = "promise" THEN Append(promiseQ, e) ELSE promiseQ
        /\ intervalQ' = IF k = "interval" THEN Append(intervalQ, e) ELSE intervalQ
        /\ callbackQ' = IF k \in {"timeout", "immediate"} THEN Append(callbackQ, e) ELSE callbackQ
        /\ IF k = "promise" THEN states' = states /\ order' = order ELSE SetRef(i, TRUE)
        /\ now' = now /\ stack' = stack /\ live' = live /\ fires' = fires /\ gone' = gone
        /\ wish' = [wish EXCEPT ![i] = b]
    BY <1>4, <1>6 DEF Schedule, refs
  <1>9. FrameInv' /\ SameBatches
    BY <1>8, NoStackStep
  <1>10. QueueInv' /\ BatchInv' /\ FireInv'
    BY <1>1, <1>5, <1>7, <1>8, <1>9, CreateKeeps
  <1>11. TypeOK'
    <2>1. promiseQ \in Seq(Entry) /\ callbackQ \in Seq(Entry) /\ intervalQ \in Seq(Entry)
      BY DEF TypeOK
    <2>2. promiseQ' \in Seq(Entry) /\ callbackQ' \in Seq(Entry) /\ intervalQ' \in Seq(Entry)
      BY <1>7, <1>8, <2>1
    <2>3. order' \in Seq(Ids) /\ states' \in [Range(order') -> BOOLEAN] /\ Len(order') <= Cap
      <3>1. CASE k = "promise"
        BY <1>8, <3>1 DEF TypeOK
      <3>2. CASE k # "promise"
        BY <1>5, <1>8, <3>2, SetRefType
      <3> QED  BY <3>1, <3>2
    <2>4. kind' \in [Ids -> Kinds \cup {None}] /\ wish' \in [Ids -> BOOLEAN]
      BY <1>8 DEF TypeOK
    <2> QED  BY <1>8, <2>2, <2>3, <2>4 DEF TypeOK
  <1>12. HeapInv'
    <2>1. e.owner \in live \cup {Primary}
      BY <1>7, AgentLemma DEF Schedule
    <2>2. ASSUME NEW q \in Seq(Entry), Owned(q, live \cup {Primary})
          PROVE  Owned(Append(q, e), live \cup {Primary})
      BY <1>7, <2>1, <2>2 DEF Owned
    <2>3. promiseQ \in Seq(Entry) /\ callbackQ \in Seq(Entry) /\ intervalQ \in Seq(Entry)
      BY DEF TypeOK
    <2>4. Owned(promiseQ, live \cup {Primary}) /\ Owned(callbackQ, live \cup {Primary})
          /\ Owned(intervalQ, live \cup {Primary})
      BY DEF HeapInv
    <2>5. Owned(promiseQ', live \cup {Primary}) /\ Owned(callbackQ', live \cup {Primary})
          /\ Owned(intervalQ', live \cup {Primary})
      BY <1>8, <2>2, <2>3, <2>4
    <2>6. \A u \in Threads, m \in Depths : Owned(Batch(u, m)', {CurrentAgent(u)})
      BY <1>9 DEF HeapInv, SameBatches
    <2> QED  BY <1>8, <2>5, <2>6 DEF HeapInv
  <1> QED  BY <1>9, <1>10, <1>11, <1>12

\* Without: r is what stays of q when the positions K go.
Kept(q, r, K, kd, ks, A) ==
  /\ r \in Seq(Entry) /\ Sorted(r) /\ Named(r, kd, ks) /\ Owned(r, A)
  /\ \A n \in 1 .. Len(r) : \E m \in (1 .. Len(q)) \ K : r[n] = q[m]
  /\ IdsOf(r) = IdsOf(q) \ {q[n].id : n \in K}

LEMMA WithoutLemma ==
    ASSUME NEW q \in Seq(Entry), Sorted(q), NEW kd, NEW ks, Named(q, kd, ks), NEW A, Owned(q, A),
           NEW K \in SUBSET (1 .. Len(q))
    PROVE  Kept(q, Select(q, (1 .. Len(q)) \ K), K, kd, ks, A)
  <1>1. PICK L : L = (1 .. Len(q)) \ K
    OBVIOUS
  <1>2. Parts(q, kd, ks, K, L)
    BY <1>1, PartLemma
  <1>3. Parts(q, kd, ks, L, K)
    <2>1. L \in SUBSET (1 .. Len(q)) /\ K = (1 .. Len(q)) \ L
      BY <1>1
    <2> QED  BY <2>1, PartLemma
  <1>4. IdsOf(Select(q, K)) = {q[n].id : n \in K}
    BY SelectKeeps
  <1>5. \A m \in L : q[m].owner \in A
    BY <1>1 DEF Owned
  <1> QED  BY <1>1, <1>2, <1>4, <1>5 DEF Parts, Owned, Kept

\* Clearing a timer keeps the invariant.
LEMMA ClearStep ==
    ASSUME TimersInv, NEW t \in Threads, NEW i \in Ids, Clear(t, i)
    PROVE  TimersInv'
  <1> USE DEF TimersInv
  <1>1. promiseQ \in Seq(Entry) /\ callbackQ \in Seq(Entry) /\ intervalQ \in Seq(Entry)
    BY DEF TypeOK
  <1>2. PICK A : A = live \cup {Primary}
    OBVIOUS
  <1>3. Owned(promiseQ, A) /\ Owned(callbackQ, A) /\ Owned(intervalQ, A)
    BY <1>2 DEF HeapInv
  <1>4. ASSUME NEW q \in Seq(Entry), NEW ks, Sorted(q), Named(q, kind, ks), Owned(q, A),
               NEW r, r = Without(q, LAMBDA e : e.id = i)
        PROVE  r \in Seq(Entry) /\ Sorted(r) /\ Named(r, kind, ks) /\ Owned(r, A) /\ IdsOf(r) = IdsOf(q) \ {i}
    <2>1. PICK K : K = {n \in 1 .. Len(q) : q[n].id = i}
      OBVIOUS
    <2>2. K \in SUBSET (1 .. Len(q)) /\ {n \in DOMAIN q : ~(q[n].id = i)} = (1 .. Len(q)) \ K
      BY <2>1
    <2>3. r = Select(q, (1 .. Len(q)) \ K)
      BY <1>4, <2>2 DEF Without
    <2>4. /\ r \in Seq(Entry) /\ Sorted(r) /\ Named(r, kind, ks) /\ Owned(r, A)
          /\ IdsOf(r) = IdsOf(q) \ {q[n].id : n \in K}
      <3>1. Kept(q, r, K, kind, ks, A)
        BY <1>4, <2>2, <2>3, WithoutLemma
      <3> QED  BY <3>1 DEF Kept
    <2>5. IdsOf(q) = {q[n].id : n \in 1 .. Len(q)}
      BY IdsLemma
    <2>6. IdsOf(q) \ {q[n].id : n \in K} = IdsOf(q) \ {i}
      <3>1. \A n \in K : q[n].id = i
        BY <2>1
      <3>2. i \in IdsOf(q) => \E n \in K : q[n].id = i
        BY <2>1, <2>5
      <3> QED  BY <3>1, <3>2
    <2> QED  BY <2>4, <2>6
  <1>5. /\ i \in Created /\ kind[i] # "promise"
        /\ callbackQ' = Without(callbackQ, LAMBDA e : e.id = i)
        /\ intervalQ' = Without(intervalQ, LAMBDA e : e.id = i)
        /\ gone' = gone \cup {i}
        /\ UNCHANGED <<now, promiseQ, kind, states, order, stack, live, fires, wish>>
    BY DEF Clear, refs
  <1>6. /\ callbackQ' \in Seq(Entry) /\ Sorted(callbackQ') /\ Named(callbackQ', kind, {"timeout", "immediate"})
        /\ Owned(callbackQ', A) /\ IdsOf(callbackQ') = IdsOf(callbackQ) \ {i}
    BY <1>1, <1>3, <1>4, <1>5 DEF QueueInv
  <1>7. /\ intervalQ' \in Seq(Entry) /\ Sorted(intervalQ') /\ Named(intervalQ', kind, {"interval"})
        /\ Owned(intervalQ', A) /\ IdsOf(intervalQ') = IdsOf(intervalQ) \ {i}
    BY <1>1, <1>3, <1>4, <1>5 DEF QueueInv
  <1>8. FrameInv' /\ SameBatches
    BY <1>5, NoStackStep
  <1>9. QueueInv' /\ BatchInv' /\ FireInv'
    <2>1. i \notin IdsOf(promiseQ)
      BY <1>5, KindLemma
    <2>2. Queued' \subseteq Queued /\ Queued \ Queued' \subseteq gone'
      BY <1>5, <1>6, <1>7, <2>1 DEF Queued
    <2>3. IdsOf(intervalQ) \ IdsOf(intervalQ') \subseteq gone' /\ gone \subseteq gone'
      BY <1>5, <1>7
    <2>4. Named(promiseQ', kind, {"promise"}) /\ Sorted(promiseQ')
      BY <1>5 DEF QueueInv
    <2> QED  BY <1>5, <1>6, <1>7, <1>8, <2>2, <2>3, <2>4, DropKeeps
  <1>10. TypeOK'
    BY <1>5, <1>6, <1>7 DEF TypeOK
  <1>11. HeapInv'
    <2>1. \A u \in Threads, m \in Depths : Owned(Batch(u, m)', {CurrentAgent(u)})
      BY <1>8 DEF HeapInv, SameBatches
    <2> QED  BY <1>2, <1>3, <1>5, <1>6, <1>7, <2>1 DEF HeapInv
  <1> QED  BY <1>8, <1>9, <1>10, <1>11

\* The end of a worker keeps the invariant: what it scheduled goes, and its heap.
LEMMA RetireStep ==
    ASSUME TimersInv, NEW t \in Threads, RetireAgent(t)
    PROVE  TimersInv'
  <1> USE DEF TimersInv
  <1>1. promiseQ \in Seq(Entry) /\ callbackQ \in Seq(Entry) /\ intervalQ \in Seq(Entry)
    BY DEF TypeOK
  <1>2. PICK A : A = live \cup {Primary}
    OBVIOUS
  <1>3. Owned(promiseQ, A) /\ Owned(callbackQ, A) /\ Owned(intervalQ, A)
    BY <1>2 DEF HeapInv
  <1>4. ASSUME NEW q \in Seq(Entry), NEW ks, Sorted(q), Named(q, kind, ks), Owned(q, A),
               NEW r, r = Without(q, LAMBDA e : e.owner = t)
        PROVE  /\ r \in Seq(Entry) /\ Sorted(r) /\ Named(r, kind, ks) /\ Owned(r, A \ {t})
               /\ IdsOf(r) = IdsOf(q) \ OwnIds(q, t)
    <2>1. PICK K : K = {n \in 1 .. Len(q) : q[n].owner = t}
      OBVIOUS
    <2>2. /\ K \in SUBSET (1 .. Len(q)) /\ {n \in DOMAIN q : ~(q[n].owner = t)} = (1 .. Len(q)) \ K
          /\ {m \in DOMAIN q : q[m].owner = t} = K
      BY <2>1
    <2>3. r = Select(q, (1 .. Len(q)) \ K) /\ OwnIds(q, t) = {q[n].id : n \in K}
      BY <1>4, <2>2 DEF Without, OwnIds
    <2>4. /\ r \in Seq(Entry) /\ Sorted(r) /\ Named(r, kind, ks) /\ Owned(r, A)
          /\ \A n \in 1 .. Len(r) : \E m \in (1 .. Len(q)) \ K : r[n] = q[m]
          /\ IdsOf(r) = IdsOf(q) \ {q[n].id : n \in K}
      <3>1. Kept(q, r, K, kind, ks, A)
        BY <1>4, <2>2, <2>3, WithoutLemma
      <3> QED  BY <3>1 DEF Kept
    <2>5. Owned(r, A \ {t})
      BY <2>1, <2>4 DEF Owned
    <2> QED  BY <2>3, <2>4, <2>5
  <1>5. /\ promiseQ' = Without(promiseQ, LAMBDA e : e.owner = t)
        /\ callbackQ' = Without(callbackQ, LAMBDA e : e.owner = t)
        /\ intervalQ' = Without(intervalQ, LAMBDA e : e.owner = t)
        /\ gone' = gone \cup OwnIds(promiseQ, t) \cup OwnIds(callbackQ, t) \cup OwnIds(intervalQ, t)
        /\ live' = live \ {t} /\ t \in live
        /\ UNCHANGED <<now, kind, states, order, stack, fires, wish>>
    BY DEF RetireAgent, refs
  <1>6. /\ promiseQ' \in Seq(Entry) /\ Sorted(promiseQ') /\ Named(promiseQ', kind, {"promise"})
        /\ Owned(promiseQ', A \ {t}) /\ IdsOf(promiseQ') = IdsOf(promiseQ) \ OwnIds(promiseQ, t)
    BY <1>1, <1>3, <1>4, <1>5 DEF QueueInv
  <1>7. /\ callbackQ' \in Seq(Entry) /\ Sorted(callbackQ') /\ Named(callbackQ', kind, {"timeout", "immediate"})
        /\ Owned(callbackQ', A \ {t}) /\ IdsOf(callbackQ') = IdsOf(callbackQ) \ OwnIds(callbackQ, t)
    BY <1>1, <1>3, <1>4, <1>5 DEF QueueInv
  <1>8. /\ intervalQ' \in Seq(Entry) /\ Sorted(intervalQ') /\ Named(intervalQ', kind, {"interval"})
        /\ Owned(intervalQ', A \ {t}) /\ IdsOf(intervalQ') = IdsOf(intervalQ) \ OwnIds(intervalQ, t)
    BY <1>1, <1>3, <1>4, <1>5 DEF QueueInv
  <1>9. FrameInv' /\ SameBatches
    BY <1>5, NoStackStep
  <1>10. QueueInv' /\ BatchInv' /\ FireInv'
    <2>1. Queued' \subseteq Queued /\ Queued \ Queued' \subseteq gone'
      BY <1>5, <1>6, <1>7, <1>8 DEF Queued
    <2>2. IdsOf(intervalQ) \ IdsOf(intervalQ') \subseteq gone' /\ gone \subseteq gone'
      BY <1>5, <1>8
    <2> QED  BY <1>5, <1>6, <1>7, <1>8, <1>9, <2>1, <2>2, DropKeeps
  <1>11. TypeOK'
    <2>1. ASSUME NEW q \in Seq(Entry)
          PROVE  OwnIds(q, t) \subseteq Ids
      <3>1. OwnIds(q, t) \subseteq IdsOf(q)
        BY DEF OwnIds, IdsOf
      <3> QED  BY <3>1, IdsLemma
    <2>2. gone' \subseteq Ids
      BY <1>1, <1>5, <2>1 DEF TypeOK
    <2> QED  BY <1>5, <1>6, <1>7, <1>8, <2>2 DEF TypeOK
  <1>12. HeapInv'
    <2>1. \A u \in Threads, m \in Depths : Owned(Batch(u, m)', {CurrentAgent(u)})
      BY <1>9 DEF HeapInv, SameBatches
    <2>2. A \ {t} = live' \cup {Primary}
      <3>1. t \in Workers /\ Primary \notin Workers
        BY <1>5, TimersAssumption DEF TypeOK
      <3> QED  BY <1>2, <1>5, <3>1
    <2> QED  BY <1>6, <1>7, <1>8, <2>1, <2>2 DEF HeapInv
  <1> QED  BY <1>9, <1>10, <1>11, <1>12

\* timer.refresh() keeps the invariant.
LEMMA RefreshStep ==
    ASSUME TimersInv, NEW t \in Threads, NEW i \in Ids, Refresh(t, i)
    PROVE  TimersInv'
  <1> USE DEF TimersInv
  <1> DEFINE again(q) == [n \in DOMAIN q |-> IF q[n].id = i
                                             THEN [q[n] EXCEPT !.deadline = now + q[n].delay]
                                             ELSE q[n]]
  <1>1. promiseQ \in Seq(Entry) /\ callbackQ \in Seq(Entry) /\ intervalQ \in Seq(Entry) /\ now \in Nat
    BY DEF TypeOK
  <1>2. PICK A : A = live \cup {Primary}
    OBVIOUS
  <1>3. Owned(promiseQ, A) /\ Owned(callbackQ, A) /\ Owned(intervalQ, A)
    BY <1>2 DEF HeapInv
  <1>4. ASSUME NEW q \in Seq(Entry), NEW ks, Sorted(q), Named(q, kind, ks), Owned(q, A)
        PROVE  /\ again(q) \in Seq(Entry) /\ Sorted(again(q)) /\ Named(again(q), kind, ks)
               /\ Owned(again(q), A) /\ IdsOf(again(q)) = IdsOf(q)
    <2> DEFINE e(n) == IF q[n].id = i THEN [q[n] EXCEPT !.deadline = now + q[n].delay] ELSE q[n]
    <2>1. again(q) = [n \in 1 .. Len(q) |-> e(n)] /\ Len(q) \in Nat
      OBVIOUS
    <2>2. ASSUME NEW n \in 1 .. Len(q)
          PROVE  e(n) \in Entry /\ e(n).id = q[n].id /\ e(n).kind = q[n].kind /\ e(n).owner = q[n].owner
      <3>1. q[n] \in Entry
        OBVIOUS
      <3>2. PICK x : x = [q[n] EXCEPT !.deadline = now + q[n].delay]
        OBVIOUS
      <3>3. q[n].delay \in Nat
        BY <3>1 DEF Entry
      <3>4. now + q[n].delay \in Nat
        BY <1>1, <3>3
      <3>5. x \in Entry /\ x.id = q[n].id /\ x.kind = q[n].kind /\ x.owner = q[n].owner
        BY <3>1, <3>2, <3>4 DEF Entry
      <3>6. e(n) = x \/ e(n) = q[n]
        BY <3>2
      <3> HIDE DEF e
      <3> QED  BY <3>1, <3>5, <3>6
    <2> HIDE DEF e, again
    <2>3. PICK r : r = again(q)
      OBVIOUS
    <2>4. r \in Seq(Entry) /\ Len(r) = Len(q) /\ \A n \in 1 .. Len(q) : r[n] = e(n)
      BY <2>1, <2>2, <2>3
    <2>5. \A n \in 1 .. Len(q) : r[n].id = q[n].id /\ r[n].kind = q[n].kind /\ r[n].owner = q[n].owner
      BY <2>2, <2>4
    <2>6. IdsOf(r) = IdsOf(q) /\ Named(r, kind, ks) /\ Sorted(r)
      BY <1>4, <2>4, <2>5, SameKeeps
    <2>7. Owned(r, A)
      BY <1>4, <2>4, <2>5 DEF Owned
    <2> QED  BY <2>3, <2>4, <2>6, <2>7
  <1>5. /\ callbackQ' = again(callbackQ) /\ intervalQ' = again(intervalQ)
        /\ IF i \in Queued
           THEN SetRef(i, TRUE) /\ wish' = [wish EXCEPT ![i] = TRUE]
           ELSE states' = states /\ order' = order /\ wish' = wish
        /\ UNCHANGED <<now, promiseQ, kind, stack, live, fires, gone>>
    BY DEF Refresh, refs
  <1> HIDE DEF again
  <1>6. /\ callbackQ' \in Seq(Entry) /\ Sorted(callbackQ') /\ Named(callbackQ', kind, {"timeout", "immediate"})
        /\ Owned(callbackQ', A) /\ IdsOf(callbackQ') = IdsOf(callbackQ)
    BY <1>1, <1>3, <1>4, <1>5 DEF QueueInv
  <1>7. /\ intervalQ' \in Seq(Entry) /\ Sorted(intervalQ') /\ Named(intervalQ', kind, {"interval"})
        /\ Owned(intervalQ', A) /\ IdsOf(intervalQ') = IdsOf(intervalQ)
    BY <1>1, <1>3, <1>4, <1>5 DEF QueueInv
  <1>8. FrameInv' /\ SameBatches
    BY <1>5, NoStackStep
  <1>9. QueueInv' /\ BatchInv' /\ FireInv'
    BY <1>5, <1>6, <1>7, <1>8, DeadlineKeeps
  <1>10. TypeOK'
    <2>1. /\ order' \in Seq(Ids) /\ states' \in [Range(order') -> BOOLEAN] /\ Len(order') <= Cap
          /\ wish' \in [Ids -> BOOLEAN]
      <3>1. CASE i \in Queued
        BY <1>5, <3>1, SetRefType DEF TypeOK
      <3>2. CASE i \notin Queued
        BY <1>5, <3>2 DEF TypeOK
      <3> QED  BY <3>1, <3>2
    <2> QED  BY <1>1, <1>5, <1>6, <1>7, <2>1 DEF TypeOK
  <1>11. HeapInv'
    <2>1. \A u \in Threads, m \in Depths : Owned(Batch(u, m)', {CurrentAgent(u)})
      BY <1>8 DEF HeapInv, SameBatches
    <2> QED  BY <1>2, <1>3, <1>5, <1>6, <1>7, <2>1 DEF HeapInv
  <1> QED  BY <1>8, <1>9, <1>10, <1>11

-----------------------------------------------------------------------------
(* The invariant.                                                           *)

LEMMA QuietInv ==
    ASSUME TimersInv, NEW t \in Threads, Quiet(t)
    PROVE  TimersInv'
  <1>1. TypeOK' /\ FrameInv' /\ SameBatches /\ UNCHANGED <<queues, kind, live, fires, gone>>
    BY QuietStep DEF TimersInv
  <1>2. QueueInv' /\ BatchInv' /\ FireInv'
    BY <1>1, QuietKeeps DEF TimersInv
  <1>3. HeapInv'
    BY <1>1 DEF TimersInv, HeapInv, SameBatches, queues
  <1> QED  BY <1>1, <1>2, <1>3 DEF TimersInv

LEMMA TimersInvInit ==
    Init => TimersInv
  <1> SUFFICES ASSUME Init PROVE TimersInv
    OBVIOUS
  <1>1. \A t \in Threads : stack[t] = <<>> /\ Len(stack[t]) = 0
    BY DEF Init
  <1>2. \A t \in Threads, m \in Depths : Batch(t, m) = <<>>
    BY <1>1 DEF Batch, Depths
  <1>3. IdsOf(<<>>) = {} /\ \A kd, ks : Named(<<>>, kd, ks) /\ Sorted(<<>>) /\ Distinct(<<>>)
    BY DEF IdsOf, Named, Sorted, Distinct
  <1>4. TypeOK
    <2>1. \A S : <<>> \in Seq(S) /\ Len(<<>>) = 0
      OBVIOUS
    <2>2. Range(<<>>) = {}
      BY DEF Range
    <2>3. [i \in {} |-> TRUE] \in [Range(<<>>) -> BOOLEAN]
      BY <2>2
    <2>4. stack \in [Threads -> Seq(Frame)]
      BY <2>1 DEF Init
    <2>5. Cap \in Nat
      BY TimersAssumption
    <2> QED  BY <2>1, <2>3, <2>4, <2>5 DEF Init, TypeOK
  <1>5. FrameInv
    BY <1>1, TimersAssumption DEF FrameInv
  <1>6. QueueInv
    <2>1. None \notin Kinds /\ MaxTimers \in Nat
      BY TimersAssumption
    <2>2. Created = 1 .. 0
      BY DEF Created, Init
    <2>3. 0 \in 0 .. MaxTimers
      BY <2>1
    <2> QED  BY <1>3, <2>2, <2>3 DEF QueueInv, Init
  <1>7. BatchInv
    BY <1>2, <1>3 DEF BatchInv
  <1>8. FireInv
    <2>1. None \notin Kinds
      BY TimersAssumption
    <2>2. \A i \in Ids : kind[i] = None /\ fires[i] = 0
      BY DEF Init
    <2> QED  BY <2>1, <2>2 DEF FireInv, OneShot, Kinds
  <1>9. HeapInv
    BY <1>2 DEF HeapInv, Owned, Init
  <1> QED  BY <1>4, <1>5, <1>6, <1>7, <1>8, <1>9 DEF TimersInv

LEMMA TimersInvNext ==
    TimersInv /\ [Next]_vars => TimersInv'
  <1> SUFFICES ASSUME TimersInv, [Next]_vars PROVE TimersInv'
    OBVIOUS
  <1>1. ASSUME stack' = stack, TypeOK', UNCHANGED <<queues, kind, live, fires, gone>>
        PROVE  TimersInv'
    <2>1. FrameInv' /\ SameBatches
      BY <1>1, NoStackStep DEF TimersInv
    <2>2. QueueInv' /\ BatchInv' /\ FireInv'
      BY <1>1, <2>1, QuietKeeps DEF TimersInv
    <2>3. HeapInv'
      BY <1>1, <2>1 DEF TimersInv, HeapInv, SameBatches, queues
    <2> QED  BY <1>1, <2>1, <2>2, <2>3 DEF TimersInv
  <1>2. CASE UNCHANGED vars
    <2>1. TypeOK'
      BY <1>2 DEF TimersInv, TypeOK, vars
    <2> QED  BY <1>1, <1>2, <2>1 DEF vars, queues
  <1>3. CASE Clock
    <2>1. TypeOK'
      BY <1>3 DEF TimersInv, TypeOK, Clock, queues, refs, history
    <2> QED  BY <1>1, <1>3, <2>1 DEF Clock, history
  <1>4. ASSUME NEW t \in Threads, Step(t)
        PROVE  TimersInv'
    <2>1. CASE Drain(t)
      BY <2>1, DrainStep
    <2>2. CASE Resolve(t) \/ Call(t)
      BY <2>2, FireStep
    <2>3. CASE Quiet(t)
      BY <2>3, QuietInv
    <2> QED  BY <1>4, <2>1, <2>2, <2>3 DEF Step, Quiet
  <1>5. ASSUME NEW t \in Threads, Js(t)
        PROVE  TimersInv'
    <2>1. CASE \E k \in Kinds, d \in Delays, b \in BOOLEAN : Schedule(t, k, d, b)
      BY <2>1, ScheduleStep
    <2>2. CASE \E i \in Ids : Clear(t, i)
      BY <2>2, ClearStep
    <2>3. CASE \E i \in Ids : Refresh(t, i)
      BY <2>3, RefreshStep
    <2>4. CASE Quiet(t)
      BY <2>4, QuietInv
    <2> QED  BY <1>5, <2>1, <2>2, <2>3, <2>4 DEF Js, Quiet
  <1>6. ASSUME NEW t \in Threads, RetireAgent(t)
        PROVE  TimersInv'
    BY <1>6, RetireStep
  <1> QED  BY <1>2, <1>3, <1>4, <1>5, <1>6 DEF Next

\* The inductive invariant: every entry is in its queue in order of creation or in one
\* batch of one tick, and fires says which of them has been taken out.
THEOREM Invariance ==
    Spec => []TimersInv
  <1> QED  BY TimersInvInit, TimersInvNext, PTL DEF Spec

\* Every queue, batch, tick and registry entry has its type; the ref registry stays within
\* its cap (insert_bounded).
THEOREM TypeCorrect ==
    Spec => []TypeOK
  <1>1. TimersInv => TypeOK
    BY DEF TimersInv
  <1> QED  BY <1>1, Invariance, PTL

\* No thread holds a closure of a heap that is not its own, and no queue names the heap of
\* a worker that retire_agent has ended.
THEOREM HeapsAlive ==
    Spec => []HeapAlive
  <1>1. TimersInv => HeapAlive
    <2> SUFFICES ASSUME TimersInv PROVE HeapAlive
      OBVIOUS
    <2>1. promiseQ \in Seq(Entry) /\ callbackQ \in Seq(Entry) /\ intervalQ \in Seq(Entry)
      BY DEF TimersInv, TypeOK
    <2>2. \A q \in {promiseQ, callbackQ, intervalQ} : \A n \in DOMAIN q : q[n].owner \in live \cup {Primary}
      BY <2>1 DEF TimersInv, HeapInv, Owned
    <2>3. ASSUME NEW t \in Threads, NEW m \in DOMAIN stack[t], NEW n \in DOMAIN stack[t][m].batch
          PROVE  stack[t][m].batch[n].owner = CurrentAgent(t)
      <3>1. stack[t] \in Seq(Frame) /\ Len(stack[t]) <= MaxDepth /\ MaxDepth \in Nat
        BY TimersAssumption DEF TimersInv, TypeOK, FrameInv
      <3>2. m \in 1 .. Len(stack[t]) /\ m \in Depths /\ stack[t][m] \in Frame
        BY <3>1 DEF Depths
      <3>3. Batch(t, m) = stack[t][m].batch
        BY <3>2 DEF Batch
      <3>4. n \in 1 .. Len(Batch(t, m))
        BY <3>2, <3>3 DEF Frame
      <3> QED  BY <3>2, <3>3, <3>4 DEF TimersInv, HeapInv, Owned
    <2> QED  BY <2>2, <2>3 DEF HeapAlive
  <1> QED  BY <1>1, Invariance, PTL

-----------------------------------------------------------------------------
(* Exactly once.                                                            *)

\* No more entries than ids.
LEMMA LenLemma ==
    ASSUME NEW q \in Seq(Entry), Distinct(q)
    PROVE  \A n \in 1 .. Len(q) : n \in Ids
  <1>1. PICK g : g = [n \in 1 .. Len(q) |-> q[n].id]
    OBVIOUS
  <1>2. \A n \in 1 .. Len(q) : q[n].id \in Ids
    BY IdsLemma
  <1>3. g \in Injection(1 .. Len(q), Ids)
    <2>1. g \in [1 .. Len(q) -> Ids]
      BY <1>1, <1>2
    <2> QED  BY <1>1, <2>1 DEF Distinct, Injection, IsInjective
  <1>4. MaxTimers \in Nat /\ IsFiniteSet(Ids) /\ Cardinality(Ids) = MaxTimers
    BY TimersAssumption, FS_Interval DEF Ids
  <1>5. Cardinality(1 .. Len(q)) <= MaxTimers
    BY <1>3, <1>4, FS_Injection
  <1>6. Cardinality(1 .. Len(q)) = Len(q) /\ Len(q) \in Nat
    BY FS_Interval
  <1> QED  BY <1>4, <1>5, <1>6 DEF Ids

\* The two parts of Waits, and their members.
QueueWaits(i) == {w \in (1 .. 3) \X Ids : w[2] \in DOMAIN queues[w[1]] /\ queues[w[1]][w[2]].id = i}
BatchWaits(i) == {w \in Threads \X (1 .. MaxDepth) \X Ids :
                    /\ w[2] \in DOMAIN stack[w[1]] /\ w[3] \in DOMAIN stack[w[1]][w[2]].batch
                    /\ stack[w[1]][w[2]].batch[w[3]].id = i}

LEMMA QueueWaitsLemma ==
    ASSUME TimersInv, NEW i
    PROVE  /\ \A w \in QueueWaits(i) :
                \/ w[1] = 1 /\ i \in IdsOf(promiseQ)
                \/ w[1] = 2 /\ i \in IdsOf(callbackQ)
                \/ w[1] = 3 /\ i \in IdsOf(intervalQ)
           /\ \A v, w \in QueueWaits(i) : v[1] = w[1] => v = w
           /\ i \in Queued => QueueWaits(i) # {}
  <1>1. promiseQ \in Seq(Entry) /\ callbackQ \in Seq(Entry) /\ intervalQ \in Seq(Entry)
    BY DEF TimersInv, TypeOK
  <1>2. Distinct(promiseQ) /\ Distinct(callbackQ) /\ Distinct(intervalQ)
    BY <1>1, SortedLemma DEF TimersInv, QueueInv
  <1>3. queues[1] = promiseQ /\ queues[2] = callbackQ /\ queues[3] = intervalQ
    BY DEF queues
  <1>4. \A k \in 1 .. 3 : k = 1 \/ k = 2 \/ k = 3
    OBVIOUS
  <1>5. ASSUME NEW k \in 1 .. 3
        PROVE  queues[k] \in Seq(Entry) /\ Distinct(queues[k])
    BY <1>1, <1>2, <1>3, <1>4
  <1>6. \A w \in QueueWaits(i) :
          /\ w[1] \in 1 .. 3 /\ w[2] \in Ids /\ w = <<w[1], w[2]>>
          /\ w[2] \in 1 .. Len(queues[w[1]]) /\ queues[w[1]][w[2]].id = i
    <2> TAKE w \in QueueWaits(i)
    <2>1. w \in (1 .. 3) \X Ids /\ w[2] \in DOMAIN queues[w[1]] /\ queues[w[1]][w[2]].id = i
      BY DEF QueueWaits
    <2>2. w[1] \in 1 .. 3 /\ w[2] \in Ids /\ w = <<w[1], w[2]>>
      BY <2>1
    <2>3. w[2] \in 1 .. Len(queues[w[1]])
      BY <1>5, <2>1, <2>2
    <2> QED  BY <2>1, <2>2, <2>3
  <1>7. \A w \in QueueWaits(i) :
                \/ w[1] = 1 /\ i \in IdsOf(promiseQ)
                \/ w[1] = 2 /\ i \in IdsOf(callbackQ)
                \/ w[1] = 3 /\ i \in IdsOf(intervalQ)
    <2> TAKE w \in QueueWaits(i)
    <2>1. i \in IdsOf(queues[w[1]])
      BY <1>5, <1>6, IdsLemma
    <2> QED  BY <1>3, <1>4, <1>6, <2>1
  <1>8. \A v, w \in QueueWaits(i) : v[1] = w[1] => v = w
    BY <1>5, <1>6 DEF Distinct
  <1>9. ASSUME NEW k \in 1 .. 3, i \in IdsOf(queues[k])
        PROVE  QueueWaits(i) # {}
    <2>1. PICK n \in 1 .. Len(queues[k]) : queues[k][n].id = i
      BY <1>5, <1>9, IdsLemma
    <2>2. n \in Ids /\ n \in DOMAIN queues[k]
      BY <1>5, LenLemma
    <2>3. <<k, n>> \in QueueWaits(i)
      BY <2>1, <2>2 DEF QueueWaits
    <2> QED  BY <2>3
  <1>10. 1 \in 1 .. 3 /\ 2 \in 1 .. 3 /\ 3 \in 1 .. 3
    OBVIOUS
  <1>11. i \in Queued => QueueWaits(i) # {}
    BY <1>3, <1>9, <1>10 DEF Queued
  <1> QED  BY <1>7, <1>8, <1>11

LEMMA BatchWaitsLemma ==
    ASSUME TimersInv, NEW i
    PROVE  /\ \A w \in BatchWaits(i) : w[1] \in Threads /\ w[2] \in Depths /\ i \in IdsOf(Batch(w[1], w[2]))
           /\ \A v, w \in BatchWaits(i) : v[1] = w[1] /\ v[2] = w[2] => v = w
           /\ (\E t \in Threads, m \in Depths : i \in IdsOf(Batch(t, m))) => BatchWaits(i) # {}
  <1>1. ASSUME NEW t \in Threads, NEW m \in Depths
        PROVE  Batch(t, m) \in Seq(Entry) /\ Distinct(Batch(t, m))
    BY BatchType DEF TimersInv, BatchInv
  <1>2. ASSUME NEW t \in Threads, NEW m \in 1 .. MaxDepth, m \in DOMAIN stack[t]
        PROVE  Batch(t, m) = stack[t][m].batch
    <2>1. stack[t] \in Seq(Frame)
      BY DEF TimersInv, TypeOK
    <2> QED  BY <1>2, <2>1 DEF Batch
  <1>3. \A w \in BatchWaits(i) :
          /\ w[1] \in Threads /\ w[2] \in Depths /\ w = <<w[1], w[2], w[3]>>
          /\ w[3] \in 1 .. Len(Batch(w[1], w[2])) /\ Batch(w[1], w[2])[w[3]].id = i
    <2> TAKE w \in BatchWaits(i)
    <2>1. /\ w \in Threads \X (1 .. MaxDepth) \X Ids
          /\ w[2] \in DOMAIN stack[w[1]] /\ w[3] \in DOMAIN stack[w[1]][w[2]].batch
          /\ stack[w[1]][w[2]].batch[w[3]].id = i
      BY DEF BatchWaits
    <2>2. w[1] \in Threads /\ w[2] \in 1 .. MaxDepth /\ w[3] \in Ids /\ w = <<w[1], w[2], w[3]>>
      BY <2>1
    <2>3. Batch(w[1], w[2]) = stack[w[1]][w[2]].batch /\ w[2] \in Depths
      BY <1>2, <2>1, <2>2 DEF Depths
    <2>4. w[3] \in 1 .. Len(Batch(w[1], w[2]))
      BY <1>1, <2>1, <2>2, <2>3
    <2> QED  BY <2>1, <2>2, <2>3, <2>4
  <1>4. \A w \in BatchWaits(i) : i \in IdsOf(Batch(w[1], w[2]))
    BY <1>1, <1>3, IdsLemma
  <1>5. \A v, w \in BatchWaits(i) : v[1] = w[1] /\ v[2] = w[2] => v = w
    BY <1>1, <1>3 DEF Distinct
  <1>6. ASSUME NEW t \in Threads, NEW m \in Depths, i \in IdsOf(Batch(t, m))
        PROVE  BatchWaits(i) # {}
    <2>1. PICK n \in 1 .. Len(Batch(t, m)) : Batch(t, m)[n].id = i
      BY <1>1, <1>6, IdsLemma
    <2>2. n \in Ids /\ n \in DOMAIN Batch(t, m)
      BY <1>1, LenLemma
    <2>3. m \in DOMAIN stack[t] /\ m \in 1 .. MaxDepth
      <3>1. stack[t] \in Seq(Frame)
        BY DEF TimersInv, TypeOK
      <3>2. m \in 1 .. Len(stack[t])
        BY <2>1 DEF Batch
      <3> QED  BY <3>1, <3>2 DEF Depths
    <2>4. Batch(t, m) = stack[t][m].batch
      BY <1>2, <2>3
    <2>5. <<t, m, n>> \in BatchWaits(i)
      BY <2>1, <2>2, <2>3, <2>4 DEF BatchWaits
    <2> QED  BY <2>5
  <1> QED  BY <1>3, <1>4, <1>5, <1>6

\* A one-shot timer that nobody cleared is queued, or detached in one batch, or has fired,
\* exactly one of these and once, whatever threads tick the queues and however ticks nest
\* (drain_expired_timers detaches under the queue's lock); an interval stays queued.
THEOREM OnceEach ==
    Spec => []ExactlyOnce
  <1>1. TimersInv => ExactlyOnce
    <2> SUFFICES ASSUME TimersInv, NEW i \in Created \ gone
                 PROVE  IF kind[i] = "interval" THEN i \in IdsOf(intervalQ)
                        ELSE Cardinality(Waits(i)) + fires[i] = 1
      BY DEF ExactlyOnce
    <2>1. i \in Ids /\ kind[i] \in Kinds /\ i \notin gone
      BY DEF Created, TimersInv, TypeOK
    <2>2. CASE kind[i] = "interval"
      BY <2>1, <2>2 DEF TimersInv, FireInv
    <2>3. CASE kind[i] # "interval"
      <3>1. kind[i] \in OneShot
        BY <2>1, <2>3 DEF OneShot
      <3>2. Waits(i) = QueueWaits(i) \cup BatchWaits(i)
        BY DEF Waits, QueueWaits, BatchWaits
      <3>3. CASE ~Pends(i)
        <4>1. fires[i] = 1
          BY <2>1, <3>1, <3>3 DEF TimersInv, FireInv
        <4>2. QueueWaits(i) = {}
          BY <3>3, QueueWaitsLemma DEF Pends, Queued
        <4>3. BatchWaits(i) = {}
          BY <3>3, BatchWaitsLemma DEF Pends
        <4>4. Cardinality({}) = 0
          BY FS_EmptySet
        <4> QED  BY <2>3, <3>2, <4>1, <4>2, <4>3, <4>4
      <3>4. ASSUME Pends(i), NEW w0 \in Waits(i), \A w \in Waits(i) : w = w0
            PROVE  Cardinality(Waits(i)) + fires[i] = 1
        <4>1. fires[i] = 0
          BY <2>1, <3>1, <3>4 DEF TimersInv, FireInv
        <4>2. Waits(i) = {w0}
          BY <3>4
        <4>3. Cardinality({w0}) = 1
          BY FS_Singleton
        <4> QED  BY <4>1, <4>2, <4>3
      <3>5. CASE i \in Queued
        <4>1. BatchWaits(i) = {}
          BY <3>1, <3>5, BatchWaitsLemma DEF TimersInv, BatchInv
        <4>2. PICK w0 : w0 \in QueueWaits(i)
          BY <3>5, QueueWaitsLemma
        <4>3. \A w \in QueueWaits(i) : w[1] = w0[1]
          <5>1. /\ \A j \in IdsOf(promiseQ) : kind[j] = "promise"
                /\ \A j \in IdsOf(callbackQ) : kind[j] \in {"timeout", "immediate"}
                /\ \A j \in IdsOf(intervalQ) : kind[j] = "interval"
            BY KindLemma DEF TimersInv
          <5> QED  BY <4>2, <5>1, QueueWaitsLemma
        <4>4. \A w \in QueueWaits(i) : w = w0
          BY <4>2, <4>3, QueueWaitsLemma
        <4>5. Pends(i)
          BY <3>5 DEF Pends
        <4> QED  BY <2>3, <3>2, <3>4, <4>1, <4>2, <4>4, <4>5
      <3>6. CASE i \notin Queued /\ Pends(i)
        <4>1. QueueWaits(i) = {}
          BY <3>6, QueueWaitsLemma DEF Queued
        <4>2. PICK w0 : w0 \in BatchWaits(i)
          BY <3>6, BatchWaitsLemma DEF Pends
        <4>3. \A w \in BatchWaits(i) : w[1] = w0[1] /\ w[2] = w0[2]
          BY <3>1, <4>2, BatchWaitsLemma DEF TimersInv, BatchInv
        <4>4. \A w \in BatchWaits(i) : w = w0
          BY <4>2, <4>3, BatchWaitsLemma
        <4> QED  BY <2>3, <3>2, <3>4, <3>6, <4>1, <4>2, <4>4
      <3> QED  BY <3>3, <3>5, <3>6
    <2> QED  BY <2>2, <2>3
  <1> QED  BY <1>1, Invariance, PTL

-----------------------------------------------------------------------------
(* The order within a turn.                                                 *)

\* Entry a fires before entry b.
Prec(a, b) ==
  IF a.kind = "immediate" \/ b.kind = "immediate"
  THEN IF a.kind = b.kind THEN a.id < b.id ELSE b.kind = "immediate"
  ELSE a.deadline < b.deadline \/ (a.deadline = b.deadline /\ a.id < b.id)

\* An entry of t's agent that a drain at time `at` left in queue q was not due, or was
\* set or refreshed later.
Left(t, at, e) ==
  e.owner = CurrentAgent(t) => e.deadline > at \/ e.deadline - e.delay >= at
Later(t, at, q) == \A n \in 1 .. Len(q) : Left(t, at, q[n])

\* A tick f of thread t, at time nw and with q in CALLBACK_TIMERS: its batch is in order
\* and holds all that was due.
InTurn(t, f, nw, q) ==
  /\ f.at <= nw
  /\ Phases[f.phase] = "interval" => \A n \in 1 .. Len(f.batch) : f.batch[n].kind = "interval"
  /\ Phases[f.phase] = "callback" /\ f.batch # <<>> =>
       /\ \A n \in 1 .. Len(f.batch) : f.batch[n].kind \in {"timeout", "immediate"} /\ f.batch[n].deadline <= f.at
       /\ \A k, l \in 1 .. Len(f.batch) : k < l => Prec(f.batch[k], f.batch[l])
       /\ Later(t, f.at, q)

\* The entries of t's agent in q all count as ref'd, or none does.
Uniform(t, q) ==
  \E b \in BOOLEAN : \A n \in 1 .. Len(q) : q[n].owner = CurrentAgent(t) => HasRef(q[n].id) = b

TurnsInv == \A t \in Threads : \A m \in 1 .. Len(stack[t]) : InTurn(t, stack[t][m], now, callbackQ)

\* A tick below another one is in a callback.
ShapeInv == \A t \in Threads : \A m \in 1 .. Len(stack[t]) :
              m < Len(stack[t]) => stack[t][m].pc \in {"js", "wait"}

\* A drain to come that takes ref'd entries only leaves none behind for being unref'd.
DrainInv == \A t \in Threads : \A m \in 1 .. Len(stack[t]) :
              stack[t][m].pc = "drain" => stack[t][m].unref \/ Uniform(t, callbackQ)

DelayInv == \A n \in 1 .. Len(callbackQ) : callbackQ[n].kind = "immediate" => callbackQ[n].delay = 0

\* A program that never unrefs.
RefInv == "unref" \notin Ops => \A i \in DOMAIN states : states[i] = TRUE

TurnInv == TurnsInv /\ ShapeInv /\ DrainInv /\ DelayInv /\ RefInv

\* What the order rests on: no timer is unref'd, or one thread does everything.
Steady == "unref" \notin Ops \/ \E p : Threads = {p}

\* What a step may do to the clock and to CALLBACK_TIMERS.
Env == /\ now <= now' /\ now' \in Nat
       /\ \A n \in 1 .. Len(callbackQ') :
            \/ \E k \in 1 .. Len(callbackQ) : callbackQ'[n] = callbackQ[k]
            \/ /\ callbackQ'[n].deadline - callbackQ'[n].delay >= now
               /\ callbackQ'[n].kind = "immediate" => callbackQ'[n].delay = 0

LEMMA EnvLemma ==
    ASSUME TypeOK, TypeOK', TurnsInv, Env
    PROVE  \A t \in Threads : \A m \in 1 .. Len(stack[t]) : InTurn(t, stack[t][m], now', callbackQ')
  <1> SUFFICES ASSUME NEW t \in Threads, NEW m \in 1 .. Len(stack[t])
               PROVE  InTurn(t, stack[t][m], now', callbackQ')
    OBVIOUS
  <1>1. PICK f : f = stack[t][m]
    OBVIOUS
  <1>2. f \in Frame /\ f.at \in Nat /\ now \in Nat /\ InTurn(t, f, now, callbackQ)
    <2>1. stack[t] \in Seq(Frame) /\ now \in Nat
      BY DEF TypeOK
    <2>2. f \in Frame
      BY <1>1, <2>1
    <2>3. f.at \in Nat
      BY <2>2 DEF Frame
    <2> QED  BY <1>1, <2>1, <2>2, <2>3 DEF TurnsInv
  <1>3. f.at <= now /\ f.at <= now'
    BY <1>2 DEF InTurn, Env
  <1>4. ASSUME Later(t, f.at, callbackQ)
        PROVE  Later(t, f.at, callbackQ')
    <2> SUFFICES ASSUME NEW n \in 1 .. Len(callbackQ')
                 PROVE  Left(t, f.at, callbackQ'[n])
      BY DEF Later
    <2>1. CASE \E k \in 1 .. Len(callbackQ) : callbackQ'[n] = callbackQ[k]
      BY <1>4, <2>1 DEF Later
    <2>2. CASE callbackQ'[n].deadline - callbackQ'[n].delay >= now
      <3>1. callbackQ'[n] \in Entry
        BY DEF TypeOK
      <3>2. callbackQ'[n].deadline \in Nat /\ callbackQ'[n].delay \in Nat
        BY <3>1 DEF Entry
      <3> QED  BY <1>2, <1>3, <2>2, <3>2 DEF Left
    <2> QED  BY <2>1, <2>2 DEF Env
  <1> QED  BY <1>1, <1>2, <1>3, <1>4 DEF InTurn

\* The three ways a step changes a stack.
LEMMA SetTopTurns ==
    ASSUME TypeOK, TypeOK', TurnsInv, ShapeInv, Env, NEW t \in Threads, stack[t] # <<>>,
           NEW f \in Frame, SetTop(t, f), InTurn(t, f, now', callbackQ')
    PROVE  /\ TurnsInv' /\ ShapeInv'
           /\ \A u \in Threads : \A m \in 1 .. Len(stack'[u]) :
                stack'[u][m].pc = "drain" =>
                  \/ u = t /\ stack'[u][m] = f
                  \/ u # t /\ m \in 1 .. Len(stack[u]) /\ stack'[u][m] = stack[u][m]
  <1>1. PICK d : d = Len(stack[t])
    OBVIOUS
  <1>2. /\ \A u \in Threads : Len(stack'[u]) = Len(stack[u]) /\ Len(stack[u]) \in Nat
        /\ \A u \in Threads : u # t => stack'[u] = stack[u]
        /\ stack'[t][d] = f
        /\ \A m \in 1 .. d - 1 : stack'[t][m] = stack[t][m]
    BY <1>1, SetTopLemma DEF TypeOK
  <1>3. d \in Nat /\ \A m \in 1 .. d : m = d \/ m \in 1 .. d - 1
    BY <1>1, <1>2
  <1>4. \A u \in Threads : \A m \in 1 .. Len(stack[u]) : InTurn(u, stack[u][m], now', callbackQ')
    BY EnvLemma
  <1>5. ASSUME NEW u \in Threads, NEW m \in 1 .. Len(stack'[u])
        PROVE  /\ InTurn(u, stack'[u][m], now', callbackQ')
               /\ m < Len(stack'[u]) => stack'[u][m].pc \in {"js", "wait"}
               /\ stack'[u][m].pc = "drain" =>
                  \/ u = t /\ stack'[u][m] = f
                  \/ u # t /\ m \in 1 .. Len(stack[u]) /\ stack'[u][m] = stack[u][m]
    <2>1. m \in 1 .. Len(stack[u])
      BY <1>2
    <2>2. CASE u # t
      BY <1>2, <1>4, <2>1, <2>2 DEF ShapeInv
    <2>3. CASE u = t /\ m = d
      BY <1>1, <1>2, <1>3, <2>3
    <2>4. CASE u = t /\ m # d
      <3>1. m \in 1 .. d - 1 /\ m < Len(stack[t])
        BY <1>1, <1>3, <2>1, <2>4
      <3>2. stack'[u][m] = stack[t][m] /\ stack[t][m].pc \in {"js", "wait"}
        BY <1>2, <2>1, <2>4, <3>1 DEF ShapeInv
      <3> QED  BY <1>4, <2>1, <2>4, <3>2
    <2> QED  BY <2>2, <2>3, <2>4
  <1> QED  BY <1>5 DEF TurnsInv, ShapeInv

LEMMA PushTurns ==
    ASSUME TypeOK, TypeOK', TurnsInv, ShapeInv, Env, NEW t \in Threads,
           stack[t] # <<>> => Top(t).pc \in {"js", "wait"},
           NEW f \in Frame, Push(t, f), f.pc = "start", InTurn(t, f, now', callbackQ')
    PROVE  /\ TurnsInv' /\ ShapeInv'
           /\ \A u \in Threads : \A m \in 1 .. Len(stack'[u]) :
                stack'[u][m].pc = "drain" =>
                  u # t /\ m \in 1 .. Len(stack[u]) /\ stack'[u][m] = stack[u][m]
  <1>1. PICK d : d = Len(stack[t])
    OBVIOUS
  <1>2. /\ \A u \in Threads : u # t => stack'[u] = stack[u]
        /\ Len(stack'[t]) = d + 1 /\ d \in Nat
        /\ stack'[t][d + 1] = f
        /\ \A m \in 1 .. d : stack'[t][m] = stack[t][m]
    BY <1>1, PushLemma
  <1>3. \A m \in 1 .. d + 1 : m = d + 1 \/ m \in 1 .. d
    BY <1>2
  <1>4. \A u \in Threads : \A m \in 1 .. Len(stack[u]) : InTurn(u, stack[u][m], now', callbackQ')
    BY EnvLemma
  <1>5. \A m \in 1 .. d : stack[t][m].pc \in {"js", "wait"}
    <2> SUFFICES ASSUME NEW m \in 1 .. d PROVE stack[t][m].pc \in {"js", "wait"}
      OBVIOUS
    <2>1. stack[t] # <<>> /\ stack[t] \in Seq(Frame)
      BY <1>1 DEF TypeOK
    <2>2. CASE m = d
      BY <1>1, <2>1, <2>2, TopLemma
    <2>3. CASE m # d
      BY <1>1, <1>2, <2>3 DEF ShapeInv
    <2> QED  BY <2>2, <2>3
  <1>6. ASSUME NEW u \in Threads, NEW m \in 1 .. Len(stack'[u])
        PROVE  /\ InTurn(u, stack'[u][m], now', callbackQ')
               /\ m < Len(stack'[u]) => stack'[u][m].pc \in {"js", "wait"}
               /\ stack'[u][m].pc = "drain" =>
                  u # t /\ m \in 1 .. Len(stack[u]) /\ stack'[u][m] = stack[u][m]
    <2>1. CASE u # t
      BY <1>2, <1>4, <2>1 DEF ShapeInv
    <2>2. CASE u = t /\ m = d + 1
      BY <1>2, <2>2
    <2>3. CASE u = t /\ m # d + 1
      <3>1. m \in 1 .. d /\ m \in 1 .. Len(stack[t])
        BY <1>1, <1>2, <1>3, <2>3
      <3>2. stack'[u][m] = stack[t][m] /\ stack[t][m].pc \in {"js", "wait"}
        BY <1>2, <1>5, <2>3, <3>1
      <3> QED  BY <1>4, <2>3, <3>1, <3>2
    <2> QED  BY <2>1, <2>2, <2>3
  <1> QED  BY <1>6 DEF TurnsInv, ShapeInv

LEMMA PopTurns ==
    ASSUME TypeOK, TypeOK', TurnsInv, ShapeInv, Env, NEW t \in Threads, stack[t] # <<>>,
           stack' = [stack EXCEPT ![t] = Front(@)]
    PROVE  /\ TurnsInv' /\ ShapeInv'
           /\ \A u \in Threads : \A m \in 1 .. Len(stack'[u]) :
                stack'[u][m].pc = "drain" =>
                  u # t /\ m \in 1 .. Len(stack[u]) /\ stack'[u][m] = stack[u][m]
  <1>1. PICK d : d = Len(stack[t])
    OBVIOUS
  <1>2. /\ \A u \in Threads : u # t => stack'[u] = stack[u]
        /\ Len(stack'[t]) = d - 1 /\ d \in Nat \ {0}
        /\ \A m \in 1 .. d - 1 : stack'[t][m] = stack[t][m]
    BY <1>1, PopLemma
  <1>3. \A u \in Threads : \A m \in 1 .. Len(stack[u]) : InTurn(u, stack[u][m], now', callbackQ')
    BY EnvLemma
  <1>4. ASSUME NEW u \in Threads, NEW m \in 1 .. Len(stack'[u])
        PROVE  /\ InTurn(u, stack'[u][m], now', callbackQ')
               /\ m < Len(stack'[u]) => stack'[u][m].pc \in {"js", "wait"}
               /\ stack'[u][m].pc = "drain" =>
                  u # t /\ m \in 1 .. Len(stack[u]) /\ stack'[u][m] = stack[u][m]
    <2>1. CASE u # t
      BY <1>2, <1>3, <2>1 DEF ShapeInv
    <2>2. CASE u = t
      <3>1. m \in 1 .. d - 1 /\ m \in 1 .. Len(stack[t]) /\ m < Len(stack[t])
        BY <1>1, <1>2, <2>2
      <3>2. stack'[u][m] = stack[t][m] /\ stack[t][m].pc \in {"js", "wait"}
        BY <1>2, <2>2, <3>1 DEF ShapeInv
      <3> QED  BY <1>3, <2>2, <3>1, <3>2
    <2> QED  BY <2>1, <2>2
  <1> QED  BY <1>4 DEF TurnsInv, ShapeInv

LEMMA SameTurns ==
    ASSUME TypeOK, TypeOK', TurnsInv, ShapeInv, Env, stack' = stack
    PROVE  TurnsInv' /\ ShapeInv'
  <1>1. \A u \in Threads : \A m \in 1 .. Len(stack[u]) : InTurn(u, stack[u][m], now', callbackQ')
    BY EnvLemma
  <1> QED  BY <1>1 DEF TurnsInv, ShapeInv

\* A drain's batch is in order and leaves nothing due behind.
LEMMA DrainTurn ==
    ASSUME TimersInv, DrainInv, NEW t \in Threads, NEW f, NEW q, NEW K, NEW L, NEW b,
           DrainFacts(t, f, q, K, L, b), b \in Seq(Entry), f.at <= now
    PROVE  InTurn(t, [f EXCEPT !.pc = "fire", !.batch = b], now, callbackQ')
  <1>1. PICK g : g = [f EXCEPT !.pc = "fire", !.batch = b]
    OBVIOUS
  <1>2. f \in Frame /\ g.at = f.at /\ g.phase = f.phase /\ g.batch = b
    BY <1>1 DEF DrainFacts, Frame
  <1>3. /\ q \in Seq(Entry) /\ K \in SUBSET (1 .. Len(q)) /\ L = (1 .. Len(q)) \ K
        /\ Phases[f.phase] = "callback" => q = callbackQ
        /\ Phases[f.phase] = "interval" => q = intervalQ
    BY <1>2, PhaseLemma DEF DrainFacts, TimersInv, Frame
  <1>4. CASE Phases[f.phase] \notin {"callback", "interval"}
    BY <1>1, <1>2, <1>4 DEF InTurn
  <1>5. CASE Phases[f.phase] = "interval"
    <2>1. b = Select(q, K) /\ Named(q, kind, {"interval"}) /\ Sorted(q)
      BY <1>3, <1>5 DEF DrainFacts, TimersInv, QueueInv
    <2>2. Named(b, kind, {"interval"})
      BY <1>3, <2>1, SelectKeeps
    <2> QED  BY <1>1, <1>2, <1>5, <2>2 DEF InTurn, Named
  <1>6. CASE Phases[f.phase] = "callback"
    <2>1. PICK s : s = Select(callbackQ, K)
      OBVIOUS
    <2>2. callbackQ \in Seq(Entry) /\ Named(callbackQ, kind, {"timeout", "immediate"}) /\ Sorted(callbackQ)
      BY DEF TimersInv, TypeOK, QueueInv
    <2>3. Parts(callbackQ, kind, {"timeout", "immediate"}, K, L)
      BY <1>3, <1>6, <2>2, PartLemma
    <2>4. /\ s \in Seq(Entry) /\ Sorted(s) /\ Named(s, kind, {"timeout", "immediate"})
          /\ \A k \in 1 .. Len(s) : \E n \in K : s[k] = callbackQ[n]
          /\ \A k \in 1 .. Len(Select(callbackQ, L)) : \E n \in L : Select(callbackQ, L)[k] = callbackQ[n]
      BY <2>1, <2>3 DEF Parts
    <2>5. /\ b = OrderBatch(s) /\ callbackQ' = Select(callbackQ, L)
          /\ \A n \in K : Expired(t, f, callbackQ[n])
          /\ \A n \in L : ~Expired(t, f, callbackQ[n])
      BY <1>3, <1>6, <2>1 DEF DrainFacts
    <2>6. PICK h : /\ Picks(h, s, 1 .. Len(s), b)
                   /\ \A k, l \in 1 .. Len(b) : k < l => Before(s, h[k], h[l])
      BY <2>4, <2>5, OrderBatchLemma
    <2>7. \A k \in 1 .. Len(b) : h[k] \in 1 .. Len(s) /\ b[k] = s[h[k]]
      BY <2>6 DEF Picks
    <2>8. ASSUME NEW m \in 1 .. Len(s), NEW n \in 1 .. Len(s), Before(s, m, n)
          PROVE  Prec(s[m], s[n])
      <3>1. m < n => s[m].id < s[n].id
        BY <2>4 DEF Sorted
      <3> QED  BY <2>8, <3>1 DEF Before, Prec
    <2>9. \A k, l \in 1 .. Len(b) : k < l => Prec(b[k], b[l])
      BY <2>6, <2>7, <2>8
    <2>10. \A k \in 1 .. Len(b) : \E n \in K : b[k] = callbackQ[n]
      BY <2>4, <2>7
    <2>11. \A n \in 1 .. Len(callbackQ) : callbackQ[n].kind \in {"timeout", "immediate"}
      BY <2>2 DEF Named
    <2>12. \A k \in 1 .. Len(b) : b[k].kind \in {"timeout", "immediate"} /\ b[k].deadline <= f.at
      <3>1. \A n \in K : n \in 1 .. Len(callbackQ) /\ callbackQ[n].deadline <= f.at
        BY <1>3, <1>6, <2>5 DEF Expired
      <3> QED  BY <2>10, <2>11, <3>1
    <2>13. b # <<>> => Later(t, f.at, callbackQ')
      <3> SUFFICES ASSUME b # <<>>, NEW k \in 1 .. Len(callbackQ')
                   PROVE  Left(t, f.at, callbackQ'[k])
        BY DEF Later
      <3>1. PICK n \in L : callbackQ'[k] = callbackQ[n]
        BY <2>4, <2>5
      <3>2. n \in 1 .. Len(callbackQ) /\ ~Expired(t, f, callbackQ[n]) /\ callbackQ[n].kind # "promise"
        BY <1>3, <1>6, <2>5, <2>11
      <3>3. ASSUME callbackQ[n].owner = CurrentAgent(t), callbackQ[n].deadline <= f.at
            PROVE  FALSE
        <4>1. ~f.unref /\ ~HasRef(callbackQ[n].id)
          BY <3>2, <3>3 DEF Expired
        <4>2. 1 \in 1 .. Len(b)
          OBVIOUS
        <4>3. PICK m \in K : b[1] = callbackQ[m]
          BY <2>10, <4>2
        <4>4. m \in 1 .. Len(callbackQ) /\ Expired(t, f, callbackQ[m]) /\ callbackQ[m].kind # "promise"
          BY <1>3, <1>6, <2>5, <2>11
        <4>5. callbackQ[m].owner = CurrentAgent(t) /\ HasRef(callbackQ[m].id)
          BY <4>1, <4>4 DEF Expired
        <4>6. Uniform(t, callbackQ)
          <5>1. stack[t] # <<>> /\ f = Top(t) /\ f.pc = "drain"
            BY DEF DrainFacts
          <5>2. Len(stack[t]) \in 1 .. Len(stack[t]) /\ f = stack[t][Len(stack[t])]
            BY <5>1, TopLemma DEF TimersInv
          <5> QED  BY <4>1, <5>1, <5>2 DEF DrainInv
        <4> QED  BY <3>2, <3>3, <4>1, <4>4, <4>5, <4>6 DEF Uniform
      <3>4. callbackQ[n].deadline \in Nat /\ f.at \in Nat
        <4>1. callbackQ[n] \in Entry
          BY <2>2, <3>2
        <4> QED  BY <1>2, <4>1 DEF Entry, Frame
      <3> QED  BY <3>1, <3>3, <3>4 DEF Left
    <2> QED  BY <1>1, <1>2, <1>6, <2>9, <2>12, <2>13 DEF InTurn
  <1> QED  BY <1>4, <1>5, <1>6

LEMMA EnvSame ==
    ASSUME TypeOK, now' = now, callbackQ' = callbackQ
    PROVE  Env
  BY DEF TypeOK, Env

LEMMA EnvDelay ==
    ASSUME DelayInv, Env
    PROVE  DelayInv'
  BY DEF DelayInv, Env

\* In a program that never unrefs, every queue is uniform.
LEMMA RefUniform ==
    ASSUME RefInv', "unref" \notin Ops, NEW t \in Threads
    PROVE  Uniform(t, callbackQ)'
  BY DEF RefInv, Uniform, HasRef

LEMMA DrainKeeps ==
    ASSUME Steady, RefInv', NEW t \in Threads,
           \A u \in Threads : \A m \in 1 .. Len(stack'[u]) :
             stack'[u][m].pc = "drain" => u # t \/ stack'[u][m].unref \/ Uniform(u, callbackQ)'
    PROVE  DrainInv'
  <1>1. CASE "unref" \notin Ops
    BY <1>1, RefUniform DEF DrainInv
  <1>2. CASE \E p : Threads = {p}
    <2>1. \A u \in Threads : u = t
      BY <1>2
    <2> QED  BY <2>1 DEF DrainInv
  <1> QED  BY <1>1, <1>2 DEF Steady

\* While JS runs on the only thread, no drain is pending.
LEMMA JsDrain ==
    ASSUME TypeOK, Steady, RefInv', ShapeInv, NEW t \in Threads, stack' = stack,
           stack[t] # <<>> => Top(t).pc = "js"
    PROVE  DrainInv'
  <1>1. ASSUME NEW m \in 1 .. Len(stack[t])
        PROVE  stack[t][m].pc # "drain"
    <2>1. stack[t] # <<>> /\ stack[t] \in Seq(Frame)
      BY DEF TypeOK
    <2>2. Top(t) = stack[t][Len(stack[t])] /\ Len(stack[t]) \in Nat
      BY <2>1, TopLemma
    <2>3. CASE m = Len(stack[t])
      BY <2>1, <2>2, <2>3
    <2>4. CASE m # Len(stack[t])
      BY <2>2, <2>4 DEF ShapeInv
    <2> QED  BY <2>3, <2>4
  <1>2. \A u \in Threads : \A m \in 1 .. Len(stack'[u]) :
             stack'[u][m].pc = "drain" => u # t \/ stack'[u][m].unref \/ Uniform(u, callbackQ)'
    BY <1>1
  <1> QED  BY <1>2, DrainKeeps

\* Steps of a tick: they set, push or pop a frame, or fire.
LEMMA TickTurns ==
    ASSUME TimersInv, TypeOK', TurnInv, Steady, NEW t \in Threads,
           \/ LoopTick(t) \/ HandleTick(t) \/ AwaitTick(t) \/ NestedPump(t) \/ Start(t) \/ Return(t) \/ NextPhase(t)
           \/ Resume(t) \/ (\E i \in Ids : Await(t, i)) \/ Resolve(t) \/ Call(t)
    PROVE  TurnInv'
  <1> USE DEF TurnInv
  <1>1. now' = now /\ callbackQ' = callbackQ /\ states' = states
    BY DEF LoopTick, HandleTick, AwaitTick, NestedPump, Start, Return, NextPhase, Resume, Await, Resolve, Call, queues, refs
  <1>2. TypeOK /\ Env /\ now \in Nat
    BY <1>1, EnvSame DEF TimersInv, TypeOK
  <1>3. DelayInv' /\ RefInv'
    BY <1>1, <1>2, EnvDelay DEF RefInv
  <1>4. ASSUME stack[t] # <<>>
        PROVE  Top(t) \in Frame /\ InTurn(t, Top(t), now, callbackQ)
    <2>1. Len(stack[t]) \in 1 .. Len(stack[t]) /\ Top(t) = stack[t][Len(stack[t])] /\ Top(t) \in Frame
      BY <1>2, <1>4, TopLemma
    <2> QED  BY <2>1 DEF TurnsInv
  <1>5. ASSUME stack[t] # <<>>, NEW f \in Frame, SetTop(t, f), InTurn(t, f, now, callbackQ),
               f.pc = "drain" => f.unref \/ Uniform(t, callbackQ)'
        PROVE  TurnInv'
    <2>1. /\ TurnsInv' /\ ShapeInv'
          /\ \A u \in Threads : \A m \in 1 .. Len(stack'[u]) :
                stack'[u][m].pc = "drain" =>
                  \/ u = t /\ stack'[u][m] = f
                  \/ u # t /\ m \in 1 .. Len(stack[u]) /\ stack'[u][m] = stack[u][m]
      BY <1>1, <1>2, <1>5, SetTopTurns
    <2>2. DrainInv'
      <3>1. \A u \in Threads : \A m \in 1 .. Len(stack'[u]) :
             stack'[u][m].pc = "drain" => u # t \/ stack'[u][m].unref \/ Uniform(u, callbackQ)'
        BY <1>5, <2>1
      <3> QED  BY <1>3, <3>1, DrainKeeps
    <2> QED  BY <1>3, <2>1, <2>2
  <1>6. ASSUME NEW p \in BOOLEAN, stack[t] # <<>> => Top(t).pc \in {"js", "wait"}, Push(t, NewFrame(p))
        PROVE  TurnInv'
    <2>1. PICK f : f = NewFrame(p)
      OBVIOUS
    <2>2. f \in Frame /\ f.batch = <<>> /\ f.pc = "start" /\ f.at = 0
      BY <2>1, NewFrameType DEF NewFrame
    <2>3. InTurn(t, f, now, callbackQ)
      BY <1>2, <2>2 DEF InTurn
    <2>4. /\ TurnsInv' /\ ShapeInv'
          /\ \A u \in Threads : \A m \in 1 .. Len(stack'[u]) :
                stack'[u][m].pc = "drain" =>
                  u # t /\ m \in 1 .. Len(stack[u]) /\ stack'[u][m] = stack[u][m]
      BY <1>1, <1>2, <1>6, <2>1, <2>2, <2>3, PushTurns
    <2>5. DrainInv'
      BY <1>3, <2>4, DrainKeeps
    <2> QED  BY <1>3, <2>4, <2>5
  <1>7. CASE LoopTick(t) \/ HandleTick(t)
    BY <1>6, <1>7 DEF LoopTick, HandleTick
  <1>8. CASE AwaitTick(t)
    BY <1>6, <1>8 DEF AwaitTick
  <1>9. CASE NestedPump(t)
    BY <1>6, <1>9 DEF NestedPump
  <1>10. ASSUME NEW f, NEW p, NEW o, stack[t] # <<>>, Top(t).pc \notin {"start", "drain"},
                f = [Top(t) EXCEPT !.pc = p, !.on = o]
         PROVE  InTurn(t, f, now, callbackQ)
    <2>1. f.at = Top(t).at /\ f.phase = Top(t).phase /\ f.batch = Top(t).batch
      BY <1>4, <1>10 DEF Frame
    <2> QED  BY <1>4, <1>10, <2>1 DEF InTurn
  <1>11. CASE Return(t)
    <2>1. PICK f : f = [Top(t) EXCEPT !.pc = "fire", !.on = None]
      OBVIOUS
    <2>2. f \in Frame /\ f.pc = "fire" /\ InTurn(t, f, now, callbackQ)
      BY <1>4, <1>10, <1>11, <2>1 DEF Return, Frame
    <2> QED  BY <1>5, <1>11, <2>1, <2>2 DEF Return
  <1>12. CASE Resume(t)
    <2>1. PICK f : f = [Top(t) EXCEPT !.pc = "js"]
      OBVIOUS
    <2>2. f = [Top(t) EXCEPT !.pc = "js", !.on = Top(t).on]
      BY <1>4, <1>12, <2>1 DEF Resume, Frame
    <2>3. f \in Frame /\ f.pc = "js" /\ InTurn(t, f, now, callbackQ)
      BY <1>4, <1>10, <1>12, <2>1, <2>2 DEF Resume, Frame
    <2> QED  BY <1>5, <1>12, <2>1, <2>3 DEF Resume
  <1>13. CASE \E i \in Ids : Await(t, i)
    <2>0. PICK i \in Ids : Await(t, i)
      BY <1>13
    <2>1. PICK f : f = [Top(t) EXCEPT !.pc = "wait", !.on = i]
      OBVIOUS
    <2>2. f \in Frame /\ f.pc = "wait" /\ InTurn(t, f, now, callbackQ)
      BY <1>4, <1>10, <2>0, <2>1 DEF Await, Frame
    <2> QED  BY <1>5, <2>0, <2>1, <2>2 DEF Await
  <1>14. CASE Start(t)
    <2>0. PICK h \in Handles :
             SetTop(t, [Top(t) EXCEPT !.pc = IF Guarded(t) THEN "fire" ELSE "drain",
                                      !.at = now, !.unref = AnyRefed(t) \/ h])
      BY <1>14 DEF Start
    <2>1. PICK f : f = [Top(t) EXCEPT !.pc = IF Guarded(t) THEN "fire" ELSE "drain",
                                      !.at = now, !.unref = AnyRefed(t) \/ h]
      OBVIOUS
    <2>2. (AnyRefed(t) \/ h) \in BOOLEAN
      OBVIOUS
    <2>3. f \in Frame /\ f.batch = Top(t).batch /\ f.at = now /\ f.unref = (AnyRefed(t) \/ h)
      BY <1>2, <1>4, <1>14, <2>1, <2>2 DEF Start, Frame
    <2>4. f.batch = <<>>
      <3>0. stack[t] # <<>>
        BY <1>14 DEF Start
      <3>1. Len(stack[t]) \in 1 .. Len(stack[t]) /\ Top(t) = stack[t][Len(stack[t])]
        BY <1>2, <3>0, TopLemma
      <3> QED  BY <1>14, <2>3, <3>1 DEF Start, TimersInv, FrameInv
    <2>5. InTurn(t, f, now, callbackQ)
      BY <1>2, <2>3, <2>4 DEF InTurn
    <2>6. AnyRefed(t) \/ Uniform(t, callbackQ)'
      <3> SUFFICES ASSUME ~AnyRefed(t)
                   PROVE  \A n \in 1 .. Len(callbackQ) : callbackQ[n].owner = CurrentAgent(t) => HasRef(callbackQ[n].id)' = FALSE
        BY <1>1 DEF Uniform
      <3>1. callbackQ \in Seq(Entry) /\ \A n \in 1 .. Len(callbackQ) : callbackQ[n].kind # "promise"
        BY DEF TimersInv, TypeOK, QueueInv, Named
      <3>2. \A n \in 1 .. Len(callbackQ) : callbackQ[n].owner = CurrentAgent(t) => ~HasRef(callbackQ[n].id)
        BY <3>1 DEF AnyRefed, HasRefed
      <3>3. \A n \in 1 .. Len(callbackQ) : HasRef(callbackQ[n].id)' = HasRef(callbackQ[n].id) /\ HasRef(callbackQ[n].id) \in BOOLEAN
        <4>1. states \in [Range(order) -> BOOLEAN]
          BY <1>2 DEF TypeOK
        <4> QED  BY <1>1, <4>1 DEF HasRef
      <3> QED  BY <3>2, <3>3
    <2> QED  BY <1>5, <1>14, <2>0, <2>1, <2>3, <2>5, <2>6 DEF Start
  <1>15. CASE NextPhase(t)
    <2>1. CASE Top(t).phase < Len(Phases)
      <3>1. PICK f : f = [NewFrame(Top(t).plain) EXCEPT !.phase = Top(t).phase + 1]
        OBVIOUS
      <3>2. Top(t) \in Frame /\ Top(t).plain \in BOOLEAN /\ Top(t).phase + 1 \in 1 .. Len(Phases)
        BY <1>4, <1>15, <2>1 DEF NextPhase, Frame, Phases
      <3>3. f \in Frame /\ f.batch = <<>> /\ f.pc = "start" /\ f.at = 0
        BY <3>1, <3>2, NewFrameType DEF Frame, NewFrame
      <3>4. InTurn(t, f, now, callbackQ)
        BY <1>2, <3>3 DEF InTurn
      <3> QED  BY <1>5, <1>15, <2>1, <3>1, <3>3, <3>4 DEF NextPhase
    <2>2. CASE ~(Top(t).phase < Len(Phases))
      <3>1. stack[t] # <<>> /\ stack' = [stack EXCEPT ![t] = Front(@)]
        BY <1>15, <2>2 DEF NextPhase
      <3>2. /\ TurnsInv' /\ ShapeInv'
            /\ \A u \in Threads : \A m \in 1 .. Len(stack'[u]) :
                stack'[u][m].pc = "drain" =>
                  u # t /\ m \in 1 .. Len(stack[u]) /\ stack'[u][m] = stack[u][m]
        BY <1>2, <3>1, PopTurns
      <3>3. DrainInv'
        BY <1>3, <3>2, DrainKeeps
      <3> QED  BY <1>3, <3>2, <3>3
    <2> QED  BY <2>1, <2>2
  <1>16. CASE Resolve(t) \/ Call(t)
    <2>1. stack[t] # <<>> /\ Top(t).batch # <<>> /\ Top(t).pc = "fire"
      BY <1>16 DEF Resolve, Call
    <2>2. PICK x, b : x = Top(t).batch /\ b = Tail(x)
      OBVIOUS
    <2>3. /\ x \in Seq(Entry) /\ b \in Seq(Entry) /\ Head(x).id \in Ids
          /\ \A n \in 1 .. Len(b) : n + 1 \in 1 .. Len(x) /\ b[n] = x[n + 1]
      <3>1. x \in Seq(Entry) /\ x # <<>>
        BY <1>4, <2>1, <2>2 DEF Frame
      <3>2. Head(x) \in Entry /\ b \in Seq(Entry) /\ \A n \in 1 .. Len(b) : n + 1 \in 1 .. Len(x) /\ b[n] = x[n + 1]
        BY <2>2, <3>1
      <3> QED  BY <3>1, <3>2 DEF Entry
    <2>4. ASSUME NEW f, f.at = Top(t).at, f.phase = Top(t).phase, f.batch = b
          PROVE  InTurn(t, f, now, callbackQ)
      <3>1. InTurn(t, Top(t), now, callbackQ)
        BY <1>4, <2>1
      <3>2. \A n \in 1 .. Len(b) : n \in Nat
        OBVIOUS
      <3> QED  BY <2>1, <2>2, <2>3, <2>4, <3>1, <3>2 DEF InTurn
    <2>5. CASE Resolve(t)
      <3>1. PICK f : f = [Top(t) EXCEPT !.batch = Tail(@)]
        OBVIOUS
      <3>2. f \in Frame /\ f.batch = b /\ f.pc = "fire" /\ f.at = Top(t).at /\ f.phase = Top(t).phase
        BY <1>4, <2>1, <2>2, <2>3, <3>1 DEF Frame
      <3> QED  BY <1>5, <2>1, <2>4, <2>5, <3>1, <3>2 DEF Resolve
    <2>6. CASE Call(t)
      <3>1. PICK f : f = [Top(t) EXCEPT !.pc = "js", !.on = Head(Top(t).batch).id, !.batch = Tail(@)]
        OBVIOUS
      <3>2. f \in Frame /\ f.batch = b /\ f.pc = "js" /\ f.at = Top(t).at /\ f.phase = Top(t).phase
        BY <1>4, <2>1, <2>2, <2>3, <3>1 DEF Frame
      <3> QED  BY <1>5, <2>1, <2>4, <2>6, <3>1, <3>2 DEF Call
    <2> QED  BY <1>16, <2>5, <2>6
  <1> QED  BY <1>7, <1>8, <1>9, <1>11, <1>12, <1>13, <1>14, <1>15, <1>16

LEMMA DrainTurns ==
    ASSUME TimersInv, TypeOK', TurnInv, Steady, NEW t \in Threads, Drain(t)
    PROVE  TurnInv'
  <1> USE DEF TurnInv
  <1>1. PICK f, q, K, L, b : DrainFacts(t, f, q, K, L, b)
    BY DrainLemma DEF TimersInv
  <1>2. /\ stack[t] # <<>> /\ f = Top(t) /\ f \in Frame
        /\ q \in Seq(Entry) /\ K \in SUBSET (1 .. Len(q)) /\ L = (1 .. Len(q)) \ K
        /\ SetTop(t, [f EXCEPT !.pc = "fire", !.batch = b])
        /\ b = IF Phases[f.phase] = "interval" THEN Select(q, K) ELSE OrderBatch(Select(q, K))
        /\ callbackQ' = IF Phases[f.phase] = "callback" THEN Select(q, L) ELSE callbackQ
        /\ q = PhaseQueue(Phases[f.phase])
    BY <1>1 DEF DrainFacts
  <1>3. TypeOK /\ now' = now /\ states' = states /\ now \in Nat
    BY DEF Drain, refs, TimersInv, TypeOK
  <1>4. b \in Seq(Entry)
    <2>1. Select(q, K) \in Seq(Entry)
      BY <1>2, SelectKeeps
    <2> QED  BY <1>2, <2>1, OrderKeeps
  <1>5. Env
    <2>1. CASE Phases[f.phase] = "callback"
      <3>1. q = callbackQ /\ callbackQ' = Select(q, L) /\ L \in SUBSET (1 .. Len(q))
        BY <1>2, <1>3, <2>1, PhaseLemma DEF Frame
      <3>2. \A k \in 1 .. Len(Select(q, L)) : \E n \in L : Select(q, L)[k] = q[n]
        BY <1>2, <3>1, SelectKeeps
      <3> QED  BY <1>3, <3>1, <3>2 DEF Env
    <2>2. CASE Phases[f.phase] # "callback"
      BY <1>2, <1>3, <2>2, EnvSame
    <2> QED  BY <2>1, <2>2
  <1>6. DelayInv' /\ RefInv'
    BY <1>3, <1>5, EnvDelay DEF RefInv
  <1>7. PICK g : g = [f EXCEPT !.pc = "fire", !.batch = b]
    OBVIOUS
  <1>8. g \in Frame /\ g.pc = "fire"
    BY <1>2, <1>4, <1>7 DEF Frame
  <1>9. InTurn(t, g, now, callbackQ')
    <2>1. Len(stack[t]) \in 1 .. Len(stack[t]) /\ f = stack[t][Len(stack[t])]
      BY <1>2, <1>3, TopLemma
    <2>2. f.at <= now
      BY <2>1 DEF TurnsInv, InTurn
    <2> QED  BY <1>1, <1>4, <1>7, <2>2, DrainTurn
  <1>10. /\ TurnsInv' /\ ShapeInv'
         /\ \A u \in Threads : \A m \in 1 .. Len(stack'[u]) :
               stack'[u][m].pc = "drain" =>
                 \/ u = t /\ stack'[u][m] = g
                 \/ u # t /\ m \in 1 .. Len(stack[u]) /\ stack'[u][m] = stack[u][m]
    <2>1. SetTop(t, g) /\ InTurn(t, g, now', callbackQ') /\ TurnsInv /\ ShapeInv
      BY <1>2, <1>3, <1>7, <1>9
    <2> HIDE DEF TurnInv
    <2> QED  BY <1>2, <1>3, <1>5, <1>8, <2>1, SetTopTurns
  <1>11. DrainInv'
    <2>1. \A u \in Threads : \A m \in 1 .. Len(stack'[u]) :
             stack'[u][m].pc = "drain" => u # t \/ stack'[u][m].unref \/ Uniform(u, callbackQ)'
      BY <1>8, <1>10
    <2> QED  BY <1>6, <2>1, DrainKeeps
  <1> QED  BY <1>6, <1>10, <1>11

\* Steps of JS that leave the stacks alone.
LEMMA JsTurns ==
    ASSUME TimersInv, TypeOK', TurnInv, Steady, NEW t \in Threads, Env, stack' = stack, RefInv',
           stack[t] # <<>> => Top(t).pc = "js"
    PROVE  TurnInv'
  <1>1. TurnsInv' /\ ShapeInv'
    BY SameTurns DEF TurnInv, TimersInv
  <1>2. DrainInv'
    BY JsDrain DEF TurnInv, TimersInv
  <1>3. DelayInv'
    BY EnvDelay DEF TurnInv
  <1> QED  BY <1>1, <1>2, <1>3 DEF TurnInv

\* A program that never unrefs has only ref'd timers in its registry.
LEMMA SetRefKeeps ==
    ASSUME TypeOK, RefInv, NEW i \in Ids, NEW b \in BOOLEAN, SetRef(i, b), b \/ "unref" \in Ops
    PROVE  RefInv'
  <1>1. \A j \in DOMAIN states' : states'[j] = b \/ (j \in DOMAIN states /\ states'[j] = states[j])
    BY SetRefType
  <1> QED  BY <1>1 DEF RefInv

LEMMA RefTurns ==
    ASSUME TimersInv, TypeOK', TurnInv, Steady, NEW t \in Threads, NEW i \in Ids, NEW b \in BOOLEAN,
           Ref(t, i, b)
    PROVE  TurnInv'
  <1>1. SetRef(i, b) /\ (b \/ "unref" \in Ops) /\ now' = now /\ callbackQ' = callbackQ /\ stack' = stack
    BY DEF Ref, queues
  <1>2. Env /\ RefInv'
    BY <1>1, EnvSame, SetRefKeeps DEF TurnInv, TimersInv
  <1>3. stack[t] # <<>> => Top(t).pc = "js"
    BY DEF Ref, InJs
  <1> QED  BY <1>1, <1>2, <1>3, JsTurns

LEMMA ScheduleTurns ==
    ASSUME TimersInv, TypeOK', TurnInv, Steady, NEW t \in Threads, NEW k \in Kinds, NEW d \in Delays,
           NEW b \in BOOLEAN, k = "immediate" => d = 0, Schedule(t, k, d, b)
    PROVE  TurnInv'
  <1>1. PICK i, e : /\ i = Cardinality(Created) + 1
                    /\ e = [id |-> i, kind |-> k, deadline |-> now + d, delay |-> d,
                            owner |-> CurrentAgent(t), ref |-> b]
    OBVIOUS
  <1>2. /\ callbackQ' = IF k \in {"timeout", "immediate"} THEN Append(callbackQ, e) ELSE callbackQ
        /\ IF k = "promise" THEN states' = states ELSE SetRef(i, TRUE)
        /\ now' = now /\ stack' = stack
    BY <1>1 DEF Schedule, refs
  <1>3. TypeOK /\ callbackQ \in Seq(Entry) /\ now \in Nat /\ d \in Nat
    BY TimersAssumption DEF TimersInv, TypeOK
  <1>4. i \in Ids
    <2>1. PICK c \in 0 .. MaxTimers : Created = 1 .. c
      BY DEF TimersInv, QueueInv
    <2>0. MaxTimers \in Nat
      BY TimersAssumption
    <2>2. MaxTimers \in Nat /\ Cardinality(1 .. c) = c /\ c \in Nat
      BY <2>0, FS_Interval
    <2>3. c # MaxTimers
      BY <2>1 DEF Schedule, Ids
    <2> QED  BY <1>1, <2>1, <2>2, <2>3 DEF Ids
  <1>5. RefInv'
    <2>1. CASE k = "promise"
      BY <1>2, <2>1 DEF TurnInv, RefInv
    <2>2. CASE k # "promise"
      BY <1>2, <1>3, <1>4, <2>2, SetRefKeeps DEF TurnInv
    <2> QED  BY <2>1, <2>2
  <1>6. Env
    <2>1. CASE k \in {"timeout", "immediate"}
      <3>1. e.kind = k /\ e.deadline = now + d /\ e.delay = d
        BY <1>1
      <3>2. /\ callbackQ' = Append(callbackQ, e) /\ Len(callbackQ') = Len(callbackQ) + 1 /\ Len(callbackQ) \in Nat
            /\ callbackQ'[Len(callbackQ) + 1] = e
            /\ \A n \in 1 .. Len(callbackQ) : callbackQ'[n] = callbackQ[n]
        BY <1>2, <1>3, <2>1
      <3>3. \A n \in 1 .. Len(callbackQ') : n \in 1 .. Len(callbackQ) \/ n = Len(callbackQ) + 1
        BY <3>2
      <3>4. e.deadline - e.delay >= now
        BY <1>3, <3>1
      <3>5. \A n \in 1 .. Len(callbackQ') :
              \/ \E m \in 1 .. Len(callbackQ) : callbackQ'[n] = callbackQ[m]
              \/ callbackQ'[n] = e
        BY <3>2, <3>3
      <3> QED  BY <1>2, <1>3, <3>1, <3>4, <3>5 DEF Env
    <2>2. CASE k \notin {"timeout", "immediate"}
      BY <1>2, <1>3, <2>2, EnvSame
    <2> QED  BY <2>1, <2>2
  <1>7. stack[t] # <<>> => Top(t).pc = "js"
    BY DEF Schedule, InJs
  <1> QED  BY <1>2, <1>5, <1>6, <1>7, JsTurns

\* Without leaves only entries that were there.
LEMMA WithoutEnv ==
    ASSUME TypeOK, now' = now, NEW K \in SUBSET (1 .. Len(callbackQ)),
           callbackQ' = Select(callbackQ, K)
    PROVE  Env
  <1>1. callbackQ \in Seq(Entry) /\ now \in Nat
    BY DEF TypeOK
  <1>2. \A k \in 1 .. Len(callbackQ') : \E n \in K : callbackQ'[k] = callbackQ[n]
    BY <1>1, SelectKeeps
  <1> QED  BY <1>1, <1>2 DEF Env

LEMMA ClearTurns ==
    ASSUME TimersInv, TypeOK', TurnInv, Steady, NEW t \in Threads, NEW i \in Ids, Clear(t, i)
    PROVE  TurnInv'
  <1>1. now' = now /\ stack' = stack /\ states' = states /\ callbackQ' = Without(callbackQ, LAMBDA e : e.id = i)
    BY DEF Clear, refs
  <1>2. callbackQ' = Select(callbackQ, {n \in DOMAIN callbackQ : ~(callbackQ[n].id = i)})
    BY <1>1 DEF Without
  <1>3. PICK K : K = {n \in DOMAIN callbackQ : ~(callbackQ[n].id = i)}
    OBVIOUS
  <1>4. K \in SUBSET (1 .. Len(callbackQ))
    BY <1>3 DEF TimersInv, TypeOK
  <1>5. Env
    BY <1>1, <1>2, <1>3, <1>4, WithoutEnv DEF TimersInv
  <1>6. RefInv' /\ (stack[t] # <<>> => Top(t).pc = "js")
    BY <1>1 DEF TurnInv, RefInv, Clear, InJs
  <1> QED  BY <1>1, <1>5, <1>6, JsTurns

LEMMA RetireTurns ==
    ASSUME TimersInv, TypeOK', TurnInv, Steady, NEW t \in Threads, RetireAgent(t)
    PROVE  TurnInv'
  <1>1. now' = now /\ stack' = stack /\ states' = states /\ callbackQ' = Without(callbackQ, LAMBDA e : e.owner = t)
    BY DEF RetireAgent, refs
  <1>2. callbackQ' = Select(callbackQ, {n \in DOMAIN callbackQ : ~(callbackQ[n].owner = t)})
    BY <1>1 DEF Without
  <1>3. PICK K : K = {n \in DOMAIN callbackQ : ~(callbackQ[n].owner = t)}
    OBVIOUS
  <1>4. K \in SUBSET (1 .. Len(callbackQ))
    BY <1>3 DEF TimersInv, TypeOK
  <1>5. Env
    BY <1>1, <1>2, <1>3, <1>4, WithoutEnv DEF TimersInv
  <1>6. t \notin Pumps
    BY TimersAssumption DEF RetireAgent, TimersInv, TypeOK
  <1>7. RefInv' /\ stack[t] = <<>>
    BY <1>1, <1>6 DEF TurnInv, RefInv, TimersInv, FrameInv
  <1> QED  BY <1>1, <1>5, <1>7, JsTurns

LEMMA RefreshTurns ==
    ASSUME TimersInv, TypeOK', TurnInv, Steady, NEW t \in Threads, NEW i \in Ids, Refresh(t, i)
    PROVE  TurnInv'
  <1>1. /\ callbackQ' = [n \in DOMAIN callbackQ |->
                           IF callbackQ[n].id = i
                           THEN [callbackQ[n] EXCEPT !.deadline = now + callbackQ[n].delay]
                           ELSE callbackQ[n]]
        /\ i \in Queued => SetRef(i, TRUE)
        /\ i \notin Queued => states' = states
        /\ now' = now /\ stack' = stack /\ (stack[t] # <<>> => Top(t).pc = "js")
    BY DEF Refresh, refs, InJs
  <1>2. TypeOK /\ callbackQ \in Seq(Entry) /\ now \in Nat
    BY DEF TimersInv, TypeOK
  <1>3. Env
    <2>1. Len(callbackQ') = Len(callbackQ)
      BY <1>1, <1>2
    <2>2. ASSUME NEW n \in 1 .. Len(callbackQ), callbackQ'[n] # callbackQ[n]
          PROVE  /\ callbackQ'[n].deadline - callbackQ'[n].delay >= now
                 /\ callbackQ'[n].kind = "immediate" => callbackQ'[n].delay = 0
      <3>1. PICK e : e = callbackQ[n]
        OBVIOUS
      <3>2. e \in Entry /\ callbackQ'[n] = [e EXCEPT !.deadline = now + e.delay]
        <4>1. n \in DOMAIN callbackQ /\ e \in Entry
          BY <1>2, <3>1
        <4>2. callbackQ'[n] = IF e.id = i THEN [e EXCEPT !.deadline = now + e.delay] ELSE e
          BY <1>1, <3>1, <4>1
        <4> QED  BY <2>2, <3>1, <4>1, <4>2
      <3>3. /\ e.delay \in Nat /\ callbackQ'[n].deadline = now + e.delay
            /\ callbackQ'[n].delay = e.delay /\ callbackQ'[n].kind = e.kind
        BY <3>2 DEF Entry
      <3>4. e.kind = "immediate" => e.delay = 0
        BY <3>1 DEF TurnInv, DelayInv
      <3> QED  BY <1>2, <3>3, <3>4
    <2>3. ASSUME NEW n \in 1 .. Len(callbackQ')
          PROVE  \/ \E k \in 1 .. Len(callbackQ) : callbackQ'[n] = callbackQ[k]
                 \/ /\ callbackQ'[n].deadline - callbackQ'[n].delay >= now
                    /\ callbackQ'[n].kind = "immediate" => callbackQ'[n].delay = 0
      <3>1. n \in 1 .. Len(callbackQ)
        BY <2>1
      <3>2. CASE callbackQ'[n] = callbackQ[n]
        BY <3>1, <3>2
      <3>3. CASE callbackQ'[n] # callbackQ[n]
        BY <3>1, <3>3, <2>2
      <3> QED  BY <3>2, <3>3
    <2>4. now <= now' /\ now' \in Nat
      BY <1>1, <1>2
    <2> QED  BY <2>3, <2>4 DEF Env
  <1>4. RefInv'
    <2>1. CASE i \in Queued
      BY <1>1, <1>2, <2>1, SetRefKeeps DEF TurnInv
    <2>2. CASE i \notin Queued
      BY <1>1, <2>2 DEF TurnInv, RefInv
    <2> QED  BY <2>1, <2>2
  <1> QED  BY <1>1, <1>3, <1>4, JsTurns

LEMMA TurnInvInit ==
    Init => TurnInv
  <1> SUFFICES ASSUME Init PROVE TurnInv
    OBVIOUS
  <1>1. \A t \in Threads : Len(stack[t]) = 0
    BY DEF Init
  <1>2. TurnsInv /\ ShapeInv /\ DrainInv
    BY <1>1 DEF TurnsInv, ShapeInv, DrainInv
  <1>3. DelayInv /\ RefInv
    BY DEF Init, DelayInv, RefInv
  <1> QED  BY <1>2, <1>3 DEF TurnInv

LEMMA TurnInvNext ==
    ASSUME Steady, TimersInv, TurnInv, [Next]_vars
    PROVE  TurnInv'
  <1>0. TypeOK /\ TypeOK' /\ now \in Nat
    BY TimersInvNext DEF TimersInv, TypeOK
  <1>1. ASSUME stack' = stack, callbackQ' = callbackQ, states' = states, now <= now'
        PROVE  TurnInv'
    <2>1. Env
      BY <1>0, <1>1 DEF Env, TypeOK
    <2>2. TurnsInv' /\ ShapeInv' /\ DelayInv'
      BY <1>0, <1>1, <2>1, SameTurns, EnvDelay DEF TurnInv
    <2>3. DrainInv' /\ RefInv'
      BY <1>1 DEF TurnInv, DrainInv, RefInv, Uniform, HasRef
    <2> QED  BY <2>2, <2>3 DEF TurnInv
  <1>2. CASE UNCHANGED vars
    BY <1>0, <1>1, <1>2 DEF vars
  <1>3. CASE Clock
    BY <1>0, <1>1, <1>3 DEF Clock, queues, refs
  <1>4. ASSUME NEW t \in Threads, Step(t)
        PROVE  TurnInv'
    <2>1. CASE Drain(t)
      BY <1>0, <2>1, DrainTurns
    <2>2. CASE ~Drain(t)
      BY <1>0, <1>4, <2>2, TickTurns DEF Step
    <2> QED  BY <2>1, <2>2
  <1>5. ASSUME NEW t \in Threads, Js(t)
        PROVE  TurnInv'
    <2>1. CASE \E k \in Kinds, d \in Delays, b \in BOOLEAN :
                 (k = "immediate" => d = 0) /\ Schedule(t, k, d, b)
      BY <1>0, <2>1, ScheduleTurns
    <2>2. CASE \E i \in Ids : Clear(t, i)
      BY <1>0, <2>2, ClearTurns
    <2>3. CASE \E i \in Ids : Refresh(t, i)
      BY <1>0, <2>3, RefreshTurns
    <2>4. CASE \E i \in Ids, b \in BOOLEAN : Ref(t, i, b)
      BY <1>0, <2>4, RefTurns
    <2>5. CASE NestedPump(t) \/ HandleTick(t) \/ \E i \in Ids : Await(t, i)
      BY <1>0, <2>5, TickTurns
    <2> QED  BY <1>5, <2>1, <2>2, <2>3, <2>4, <2>5 DEF Js
  <1>6. ASSUME NEW t \in Threads, RetireAgent(t)
        PROVE  TurnInv'
    BY <1>0, <1>6, RetireTurns
  <1> QED  BY <1>2, <1>3, <1>4, <1>5, <1>6 DEF Next

\* What DeadlineOrder says of a call by thread t.
CallInOrder(t) ==
  Call(t) /\ Head(Top(t).batch).kind # "interval" =>
    LET f == Head(Top(t).batch) IN
    \A e \in PendingOf(t) \ {f} :
      /\ f.kind = "timeout" /\ e.kind = "timeout" =>
           f.deadline < e.deadline \/ (f.deadline = e.deadline /\ f.id < e.id)
      /\ f.kind = "immediate" /\ e.kind = "immediate" => f.id < e.id
      /\ f.kind = "immediate" /\ e.kind = "timeout" => e.deadline > Top(t).at

LEMMA CallLemma ==
    ASSUME TimersInv, TurnInv, NEW t \in Threads
    PROVE  CallInOrder(t)
  <1>1. PICK x, f, b, at : x = Top(t) /\ f = Head(Top(t).batch) /\ b = Top(t).batch /\ at = Top(t).at
    OBVIOUS
  <1> SUFFICES ASSUME Call(t), f.kind # "interval", NEW e \in PendingOf(t) \ {f}
               PROVE  /\ f.kind = "timeout" /\ e.kind = "timeout" =>
                           f.deadline < e.deadline \/ (f.deadline = e.deadline /\ f.id < e.id)
                      /\ f.kind = "immediate" /\ e.kind = "immediate" => f.id < e.id
                      /\ f.kind = "immediate" /\ e.kind = "timeout" => e.deadline > at
    BY <1>1 DEF CallInOrder
  <1>2. TypeOK /\ stack[t] # <<>> /\ b # <<>> /\ Phases[x.phase] # "promise"
    BY <1>1 DEF Call, TimersInv
  <1>3. x \in Frame /\ InTurn(t, x, now, callbackQ) /\ x.batch = b /\ x.at = at
    <2>1. Len(stack[t]) \in 1 .. Len(stack[t]) /\ x = stack[t][Len(stack[t])] /\ x \in Frame
      BY <1>1, <1>2, TopLemma
    <2> QED  BY <1>1, <2>1 DEF TurnInv, TurnsInv
  <1>4. b \in Seq(Entry) /\ at \in Nat /\ x.phase \in 1 .. Len(Phases)
    BY <1>3 DEF Frame
  <1>5. 1 \in 1 .. Len(b) /\ f = b[1] /\ f \in Entry
    BY <1>1, <1>2, <1>4
  <1>6. Phases[x.phase] = "callback"
    <2>1. Phases[x.phase] \in {"promise", "callback", "interval"}
      BY <1>2, <1>4, PhaseLemma
    <2>2. Phases[x.phase] # "interval"
      BY <1>3, <1>5 DEF InTurn
    <2> QED  BY <1>2, <2>1, <2>2
  <1>7. /\ \A n \in 1 .. Len(b) : b[n].kind \in {"timeout", "immediate"} /\ b[n].deadline <= at
        /\ \A k, l \in 1 .. Len(b) : k < l => Prec(b[k], b[l])
        /\ Later(t, at, callbackQ)
    BY <1>2, <1>3, <1>6 DEF InTurn
  <1>8. CASE e \in Range(b)
    <2>1. PICK n \in 1 .. Len(b) : e = b[n]
      BY <1>4, <1>8 DEF Range
    <2>2. 1 < n
      BY <1>5, <2>1
    <2>3. Prec(f, e)
      BY <1>5, <1>7, <2>1, <2>2
    <2> QED  BY <2>3 DEF Prec
  <1>9. CASE e \notin Range(b)
    <2>1. e \in Range(callbackQ) /\ e.owner = CurrentAgent(t) /\ e.deadline - e.delay < at
      BY <1>1, <1>9 DEF PendingOf
    <2>2. PICK n \in 1 .. Len(callbackQ) : e = callbackQ[n]
      BY <1>2, <2>1 DEF Range, TypeOK
    <2>3. e \in Entry /\ e.deadline \in Nat /\ e.delay \in Nat
      <3>1. e \in Entry
        BY <1>2, <2>2 DEF TypeOK
      <3> QED  BY <3>1 DEF Entry
    <2>4. e.deadline > at
      BY <1>4, <1>7, <2>1, <2>2, <2>3 DEF Later, Left
    <2>5. f.deadline \in Nat /\ f.deadline <= at
      BY <1>5, <1>7 DEF Entry
    <2>6. e.kind # "immediate"
      BY <1>4, <2>1, <2>2, <2>3, <2>4 DEF TurnInv, DelayInv
    <2> QED  BY <1>4, <2>3, <2>4, <2>5, <2>6
  <1> QED  BY <1>8, <1>9

\* Within one turn timeouts fire by deadline and then in creation order, immediates after
\* every timeout that was due, in a program that never unrefs a timer or that has one
\* thread (drain_expired_timers, order_expired_callback_batch); with both, what another
\* thread refs or unrefs between allow_unref and the drain decides what the turn takes.
THEOREM TurnOrder ==
    ASSUME Steady
    PROVE  Spec => DeadlineOrder
  <1>1. Init => TurnInv
    BY TurnInvInit
  <1>2. TimersInv /\ TurnInv /\ [Next]_vars => TurnInv'
    BY TurnInvNext
  <1>3. TimersInv /\ TurnInv => [\A t \in Threads : CallInOrder(t)]_vars
    BY CallLemma
  <1>4. DeadlineOrder <=> [][\A t \in Threads : CallInOrder(t)]_vars
    BY DEF DeadlineOrder, CallInOrder
  <1> QED  BY <1>1, <1>2, <1>3, <1>4, Invariance, PTL DEF Spec

=============================================================================
