---------------------------- MODULE FutexProofs ----------------------------
(* Theorems about Futex.tla, for any number of agents, slots and values. *)
EXTENDS Futex, FiniteSetTheorems, SequenceTheorems, TLAPS

(* What list.retain does to a list that holds a waiter at most once: the waiter
   is gone, every other entry is kept, and nothing is duplicated. *)
LEMMA RetainLemma ==
    ASSUME NEW S, NEW q \in Seq(S), NEW w,
           \A i, j \in 1..Len(q) : q[i] = q[j] => i = j
    PROVE  LET r == Retain(q, w) IN
           /\ r \in Seq(S)
           /\ \A i \in 1..Len(r) : r[i] # w /\ \E j \in 1..Len(q) : q[j] = r[i]
           /\ \A j \in 1..Len(q) : q[j] # w => \E i \in 1..Len(r) : r[i] = q[j]
           /\ \A i, j \in 1..Len(r) : r[i] = r[j] => i = j
  <1> DEFINE r == Retain(q, w)
  <1>1. CASE \E i \in 1..Len(q) : q[i] = w
    <2> DEFINE at == CHOOSE i \in 1..Len(q) : q[i] = w
    <2>1. at \in 1..Len(q) /\ q[at] = w
      BY <1>1
    <2>2. r = [i \in 1..(Len(q) - 1) |-> IF i < at THEN q[i] ELSE q[i + 1]]
      BY <1>1 DEF Retain
    <2> HIDE DEF at, r
    <2>3. r \in Seq(S) /\ Len(r) = Len(q) - 1
      BY <2>1, <2>2
    <2>4. \A i \in 1..Len(r) : r[i] # w /\ \E j \in 1..Len(q) : q[j] = r[i]
      <3> TAKE i \in 1..Len(r)
      <3>1. CASE i < at
        BY <3>1, <2>1, <2>2, <2>3
      <3>2. CASE ~(i < at)
        BY <3>2, <2>1, <2>2, <2>3
      <3> QED  BY <3>1, <3>2
    <2>5. \A j \in 1..Len(q) : q[j] # w => \E i \in 1..Len(r) : r[i] = q[j]
      <3> SUFFICES ASSUME NEW j \in 1..Len(q), q[j] # w
                   PROVE  \E i \in 1..Len(r) : r[i] = q[j]
        OBVIOUS
      <3>1. CASE j < at
        <4>1. j \in 1..Len(r) /\ r[j] = q[j]
          BY <3>1, <2>1, <2>2, <2>3
        <4> QED  BY <4>1
      <3>2. CASE j > at
        <4>1. j - 1 \in 1..Len(r) /\ r[j - 1] = q[j]
          BY <3>2, <2>1, <2>2, <2>3
        <4> QED  BY <4>1
      <3> QED  BY <3>1, <3>2, <2>1
    <2>6. \A i, j \in 1..Len(r) : r[i] = r[j] => i = j
      BY <2>1, <2>2, <2>3
    <2> QED  BY <2>3, <2>4, <2>5, <2>6 DEF r
  <1>2. CASE ~ \E i \in 1..Len(q) : q[i] = w
    BY <1>2 DEF Retain
  <1> QED  BY <1>1, <1>2

(* The arguments in the initial state are arbitrary members of their types. *)
LEMMA InitType == Init => TypeOK
  <1> USE FutexAssumption
  <1> SUFFICES ASSUME Init PROVE TypeOK
    OBVIOUS
  <1>1. (CHOOSE c \in Calls : TRUE) \in Calls
    <2>1. PICK s \in Slots, v \in Values : TRUE
      OBVIOUS
    <2>2. [slot |-> s, expected |-> v, async |-> TRUE, timeout |-> "zero"] \in Calls
      BY DEF Calls
    <2> QED  BY <2>2
  <1>2. (CHOOSE s \in Slots : TRUE) \in Slots
    OBVIOUS
  <1> QED  BY <1>1, <1>2 DEF Init, TypeOK

(* The slot a call names is a slot. *)
LEMMA CallSlot == TypeOK => \A w \in Waiters : call[w].slot \in Slots
  BY DEF TypeOK, Calls

(* Steps of a wait call that change neither a list nor a flag. *)
LEMMA QuietStep ==
    ASSUME IInv, NEW w \in Waiters,
           StartWait(w) \/ AsyncPrecheck(w) \/ BlockLoop(w) \/ SpuriousWake(w) \/ Deadline(w)
    PROVE  IInv'
  <1> USE FutexAssumption DEF IInv, notifyVars, Goto, Finish
  <1>1. TypeOK'
    <2> USE DEF TypeOK
    <2>1. CASE StartWait(w)
      BY <2>1 DEF StartWait
    <2>2. CASE AsyncPrecheck(w)
      BY <2>2 DEF AsyncPrecheck
    <2>3. CASE BlockLoop(w)
      BY <2>3 DEF BlockLoop
    <2>4. CASE SpuriousWake(w)
      BY <2>4 DEF SpuriousWake
    <2>5. CASE Deadline(w)
      BY <2>5 DEF Deadline
    <2> QED  BY <2>1, <2>2, <2>3, <2>4, <2>5
  <1>2. UNCHANGED <<mem, table, lock, notified, npc, req, counted>>
    BY DEF StartWait, AsyncPrecheck, BlockLoop, SpuriousWake, Deadline
  <1>3. \A v \in Waiters : /\ Parked(v)' <=> Parked(v)
                           /\ Waiting(v)' <=> Waiting(v)
                           /\ Waiting(v) => call'[v] = call[v]
    <2> USE DEF TypeOK, Parked, Waiting
    <2>1. CASE StartWait(w)
      BY <2>1 DEF StartWait
    <2>2. CASE AsyncPrecheck(w)
      BY <2>2 DEF AsyncPrecheck
    <2>3. CASE BlockLoop(w)
      BY <2>3 DEF BlockLoop
    <2>4. CASE SpuriousWake(w)
      BY <2>4 DEF SpuriousWake
    <2>5. CASE Deadline(w)
      BY <2>5 DEF Deadline
    <2> QED  BY <2>1, <2>2, <2>3, <2>4, <2>5
  <1>4. \A v \in Waiters : Parked(v) => Waiting(v)
    BY DEF Parked, Waiting
  <1>5. LockInv'
    <2> USE DEF TypeOK, LockInv
    <2>1. CASE StartWait(w)
      BY <2>1 DEF StartWait
    <2>2. CASE AsyncPrecheck(w)
      BY <2>2 DEF AsyncPrecheck
    <2>3. CASE BlockLoop(w)
      BY <2>3 DEF BlockLoop
    <2>4. CASE SpuriousWake(w)
      BY <2>4 DEF SpuriousWake
    <2>5. CASE Deadline(w)
      BY <2>5 DEF Deadline
    <2> QED  BY <2>1, <2>2, <2>3, <2>4, <2>5
  <1>6. ListInv'
    BY <1>2, <1>3, <1>4 DEF TypeOK, ListInv
  <1>7. ParkedInv'
    BY <1>2, <1>3, <1>4 DEF ParkedInv
  <1>8. CountInv'
    <2> USE DEF TypeOK, CountInv, Parked
    <2>1. CASE StartWait(w)
      BY <2>1 DEF StartWait
    <2>2. CASE AsyncPrecheck(w)
      BY <2>2 DEF AsyncPrecheck
    <2>3. CASE BlockLoop(w)
      BY <2>3 DEF BlockLoop
    <2>4. CASE SpuriousWake(w)
      BY <2>4 DEF SpuriousWake
    <2>5. CASE Deadline(w)
      BY <2>5 DEF Deadline
    <2> QED  BY <2>1, <2>2, <2>3, <2>4, <2>5
  <1>9. CoverInv'
    BY <1>2 DEF CoverInv
  <1>10. NoLostWakeup'
    BY <1>2, <1>3 DEF NoLostWakeup, Owes
  <1> QED  BY <1>1, <1>5, <1>6, <1>7, <1>8, <1>9, <1>10

(* A call that takes the table lock still reads the expected value. *)
LEMMA EnqueueCheckStep ==
    ASSUME IInv, NEW w \in Waiters, EnqueueCheck(w)
    PROVE  IInv'
  <1> USE FutexAssumption DEF IInv, EnqueueCheck, notifyVars, Goto, Finish
  <1>1. TypeOK'
    BY DEF TypeOK
  <1>2. UNCHANGED <<mem, table, call, notified, npc, req, counted>>
    OBVIOUS
  <1>3. \A v \in Waiters : Parked(v)' <=> Parked(v)
    BY DEF TypeOK, Parked
  <1>4. LockInv'
    BY DEF TypeOK, LockInv
  <1>5. ListInv'
    BY <1>2, <1>3 DEF TypeOK, ListInv
  <1>6. ParkedInv'
    BY <1>2, <1>3 DEF ParkedInv
  <1>7. CountInv'
    <2>1. ~notified[w] /\ wpc[w] # "done"
      BY DEF CountInv, Parked
    <2>2. /\ \A v \in Waiters \ {w} : wpc'[v] = wpc[v] /\ outcome'[v] = outcome[v]
          /\ \/ wpc'[w] = "done" /\ outcome'[w] = "not-equal"
             \/ wpc'[w] = "push" /\ outcome'[w] = outcome[w]
      BY DEF TypeOK
    <2> QED  BY <1>2, <2>1, <2>2 DEF CountInv, Parked
  <1>8. CoverInv'
    BY <1>2 DEF CoverInv
  <1>9. NoLostWakeup'
    <2>1. \A v \in Waiters : Waiting(v)' => Waiting(v) \/ mem[call[v].slot] = call[v].expected
      BY DEF TypeOK, Waiting
    <2> QED  BY <1>2, <2>1 DEF NoLostWakeup, Owes
  <1> QED  BY <1>1, <1>4, <1>5, <1>6, <1>7, <1>8, <1>9

(* Parking: the new entry is at the end of its own slot's list only. *)
LEMMA EnqueuePushStep ==
    ASSUME IInv, NEW w \in Waiters, EnqueuePush(w)
    PROVE  IInv'
  <1> USE FutexAssumption DEF IInv, EnqueuePush, notifyVars, Goto
  <1> DEFINE s == call[w].slot
  <1>1. s \in Slots
    BY CallSlot
  <1>2. TypeOK'
    BY <1>1 DEF TypeOK
  <1>3. /\ table'[s] = Append(table[s], w)
        /\ \A t \in Slots : t # s => table'[t] = table[t]
        /\ UNCHANGED <<mem, call, notified, outcome, npc, req, counted>>
    BY <1>1 DEF TypeOK
  <1>4. /\ Len(table'[s]) = Len(table[s]) + 1
        /\ table'[s][Len(table[s]) + 1] = w
        /\ \A i \in 1..Len(table[s]) : table'[s][i] = table[s][i]
    BY <1>1, <1>3 DEF TypeOK
  <1> HIDE DEF s
  <1>5. /\ Parked(w)' /\ ~Parked(w) /\ ~notified[w]
        /\ \A v \in Waiters \ {w} : wpc'[v] = wpc[v]
    BY DEF TypeOK, Parked, CountInv
  <1>6. \A n \in Notifiers : npc[n] \notin {"mark", "signal"}
    BY DEF TypeOK, LockInv
  <1>7. LockInv'
    BY <1>6, <1>3 DEF TypeOK, LockInv
  <1>8. ListInv'
    <2> DEFINE Fine(v, t) == /\ wpc'[v] \in {"block", "cv", "settle"}
                             /\ call[v].slot = t
                             /\ ~notified[v]
    <2> SUFFICES ASSUME NEW t \in Slots
                 PROVE  /\ \A i \in 1..Len(table'[t]) : Fine(table'[t][i], t)
                        /\ \A i, j \in 1..Len(table'[t]) : table'[t][i] = table'[t][j] => i = j
      BY <1>3 DEF ListInv, Parked
    <2>1. CASE t = s
      <3>1. \A i \in 1..Len(table[s]) : table[s][i] \in Waiters \ {w} /\ Fine(table[s][i], s)
        BY <1>1, <1>5, <1>3 DEF TypeOK, ListInv, Parked
      <3>2. call[w].slot = s
        BY DEF s
      <3>3. \A i \in 1..Len(table'[s]) : i \in 1..Len(table[s]) \/ i = Len(table[s]) + 1
        BY <1>1, <1>4 DEF TypeOK
      <3>4. \A i \in 1..Len(table'[s]) : Fine(table'[s][i], s)
        BY <1>4, <1>5, <3>1, <3>2, <3>3 DEF Parked
      <3>5. \A i, j \in 1..Len(table'[s]) : table'[s][i] = table'[s][j] => i = j
        BY <1>1, <1>4, <3>1, <3>3 DEF ListInv
      <3> QED  BY <2>1, <3>4, <3>5
    <2>2. CASE t # s
      BY <2>2, <1>1, <1>3, <1>5 DEF TypeOK, ListInv, Parked
    <2> QED  BY <2>1, <2>2
  <1>9. ParkedInv'
    <2> SUFFICES ASSUME NEW v \in Waiters, Parked(v)', ~notified[v]
                 PROVE  \E i \in 1..Len(table'[call[v].slot]) : table'[call[v].slot][i] = v
      BY <1>3 DEF ParkedInv
    <2>1. CASE v = w
      BY <2>1, <1>1, <1>4 DEF TypeOK, s
    <2>2. CASE v # w
      <3>1. PICK i \in 1..Len(table[call[v].slot]) : table[call[v].slot][i] = v
        BY <2>2, <1>5 DEF ParkedInv, Parked
      <3>2. call[v].slot \in Slots
        BY CallSlot
      <3>3. i \in 1..Len(table'[call[v].slot]) /\ table'[call[v].slot][i] = v
        BY <3>1, <3>2, <1>1, <1>3, <1>4 DEF TypeOK
      <3> QED  BY <3>3
    <2> QED  BY <2>1, <2>2
  <1>10. CountInv'
    BY <1>3, <1>5 DEF TypeOK, CountInv, Parked
  <1>11. CoverInv'
    BY <1>3, <1>6 DEF CoverInv
  <1>12. NoLostWakeup'
    BY <1>3, <1>6 DEF TypeOK, NoLostWakeup, Owes, Waiting
  <1> QED  BY <1>2, <1>7, <1>8, <1>9, <1>10, <1>11, <1>12

(* Leaving the table: the flag read under the lock is final. *)
LEMMA SettleStep ==
    ASSUME IInv, NEW w \in Waiters, Settle(w)
    PROVE  IInv'
  <1> USE FutexAssumption DEF IInv, Settle, notifyVars, Finish
  <1> DEFINE s == call[w].slot
             q == table[s]
             r == Retain(q, w)
  <1>1. s \in Slots
    BY CallSlot
  <1>2. q \in Seq(Waiters) /\ \A i, j \in 1..Len(q) : q[i] = q[j] => i = j
    BY <1>1 DEF TypeOK, ListInv
  <1>3. /\ r \in Seq(Waiters)
        /\ \A i \in 1..Len(r) : r[i] # w /\ \E j \in 1..Len(q) : q[j] = r[i]
        /\ \A j \in 1..Len(q) : q[j] # w => \E i \in 1..Len(r) : r[i] = q[j]
        /\ \A i, j \in 1..Len(r) : r[i] = r[j] => i = j
    <2> HIDE DEF q
    <2> QED  BY <1>2, RetainLemma
  <1>4. /\ table'[s] = r
        /\ \A t \in Slots : t # s => table'[t] = table[t]
        /\ UNCHANGED <<mem, lock, call, notified, npc, req, counted>>
        /\ wpc'[w] = "done"
        /\ \A v \in Waiters \ {w} : wpc'[v] = wpc[v] /\ outcome'[v] = outcome[v]
        /\ outcome'[w] = (IF notified[w] THEN "ok" ELSE "timed-out")
    BY <1>1 DEF TypeOK
  <1>5. TypeOK'
    BY <1>1, <1>3 DEF TypeOK
  <1> HIDE DEF r
  <1>6. \A n \in Notifiers : npc[n] \notin {"mark", "signal"}
    BY DEF LockInv
  <1>7. LockInv'
    BY <1>4 DEF TypeOK, LockInv
  <1>8. ListInv'
    <2> DEFINE Fine(v, t) == /\ wpc'[v] \in {"block", "cv", "settle"}
                             /\ call[v].slot = t
                             /\ ~notified[v]
    <2> SUFFICES ASSUME NEW t \in Slots
                 PROVE  /\ \A i \in 1..Len(table'[t]) : Fine(table'[t][i], t)
                        /\ \A i, j \in 1..Len(table'[t]) : table'[t][i] = table'[t][j] => i = j
      BY <1>4 DEF ListInv, Parked
    <2>1. CASE t = s
      <3>1. \A j \in 1..Len(q) : q[j] # w => Fine(q[j], s)
        BY <1>1, <1>2, <1>4 DEF ListInv, Parked
      <3>2. table'[t] = r
        BY <2>1, <1>4
      <3>3. ASSUME NEW i \in 1..Len(r) PROVE Fine(r[i], s)
        <4>1. PICK j \in 1..Len(q) : q[j] = r[i]
          BY <1>3
        <4>2. q[j] # w
          BY <4>1, <1>3
        <4> HIDE DEF Fine
        <4> QED  BY <4>1, <4>2, <3>1
      <3> HIDE DEF Fine, s, q
      <3> QED  BY <2>1, <3>2, <3>3, <1>3
    <2>2. CASE t # s
      BY <2>2, <1>1, <1>4 DEF TypeOK, ListInv, Parked
    <2> QED  BY <2>1, <2>2
  <1>9. ParkedInv'
    <2> SUFFICES ASSUME NEW v \in Waiters, Parked(v)', ~notified[v]
                 PROVE  \E i \in 1..Len(table'[call[v].slot]) : table'[call[v].slot][i] = v
      BY <1>4 DEF ParkedInv
    <2>1. v # w /\ Parked(v)
      BY <1>4 DEF Parked
    <2>2. PICK j \in 1..Len(table[call[v].slot]) : table[call[v].slot][j] = v
      BY <2>1 DEF ParkedInv
    <2>3. CASE call[v].slot = s
      <3>1. j \in 1..Len(q) /\ q[j] = v
        BY <2>2, <2>3
      <3>2. PICK i \in 1..Len(r) : r[i] = q[j]
        BY <3>1, <2>1, <1>3
      <3>3. table'[call[v].slot] = r
        BY <2>3, <1>4
      <3> QED  BY <3>1, <3>2, <3>3
    <2>4. CASE call[v].slot # s
      BY <2>2, <2>4, <1>4, CallSlot
    <2> QED  BY <2>3, <2>4
  <1>10. CountInv'
    BY <1>4 DEF TypeOK, CountInv, Parked
  <1>11. CoverInv'
    BY <1>4, <1>6 DEF CoverInv
  <1>12. NoLostWakeup'
    <2>1. \A v \in Waiters : Waiting(v)' => Waiting(v)
      BY <1>4 DEF Waiting
    <2> QED  BY <2>1, <1>4, <1>6 DEF NoLostWakeup, Owes
  <1> QED  BY <1>5, <1>7, <1>8, <1>9, <1>10, <1>11, <1>12

(* A store makes its agent owe the slot a notify. *)
LEMMA StoreStep ==
    ASSUME IInv, NEW n \in Notifiers, Store(n)
    PROVE  IInv'
  <1> USE FutexAssumption DEF IInv, Store, waitVars
  <1>1. PICK s \in Slots, v \in Values :
            /\ mem' = [mem EXCEPT ![s] = v]
            /\ req' = [req EXCEPT ![n] = [slot |-> s, left |-> 0, cur |-> NoOne]]
    OBVIOUS
  <1>2. TypeOK'
    BY DEF TypeOK
  <1>3. UNCHANGED <<table, lock, call, wpc, notified, outcome, counted>>
    OBVIOUS
  <1>4. /\ npc'[n] = "stored" /\ req'[n].slot = s
        /\ \A m \in Notifiers \ {n} : npc'[m] = npc[m] /\ req'[m] = req[m]
        /\ \A t \in Slots \ {s} : mem'[t] = mem[t]
    BY <1>1 DEF TypeOK
  <1>5. LockInv'
    BY <1>3, <1>4 DEF LockInv
  <1>6. ListInv' /\ ParkedInv' /\ CountInv'
    BY <1>3 DEF ListInv, ParkedInv, CountInv, Parked
  <1>7. CoverInv'
    BY <1>3, <1>4 DEF CoverInv
  <1>8. NoLostWakeup'
    <2> SUFFICES ASSUME NEW w \in Waiters, Waiting(w), ~notified[w],
                        mem'[call[w].slot] # call[w].expected
                 PROVE  \E m \in Notifiers : Owes(m, call[w].slot)'
      BY <1>3 DEF NoLostWakeup, Waiting
    <2>1. CASE call[w].slot = s
      BY <2>1, <1>3, <1>4 DEF Owes
    <2>2. CASE call[w].slot # s
      <3>1. PICK m \in Notifiers : Owes(m, call[w].slot)
        BY <2>2, <1>4, CallSlot DEF NoLostWakeup
      <3>2. m # n
        BY <3>1 DEF Owes
      <3> QED  BY <3>1, <3>2, <1>3, <1>4 DEF Owes
    <2> QED  BY <2>1, <2>2
  <1> QED  BY <1>2, <1>5, <1>6, <1>7, <1>8

(* Taking the lock to notify keeps a debt: a notify after a store covers the
   whole list, and any other notify is made by an agent that owes nothing. *)
LEMMA BeginNotifyStep ==
    ASSUME IInv, NEW n \in Notifiers, NEW s \in Slots, NEW c \in Nat, BeginNotify(n, s, c),
           npc[n] = "idle" \/ (npc[n] = "stored" /\ s = req[n].slot /\ c = Len(table[s]))
    PROVE  IInv'
  <1> USE FutexAssumption DEF IInv, BeginNotify, waitVars
  <1>1. Len(table[s]) \in Nat
    BY DEF TypeOK
  <1>2. TypeOK'
    BY <1>1 DEF TypeOK, Smaller
  <1>3. /\ npc'[n] = "mark"
        /\ req'[n] = [slot |-> s, left |-> Smaller(c, Len(table[s])), cur |-> NoOne]
        /\ \A m \in Notifiers \ {n} : npc'[m] = npc[m] /\ req'[m] = req[m]
        /\ UNCHANGED <<mem, table, call, wpc, notified, outcome, counted>>
    BY DEF TypeOK
  <1>4. LockInv'
    BY <1>3 DEF TypeOK, LockInv
  <1>5. ListInv' /\ ParkedInv' /\ CountInv'
    BY <1>3 DEF ListInv, ParkedInv, CountInv, Parked
  <1>6. CoverInv'
    BY <1>1, <1>3 DEF CoverInv, LockInv, Smaller
  <1>7. NoLostWakeup'
    <2> SUFFICES ASSUME NEW w \in Waiters, Waiting(w), ~notified[w],
                        mem[call[w].slot] # call[w].expected
                 PROVE  \E m \in Notifiers : Owes(m, call[w].slot)'
      BY <1>3 DEF NoLostWakeup, Waiting
    <2>1. PICK m \in Notifiers : Owes(m, call[w].slot)
      BY DEF NoLostWakeup
    <2>2. CASE m = n
      BY <2>1, <2>2, <1>1, <1>3 DEF Owes, Smaller
    <2>3. CASE m # n
      BY <2>1, <2>3, <1>3 DEF Owes
    <2> QED  BY <2>2, <2>3
  <1> QED  BY <1>2, <1>4, <1>5, <1>6, <1>7

(* Waking the oldest waiter of the list: it leaves the list with its flag set. *)
LEMMA NotifyMarkStep ==
    ASSUME IInv, NEW n \in Notifiers, NotifyMark(n)
    PROVE  IInv'
  <1> USE FutexAssumption DEF IInv
  <1> DEFINE s == req[n].slot
             q == table[s]
             w == Head(q)
  <1>1. s \in Slots /\ q \in Seq(Waiters) /\ req[n].left \in Nat
    BY DEF TypeOK
  <1>2. lock = n /\ req[n].left > 0 /\ req[n].left =< Len(q)
    BY DEF NotifyMark, LockInv, CoverInv
  <1>3. /\ w \in Waiters /\ w = q[1]
        /\ Tail(q) \in Seq(Waiters) /\ Len(Tail(q)) = Len(q) - 1
        /\ \A i \in 1..Len(Tail(q)) : Tail(q)[i] = q[i + 1] /\ i + 1 \in 1..Len(q)
    <2> HIDE DEF q
    <2> QED  BY <1>1, <1>2
  <1>4. /\ table' = [table EXCEPT ![s] = Tail(q)]
        /\ notified' = [notified EXCEPT ![w] = TRUE]
        /\ counted' = counted \cup {w}
        /\ req' = [req EXCEPT ![n] = [slot |-> s, left |-> req[n].left - 1, cur |-> w]]
        /\ npc' = [npc EXCEPT ![n] = "signal"]
        /\ UNCHANGED <<mem, lock, call, wpc, expired, outcome, ops>>
    BY DEF NotifyMark
  <1> HIDE DEF s, q, w
  <1>5. TypeOK'
    BY <1>1, <1>2, <1>3, <1>4 DEF TypeOK
  <1>6. /\ table'[s] = Tail(q) /\ table[s] = q
        /\ \A t \in Slots : t # s => table'[t] = table[t]
        /\ notified'[w] /\ \A v \in Waiters : v # w => notified'[v] = notified[v]
        /\ npc[n] = "mark" /\ npc'[n] = "signal" /\ req[n].slot = s
        /\ req'[n].slot = s /\ req'[n].left = req[n].left - 1
        /\ \A m \in Notifiers \ {n} : npc'[m] = npc[m] /\ req'[m] = req[m]
    BY <1>1, <1>3, <1>4 DEF TypeOK, NotifyMark, q, s
  <1>7. /\ Parked(w) /\ call[w].slot = s /\ ~notified[w]
        /\ \A t \in Slots : \A i \in 1..Len(table[t]) :
              /\ Parked(table[t][i]) /\ call[table[t][i]].slot = t /\ ~notified[table[t][i]]
              /\ table[t][i] \in Waiters
        /\ \A i, j \in 1..Len(q) : q[i] = q[j] => i = j
    <2>1. 1 \in 1..Len(q)
      BY <1>1, <1>2
    <2> QED  BY <2>1, <1>1, <1>3, <1>6 DEF ListInv, TypeOK
  <1>8. LockInv'
    BY <1>4, <1>6 DEF LockInv
  <1>9. ListInv'
    <2> DEFINE Fine(v, t) == Parked(v) /\ call[v].slot = t /\ ~notified'[v]
    <2>0. call' = call /\ wpc' = wpc
      BY <1>4
    <2> SUFFICES ASSUME NEW t \in Slots
                 PROVE  /\ \A i \in 1..Len(table'[t]) : Fine(table'[t][i], t)
                        /\ \A i, j \in 1..Len(table'[t]) : table'[t][i] = table'[t][j] => i = j
      BY <2>0 DEF ListInv, Parked
    <2>1. CASE t = s
      <3>1. ASSUME NEW i \in 1..Len(Tail(q))
            PROVE  Fine(Tail(q)[i], t)
        <4>1. Tail(q)[i] = q[i + 1] /\ i + 1 \in 1..Len(q) /\ 1 \in 1..Len(q) /\ i + 1 # 1
          BY <1>1, <1>3
        <4>2. q[i + 1] # w
          BY <4>1, <1>3, <1>7
        <4> QED  BY <4>1, <4>2, <2>1, <1>6, <1>7
      <3>2. ASSUME NEW i \in 1..Len(Tail(q)), NEW j \in 1..Len(Tail(q)), Tail(q)[i] = Tail(q)[j]
            PROVE  i = j
        BY <3>2, <1>1, <1>3, <1>7
      <3>3. table'[t] = Tail(q)
        BY <2>1, <1>6
      <3> HIDE DEF Fine
      <3> QED  BY <3>1, <3>2, <3>3
    <2>2. CASE t # s
      <3>1. \A i \in 1..Len(table[t]) : table[t][i] # w
        BY <2>2, <1>7
      <3> QED  BY <2>2, <3>1, <1>6, <1>7 DEF ListInv
    <2> QED  BY <2>1, <2>2
  <1>10. ParkedInv'
    <2> SUFFICES ASSUME NEW v \in Waiters, Parked(v), ~notified'[v]
                 PROVE  \E i \in 1..Len(table'[call[v].slot]) : table'[call[v].slot][i] = v
      BY <1>4 DEF ParkedInv, Parked
    <2>1. v # w /\ ~notified[v]
      BY <1>6
    <2>2. PICK j \in 1..Len(table[call[v].slot]) : table[call[v].slot][j] = v
      BY <2>1 DEF ParkedInv
    <2>3. CASE call[v].slot = s
      <3>1. j \in 1..Len(q) /\ q[j] = v /\ j # 1
        BY <2>1, <2>2, <2>3, <1>3, <1>6
      <3>2. j - 1 \in 1..Len(Tail(q)) /\ Tail(q)[j - 1] = v
        BY <3>1, <1>1, <1>3
      <3> QED  BY <3>2, <2>3, <1>6
    <2>4. CASE call[v].slot # s
      BY <2>2, <2>4, <1>6, CallSlot
    <2> QED  BY <2>3, <2>4
  <1>11. CountInv'
    BY <1>3, <1>4, <1>6, <1>7 DEF CountInv, Parked
  <1>12. CoverInv'
    <2>1. \A m \in Notifiers \ {n} : npc[m] \notin {"mark", "signal"}
      BY <1>2 DEF LockInv
    <2>2. req'[n].left =< Len(table'[s])
      BY <1>1, <1>2, <1>3, <1>6
    <2> QED  BY <2>1, <2>2, <1>6 DEF CoverInv
  <1>13. NoLostWakeup'
    <2> SUFFICES ASSUME NEW v \in Waiters, Waiting(v), ~notified'[v],
                        mem[call[v].slot] # call[v].expected
                 PROVE  \E m \in Notifiers : Owes(m, call[v].slot)'
      BY <1>4 DEF NoLostWakeup, Waiting
    <2>1. PICK m \in Notifiers : Owes(m, call[v].slot)
      BY <1>6 DEF NoLostWakeup
    <2>2. CASE m = n
      <3>1. req[n].left = Len(q) /\ call[v].slot = s
        BY <2>1, <2>2, <1>6 DEF Owes
      <3>2. req'[n].left = Len(table'[s])
        BY <3>1, <1>1, <1>3, <1>6
      <3> QED  BY <3>1, <3>2, <1>4, <1>6 DEF Owes
    <2>3. CASE m # n
      <3>1. npc[m] \notin {"mark", "signal"}
        BY <2>3, <1>2 DEF LockInv
      <3> QED  BY <2>1, <2>3, <3>1, <1>4, <1>6 DEF Owes
    <2> QED  BY <2>2, <2>3
  <1> QED  BY <1>5, <1>8, <1>9, <1>10, <1>11, <1>12, <1>13

(* Signalling a waiter only moves it from its condition variable to its loop. *)
LEMMA NotifySignalStep ==
    ASSUME IInv, NEW n \in Notifiers, NotifySignal(n)
    PROVE  IInv'
  <1> USE FutexAssumption DEF IInv, NotifySignal
  <1>1. TypeOK'
    BY DEF TypeOK
  <1>2. /\ UNCHANGED <<mem, table, lock, call, notified, outcome, req, counted>>
        /\ npc[n] = "signal" /\ npc'[n] = "mark"
        /\ \A m \in Notifiers \ {n} : npc'[m] = npc[m]
    BY DEF TypeOK
  <1>3. \A v \in Waiters : /\ wpc'[v] = wpc[v] \/ (wpc[v] = "cv" /\ wpc'[v] = "block")
    BY DEF TypeOK
  <1>4. \A v \in Waiters : /\ Parked(v)' <=> Parked(v)
                           /\ Waiting(v)' <=> Waiting(v)
                           /\ wpc'[v] = "push" <=> wpc[v] = "push"
                           /\ wpc'[v] = "done" <=> wpc[v] = "done"
    BY <1>3 DEF Parked, Waiting
  <1>5. LockInv'
    BY <1>2, <1>4 DEF LockInv
  <1>6. ListInv'
    BY <1>2, <1>4 DEF TypeOK, ListInv
  <1>7. ParkedInv'
    BY <1>2, <1>4 DEF ParkedInv
  <1>8. CountInv'
    BY <1>2, <1>4 DEF CountInv
  <1>9. CoverInv'
    BY <1>2 DEF CoverInv
  <1>10. NoLostWakeup'
    <2>1. \A m \in Notifiers, s \in Slots : Owes(m, s) => Owes(m, s)'
      BY <1>2 DEF Owes
    <2> QED  BY <2>1, <1>2, <1>4, CallSlot DEF NoLostWakeup
  <1> QED  BY <1>1, <1>5, <1>6, <1>7, <1>8, <1>9, <1>10

(* A notify that covered its whole list leaves nobody behind when it returns. *)
LEMMA NotifyReturnStep ==
    ASSUME IInv, NEW n \in Notifiers, NotifyReturn(n)
    PROVE  IInv'
  <1> USE FutexAssumption DEF IInv, NotifyReturn, waitVars
  <1>1. TypeOK'
    BY DEF TypeOK
  <1>2. /\ UNCHANGED <<mem, table, call, wpc, notified, outcome, req, counted>>
        /\ lock = n /\ lock' = NoOne /\ npc'[n] = "idle" /\ req[n].left = 0
        /\ \A m \in Notifiers \ {n} : npc'[m] = npc[m] /\ npc[m] \notin {"mark", "signal"}
        /\ \A v \in Waiters : wpc[v] # "push"
    BY DEF TypeOK, LockInv
  <1>3. LockInv'
    BY <1>2 DEF LockInv
  <1>4. ListInv' /\ ParkedInv' /\ CountInv'
    BY <1>2 DEF ListInv, ParkedInv, CountInv, Parked
  <1>5. CoverInv'
    BY <1>2 DEF CoverInv
  <1>6. NoLostWakeup'
    <2> SUFFICES ASSUME NEW v \in Waiters, Waiting(v), ~notified[v],
                        mem[call[v].slot] # call[v].expected
                 PROVE  \E m \in Notifiers : Owes(m, call[v].slot)'
      BY <1>2 DEF NoLostWakeup, Waiting
    <2>1. PICK m \in Notifiers : Owes(m, call[v].slot)
      BY DEF NoLostWakeup
    <2>2. PICK i \in 1..Len(table[call[v].slot]) : table[call[v].slot][i] = v
      BY <1>2 DEF ParkedInv, Parked, Waiting
    <2>3. m # n
      <3>1. Len(table[call[v].slot]) # 0
        BY <2>2, CallSlot DEF TypeOK
      <3> QED  BY <2>1, <3>1, <1>2 DEF Owes
    <2> QED  BY <2>1, <2>3, <1>2 DEF Owes
  <1> QED  BY <1>1, <1>3, <1>4, <1>5, <1>6

(* The inductive invariant holds: one lemma above per step of the code. *)
THEOREM InductiveInvariant == Spec => []IInv
  <1>1. Init => IInv
    <2> SUFFICES ASSUME Init PROVE IInv
      OBVIOUS
    <2> USE FutexAssumption DEF Init
    <2>1. TypeOK
      BY InitType
    <2>2. LockInv /\ ListInv /\ ParkedInv /\ CountInv /\ CoverInv /\ NoLostWakeup
      BY <2>1 DEF LockInv, ListInv, ParkedInv, CountInv, CoverInv, NoLostWakeup, Parked, Waiting
    <2> QED  BY <2>1, <2>2 DEF IInv
  <1>2. IInv /\ [Next]_vars => IInv'
    <2> SUFFICES ASSUME IInv, [Next]_vars PROVE IInv'
      OBVIOUS
    <2>1. ASSUME NEW n \in Notifiers, NotifyAll(n) PROVE IInv'
      <3>1. req[n].slot \in Slots /\ Len(table[req[n].slot]) \in Nat
        BY DEF IInv, TypeOK
      <3> QED  BY <2>1, <3>1, BeginNotifyStep DEF NotifyAll
    <2>2. ASSUME NEW n \in Notifiers, NotifySome(n) PROVE IInv'
      <3>1. PICK s \in Slots, c \in 0..Cardinality(Waiters) : BeginNotify(n, s, c)
        BY <2>2 DEF NotifySome
      <3>2. c \in Nat
        BY FutexAssumption, FS_CardinalityType
      <3> QED  BY <2>2, <3>1, <3>2, BeginNotifyStep DEF NotifySome
    <2>3. CASE UNCHANGED vars
      BY <2>3 DEF vars, waitVars, notifyVars, IInv, TypeOK, LockInv, ListInv, ParkedInv,
                  CountInv, CoverInv, NoLostWakeup, Owes, Parked, Waiting
    <2> QED
      BY <2>1, <2>2, <2>3, QuietStep, EnqueueCheckStep, EnqueuePushStep, SettleStep,
         StoreStep, NotifyMarkStep, NotifySignalStep, NotifyReturnStep
         DEF Next, WaiterStep, NotifierStep, TimeoutWake, Finished
  <1> QED  BY <1>1, <1>2, PTL DEF Spec

(* The state stays well typed: in particular a notify never wakes more waiters
   than it was asked to (`left' is never negative). *)
THEOREM TypeCorrect == Spec => []TypeOK
  <1>1. IInv => TypeOK
    BY DEF IInv
  <1> QED  BY <1>1, InductiveInvariant, PTL

(* No wakeup is lost, whatever the number of agents, slots and values. *)
THEOREM NoWakeupIsLost == Spec => []NoLostWakeup
  <1>1. IInv => NoLostWakeup
    BY DEF IInv
  <1> QED  BY <1>1, InductiveInvariant, PTL

(* A notify racing a timeout has one outcome, and the wake counts are right. *)
THEOREM OneOutcome == Spec => []ExactlyOneOutcome
  <1>1. IInv => ExactlyOneOutcome
    BY DEF IInv, CountInv, ExactlyOneOutcome
  <1> QED  BY <1>1, InductiveInvariant, PTL

(* No list ever holds a call that has returned. *)
THEOREM TableIsClean == Spec => []NoStaleWaiter
  <1>1. IInv => NoStaleWaiter
    BY DEF IInv, TypeOK, ListInv, NoStaleWaiter, Parked, Waiting
  <1> QED  BY <1>1, InductiveInvariant, PTL

(* Leaving the list by retain is leaving it at the place where the waiter is. *)
LEMMA RetainIsCut ==
    ASSUME NEW S, NEW q \in Seq(S), NEW w, NEW i \in 1..Len(q), q[i] = w,
           \A j, k \in 1..Len(q) : q[j] = q[k] => j = k
    PROVE  Retain(q, w) = SubSeq(q, 1, i - 1) \o SubSeq(q, i + 1, Len(q))
  <1> DEFINE a == SubSeq(q, 1, i - 1)
             b == SubSeq(q, i + 1, Len(q))
             c == a \o b
  <1>1. (CHOOSE j \in 1..Len(q) : q[j] = w) = i
    OBVIOUS
  <1>2. Retain(q, w) = [j \in 1..(Len(q) - 1) |-> IF j < i THEN q[j] ELSE q[j + 1]]
    BY <1>1 DEF Retain
  <1>3. /\ a \in Seq(S) /\ Len(a) = i - 1
        /\ \A j \in 1..(i - 1) : a[j] = q[j]
    OBVIOUS
  <1>4. /\ b \in Seq(S) /\ Len(b) = Len(q) - i
        /\ \A j \in 1..(Len(q) - i) : b[j] = q[i + j]
    OBVIOUS
  <1> HIDE DEF a, b, c
  <1>5. /\ c \in Seq(S) /\ Len(c) = Len(q) - 1
        /\ \A j \in 1..(Len(q) - 1) : c[j] = IF j < i THEN a[j] ELSE b[j - (i - 1)]
    <2>1. /\ c \in Seq(S) /\ Len(c) = Len(a) + Len(b)
          /\ \A j \in 1..(Len(a) + Len(b)) : c[j] = IF j <= Len(a) THEN a[j] ELSE b[j - Len(a)]
      <3>1. a \in Seq(S) /\ b \in Seq(S)
        BY <1>3, <1>4
      <3>2. /\ a \o b \in Seq(S) /\ Len(a \o b) = Len(a) + Len(b)
            /\ \A j \in 1..Len(a) + Len(b) : (a \o b)[j] = IF j <= Len(a) THEN a[j] ELSE b[j - Len(a)]
        BY <3>1, SMT
      <3> QED  BY <3>2, Zenon DEF c
    <2>2. Len(a) + Len(b) = Len(q) - 1 /\ \A j \in 1..(Len(q) - 1) : j <= Len(a) <=> j < i
      BY <1>3, <1>4
    <2> QED  BY <1>3, <2>1, <2>2
  <1>6. \A j \in 1..(Len(q) - 1) : c[j] = IF j < i THEN q[j] ELSE q[j + 1]
    <2> TAKE j \in 1..(Len(q) - 1)
    <2>1. CASE j < i
      BY <2>1, <1>3, <1>5
    <2>2. CASE ~(j < i)
      <3>1. j - (i - 1) \in 1..(Len(q) - i) /\ i + (j - (i - 1)) = j + 1
        BY <2>2
      <3> QED  BY <2>2, <3>1, <1>4, <1>5
    <2> QED  BY <2>1, <2>2
  <1>7. /\ Retain(q, w) \in Seq(S) /\ Len(Retain(q, w)) = Len(q) - 1
        /\ \A j \in 1..(Len(q) - 1) : Retain(q, w)[j] = IF j < i THEN q[j] ELSE q[j + 1]
    BY <1>2
  <1>8. Retain(q, w) = c
    <2>1. \A j \in 1..Len(c) : Retain(q, w)[j] = c[j]
      BY <1>5, <1>6, <1>7
    <2> QED  BY <1>5, <1>7, <2>1, SeqEqual, Zenon
  <1> QED  BY <1>8 DEF a, b, c

(* A call that has not registered is in no queue. *)
LEMMA NotQueued ==
    ASSUME IInv, NEW w \in Waiters, ~Parked(w)
    PROVE  w \notin Abstract!Queued
  <1> SUFFICES ASSUME NEW s \in Slots, NEW i \in DOMAIN table[s], table[s][i] = w PROVE FALSE
    BY DEF Abstract!Queued, Abstract!Range
  <1>1. table[s] \in Seq(Waiters)
    BY DEF IInv, TypeOK
  <1>2. i \in 1..Len(table[s])
    BY <1>1
  <1> QED  BY <1>2 DEF IInv, ListInv

(* The steps that change neither a list nor what a call is told. *)
LEMMA AbstractStutter ==
    ASSUME UNCHANGED <<table, notified, outcome>>
    PROVE  UNCHANGED Abstract!avars
  BY DEF Abstract!avars, Verdict

(* A step that only decides the outcome of a call that was not notified. *)
LEMMA VerdictChange ==
    ASSUME IInv, NEW w \in Waiters, ~notified[w], NEW o, UNCHANGED notified,
           outcome' = [outcome EXCEPT ![w] = o]
    PROVE  Verdict' = [Verdict EXCEPT ![w] = o]
  BY DEF Verdict, IInv, TypeOK

(* waitAsync without parking: refused, or polled with a timeout of zero. *)
LEMMA AbstractRefuse ==
    ASSUME IInv, NEW w \in Waiters, AsyncPrecheck(w) \/ EnqueueCheck(w)
    PROVE  [Abstract!Next]_(Abstract!avars)
  <1>1. ~Parked(w) /\ ~notified[w] /\ outcome[w] = "none"
    BY DEF IInv, CountInv, Parked, AsyncPrecheck, EnqueueCheck
  <1>2. UNCHANGED <<table, notified>>
    BY DEF AsyncPrecheck, EnqueueCheck
  <1>3. w \notin Abstract!Queued /\ Verdict[w] = "none"
    BY <1>1, NotQueued DEF Verdict
  <1>4. CASE UNCHANGED outcome
    BY <1>2, <1>4, AbstractStutter
  <1>5. CASE outcome' = [outcome EXCEPT ![w] = "not-equal"]
    <2>1. Abstract!Refuse(w)
      BY <1>1, <1>2, <1>3, <1>5, VerdictChange DEF Abstract!Refuse
    <2> QED  BY <2>1 DEF Abstract!Next
  <1>6. CASE outcome' = [outcome EXCEPT ![w] = "timed-out"]
    <2>1. Abstract!Poll(w)
      BY <1>1, <1>2, <1>3, <1>6, VerdictChange DEF Abstract!Poll
    <2> QED  BY <2>1 DEF Abstract!Next
  <1> QED  BY <1>4, <1>5, <1>6 DEF AsyncPrecheck, EnqueueCheck, Finish

(* Registering a call parks it at the end of its slot's queue. *)
LEMMA AbstractPark ==
    ASSUME IInv, NEW w \in Waiters, EnqueuePush(w)
    PROVE  Abstract!Next
  <1>1. ~Parked(w) /\ ~notified[w] /\ outcome[w] = "none"
    BY DEF IInv, CountInv, Parked, EnqueuePush
  <1>2. w \notin Abstract!Queued /\ Verdict[w] = "none" /\ call[w].slot \in Slots
    BY <1>1, NotQueued, CallSlot DEF Verdict, IInv
  <1>3. Verdict' = Verdict
    BY DEF Verdict, EnqueuePush
  <1>4. Abstract!Park(w, call[w].slot)
    BY <1>2, <1>3 DEF Abstract!Park, EnqueuePush
  <1> QED  BY <1>2, <1>4 DEF Abstract!Next

(* The end of block: a notified call was answered before, and its removal
   changes nothing; any other gives up its place in the queue. *)
LEMMA AbstractSettle ==
    ASSUME IInv, NEW w \in Waiters, Settle(w)
    PROVE  [Abstract!Next]_(Abstract!avars)
  <1> DEFINE s == call[w].slot
             q == table[s]
  <1>1. s \in Slots /\ q \in Seq(Waiters)
    BY CallSlot DEF IInv, TypeOK
  <1>2. \A j, k \in 1..Len(q) : q[j] = q[k] => j = k
    BY <1>1 DEF IInv, ListInv
  <1>3. CASE notified[w]
    <2>1. Retain(q, w) = q
      BY <1>1, <1>3 DEF Retain, IInv, ListInv
    <2>2. table' = table
      BY <2>1, <1>1 DEF Settle, IInv, TypeOK
    <2>3. Verdict' = Verdict
      BY <1>3 DEF Verdict, Settle, Finish, IInv, TypeOK
    <2> QED  BY <2>2, <2>3 DEF Abstract!avars
  <1>4. CASE ~notified[w]
    <2>1. PICK i \in 1..Len(q) : q[i] = w
      BY <1>4 DEF IInv, ParkedInv, Parked, Settle
    <2>2. Retain(q, w) = SubSeq(q, 1, i - 1) \o SubSeq(q, i + 1, Len(q))
      BY <1>1, <1>2, <2>1, RetainIsCut
    <2>3. Verdict' = [Verdict EXCEPT ![w] = "timed-out"]
      BY <1>4, VerdictChange DEF Settle, Finish
    <2>4. table' = [table EXCEPT ![s] = SubSeq(@, 1, i - 1) \o SubSeq(@, i + 1, Len(@))]
      BY <2>2, <1>1 DEF Settle, IInv, TypeOK
    <2>5. i \in DOMAIN q
      BY <1>1, <2>1
    <2>6. Abstract!Expire(w, s)
      BY <2>1, <2>3, <2>4, <2>5 DEF Abstract!Expire
    <2> QED  BY <1>1, <2>6 DEF Abstract!Next
  <1> QED  BY <1>3, <1>4

(* Setting the flag of the first waiter of the list wakes the oldest call. *)
LEMMA AbstractWake ==
    ASSUME IInv, NEW n \in Notifiers, NotifyMark(n)
    PROVE  Abstract!Next
  <1> DEFINE s == req[n].slot
             w == Head(table[s])
  <1>1. s \in Slots /\ table[s] \in Seq(Waiters) /\ req[n].left \in Nat
    BY DEF IInv, TypeOK
  <1>2. table[s] # << >>
    BY <1>1 DEF NotifyMark, IInv, CoverInv
  <1>3. w \in Waiters
    BY <1>1, <1>2
  <1>4. Verdict' = [Verdict EXCEPT ![w] = "ok"]
    BY <1>3 DEF Verdict, NotifyMark, IInv, TypeOK
  <1>5. Abstract!Wake(s)
    BY <1>2, <1>4 DEF Abstract!Wake, NotifyMark
  <1> QED  BY <1>1, <1>5 DEF Abstract!Next

(* The table, its lock and the condition variables of atomics_futex.rs implement
   FutexAbstract: each step is a step of the atomic queue or is invisible there,
   so calls are woken first come, first served, and no verdict changes once it
   is given, for any number of agents. *)
THEOREM FutexImplementsAbstract == Spec => ImplementsAbstract
  <1>1. Init => Abstract!Init
    BY DEF Init, Abstract!Init, Verdict
  <1>2. IInv /\ [Next]_vars => [Abstract!Next]_(Abstract!avars)
    <2> SUFFICES ASSUME IInv, [Next]_vars PROVE [Abstract!Next]_(Abstract!avars)
      OBVIOUS
    <2>1. ASSUME NEW w \in Waiters, StartWait(w) \/ BlockLoop(w) \/ SpuriousWake(w) \/ Deadline(w)
          PROVE  UNCHANGED Abstract!avars
      <3>1. UNCHANGED <<table, notified, outcome>>
        BY <2>1 DEF StartWait, BlockLoop, SpuriousWake, Deadline
      <3> QED  BY <3>1, AbstractStutter
    <2>2. ASSUME NEW n \in Notifiers,
                 Store(n) \/ NotifySome(n) \/ NotifyAll(n) \/ NotifySignal(n) \/ NotifyReturn(n)
          PROVE  UNCHANGED Abstract!avars
      <3>1. UNCHANGED <<table, notified, outcome>>
        BY <2>2 DEF Store, NotifySome, NotifyAll, BeginNotify, NotifySignal, NotifyReturn, waitVars
      <3> QED  BY <3>1, AbstractStutter
    <2>3. CASE UNCHANGED vars
      <3>1. UNCHANGED <<table, notified, outcome>>
        BY <2>3 DEF vars, waitVars
      <3> QED  BY <3>1, AbstractStutter
    <2> QED
      BY <2>1, <2>2, <2>3, AbstractRefuse, AbstractPark, AbstractSettle, AbstractWake
         DEF Next, WaiterStep, NotifierStep, TimeoutWake, Finished
  <1> QED  BY <1>1, <1>2, InductiveInvariant, PTL DEF Spec, ImplementsAbstract, Abstract!Spec
============================================================================
