--------------------------- MODULE FutexAbstract ---------------------------
(***************************************************************************)
(* What Atomics.wait / notify / waitAsync promise, with no locks, no       *)
(* condition variables and no table: every wait call is in exactly one     *)
(* place, the calls parked on a slot form a queue, a notify takes calls    *)
(* from the front of the queue, and a timeout takes a call from anywhere   *)
(* in it.  The outcome of a call never changes once it is decided.         *)
(* Futex.tla is the code of atomics_futex.rs and implements this module.   *)
(***************************************************************************)
EXTENDS Naturals, Sequences

CONSTANTS Waiters,   \* wait / waitAsync calls
          Slots      \* physical byte addresses of atomic slots

VARIABLES queue,     \* queue[s]: the calls parked on slot s, oldest first
          verdict    \* verdict[w]: what call w was (or will be) told

avars == <<queue, verdict>>

Range(q) == {q[i] : i \in DOMAIN q}

Queued == UNION {Range(queue[s]) : s \in Slots}

Init == /\ queue = [s \in Slots |-> << >>]
        /\ verdict = [w \in Waiters |-> "none"]

(* The call finds another value in its slot: it never parks. *)
Refuse(w) == /\ verdict[w] = "none"
             /\ w \notin Queued
             /\ verdict' = [verdict EXCEPT ![w] = "not-equal"]
             /\ UNCHANGED queue

(* A waitAsync call with a non-positive timeout is answered without parking. *)
Poll(w) == /\ verdict[w] = "none"
           /\ w \notin Queued
           /\ verdict' = [verdict EXCEPT ![w] = "timed-out"]
           /\ UNCHANGED queue

Park(w, s) == /\ verdict[w] = "none"
              /\ w \notin Queued
              /\ queue' = [queue EXCEPT ![s] = Append(@, w)]
              /\ UNCHANGED verdict

(* A notifier wakes the oldest call parked on s. *)
Wake(s) == /\ queue[s] # << >>
           /\ verdict' = [verdict EXCEPT ![Head(queue[s])] = "ok"]
           /\ queue' = [queue EXCEPT ![s] = Tail(@)]

(* A parked call gives up; the calls behind it keep their order. *)
Expire(w, s) ==
    \E i \in DOMAIN queue[s] :
        /\ queue[s][i] = w
        /\ queue' = [queue EXCEPT ![s] = SubSeq(@, 1, i - 1) \o SubSeq(@, i + 1, Len(@))]
        /\ verdict' = [verdict EXCEPT ![w] = "timed-out"]

Next == \/ \E w \in Waiters : Refuse(w) \/ Poll(w)
        \/ \E w \in Waiters, s \in Slots : Park(w, s) \/ Expire(w, s)
        \/ \E s \in Slots : Wake(s)

Spec == Init /\ [][Next]_avars
============================================================================
