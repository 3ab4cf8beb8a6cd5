------------------------------- MODULE Futex -------------------------------
(***************************************************************************)
(* The park/wake table behind Atomics.wait, Atomics.notify and             *)
(* Atomics.waitAsync (perry-runtime/src/atomics_futex.rs and the three     *)
(* entry points of atomics.rs).                                            *)
(*                                                                         *)
(* A wait call is a process of its own: Atomics.wait runs it on the        *)
(* calling thread, Atomics.waitAsync runs its first half on the caller and *)
(* `block' on a background thread.  A notifier is an agent that stores a   *)
(* value and then notifies, or only notifies.  The steps are the accesses  *)
(* other threads can see: acquiring and releasing the table lock, reading  *)
(* and writing the slot (which no lock protects), setting a waiter's flag, *)
(* signalling its condition variable.  Everything under a waiter's own     *)
(* `notified' mutex is one step, because nothing else is read or written   *)
(* while that mutex is held.                                               *)
(***************************************************************************)
EXTENDS Naturals, Sequences, FiniteSets

CONSTANTS Waiters,      \* wait / waitAsync calls
          Notifiers,    \* agents that store and notify
          Slots,        \* physical byte addresses of atomic slots
          Values,       \* values a slot can hold
          MaxOps,       \* bound on the notify calls of one notifier
          NoOne         \* the table lock's owner when it is free

ASSUME FutexAssumption == /\ NoOne \notin Waiters \cup Notifiers
                          /\ Waiters \cap Notifiers = {}
                          /\ Slots # {} /\ Values # {}
                          /\ MaxOps \in Nat
                          /\ IsFiniteSet(Waiters)

VARIABLES
    mem,        \* mem[s]: the value in slot s
    table,      \* WAIT_TABLE: table[s] is the Vec<Arc<Waiter>> of address s
    lock,       \* owner of the WAIT_TABLE mutex
    call,       \* call[w]: the arguments of wait call w
    wpc,        \* where wait call w is
    notified,   \* Waiter.notified
    expired,    \* the deadline of call w has passed
    outcome,    \* the WaitOutcome of call w
    npc,        \* where notifier n is
    req,        \* n's notify: its slot, `n - woken', and the waiter it signals
    ops,        \* notify calls n has made
    counted     \* waiters a notifier has counted in `woken' (history)

waitVars   == <<call, wpc, notified, expired, outcome>>
notifyVars == <<npc, req, ops, counted>>
vars == <<mem, table, lock, waitVars, notifyVars>>

Calls == [slot : Slots, expected : Values, async : BOOLEAN,
          timeout : {"zero", "finite", "infinite"}]

TypeOK == /\ mem \in [Slots -> Values]
          /\ table \in [Slots -> Seq(Waiters)]
          /\ lock \in Waiters \cup Notifiers \cup {NoOne}
          /\ call \in [Waiters -> Calls]
          /\ wpc \in [Waiters -> {"idle", "precheck", "enqueue", "push", "block",
                                  "cv", "settle", "done"}]
          /\ notified \in [Waiters -> BOOLEAN]
          /\ expired \in [Waiters -> BOOLEAN]
          /\ outcome \in [Waiters -> {"none", "not-equal", "ok", "timed-out"}]
          /\ npc \in [Notifiers -> {"idle", "stored", "mark", "signal"}]
          /\ req \in [Notifiers -> [slot : Slots, left : Nat, cur : Waiters \cup {NoOne}]]
          /\ ops \in [Notifiers -> 0..MaxOps]
          /\ counted \in SUBSET Waiters

Init == /\ mem \in [Slots -> Values]
        /\ table = [s \in Slots |-> << >>]
        /\ lock = NoOne
        /\ call = [w \in Waiters |-> CHOOSE c \in Calls : TRUE]
        /\ wpc = [w \in Waiters |-> "idle"]
        /\ notified = [w \in Waiters |-> FALSE]
        /\ expired = [w \in Waiters |-> FALSE]
        /\ outcome = [w \in Waiters |-> "none"]
        /\ npc = [n \in Notifiers |-> "idle"]
        /\ req = [n \in Notifiers |-> [slot |-> CHOOSE s \in Slots : TRUE,
                                       left |-> 0, cur |-> NoOne]]
        /\ ops = [n \in Notifiers |-> 0]
        /\ counted = {}
----------------------------------------------------------------------------
(* The wait side. *)

Finish(w, result) == /\ outcome' = [outcome EXCEPT ![w] = result]
                     /\ wpc' = [wpc EXCEPT ![w] = "done"]

Goto(w, label) == wpc' = [wpc EXCEPT ![w] = label]

(* js_atomics_wait / js_atomics_wait_async up to the coerced arguments.  The
   deadline of a `timeout === 0' poll has passed before the call parks. *)
StartWait(w) ==
    /\ wpc[w] = "idle"
    /\ \E c \in Calls :
        /\ call' = [call EXCEPT ![w] = c]
        /\ expired' = [expired EXCEPT ![w] = (c.timeout = "zero")]
        /\ Goto(w, IF c.async THEN "precheck" ELSE "enqueue")
    /\ UNCHANGED <<mem, table, lock, notified, outcome, notifyVars>>

(* waitAsync compares the value and tests the timeout once without the lock. *)
AsyncPrecheck(w) ==
    /\ wpc[w] = "precheck"
    /\ \/ /\ mem[call[w].slot] # call[w].expected
          /\ Finish(w, "not-equal")
       \/ /\ mem[call[w].slot] = call[w].expected
          /\ call[w].timeout = "zero"
          /\ Finish(w, "timed-out")
       \/ /\ mem[call[w].slot] = call[w].expected
          /\ call[w].timeout # "zero"
          /\ Goto(w, "enqueue")
          /\ UNCHANGED outcome
    /\ UNCHANGED <<mem, table, lock, call, notified, expired, notifyVars>>

(* Mutant: the value is compared before the lock is taken. *)
EnqueueCheckUnlocked(w) ==
    /\ wpc[w] = "enqueue"
    /\ mem[call[w].slot] = call[w].expected
    /\ Goto(w, "push")
    /\ UNCHANGED <<mem, table, lock, call, notified, expired, outcome, notifyVars>>

(* enqueue: take the table lock and run `still_equal'. *)
EnqueueCheck(w) ==
    /\ wpc[w] = "enqueue"
    /\ lock = NoOne
    /\ \/ /\ mem[call[w].slot] # call[w].expected
          /\ Finish(w, "not-equal")
          /\ UNCHANGED lock
       \/ /\ mem[call[w].slot] = call[w].expected
          /\ lock' = w
          /\ Goto(w, "push")
          /\ UNCHANGED outcome
    /\ UNCHANGED <<mem, table, call, notified, expired, notifyVars>>

(* enqueue: register the waiter and release the lock. *)
EnqueuePush(w) ==
    /\ wpc[w] = "push"
    /\ table' = [table EXCEPT ![call[w].slot] = Append(@, w)]
    /\ lock' = NoOne
    /\ Goto(w, "block")
    /\ UNCHANGED <<mem, call, notified, expired, outcome, notifyVars>>

(* Mutant: the loop does not test the deadline. *)
BlockLoopNoDeadline(w) ==
    /\ wpc[w] = "block"
    /\ Goto(w, IF notified[w] THEN "settle" ELSE "cv")
    /\ UNCHANGED <<mem, table, lock, call, notified, expired, outcome, notifyVars>>

(* One turn of block's loop, under Waiter.notified: leave it when notified or
   late, otherwise sleep on the condition variable (which releases the mutex). *)
BlockLoop(w) ==
    /\ wpc[w] = "block"
    /\ Goto(w, IF notified[w] \/ expired[w] THEN "settle" ELSE "cv")
    /\ UNCHANGED <<mem, table, lock, call, notified, expired, outcome, notifyVars>>

(* Condvar::wait may return without a signal; wait_timeout returns at the deadline. *)
SpuriousWake(w) ==
    /\ wpc[w] = "cv"
    /\ Goto(w, "block")
    /\ UNCHANGED <<mem, table, lock, call, notified, expired, outcome, notifyVars>>

TimeoutWake(w) == expired[w] /\ SpuriousWake(w)

(* Time passes: the deadline of a finite wait, which block computes, is reached. *)
Deadline(w) ==
    /\ wpc[w] \in {"block", "cv"}
    /\ call[w].timeout = "finite"
    /\ ~expired[w]
    /\ expired' = [expired EXCEPT ![w] = TRUE]
    /\ UNCHANGED <<mem, table, lock, call, wpc, notified, outcome, notifyVars>>

(* Mutant: a waiter that leaves stays in its list. *)
RetainAll(q, w) == q

(* list.retain(|x| !ptr_eq(x, w)): a waiter is in its list at most once. *)
Retain(q, w) ==
    IF \E i \in 1..Len(q) : q[i] = w
    THEN LET at == CHOOSE i \in 1..Len(q) : q[i] = w
         IN [i \in 1..(Len(q) - 1) |-> IF i < at THEN q[i] ELSE q[i + 1]]
    ELSE q

(* Mutant: the outcome is what ended the loop, the flag is not read again. *)
SettleByDeadline(w) ==
    /\ wpc[w] = "settle"
    /\ lock = NoOne
    /\ table' = [table EXCEPT ![call[w].slot] = Retain(@, w)]
    /\ Finish(w, IF expired[w] THEN "timed-out" ELSE "ok")
    /\ UNCHANGED <<mem, lock, call, notified, expired, notifyVars>>

(* The end of block: read the flag again and leave the table, under the lock. *)
Settle(w) ==
    /\ wpc[w] = "settle"
    /\ lock = NoOne
    /\ table' = [table EXCEPT ![call[w].slot] = Retain(@, w)]
    /\ Finish(w, IF notified[w] THEN "ok" ELSE "timed-out")
    /\ UNCHANGED <<mem, lock, call, notified, expired, notifyVars>>
----------------------------------------------------------------------------
(* The notify side. *)

(* Atomics.store by an agent that will notify the slot: no lock is involved. *)
Store(n) ==
    /\ npc[n] = "idle"
    /\ ops[n] < MaxOps
    /\ \E s \in Slots, v \in Values :
        /\ mem' = [mem EXCEPT ![s] = v]
        /\ req' = [req EXCEPT ![n] = [slot |-> s, left |-> 0, cur |-> NoOne]]
    /\ npc' = [npc EXCEPT ![n] = "stored"]
    /\ UNCHANGED <<table, lock, waitVars, ops, counted>>

Smaller(a, b) == IF a < b THEN a ELSE b

(* notify(addr, count): take the lock and clamp the count to the list. *)
BeginNotify(n, s, count) ==
    /\ lock = NoOne
    /\ ops[n] < MaxOps
    /\ lock' = n
    /\ req' = [req EXCEPT ![n] = [slot |-> s, left |-> Smaller(count, Len(table[s])),
                                  cur |-> NoOne]]
    /\ npc' = [npc EXCEPT ![n] = "mark"]
    /\ ops' = [ops EXCEPT ![n] = @ + 1]
    /\ UNCHANGED <<mem, table, waitVars, counted>>

(* After a store every waiter of the slot is notified (`count' is +Infinity). *)
NotifyAll(n) == /\ npc[n] = "stored"
                /\ BeginNotify(n, req[n].slot, Len(table[req[n].slot]))

(* A notify that follows no store may ask for any number of waiters. *)
NotifySome(n) == /\ npc[n] = "idle"
                 /\ \E s \in Slots, count \in 0..Cardinality(Waiters) :
                        BeginNotify(n, s, count)

(* Mutant: drain(..=n) instead of drain(..n). *)
NotifyMarkInclusive(n) ==
    /\ npc[n] = "mark"
    /\ table[req[n].slot] # << >>
    /\ LET s == req[n].slot  w == Head(table[s]) IN
        /\ table' = [table EXCEPT ![s] = Tail(@)]
        /\ notified' = [notified EXCEPT ![w] = TRUE]
        /\ counted' = counted \cup {w}
        /\ req' = [req EXCEPT ![n] = [slot |-> s, left |-> @.left - 1, cur |-> w]]
    /\ npc' = [npc EXCEPT ![n] = "signal"]
    /\ UNCHANGED <<mem, lock, call, wpc, expired, outcome, ops>>

(* Mutant: waiters are taken from the newest end of the list. *)
NotifyMarkNewest(n) ==
    /\ npc[n] = "mark"
    /\ req[n].left > 0
    /\ LET s == req[n].slot  w == table[s][Len(table[s])] IN
        /\ table' = [table EXCEPT ![s] = Retain(@, w)]
        /\ notified' = [notified EXCEPT ![w] = TRUE]
        /\ counted' = counted \cup {w}
        /\ req' = [req EXCEPT ![n] = [slot |-> s, left |-> @.left - 1, cur |-> w]]
    /\ npc' = [npc EXCEPT ![n] = "signal"]
    /\ UNCHANGED <<mem, lock, call, wpc, expired, outcome, ops>>

(* One waiter of list.drain(..n): set its flag under its mutex. *)
NotifyMark(n) ==
    /\ npc[n] = "mark"
    /\ req[n].left > 0
    /\ LET s == req[n].slot  w == Head(table[s]) IN
        /\ table' = [table EXCEPT ![s] = Tail(@)]
        /\ notified' = [notified EXCEPT ![w] = TRUE]
        /\ counted' = counted \cup {w}
        /\ req' = [req EXCEPT ![n] = [slot |-> s, left |-> @.left - 1, cur |-> w]]
    /\ npc' = [npc EXCEPT ![n] = "signal"]
    /\ UNCHANGED <<mem, lock, call, wpc, expired, outcome, ops>>

(* Mutant: the flag is set but the condition variable is not signalled. *)
NotifySignalSkipped(n) ==
    /\ npc[n] = "signal"
    /\ npc' = [npc EXCEPT ![n] = "mark"]
    /\ UNCHANGED <<mem, table, lock, waitVars, req, ops, counted>>

(* waiter.cv.notify_one(): wakes the call only if it is asleep by now. *)
NotifySignal(n) ==
    /\ npc[n] = "signal"
    /\ wpc' = [wpc EXCEPT ![req[n].cur] = IF @ = "cv" THEN "block" ELSE @]
    /\ npc' = [npc EXCEPT ![n] = "mark"]
    /\ UNCHANGED <<mem, table, lock, call, notified, expired, outcome, req, ops, counted>>

(* Return `woken' and release the lock. *)
NotifyReturn(n) ==
    /\ npc[n] = "mark"
    /\ req[n].left = 0
    /\ lock' = NoOne
    /\ npc' = [npc EXCEPT ![n] = "idle"]
    /\ UNCHANGED <<mem, table, waitVars, req, ops, counted>>
----------------------------------------------------------------------------
WaiterStep(w) == \/ AsyncPrecheck(w) \/ EnqueueCheck(w) \/ EnqueuePush(w)
                 \/ BlockLoop(w) \/ TimeoutWake(w) \/ Settle(w)

NotifierStep(n) == NotifyAll(n) \/ NotifyMark(n) \/ NotifySignal(n) \/ NotifyReturn(n)

(* Every wait call has returned or waits, with no deadline, for a notify that
   no agent will make. *)
Finished == /\ \A n \in Notifiers : npc[n] = "idle" /\ ops[n] = MaxOps
            /\ \A w \in Waiters : wpc[w] \in {"done", "cv"}
            /\ UNCHANGED vars

Next == \/ \E w \in Waiters : StartWait(w) \/ WaiterStep(w) \/ SpuriousWake(w) \/ Deadline(w)
        \/ \E n \in Notifiers : Store(n) \/ NotifySome(n) \/ NotifierStep(n)
        \/ Finished

(* Threads that can run are run, and clocks advance.  Nothing forces a program
   to call wait, store or notify, and no spurious wakeup is promised. *)
Fairness == /\ \A w \in Waiters : WF_vars(WaiterStep(w)) /\ WF_vars(Deadline(w))
            /\ \A n \in Notifiers : WF_vars(NotifierStep(n))

Spec == Init /\ [][Next]_vars /\ Fairness
----------------------------------------------------------------------------
Waiting(w) == wpc[w] \in {"push", "block", "cv", "settle"}

(* n is bound to wake everyone now parked on s: it has stored and not yet
   notified, or its notify still covers the whole list. *)
Owes(n, s) == /\ req[n].slot = s
              /\ \/ npc[n] = "stored"
                 \/ npc[n] \in {"mark", "signal"} /\ req[n].left = Len(table[s])

(* "Either the waiter observes the new value and never parks, or it enqueues
   first and the serialized notify finds and wakes it": while a call that has
   not been woken waits for a value its slot no longer holds, some agent still
   owes the slot a notify that covers it, so the wakeup is not lost. *)
NoLostWakeup ==
    \A w \in Waiters :
        (Waiting(w) /\ ~notified[w] /\ mem[call[w].slot] # call[w].expected)
            => \E n \in Notifiers : Owes(n, call[w].slot)

(* "A notify racing a timeout resolves to exactly one outcome and the
   notifier's wake count stays accurate": a call reports ok exactly when a
   notifier counted it. *)
ExactlyOneOutcome ==
    \A w \in Waiters : wpc[w] = "done" => (outcome[w] = "ok" <=> w \in counted)

(* block "removes the waiter from the table before returning": no call that
   has returned, and no call of another slot, is left in a list. *)
NoStaleWaiter ==
    \A s \in Slots : \A i \in DOMAIN table[s] :
        Waiting(table[s][i]) /\ call[table[s][i]].slot = s

----------------------------------------------------------------------------
(* The inductive invariant: who holds the lock, what a list contains, that an
   unwoken parked call is in its list, and what the counts mean. *)
Parked(w) == wpc[w] \in {"block", "cv", "settle"}

LockInv == /\ \A w \in Waiters : lock = w <=> wpc[w] = "push"
           /\ \A n \in Notifiers : lock = n <=> npc[n] \in {"mark", "signal"}

ListInv ==
    \A s \in Slots :
        /\ \A i \in 1..Len(table[s]) : /\ Parked(table[s][i])
                                       /\ call[table[s][i]].slot = s
                                       /\ ~notified[table[s][i]]
        /\ \A i, j \in 1..Len(table[s]) : table[s][i] = table[s][j] => i = j

ParkedInv ==
    \A w \in Waiters :
        Parked(w) /\ ~notified[w]
            => \E i \in 1..Len(table[call[w].slot]) : table[call[w].slot][i] = w

CountInv ==
    \A w \in Waiters : /\ w \in counted <=> notified[w]
                       /\ notified[w] => Parked(w) \/ wpc[w] = "done"
                       /\ wpc[w] = "done" => (outcome[w] = "ok" <=> notified[w])
                       /\ wpc[w] # "done" => outcome[w] = "none"

CoverInv ==
    \A n \in Notifiers :
        npc[n] \in {"mark", "signal"} => req[n].left =< Len(table[req[n].slot])

IInv == /\ TypeOK /\ LockInv /\ ListInv /\ ParkedInv /\ CountInv /\ CoverInv
        /\ NoLostWakeup
----------------------------------------------------------------------------
(* A call that a notifier counted returns, and a call with a timeout returns
   whatever the other agents do: neither is left in its condition variable. *)
WaitsReturn ==
    \A w \in Waiters :
        (w \in counted \/ (wpc[w] # "idle" /\ call[w].timeout # "infinite")) ~> (wpc[w] = "done")

(* What each call has been, or is bound to be, told. *)
Verdict == [w \in Waiters |-> IF notified[w] THEN "ok" ELSE outcome[w]]

Abstract == INSTANCE FutexAbstract WITH queue <- table, verdict <- Verdict

(* The table, its lock and the condition variables implement the atomic queue
   of FutexAbstract: waiters are woken first come, first served. *)
ImplementsAbstract == Abstract!Spec
============================================================================
