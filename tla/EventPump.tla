----------------------------- MODULE EventPump -----------------------------
(***************************************************************************)
(* The main-thread wakeup primitive (perry-runtime/src/event_pump.rs):     *)
(* js_notify_main_thread, called by any producer thread after it pushed    *)
(* into a queue, against js_wait_for_event, called by the main thread      *)
(* after it drained the queues.  A step is one access to the state the     *)
(* threads share: NOTIFIED, WAITER_COUNT, PUMP.flag (under its mutex), the *)
(* condition variable, the tokio Notify of the wait driver, the queue.     *)
(*                                                                         *)
(* Driver   TRUE when perry-stdlib has registered its wait driver          *)
(*          (async_bridge.rs): the main thread then sleeps inside a tick   *)
(*          of the tokio runtime instead of on the condition variable.     *)
(* Buffered TRUE for a build whose Release store of NOTIFIED may still be  *)
(*          in the producer's store buffer when its Acquire load of        *)
(*          WAITER_COUNT is made: both are plain moves on x86-64.  FALSE   *)
(*          where the two are performed in order (AArch64 stlr, ldar).     *)
(*          Read-modify-writes and mutexes empty the buffer.               *)
(***************************************************************************)
EXTENDS Naturals

CONSTANTS Producers,          \* threads that call js_notify_main_thread
          MaxPushes,          \* bound on the items one producer pushes
          SpinThrottleAfter,  \* SPIN_THROTTLE_AFTER
          Driver,
          Buffered

ASSUME PumpAssumption == /\ MaxPushes \in Nat
                         /\ SpinThrottleAfter \in Nat
                         /\ Driver \in BOOLEAN
                         /\ Buffered \in BOOLEAN

VARIABLES
    pending,      \* items in the queues the main thread drains
    notified,     \* NOTIFIED
    waiters,      \* WAITER_COUNT
    flag,         \* PUMP.flag
    held,         \* the main thread holds the PUMP.flag mutex
    ready,        \* the enabled `notified()' future of the tick has been woken
    streak,       \* SPIN_STREAK
    cpc,          \* where the main thread is
    ppc,          \* where each producer is
    buffer,       \* buffer[p]: p's store of NOTIFIED is not visible yet
    pushes,       \* items p has pushed
    spins         \* budget-0 returns since the core was last yielded (history)

mainVars == <<held, streak, cpc, spins>>
prodVars == <<ppc, buffer, pushes>>
vars == <<pending, notified, waiters, flag, ready, mainVars, prodVars>>

(* Main thread locations from which it has marked itself a waiter. *)
Marked == {"recheck", "asleep", "woken", "unmark"}

TypeOK == /\ pending \in Nat
          /\ notified \in BOOLEAN /\ flag \in BOOLEAN /\ held \in BOOLEAN /\ ready \in BOOLEAN
          /\ waiters \in 0..1
          /\ streak \in Nat /\ spins \in Nat
          /\ cpc \in {"drain", "swap", "budget", "fast", "hook", "park",
                      "tickcheck", "tick", "clear"} \cup Marked
          /\ ppc \in [Producers -> {"idle", "store", "wake", "count", "lock", "signal"}]
          /\ buffer \in [Producers -> BOOLEAN]
          /\ pushes \in [Producers -> 0..MaxPushes]

Init == /\ pending = 0 /\ notified = FALSE /\ waiters = 0 /\ flag = FALSE /\ ready = FALSE
        /\ held = FALSE /\ streak = 0 /\ cpc = "drain" /\ spins = 0
        /\ ppc = [p \in Producers |-> "idle"]
        /\ buffer = [p \in Producers |-> FALSE]
        /\ pushes = [p \in Producers |-> 0]
----------------------------------------------------------------------------
(* The producer: push, then js_notify_main_thread. *)

ProducerGoto(p, label) == ppc' = [ppc EXCEPT ![p] = label]

(* The queue has its own mutex, so an earlier store is visible by now. *)
Push(p) ==
    /\ ppc[p] = "idle" /\ ~buffer[p] /\ pushes[p] < MaxPushes
    /\ pending' = pending + 1
    /\ pushes' = [pushes EXCEPT ![p] = @ + 1]
    /\ ProducerGoto(p, "store")
    /\ UNCHANGED <<notified, waiters, flag, ready, buffer, mainVars>>

(* NOTIFIED.store(true, Release). *)
StoreNotified(p) ==
    /\ ppc[p] = "store"
    /\ IF Buffered
       THEN buffer' = [buffer EXCEPT ![p] = TRUE] /\ UNCHANGED notified
       ELSE notified' = TRUE /\ UNCHANGED buffer
    /\ ProducerGoto(p, "wake")
    /\ UNCHANGED <<pending, waiters, flag, ready, pushes, mainVars>>

(* The buffered store becomes visible. *)
FlushStore(p) ==
    /\ buffer[p]
    /\ notified' = TRUE
    /\ buffer' = [buffer EXCEPT ![p] = FALSE]
    /\ UNCHANGED <<pending, waiters, flag, ready, ppc, pushes, mainVars>>

(* Mutant: nobody ends the tick. *)
WakeDriverLost(p) ==
    /\ ppc[p] = "wake"
    /\ Driver => ~buffer[p]
    /\ ProducerGoto(p, "count")
    /\ UNCHANGED <<pending, notified, waiters, flag, ready, buffer, pushes, mainVars>>

(* invoke_wait_driver_wake: EVENT_READY.notify_waiters(), under tokio's mutex,
   reaches a tick that has enabled its future and stores no permit. *)
WakeDriver(p) ==
    /\ ppc[p] = "wake"
    /\ Driver => ~buffer[p]
    /\ ready' = (ready \/ (Driver /\ cpc \in {"tickcheck", "tick"}))
    /\ ProducerGoto(p, "count")
    /\ UNCHANGED <<pending, notified, waiters, flag, buffer, pushes, mainVars>>

(* WAITER_COUNT.load(Acquire) == 0: nobody sleeps, return. *)
LoadWaiterCount(p) ==
    /\ ppc[p] = "count"
    /\ ProducerGoto(p, IF waiters = 0 THEN "idle" ELSE "lock")
    /\ UNCHANGED <<pending, notified, waiters, flag, ready, buffer, pushes, mainVars>>

(* Publish the flag under the mutex. *)
RaiseFlag(p) ==
    /\ ppc[p] = "lock" /\ ~held /\ ~buffer[p]
    /\ flag' = TRUE
    /\ ProducerGoto(p, "signal")
    /\ UNCHANGED <<pending, notified, waiters, ready, buffer, pushes, mainVars>>

(* Mutant: the flag is raised but the sleeper is not signalled. *)
SignalLost(p) ==
    /\ ppc[p] = "signal"
    /\ ProducerGoto(p, "idle")
    /\ UNCHANGED <<pending, notified, waiters, flag, ready, buffer, pushes, mainVars>>

(* PUMP.cvar.notify_one(). *)
Signal(p) ==
    /\ ppc[p] = "signal"
    /\ cpc' = IF cpc = "asleep" THEN "woken" ELSE cpc
    /\ ProducerGoto(p, "idle")
    /\ UNCHANGED <<pending, notified, waiters, flag, ready, held, streak, spins, buffer, pushes>>
----------------------------------------------------------------------------
(* The main thread: drain, then js_wait_for_event. *)

(* The loop body empties every queue.  The JavaScript it runs may resolve
   promises, which notifies the main thread itself. *)
Drain ==
    /\ cpc = "drain"
    /\ pending' = 0
    /\ \E self \in BOOLEAN : notified' = (notified \/ self)
    /\ cpc' = "swap"
    /\ UNCHANGED <<waiters, flag, ready, held, streak, spins, prodVars>>

(* Return at once: with a driver, after invoke_wait_driver_fast. *)
Around == IF Driver THEN "fast" ELSE "drain"

(* Mutant: a notified return counts as progress (issue #1114). *)
SwapNotifiedResets ==
    /\ cpc = "swap"
    /\ notified' = FALSE
    /\ \E microtasks \in BOOLEAN :
          /\ cpc' = IF notified \/ microtasks THEN Around ELSE "budget"
          /\ streak' = IF notified \/ microtasks THEN 0 ELSE streak
    /\ UNCHANGED <<pending, waiters, flag, ready, held, spins, prodVars>>

(* NOTIFIED.swap(false), and the test for queued microtasks: the fast path
   returns to the loop body and leaves the spin streak alone. *)
SwapNotified ==
    /\ cpc = "swap"
    /\ notified' = FALSE
    /\ \E microtasks \in BOOLEAN :
          cpc' = IF notified \/ microtasks THEN Around ELSE "budget"
    /\ UNCHANGED <<pending, waiters, flag, ready, held, streak, spins, prodVars>>

(* A timer is due: return at once, but after SPIN_THROTTLE_AFTER such returns
   sleep for a millisecond first.  The u64 streak is not counted further than
   the comparison with SPIN_THROTTLE_AFTER can tell. *)
BudgetZero ==
    /\ cpc = "budget"
    /\ streak' = IF streak > SpinThrottleAfter THEN streak ELSE streak + 1
    /\ spins' = IF streak' > SpinThrottleAfter THEN 0 ELSE spins + 1
    /\ cpc' = Around
    /\ UNCHANGED <<pending, notified, waiters, flag, ready, held, prodVars>>

(* stdlib_fast_drive: a tick of a millisecond, in which a native task may queue
   a result and notify.  It neither reads NOTIFIED nor resets the streak. *)
FastDrive ==
    /\ cpc = "fast"
    /\ \E queued \in BOOLEAN : /\ pending' = IF queued THEN pending + 1 ELSE pending
                              /\ notified' = (notified \/ queued)
    /\ cpc' = "drain"
    /\ UNCHANGED <<waiters, flag, ready, held, streak, spins, prodVars>>

(* No timer is due. *)
BudgetPositive ==
    /\ cpc = "budget"
    /\ cpc' = "hook"
    /\ UNCHANGED <<pending, notified, waiters, flag, ready, held, streak, spins, prodVars>>

(* idle_reclaim_park_hook: the collector did work, or saw a wake, and the loop
   goes around; otherwise the thread parks. *)
IdleReclaim ==
    /\ cpc = "hook"
    /\ cpc' \in {"drain", "park"}
    /\ UNCHANGED <<pending, notified, waiters, flag, ready, held, streak, spins, prodVars>>

(* wait_driver_sleep: create and enable the tick's future. *)
EnableTick ==
    /\ cpc = "park" /\ Driver
    /\ ready' = FALSE
    /\ cpc' = "tickcheck"
    /\ UNCHANGED <<pending, notified, waiters, flag, held, streak, spins, prodVars>>

(* Mutant: the tick sleeps without reading NOTIFIED. *)
TickCheckSkipped ==
    /\ cpc = "tickcheck"
    /\ cpc' = "tick"
    /\ UNCHANGED <<pending, notified, waiters, flag, ready, held, streak, spins, prodVars>>

(* js_main_thread_notified(): a result is already queued, do not sleep. *)
TickCheck ==
    /\ cpc = "tickcheck"
    /\ IF notified
       THEN cpc' = "drain" /\ streak' = 0 /\ spins' = 0
       ELSE cpc' = "tick" /\ UNCHANGED <<streak, spins>>
    /\ UNCHANGED <<pending, notified, waiters, flag, ready, held, prodVars>>

EndTick == /\ cpc' = "drain" /\ streak' = 0 /\ spins' = 0
           /\ UNCHANGED <<waiters, flag, ready, held, prodVars>>

(* A native task that runs inside the tick queues a result and notifies. *)
TickTask ==
    /\ cpc = "tick" /\ ~ready
    /\ pending' = pending + 1
    /\ notified' = TRUE
    /\ ready' = TRUE
    /\ UNCHANGED <<waiters, flag, mainVars, prodVars>>

TickReady == cpc = "tick" /\ ready /\ EndTick /\ UNCHANGED <<pending, notified>>

(* The budget of the tick, at most the idle cap, elapses. *)
TickTimeout == cpc = "tick" /\ EndTick /\ UNCHANGED <<pending, notified>>

(* WAITER_COUNT.fetch_add(1). *)
MarkWaiter ==
    /\ cpc = "park" /\ ~Driver
    /\ waiters' = waiters + 1
    /\ cpc' = "recheck"
    /\ UNCHANGED <<pending, notified, flag, ready, held, streak, spins, prodVars>>

(* Mutant: only the flag is tested under the lock. *)
RecheckFlagOnly ==
    /\ cpc = "recheck"
    /\ IF flag
       THEN flag' = FALSE /\ waiters' = waiters - 1 /\ cpc' = "drain"
       ELSE cpc' = "asleep" /\ UNCHANGED <<flag, waiters>>
    /\ UNCHANGED <<pending, notified, ready, held, streak, spins, prodVars>>

(* Mutant: the early return forgets WAITER_COUNT. *)
RecheckStillMarked ==
    /\ cpc = "recheck"
    /\ notified' = FALSE
    /\ IF notified \/ flag
       THEN flag' = FALSE /\ cpc' = "drain"
       ELSE cpc' = "asleep" /\ UNCHANGED flag
    /\ UNCHANGED <<pending, waiters, ready, held, streak, spins, prodVars>>

(* Take the mutex, swap NOTIFIED again and test the flag; otherwise sleep,
   which releases the mutex.  Only this thread takes the mutex for more than
   one step, so it is free here. *)
Recheck ==
    /\ cpc = "recheck"
    /\ notified' = FALSE
    /\ IF notified \/ flag
       THEN flag' = FALSE /\ waiters' = waiters - 1 /\ cpc' = "drain"
       ELSE cpc' = "asleep" /\ UNCHANGED <<flag, waiters>>
    /\ UNCHANGED <<pending, ready, held, streak, spins, prodVars>>

(* Mutant: cvar.wait instead of cvar.wait_timeout. *)
CvTimeoutNever == FALSE /\ UNCHANGED vars

(* wait_timeout ends: the budget elapsed, or a spurious wakeup. *)
CvTimeout ==
    /\ cpc = "asleep"
    /\ cpc' = "woken"
    /\ UNCHANGED <<pending, notified, waiters, flag, ready, held, streak, spins, prodVars>>

(* wait_timeout returns with the mutex: *new_flag = false. *)
LowerFlag ==
    /\ cpc = "woken"
    /\ held' = TRUE
    /\ flag' = FALSE
    /\ cpc' = "unmark"
    /\ UNCHANGED <<pending, notified, waiters, ready, streak, spins, prodVars>>

(* WAITER_COUNT.fetch_sub(1). *)
UnmarkWaiter ==
    /\ cpc = "unmark"
    /\ waiters' = waiters - 1
    /\ cpc' = "clear"
    /\ UNCHANGED <<pending, notified, flag, ready, held, streak, spins, prodVars>>

(* NOTIFIED.store(false); the streak is reset and the mutex released. *)
ClearNotified ==
    /\ cpc = "clear"
    /\ notified' = FALSE
    /\ held' = FALSE
    /\ streak' = 0 /\ spins' = 0
    /\ cpc' = "drain"
    /\ UNCHANGED <<pending, waiters, flag, ready, prodVars>>
----------------------------------------------------------------------------
ProducerStep(p) == \/ StoreNotified(p) \/ WakeDriver(p) \/ LoadWaiterCount(p)
                   \/ RaiseFlag(p) \/ Signal(p)

Timeout == TickTimeout \/ CvTimeout

MainRuns == \/ Drain \/ SwapNotified \/ BudgetZero \/ FastDrive \/ BudgetPositive \/ IdleReclaim
            \/ EnableTick \/ TickCheck \/ TickReady
            \/ MarkWaiter \/ Recheck \/ LowerFlag \/ UnmarkWaiter \/ ClearNotified

Next == \/ MainRuns \/ Timeout \/ TickTask
        \/ \E p \in Producers : Push(p) \/ FlushStore(p) \/ ProducerStep(p)

(* Threads that can run are run and store buffers drain.  No producer has to
   push, and no native task has to finish. *)
Running == /\ WF_vars(MainRuns)
           /\ \A p \in Producers : WF_vars(ProducerStep(p)) /\ WF_vars(FlushStore(p))

(* A sleep ends at its budget, which is never longer than IDLE_CAP_MS. *)
Spec == Init /\ [][Next]_vars /\ Running /\ WF_vars(Timeout)

(* The same threads without the help of the clock: a sleeping main thread runs
   again only if it is woken. *)
PromptSpec == Init /\ [][Next]_vars /\ Running
----------------------------------------------------------------------------
Sleeping == cpc \in {"asleep", "tick"}

(* "The flag is what makes a notify sent before the consumer enters
   wait_timeout survive" and "the mutex-protected flag covers the lost-wakeup
   window": the main thread does not sleep on queued work once every producer
   has returned from js_notify_main_thread and its stores have landed, unless
   the tick it sleeps in has been ended. *)
NoLostNotify ==
    (Sleeping /\ pending > 0) =>
        ready \/ \E p \in Producers : ppc[p] # "idle" \/ buffer[p]

(* Issue #1114: a loop whose budget stays 0 yields the core at least once in
   every SPIN_THROTTLE_AFTER + 1 returns, however often it is notified. *)
SpinBounded == spins =< SpinThrottleAfter

(* Queued work is drained: by a wakeup under PromptSpec, at the latest by the
   idle cap under Spec. *)
QueuedIsDrained == (pending > 0) ~> (pending = 0)
----------------------------------------------------------------------------
(* The inductive invariant behind NoLostNotify. *)

WaitersInv == waiters = IF cpc \in Marked THEN 1 ELSE 0

ModeInv == /\ Driver => cpc \notin Marked
           /\ ~Driver => cpc \notin {"fast", "tickcheck", "tick"}
           /\ \A p \in Producers : buffer[p] => Buffered /\ ppc[p] = "wake"

SpinInv == spins =< streak /\ spins =< SpinThrottleAfter

(* Before the main thread sleeps, NOTIFIED is set for queued work or will be. *)
ApproachInv ==
    cpc \in {"swap", "budget", "hook", "park", "tickcheck", "recheck"} =>
        pending = 0 \/ notified \/ \E p \in Producers : ppc[p] = "store" \/ buffer[p]

(* While it sleeps, some producer has yet to reach the step that wakes it. *)
SleepInv ==
    /\ cpc = "tick" =>
           pending = 0 \/ ready \/ \E p \in Producers : ppc[p] \in {"store", "wake"}
    /\ cpc = "asleep" => pending = 0 \/ \E p \in Producers : ppc[p] # "idle"

PumpInv == TypeOK /\ WaitersInv /\ ModeInv /\ SpinInv /\ ApproachInv /\ SleepInv
============================================================================
