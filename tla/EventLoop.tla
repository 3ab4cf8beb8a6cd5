----------------------------- MODULE EventLoop -----------------------------
(***************************************************************************)
(* The event loop that perry-codegen emits at the end of `main'            *)
(* (codegen/entry.rs), the queues it drains (perry-stdlib async_bridge.rs  *)
(* and perry_ffi_async.rs, perry-runtime thread.rs) and the question it    *)
(* asks before it parks or exits: is any event source still live?          *)
(*                                                                         *)
(* A job is one native operation with a promise.  Its kind is how it was   *)
(* started:                                                                *)
(*   task    spawn_for_promise*: a future on the current-thread runtime,   *)
(*           which runs only while the main thread is inside a tick;       *)
(*   pool    perry_ffi_spawn_blocking: a thread of the blocking pool;      *)
(*   thread  js_thread_spawn, Atomics.waitAsync: an OS thread.             *)
(* Queues are sets, since only what they hold matters to the loop, and the *)
(* two job counters are the sets of the jobs counted in them: each job is  *)
(* added once and removed once, and the code only compares them with 0.    *)
(*                                                                         *)
(* A main-thread action that runs JavaScript is one step: it reads the     *)
(* state other threads write once, when it takes a queue under its lock,   *)
(* and otherwise only touches main-thread state and adds to counters.  The *)
(* wakeup protocol inside the wait is EventPump.tla; here a notify sets    *)
(* NOTIFIED and ends the tick in progress.                                 *)
(***************************************************************************)
EXTENDS Naturals

CONSTANTS Jobs,          \* native operations the program may start, each once
          Timers,        \* one-shot timers the program may arm, each once
          FlushRounds    \* microtask drains before the loop is entered (4)

ASSUME LoopAssumption == /\ FlushRounds \in Nat \ {0}
                         /\ Jobs \cap Timers = {}

VARIABLES
    kind,       \* kind[j]: how j is started
    jpc,        \* where j is
    inflight,   \* jobs counted in EXT_BLOCKING_TASKS_INFLIGHT
    active,     \* jobs counted in ACTIVE_THREAD_JOBS
    simple,     \* PENDING_RESOLUTIONS
    deferred,   \* PENDING_DEFERRED
    results,    \* PENDING_THREAD_RESULTS
    micro,      \* TASK_QUEUE: jobs and timers whose continuation is queued
    ran,        \* jobs and timers whose continuation has run
    timer,      \* timer[t]: "off", "armed", "due" or "fired"
    hot,        \* a live interval that is due at every turn of the loop
    notified,   \* NOTIFIED
    ready,      \* the future of the tick in progress has been woken
    cpc,        \* where the main thread is
    site,       \* which copy of the liveness test it is in
    rounds      \* initial microtask drains left

queues == <<simple, deferred, results>>
counts == <<inflight, active>>
jsVars == <<micro, ran, timer, hot>>
wakeVars == <<notified, ready>>
mainVars == <<cpc, site, rounds>>
vars == <<kind, jpc, counts, queues, jsVars, wakeVars, mainVars>>

Kinds == {"task", "pool", "thread"}

(* Locations from which the loop does not return. *)
Leaving == {"exit", "last", "jobs", "returned"}

TypeOK == /\ kind \in [Jobs -> Kinds]
          /\ jpc \in [Jobs -> {"none", "busy", "runnable", "pushed", "told", "counted", "done"}]
          /\ inflight \subseteq Jobs /\ active \subseteq Jobs
          /\ simple \subseteq Jobs /\ deferred \subseteq Jobs /\ results \subseteq Jobs
          /\ micro \subseteq Jobs \cup Timers /\ ran \subseteq Jobs \cup Timers
          /\ timer \in [Timers -> {"off", "armed", "due", "fired"}]
          /\ hot \in BOOLEAN /\ notified \in BOOLEAN /\ ready \in BOOLEAN
          /\ cpc \in Leaving \cup
                {"script", "flush", "pump", "pump2", "check", "simple", "deferred",
                 "active", "results", "body", "wait", "budget", "park", "fast",
                 "poll", "drive", "tick"}
          /\ site \in {"header", "body"}
          /\ rounds \in 0..FlushRounds

Init == /\ kind \in [Jobs -> Kinds]
        /\ jpc = [j \in Jobs |-> "none"]
        /\ inflight = {} /\ active = {}
        /\ simple = {} /\ deferred = {} /\ results = {}
        /\ micro = {} /\ ran = {}
        /\ timer = [t \in Timers |-> "off"]
        /\ hot \in BOOLEAN
        /\ notified = FALSE /\ ready = FALSE
        /\ cpc = "script" /\ site = "header" /\ rounds = FlushRounds
----------------------------------------------------------------------------
(* JavaScript. *)

(* The program starts jobs: each is counted before it can run. *)
Start(started) ==
    /\ jpc' = [j \in Jobs |-> IF j \in started THEN "busy" ELSE jpc[j]]
    /\ inflight' = inflight \cup {j \in started : kind[j] # "thread"}
    /\ active' = active \cup {j \in started : kind[j] = "thread"}

NotStarted == {j \in Jobs : jpc[j] = "none"}
Unarmed == {t \in Timers : timer[t] = "off"}
Due == {t \in Timers : timer[t] = "due"}

(* The top-level statements of the program. *)
Script ==
    /\ cpc = "script"
    /\ \E started \in SUBSET NotStarted, armed \in SUBSET Unarmed, self \in BOOLEAN :
        /\ Start(started)
        /\ timer' = [t \in Timers |-> IF t \in armed THEN "armed" ELSE timer[t]]
        /\ notified' = (notified \/ self)
    /\ cpc' = "flush"
    /\ UNCHANGED <<kind, queues, micro, ran, hot, ready, site, rounds>>

(* js_promise_run_microtasks_event_loop: settle the thread results, run every
   queued continuation, then the due timers.  A due promise timer leaves its
   continuation in TASK_QUEUE for the next drain and notifies.  Whatever runs
   may start jobs, arm timers, clear the interval and settle promises. *)
RunMicrotasks ==
    LET run == micro \cup results IN
    \E started \in SUBSET NotStarted, armed \in SUBSET Unarmed,
       sleeps \in SUBSET Due, self \in BOOLEAN :
        /\ run = {} /\ Due = {} /\ ~hot => started = {} /\ armed = {} /\ ~self
        /\ Start(started)
        /\ results' = {}
        /\ ran' = ran \cup run \cup (Due \ sleeps)
        /\ micro' = sleeps
        /\ timer' = [t \in Timers |-> IF t \in Due THEN "fired"
                                      ELSE IF t \in armed THEN "armed" ELSE timer[t]]
        /\ hot' \in {hot, FALSE}
        /\ notified' = (notified \/ self \/ sleeps # {})
        /\ UNCHANGED <<kind, simple, deferred, ready>>

(* Mutant: one drain too many. *)
FlushAgain ==
    /\ cpc = "flush"
    /\ RunMicrotasks
    /\ rounds' = rounds - 1
    /\ cpc' = IF rounds = 0 THEN "pump" ELSE "flush"
    /\ site' = "header"

(* The initial flush: FlushRounds drains, then the pump. *)
Flush ==
    /\ cpc = "flush"
    /\ RunMicrotasks
    /\ rounds' = rounds - 1
    /\ cpc' = IF rounds = 1 THEN "pump" ELSE "flush"
    /\ site' = "header"

(* The body of the loop: one drain, then the pump, then `body_check'. *)
Body ==
    /\ cpc = "body"
    /\ RunMicrotasks
    /\ cpc' = "pump"
    /\ site' = "body"
    /\ UNCHANGED rounds
----------------------------------------------------------------------------
(* js_stdlib_process_pending. *)

(* Take PENDING_RESOLUTIONS under its lock and settle every promise in it:
   the continuation is queued and the main thread notified. *)
SettleSimple ==
    /\ cpc = "pump"
    /\ micro' = micro \cup simple
    /\ simple' = {}
    /\ notified' = (notified \/ simple # {})
    /\ cpc' = "pump2"
    /\ UNCHANGED <<kind, jpc, counts, deferred, results, ran, timer, hot, ready, site, rounds>>

(* The same for PENDING_DEFERRED, after each entry's converter has run. *)
SettleDeferred ==
    /\ cpc = "pump2"
    /\ micro' = micro \cup deferred
    /\ deferred' = {}
    /\ notified' = (notified \/ deferred # {})
    /\ cpc' = "check"
    /\ UNCHANGED <<kind, jpc, counts, simple, results, ran, timer, hot, ready, site, rounds>>
----------------------------------------------------------------------------
(* emit_event_loop_liveness, emitted at the loop header and after the body.  A
   live source cannot be unseen by a later read, so the first one decides. *)

Answer(live, next) ==
    IF live THEN cpc' = IF site = "header" THEN "body" ELSE "wait"
            ELSE cpc' = next

OnlyMoves == UNCHANGED <<kind, jpc, counts, queues, jsVars, wakeVars, rounds>>

(* The timer queues, then EXT_BLOCKING_TASKS_INFLIGHT. *)
CheckInflight ==
    /\ cpc = "check"
    /\ Answer(hot \/ (\E t \in Timers : timer[t] \in {"armed", "due"}) \/ inflight # {},
              "simple")
    /\ OnlyMoves /\ UNCHANGED site

CheckSimple ==
    /\ cpc = "simple"
    /\ Answer(simple # {}, "deferred")
    /\ OnlyMoves /\ UNCHANGED site

CheckDeferred ==
    /\ cpc = "deferred"
    /\ Answer(deferred # {}, "active")
    /\ OnlyMoves /\ UNCHANGED site

(* js_microtasks_pending: ACTIVE_THREAD_JOBS, *)
CheckActive ==
    /\ cpc = "active"
    /\ Answer(active # {}, "results")
    /\ OnlyMoves /\ UNCHANGED site

(* Mutant: TASK_QUEUE is not asked (issue #591). *)
CheckResultsOnly ==
    /\ cpc = "results"
    /\ Answer(results # {}, IF site = "header" THEN "exit" ELSE "check")
    /\ site' = "header"
    /\ OnlyMoves

(* then PENDING_THREAD_RESULTS and TASK_QUEUE.  A dead header exits, a dead
   body_check goes back to the header without parking (issue #9441). *)
CheckResults ==
    /\ cpc = "results"
    /\ Answer(results # {} \/ micro # {}, IF site = "header" THEN "exit" ELSE "check")
    /\ site' = "header"
    /\ OnlyMoves
----------------------------------------------------------------------------
(* js_wait_for_event. *)

BackToHeader == cpc' = "check" /\ site' = "header"

(* Mutant: a notify since the last wait does not prevent the park. *)
WaitSwapForgets ==
    /\ cpc = "wait"
    /\ notified' = FALSE
    /\ cpc' = "budget"
    /\ UNCHANGED <<kind, jpc, counts, queues, jsVars, ready, site, rounds>>

(* NOTIFIED.swap(false). *)
WaitSwap ==
    /\ cpc = "wait"
    /\ notified' = FALSE
    /\ cpc' = IF notified THEN "fast" ELSE "budget"
    /\ UNCHANGED <<kind, jpc, counts, queues, jsVars, ready, site, rounds>>

(* What js_microtasks_pending and the budget are computed from: threads at work,
   their results, queued continuations, timers that are due. *)
Busy == active # {} \/ results # {} \/ micro # {} \/ hot \/ Due # {}

(* Microtasks are pending or the budget is 0: the fast path.  No thread pushes a
   result once ACTIVE_THREAD_JOBS is 0, so both reads of js_thread_has_pending
   are one step. *)
WaitNot ==
    /\ cpc = "budget" /\ Busy
    /\ cpc' = "fast"
    /\ UNCHANGED <<kind, jpc, counts, queues, jsVars, wakeVars, site, rounds>>

(* idle_reclaim_park_hook used the idle time: go around the loop. *)
IdleReclaim ==
    /\ cpc = "budget" /\ ~Busy
    /\ BackToHeader
    /\ UNCHANGED <<kind, jpc, counts, queues, jsVars, wakeVars, rounds>>

(* wait_driver_sleep: enable the future of the tick. *)
Park ==
    /\ cpc = "budget" /\ ~Busy
    /\ ready' = FALSE
    /\ cpc' = "park"
    /\ UNCHANGED <<kind, jpc, counts, queues, jsVars, notified, site, rounds>>

Runnable == {j \in Jobs : jpc[j] = "runnable"}

(* The runtime polls every runnable task before it looks at the tick's own
   future again.  A task whose future completes queues the result, leaves the
   counter and notifies, all on the main thread. *)
RunTasks ==
    /\ \E easy \in SUBSET Runnable : /\ simple' = simple \cup easy
                                     /\ deferred' = deferred \cup (Runnable \ easy)
    /\ jpc' = [j \in Jobs |-> IF j \in Runnable THEN "done" ELSE jpc[j]]
    /\ inflight' = inflight \ Runnable
    /\ notified' = (notified \/ Runnable # {})
    /\ ready' = (ready \/ Runnable # {})
    /\ UNCHANGED <<kind, active, results, jsVars, site, rounds>>

(* Mutant: the fast path never drives the runtime. *)
FastDriveNever ==
    /\ cpc = "fast"
    /\ BackToHeader
    /\ UNCHANGED <<kind, jpc, counts, queues, jsVars, wakeVars, rounds>>

(* stdlib_fast_drive: return when nothing native is in flight, otherwise enable
   the future of a tick of one millisecond. *)
FastDrive ==
    /\ cpc = "fast"
    /\ IF inflight = {}
       THEN BackToHeader /\ UNCHANGED ready
       ELSE cpc' = "poll" /\ ready' = FALSE /\ UNCHANGED site
    /\ UNCHANGED <<kind, jpc, counts, queues, jsVars, notified, rounds>>

(* The first poll of that tick: NOTIFIED is not read, but a notify that came
   after the future was enabled ends it before any task runs. *)
DrivePoll ==
    /\ cpc = "poll"
    /\ \/ /\ ready
          /\ BackToHeader
          /\ UNCHANGED <<kind, jpc, counts, queues, jsVars, wakeVars, rounds>>
       \/ /\ ~ready
          /\ cpc' = "drive"
          /\ RunTasks

(* run_one_tick: a notify since the swap ends the tick before any task runs. *)
TickPoll ==
    /\ cpc = "park"
    /\ \/ /\ notified \/ ready
          /\ BackToHeader
          /\ UNCHANGED <<kind, jpc, counts, queues, jsVars, wakeVars, rounds>>
       \/ /\ ~notified /\ ~ready
          /\ cpc' = "tick"
          /\ RunTasks

(* Tasks that become runnable during a tick. *)
TickTasks ==
    /\ cpc \in {"drive", "tick"}
    /\ Runnable # {}
    /\ RunTasks
    /\ UNCHANGED cpc

(* The millisecond of the fast drive is over, or a notify ended it. *)
DriveEnd ==
    /\ cpc = "drive"
    /\ BackToHeader
    /\ UNCHANGED <<kind, jpc, counts, queues, jsVars, wakeVars, rounds>>

(* The tick is woken, or the deadline of a timer is reached. *)
TickEnd ==
    /\ cpc = "tick"
    /\ ready \/ Due # {}
    /\ BackToHeader
    /\ UNCHANGED <<kind, jpc, counts, queues, jsVars, wakeVars, rounds>>

(* IDLE_CAP_MS elapses. *)
IdleCap ==
    /\ cpc = "tick"
    /\ BackToHeader
    /\ UNCHANGED <<kind, jpc, counts, queues, jsVars, wakeVars, rounds>>
----------------------------------------------------------------------------
(* The end of main. *)

(* The `beforeExit' listeners, which may start jobs and arm timers. *)
BeforeExit ==
    /\ cpc = "exit"
    /\ \E started \in SUBSET NotStarted, armed \in SUBSET Unarmed :
        /\ Start(started)
        /\ timer' = [t \in Timers |-> IF t \in armed THEN "armed" ELSE timer[t]]
    /\ cpc' = "last"
    /\ UNCHANGED <<kind, queues, micro, ran, hot, wakeVars, site, rounds>>

(* One more drain. *)
LastDrain ==
    /\ cpc = "last"
    /\ RunMicrotasks
    /\ cpc' = "jobs"
    /\ UNCHANGED <<site, rounds>>

(* The `exit' listeners, which may start jobs and arm timers too, then
   js_promise_run_promise_jobs, then return from main. *)
ExitJobs ==
    /\ cpc = "jobs"
    /\ \E started \in SUBSET NotStarted, armed \in SUBSET Unarmed :
        /\ Start(started)
        /\ timer' = [t \in Timers |-> IF t \in armed THEN "armed" ELSE timer[t]]
    /\ ran' = ran \cup micro \cup results
    /\ micro' = {}
    /\ results' = {}
    /\ cpc' = "returned"
    /\ UNCHANGED <<kind, simple, deferred, hot, wakeVars, site, rounds>>

Returned == cpc = "returned" /\ UNCHANGED vars
----------------------------------------------------------------------------
(* Other threads, the network and the clock. *)

Notify == notified' = TRUE /\ ready' = TRUE

(* What a task waits for arrives. *)
Arrive(j) ==
    /\ kind[j] = "task" /\ jpc[j] = "busy"
    /\ jpc' = [jpc EXCEPT ![j] = "runnable"]
    /\ UNCHANGED <<kind, counts, queues, jsVars, wakeVars, mainVars>>

(* A timer's deadline passes. *)
Expire(t) ==
    /\ timer[t] = "armed"
    /\ timer' = [timer EXCEPT ![t] = "due"]
    /\ UNCHANGED <<kind, jpc, counts, queues, micro, ran, hot, wakeVars, mainVars>>

(* The worker has its result and queues it: queue_promise_resolution or
   queue_deferred_resolution from the pool, queue_thread_result from a thread. *)
WorkerPush(j) ==
    /\ kind[j] # "task" /\ jpc[j] = "busy"
    /\ \/ kind[j] = "pool" /\ simple' = simple \cup {j} /\ UNCHANGED <<deferred, results>>
       \/ kind[j] = "pool" /\ deferred' = deferred \cup {j} /\ UNCHANGED <<simple, results>>
       \/ kind[j] = "thread" /\ results' = results \cup {j} /\ UNCHANGED <<simple, deferred>>
    /\ jpc' = [jpc EXCEPT ![j] = "pushed"]
    /\ UNCHANGED <<kind, counts, jsVars, wakeVars, mainVars>>

(* The notify of queue_promise_resolution / queue_deferred_resolution. *)
WorkerTell(j) ==
    /\ kind[j] = "pool" /\ jpc[j] = "pushed"
    /\ Notify
    /\ jpc' = [jpc EXCEPT ![j] = "told"]
    /\ UNCHANGED <<kind, counts, queues, jsVars, mainVars>>

(* Mutant: a thread that is done stays counted. *)
WorkerUncountNever(j) ==
    /\ jpc[j] = IF kind[j] = "thread" THEN "pushed" ELSE "told"
    /\ jpc' = [jpc EXCEPT ![j] = "counted"]
    /\ UNCHANGED <<kind, counts, queues, jsVars, wakeVars, mainVars>>

(* The counter's fetch_sub, after the push. *)
WorkerUncount(j) ==
    /\ jpc[j] = IF kind[j] = "thread" THEN "pushed" ELSE "told"
    /\ inflight' = inflight \ {j}
    /\ active' = active \ {j}
    /\ jpc' = [jpc EXCEPT ![j] = "counted"]
    /\ UNCHANGED <<kind, queues, jsVars, wakeVars, mainVars>>

(* The last js_notify_main_thread. *)
WorkerWake(j) ==
    /\ jpc[j] = "counted"
    /\ Notify
    /\ jpc' = [jpc EXCEPT ![j] = "done"]
    /\ UNCHANGED <<kind, counts, queues, jsVars, mainVars>>
----------------------------------------------------------------------------
WorkerStep(j) == WorkerPush(j) \/ WorkerTell(j) \/ WorkerUncount(j) \/ WorkerWake(j)

MainRuns == \/ Script \/ Flush \/ Body \/ SettleSimple \/ SettleDeferred
            \/ CheckInflight \/ CheckSimple \/ CheckDeferred \/ CheckActive \/ CheckResults
            \/ WaitSwap \/ WaitNot \/ IdleReclaim \/ Park \/ FastDrive \/ DrivePoll \/ TickPoll \/ DriveEnd \/ TickEnd
            \/ BeforeExit \/ LastDrain \/ ExitJobs

Next == \/ MainRuns \/ TickTasks \/ IdleCap \/ Returned
        \/ \E j \in Jobs : Arrive(j) \/ WorkerStep(j)
        \/ \E t \in Timers : Expire(t)

(* Threads that can run are run, native work finishes and clocks advance.  The
   idle cap is not counted on: a parked main thread runs because it is woken.
   The collector does not keep an idle loop from parking: its work per second
   is capped (gc/idle_reclaim.rs). *)
Fairness == /\ WF_vars(MainRuns) /\ WF_vars(TickTasks) /\ SF_vars(Park)
            /\ \A j \in Jobs : WF_vars(Arrive(j)) /\ WF_vars(WorkerStep(j))
            /\ \A t \in Timers : WF_vars(Expire(t))

Spec == Init /\ [][Next]_vars /\ Fairness
----------------------------------------------------------------------------
Started == {j \in Jobs : jpc[j] # "none"} \cup {t \in Timers : timer[t] # "off"}

(* Issues #591 and #921: when the loop decides to exit, the continuation of
   every promise and timer of the program has run. *)
NoEarlyExit == cpc = "exit" => Started \subseteq ran

(* Once the main thread has parked in a tick, nothing waits for it: no
   continuation is queued, and every queued result belongs to a worker that is
   still going to notify, or the tick has been ended. *)
ParksOnlyWhenIdle ==
    cpc = "tick" =>
        /\ micro = {}
        /\ ready \/ \A j \in simple \cup deferred \cup results :
                        jpc[j] \in {"pushed", "told", "counted"}

(* An awaited native operation comes back, whatever else keeps the loop busy:
   neither a hot interval nor constant notifies starve it, and no wakeup that
   it needs is lost. *)
EveryJobContinues ==
    \A j \in Jobs : (jpc[j] # "none" /\ cpc \notin Leaving) ~> (j \in ran)

(* A program whose work is finite ends, without counting on the idle cap. *)
FinishedProgramExits == (~hot) ~> (cpc = "returned")

(* "Block until the next scheduled timer/native deadline fires, a notify
   arrives, or the 1-second idle cap elapses": js_wait_for_event takes the path
   that does not block only for a notify, queued work or a timer that is due. *)
BlocksUntilEvent ==
    [][cpc = "budget" /\ cpc' = "fast" => results # {} \/ micro # {} \/ hot \/ Due # {}]_vars

(* "drain microtasks/timers once more so any last-minute work the listener
   queued still runs before we ret": after that drain, a timer that a
   `beforeExit' listener armed has fired. *)
LastMinuteWorkRuns ==
    cpc = "jobs" => \A t \in Timers : timer[t] \in {"off", "fired"}
----------------------------------------------------------------------------
(* The inductive invariant behind NoEarlyExit and ParksOnlyWhenIdle. *)

(* The flush has a drain left for every turn it takes. *)
FlushInv == cpc \in {"script", "flush"} => rounds > 0

(* Each counter counts the jobs that have yet to hand over their result. *)
CountInv ==
    /\ inflight = {j \in Jobs : kind[j] # "thread" /\
                               jpc[j] \in {"busy", "runnable", "pushed", "told"}}
    /\ active = {j \in Jobs : kind[j] = "thread" /\ jpc[j] \in {"busy", "pushed"}}
    /\ \A j \in Jobs : jpc[j] = "runnable" => kind[j] = "task"
    /\ \A j \in Jobs : jpc[j] = "told" => kind[j] = "pool"

(* A result that was handed over is in a queue until its continuation runs. *)
HandedInv ==
    /\ \A j \in Jobs : jpc[j] \in {"pushed", "told", "counted", "done"} =>
                          j \in simple \cup deferred \cup results \cup micro \cup ran
    /\ \A t \in Timers : timer[t] = "fired" => t \in micro \cup ran

(* A source found dead stays dead while the rest are asked. *)
CheckInv ==
    /\ cpc \in {"simple", "deferred", "active", "results", "exit"} =>
           inflight = {} /\ \A t \in Timers : timer[t] \in {"off", "fired"}
    /\ cpc \in {"deferred", "active", "results", "exit"} => simple = {}
    /\ cpc \in {"active", "results", "exit"} => deferred = {}
    /\ cpc \in {"results", "exit"} => active = {}
    /\ cpc = "exit" => results = {} /\ micro = {}

(* From the pump to the park, whoever queued a result has notified or will. *)
Waking == {j \in Jobs : jpc[j] \in {"pushed", "told", "counted"}}

TellInv ==
    /\ cpc = "pump2" => notified \/ simple \subseteq Waking
    /\ \/ site = "body" /\ cpc \in {"check", "simple", "deferred", "active", "results"}
       \/ cpc \in {"wait", "budget", "park"}
       => notified \/ simple \cup deferred \subseteq Waking
    /\ cpc \in {"park", "tick"} => active = {} /\ results = {} /\ micro = {}
    /\ cpc = "tick" => ready \/ simple \cup deferred \subseteq Waking

LoopInv == TypeOK /\ FlushInv /\ CountInv /\ HandedInv /\ CheckInv /\ TellInv
============================================================================
