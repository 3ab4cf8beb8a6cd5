# TLA+ models of the Perry runtime

Perry compiles TypeScript to native executables. Most of the repository is a
sequential compiler; the part in which order matters is the runtime that every
compiled program is linked with: one main thread that runs JavaScript, an event
loop emitted into `main`, a tokio runtime that is driven by that loop, a pool of
blocking threads, OS threads started by `perry/thread`, the queues, counters
and condition variables between them, the timers and microtasks the loop runs,
and a collector that works in slices between them. Beside it are three programs
that talk to other processes: the updater, the cluster scheduler and the
container orchestrator. This directory models these parts, checks the models
with TLC on small instances and proves the main safety properties of the
loop, the pump, the futex, the native tokens, the timers, the microtasks, the collector
and the updater with TLAPS for every value of the constants.

- [1. Inventory](#1-inventory)
- [2. Plan](#2-plan)
- [3. Modules and the code](#3-modules-and-the-code)
- [4. Runs](#4-runs)
- [5. Fairness](#5-fairness)
- [6. Proofs](#6-proofs)
- [7. Disagreements between the code and its comments](#7-disagreements-between-the-code-and-its-comments)
- [8. What is not modelled](#8-what-is-not-modelled)

Paths are relative to the repository; `runtime/` stands for
`crates/perry-runtime/src/`, `stdlib/` for `crates/perry-stdlib/src/`, `codegen/`
for `crates/perry-codegen/src/`.

## 1. Inventory

### Parts with behaviour over time

| Part | State | Operations | Talks to |
|---|---|---|---|
| Futex table, `runtime/atomics_futex.rs` | `WAIT_TABLE` (address -> list of waiters) under one mutex; per waiter a `notified` flag, mutex and condition variable | `enqueue`, `block`, `wait`, `notify` | `atomics.rs` on any agent; `waitAsync` parks on a thread of its own that ends in `queue_thread_result` |
| Atomics on shared memory, `runtime/atomics.rs` | the bytes of a SharedArrayBuffer, aliased by all agents | `load`, `store`, `add`, `sub`, `and`, `or`, `xor`, `exchange`, `compareExchange` | the futex compares the same bytes |
| Event pump, `runtime/event_pump.rs` | `NOTIFIED`, `WAITER_COUNT`, `PUMP.flag`, `PUMP.cvar`, `SPIN_STREAK`, the three wait-driver slots | `js_notify_main_thread`, `js_notify_promise_progress`, `js_wait_for_event` | every producer thread on one side, the event loop on the other |
| Async bridge, `stdlib/common/async_bridge.rs`, `stdlib/perry_ffi_async.rs` | `PENDING_RESOLUTIONS`, `PENDING_DEFERRED`, `EXT_BLOCKING_TASKS_INFLIGHT`, `EVENT_READY` | `spawn*`, `queue_*_resolution`, `js_stdlib_process_pending`, `js_stdlib_has_active_handles`, the wait driver | tokio; the pump; the loop |
| Generated event loop, `codegen/codegen/entry.rs` | the program counter of `main` after the top-level statements | flush, liveness test at the header and after the body, body, wait, `beforeExit`, `exit` | all of the above |
| `perry/thread`, `runtime/thread.rs` | `ACTIVE_THREAD_JOBS`, `PENDING_THREAD_RESULTS` | `js_thread_spawn`, `queue_thread_result`, `js_thread_process_pending`, `js_thread_has_pending` | the loop, through `js_microtasks_pending` |
| Microtasks, `runtime/promise/microtasks.rs` | `TASK_QUEUE`, the nextTick queue, the thread-local cells of the running job, the trap of each run | `run_microtasks` (nested too), queue, throw | the loop; timers; every await |
| Rejections, `runtime/promise/rejection.rs` | the lists of unhandled, reported and late-handled promises, internally handled addresses, the re-entry guard | reject, attach, the checkpoint and its listeners | the loop; the moving collector |
| Native async tokens, `runtime/promise/native_async.rs` | token states PENDING, QUEUED, COMPLETED, a completion queue | create, complete from any thread, drop, drain | the loop |
| Timers, `runtime/timer.rs` | one-shot, promise and interval queues, ref state, owner agent | schedule, tick, clear, ref, unref | the loop asks for the next deadline |
| Idle collection, `runtime/gc/idle_reclaim.rs` | work done in the current second | `park_hook` | called before a park |
| Garbage collector, `runtime/gc/` | phase, marks, grey set, barrier, black births, roots | slices of a full cycle | every allocation and store of the mutator |
| Weak references, `runtime/weakref.rs`, `weakref/` | `WEAK_HOLDERS`, FinalizationRegistry records, the scan's cursor | create, deref, register, unregister, clear, deliver | the collector; microtasks |
| Agents, shared buffers, `runtime/agent.rs`, `shared_sab.rs` | agent ids, process-global buffer registry | clone, claim | threads |
| Cluster, `runtime/cluster*.rs` | the rotation, queries, the frames of each socketpair, bridge threads and their channels | fork, query, accept and pass on, close, disconnect, die | primary and worker processes; the HTTP server |
| Streams, `runtime/node_stream.rs` | buffers, flowing and destroyed flags | read, write, pipe, destroy | microtasks |
| Updater, `crates/perry-updater`, `packages/perry-updater` | target, backup, staged and broken file, the sentinel | boot, health check, install, relaunch, roll back | the file system, the launcher |
| Container compose, `crates/perry-container-compose` | the spec, what the last up() created | up, rollback, down, start, stop, restart | a container engine, other orchestrators |

The compiler front end, the code generators (beyond the loop they emit), the
bindings of the standard library and the UI back ends are sequential
transformations or I/O; they are listed in `PROJECT.json` as not modelled.

### What is hard

1. *Sleeping on work.* Three sleeps (futex, condition variable, tokio tick) each
   race a wake that may come before the sleeper is asleep. The pump decides on
   the fast path, without a lock, that nobody sleeps.
2. *Exiting over work.* The loop asks six sources one after another whether
   anything is live while workers move jobs between them (issues #591, #921), and
   must neither leave early nor park when the last source has just died (#9441).
3. *Starvation.* Futures run only inside a tick; a loop that is always busy must
   still tick. A budget pinned at 0 must not burn a core for ever (#1114).
4. *A timeout racing a notify.* The waiter and the notifier must agree.
5. *Memory.* Release/Acquire on different locations orders less than it seems;
   read-modify-write on shared bytes is two accesses.
6. *Re-entry.* A callback may run the loop, the timers or the microtasks again,
   throw through them, or be called while a checkpoint walks the list it changes.
   What was read before the callback is stale after it.
7. *Slices.* The collector and the registry scan stop in the middle, and the
   program moves references past what was already scanned.
8. *Faults.* A power loss between two renames, a worker that dies with a connection
   on its way, a container command that fails half way or outlives its timeout, a
   second process that does the same at the same time.

### What makes each part correct

- Futex: no wakeup is lost, one outcome per call and an accurate wake count,
  nothing stale in the table, first come first served, every timed or counted
  call returns.
- Pump: the main thread does not sleep on queued work, queued work is drained,
  spinning is bounded.
- Loop: no exit and no park over work, every awaited job continues, a finite
  program ends.
- Atomics: an update replaces the value it was computed from.
- Tokens: however many threads complete one, it is completed once, with the payload
  of the call that was accepted; attached handles are disposed as their flags say; no
  promise is freed while native code has its address; a token is released in the end.
- Timers: an entry fires once, by deadline, on the heap it belongs to, and in the end;
  an await inside a callback is not stuck.
- Microtasks: a chained promise follows its own job however runs nest and throw; a run
  leaves nothing queued.
- Rejections: what stays unhandled is told to the program before it ends with code 0,
  what is handled is not.
- Collector: nothing reachable is freed, garbage and marks do not survive a cycle, weak
  slots do not dangle and are cleared only for the dead; cycles and scans end.
- Updater: some version that has worked is on the disk, a crash loop ends.
- Cluster: an accepted connection has one owner at every moment and is served or closed.
- Compose: rollback and down() remove what is theirs and nothing else, in order.

The hazards of `PROJECT.json` name the lines.

## 2. Plan

Done, in this order: `Futex` with `FutexAbstract`; `EventPump`; `EventLoop`, which
uses the pump's guarantee; `SharedAtomics`; `NativeAsync`; `Timers`; `Microtasks`;
`Rejections`; `GcCycle` and `FinReg`; `Updater`; `Cluster`; `Compose`.

Next:

1. `Threads`: agents, results tagged with their owner, an agent's own loop, shared
   buffers, composed with `Futex` for `waitAsync`.
2. `Microtasks` in place of the one-step `RunMicrotasks` of `EventLoop`, which becomes
   its abstraction.
3. Streams; the collector's copying minor cycles.

## 3. Modules and the code

`PROJECT.json` ("map") gives the lines of every definition. Definitions that start
with the comment "Mutant:" are plausible bugs of the definition after them; they
are not part of any specification and show that the properties can fail.

### Futex, FutexAbstract

A wait call is a process: it takes the table lock and compares the slot
(`EnqueueCheck`), registers and unlocks (`EnqueuePush`), loops on its condition
variable (`BlockLoop`, `SpuriousWake`, `TimeoutWake`), and reads its flag again
under the lock on the way out (`Settle`). `waitAsync` compares once more before
(`AsyncPrecheck`). A notifier stores (`Store`, no lock), locks and clamps
(`BeginNotify`), and for each waiter sets the flag (`NotifyMark`) and signals
(`NotifySignal`). The steps under a waiter's own mutex are one step: the code reads
and writes nothing else while it holds it.

`counted` is a history variable: the waiters in some notifier's `woken`.
`FutexAbstract` is the promise: a queue per slot, woken from the front; a verdict
that never changes once given. The mapping takes the table as the queue and a set
flag as the verdict "ok".

A notify that follows a store asks for all waiters; one that follows none asks for
any number. That is what makes `NoLostWakeup` meaningful: a program that stores and
then wakes one of three waiters has no claim on the other two.

### EventPump

Each access to shared state is a step. `Driver` selects the sleep: the condition
variable of `event_pump.rs`, or the tick of `async_bridge.rs`. `Buffered` selects
the memory model: on x86-64 a Release store and an Acquire load of another location
are plain moves and the store may still be in the buffer when the load is made;
read-modify-writes and mutex operations wait for the buffer. On AArch64 the pair
`stlr`, `ldar` is performed in order. Other reorderings are not modelled.

`spins` is a history variable: budget-0 returns since the core was last yielded.

### EventLoop

A job is one native operation with a promise; its kind (task, pool, thread) fixes
which counter it is in, which queue its result goes to and where it runs. The
liveness test is five steps (timers and in-flight counter, the two queues of the
bridge, active threads, thread results with the task queue), because a worker can
run between any two. The two copies of the test, at the header and after the body,
are told apart by `site`. JavaScript run by the main thread is one step that may
start jobs, arm timers, clear the interval and settle promises: it reads what other
threads write only where it takes a queue under its lock.

A job starts only from JavaScript that really runs: `RunMicrotasks` lets nothing
start when no continuation, timer or interval runs.

### SharedAtomics

`get_numeric` and `set_numeric` are plain accesses, so an operation is a read step
and a write step. Tearing is left out: elements are aligned. An Int32Array keeps its least
or greatest value where the other kinds wrap around (`Wrap`).

### NativeAsync

A promise and its token are one element of `Tokens`; `route` says which binding uses
it: a completion token, the shims that look the token up by promise, a raw promise
that is adopted when it is completed, or a settlement on the main thread that drops
the token. A completion is a compare-exchange on the state (`Claim`) and a push of the
payload under the locks of slots and registry (`Push`); an attach tests the state
without and with the slots' lock (`AttachCheck`, `AttachLock`) before it adds its handle
(`AttachPush`), and a completion may be accepted between the last two. The drain takes
the queue (`Drain`), and for each token takes its slots and settles (`SettleToken`), then
stores COMPLETED and unregisters (`Release`). `Collect` is the collector, which may free any
promise that no pin, registered token or drain roots. The queue is a set, since a token
is queued once; the notify after a push is `EventPump`'s.

`accepted`, `attached`, `settled` and `disposed` are history variables.

### Timers

The three queues of `timer.rs` are shared by all threads; an entry has an owner. A
thread has a stack of ticks: a tick goes through the promise, callback and interval
phases, and each phase reads the clock and the liveness of the queues (`Start`), takes
the expired entries of its agent under the lock (`Drain`), and fires them one by one
(`Resolve`, `Call`, `Return`). Inside a callback the program may do anything to any
timer, pump the loop (`NestedPump`, which the dispatch guard keeps from callbacks) or
await a timer (`Await`, `AwaitTick`, which suspends the guard). `SetRef` is the bounded
registry of ref states. What `js_stdlib_has_active_handles` answers is one of `Handles`:
while a handle is active the loop ticks without a ref'd timer (`HandleTick`) and unref'd
ones fire (`Start`). `RetireAgent` is the end of a worker. `Queues` has the operators on
arrays that `Timers`, `FinReg` and `Rejections` share: `Select` and `Without`
(`Vec::retain`), `Arrange` (a stable sort). `fires`, `wish` and `gone`
are history variables.

### Microtasks

One thread's `run_microtasks` with its stack of nested runs. `cells` and `trap` are the
thread-local cells by which the recovery finds the promise to reject; each arm of the
runner saves, sets and clears them as its code does, so the arms differ. `Throw` is the
`longjmp` to the innermost run. A run from the program itself is one of the event loop or,
with mode "jobs", the one drain of an await (`js_promise_run_promise_jobs`). `defer` is the decision to leave ticks for later, which
depends on the cells. `settled` and `uncaught` record who settled a promise.

### Rejections

`process_rejections` with its four lists, its guard and its budget, a step at a time:
late handlers (`EmitHandled`), a pass over the unhandled ones (`StartPass`,
`ReportUnhandled`, `EndPass`), the drain between two passes. A listener is the program
counter resting at an event name, where all actions of the program are enabled; `Throw`
leaves for the trap that is installed at that point. `addr` is there because
`internally_handled` holds addresses and a minor collection moves promises (`Evacuate`).

### GcCycle, FinReg

`GcCycle` is the budgeted full cycle: root scan, mark, remark, weak processing, sweep,
reclaim, each in slices of one unit, with the mutator's allocations, stores, root moves
and weak reads between any two. `Native` are root slots in native frames, which only the
final remark sees. `Recent` are objects that block persistence keeps. `FinReg` is the
part of weak processing that is itself cut into slices over an array that register and
unregister change: the cursor is checked by length and identity (`SameIdentity`), and a
scan that finds its array changed restarts, a bounded number of times (`Restarted`,
`AtomicFinish`).

### Updater

One action per file system call of `desktop.rs`, in the order of the code, each of which
may fail where the code handles it, and `PowerLoss` between any two. The TypeScript side
(`index.ts`) boots, counts, compares with the threshold, checks health, arms the sentinel
and relaunches. `proven` is a history variable: versions that ran well.

### Cluster

Primary and workers as their threads: accept, reactor pump, IPC reader, waiter, bridge
and server loop. The socketpair is a sequence of frames that carries descriptors; a
descriptor of an accepted connection is in one `Places` at any time. `slow` counts
queries answered after their timeout, `shut` and `left` are the two ways a channel is
disconnected, `kills` counts deaths. `log` is what the program saw of each worker.

### Compose

One action per call to the container CLI; the runtime's containers, networks and volumes
are sets that survive the engine. `Faults` says which calls may be refused, may fail half
way or may outlive their timeout. An `inspect` that fails reads as absent, of a container as
of a network or a volume. Creating a name that exists is refused or, of a volume where
`Idempotent`, succeeds without effect, as docker's `volume create` does (`Adopts`); either
way what was created without an error is put on the session's list. `FreshEngine` ends the process and starts a new
engine with an empty session. `ContainerExits` ends a container's program.

### The MC modules

`MCThreads`, `MCTimers`, `MCPromises`, `MCGcCycle`, `MCProcesses` and `MCEventPump` check several
instances in one run: a variable `setup` (or `build`), which no step changes, picks the
instance, the constants of which are given where the module is instantiated or, for a module
that is extended, in the configuration; a property
that the code keeps only in some setups says so with `setup \in ... =>`. Where a module
is known not to keep a property in some case (section 7), the setups leave that case out
and no other.

## 4. Runs

| Run | Result | Shows |
|---|---|---|
| `threads` | pass | *futex*: two calls (wait or waitAsync; timeout zero, finite or none) against a notifier: types, `NoLostWakeup`, `ExactlyOneOutcome`, `NoStaleWaiter`, `WaitsReturn` (a call that was counted, or has a timeout), `ImplementsAbstract`; *token*: three threads complete, attach to and settle a token of every route: `ExactlyOnce`, `HandlesFollowSettlement`, `NeverFreedEarly`, `AcceptedSettles` |
| `pump` | pass | three builds: condition variable with ordered stores, tokio tick with buffered stores, condition variable with buffered stores. `WakeupsSuffice`: in the first two no notify is lost. `QueuedIsDrained`: in the first two without the help of the idle cap, in the third because of it. `SpinBounded`, types |
| `pump_lost` | violation | the third build: a notify is lost (`NoLostNotify`), only the cap ends the sleep |
| `event_loop` | pass | two jobs of every combination of kinds, a timer, an interval that may be hot: types, `NoEarlyExit`, `ParksOnlyWhenIdle`, `EveryJobContinues`, `FinishedProgramExits` |
| `loop_spin` | violation | the wait does not block while a thread job is merely running |
| `loop_before_exit` | violation | a timer armed by `beforeExit` and not due at once never fires |
| `atomics_rmw` | violation | two read-modify-writes lose an update |
| `timers` | pass | *solo*: one thread, every operation on two timers, nested pumps and awaits; *shared*: two threads of the primary agent and a worker on the same queues; *idle*: unref'd timers, promise timers too, on a loop that only handles may keep going. `ExactlyOnce`, `HeapAlive`, `DeadlineOrder`, `TimersSettle` (timers fire and awaits end), types |
| `promises` | pass | four setups of nested runs (`ChainFollowsJob`, `QueuesDrain`) and two of the checkpoint (`SurfacesAtZero`, `ReportsUnhandled`), types |
| `gc` | pass | three heaps for the cycle (`ReachableIsAllocated`, `CycleIsClean`, `WeakIsSound`) and one registry (`RecordsAreSound`); `CollectionEnds` |
| `processes` | pass | two setups of the updater (`UpdateIsSafe`), four of the cluster (`ClusterIsSafe`), four of the orchestrator (`EnginesClean`, `EnginesSpare`), and what must end (`ProcessesEnd`) |
| `compose_rollback` | violation | one engine on docker: a failing `inspect_volume` makes a volume that was there before the session's own, and the rollback of a failed `run` removes it (`RollsBackOwn`) |

A property of the last four passing runs may be a conjunction of named parts that concern one
promise of one component; each part has a comment in its module and a mutant that breaks
it.

Bounds, and why they are enough:

- Futex: 2 waiters, 1 notifier, 2 notifies, 1 slot, 2 values. Two waiters give a
  list in which one leaves from the front, the back or the middle of a notify's
  work; two notifies let the second meet a waiter that the first should have
  removed. Slots share only the lock. The theorems remove all of these bounds.
- Pump: 2 producers of 2 items each: a second push while the first notify is under
  way, and a second producer between the main thread's steps. `SPIN_THROTTLE_AFTER`
  is 2 instead of 1024: only the comparison with it matters, and `SpinIsBounded`
  holds for every value.
- Loop: 2 jobs, 1 timer, `FlushRounds` 2 instead of 4: every pair of kinds, each
  with a timer. The theorems hold for any number of each.
- Atomics: 2 agents, 1 slot, 2 bits, 2 operations: two operations suffice for the
  lost update.
- Tokens: 1 token of any route, the main thread and 2 others, 1 call each: two
  completions that race an attach, or two attaches a completion, in every order with
  the drain. Tokens share nothing but the registry. The theorems lift these bounds.
- Timers: 2 timers (an order needs two), delays 0 and 1 (1 alone in *shared* and *idle*), a clock with 2 values, ticks
  nested once, a ref registry that holds one id instead of 65,536, so that it evicts. The
  theorems lift all of these.
- Microtasks: 3 tasks, runs nested at most 3 deep: a job, one that runs the queue inside
  it, and one more inside that, which is where the cells of the first are lost or kept.
  The theorems lift the bounds, for the kinds and throws of each setup (`Regular`).
- Rejections: 2 promises, a list of reported ones that holds 1 instead of 1024, 1 throw;
  with a moving collector 1 promise and 2 addresses.
- Collector: 3 objects and 2 root slots: a chain of three, or a WeakRef to an object that
  leads to another, or two WeakRefs to one object, is what the barrier, the remark and
  the weak pass have to get right; the theorems are about any heap. Registry: 3 records under 2 tokens, 2 restarts
  instead of 4.
- Updater: 4 versions, one of which crashes, 3 installations, 1 failing call, 1 power
  loss, threshold 2: an update after an update that was rolled back. The theorems lift
  all of these but the failing call, which is a limit of the code: with two of them
  `ProvenKept` fails (section 7).
- Cluster: 1 worker with 2 connections and 2 listens and every fault, or 2 workers with
  3 connections; channels that hold 1 connection instead of 256, so that a bridge blocks. The
  theorem lifts these.
- Compose: 1 or 2 engines with 2 operations between them, 2 services, one of which depends
  on the other, 1 fault; the setup *redeploy* has a backend that refuses to create a volume
  that exists, the others one that does not. `compose_rollback` needs 3 operations (an `up`,
  a `down` that keeps the volume, an `up`) and 2 faults. The theorems lift all of these, but not for the order of services
  and what `down` leaves.

Constants that start with `Max` bound notifies, operations, pushes, calls, the clock,
faults and so on; nothing else is bounded except by the sets given. The deadlock check is
off in `atomics_rmw`, `timers`, `promises`, `processes` and `compose_rollback`, whose programs may be over.
Elsewhere a program that is over takes an explicit stuttering step (`Finished`,
`Returned`, `Quiet`) or the loop runs for ever. No run uses symmetry.

## 5. Fairness

- Weak fairness of every thread's steps: the operating system runs threads that can
  run. For the blocking pool and OS threads this includes that a native operation
  finishes (`WorkerPush`) and that what a future waits for arrives (`Arrive`):
  without that an await is entitled to hang.
- Weak fairness of deadlines (`Deadline`, `Expire`, `Timeout`): clocks advance.
- No fairness of spurious wakeups, pushes, stores, notifies or starting a wait.
- `PromptSpec` of the pump, which `MCSpec` has in the first two builds, and `Spec` of the
  loop assume nothing about the idle cap of one second: what they show is delivered by
  wakeups. `Spec` of the pump, and the third build, add the cap, which the code always
  applies (`IDLE_CAP_MS`).
- Tokens: a thread inside a call goes on, and the main thread drains what is queued
  (`MainStep`; the loop reaches its drain by `EveryJobContinues` and the notify). No
  fairness of beginning a call, of making a promise or of the collector.
- Strong fairness of `Park` in the loop: before a park `park_hook` may resume the
  loop instead, but its work per second is capped in `gc/idle_reclaim.rs`, so an
  idle loop cannot be kept from parking for ever.

- Timers: the clock advances and each thread goes on with its tick. Strong fairness of
  `Return`: a callback may pump the loop, but not for ever.
- Microtasks: the loop runs the runner again while something is queued; a job may run the
  queue, but not for ever (strong fairness of `Returns`). Nothing is assumed of throws or
  of queueing.
- Rejections: the loop turns, listeners return, the drain between two passes ends.
- Collector: a cycle in progress is stepped, as every allocation check, safepoint and idle
  turn does (`gc_check_trigger`); cleanup jobs are delivered by the pump. No fairness of the mutator.
- Updater: the launcher starts the program again, processes run and timers fire.
- Cluster: reader, waiter and bridge threads and both loops run, the 10-second timer of a
  query fires. Compose: every call ends, by an answer or by its timeout. `processes` checks
  all three under less than that, one weak fairness: some thread, process or engine that
  can go on does (`GoesOn`).

## 6. Proofs

| Theorem | Says | For all |
|---|---|---|
| `FutexProofs!TypeCorrect`, `NoWakeupIsLost`, `OneOutcome`, `TableIsClean` | `TypeOK`, `NoLostWakeup`, `ExactlyOneOutcome`, `NoStaleWaiter` | finite sets of waiters, any notifiers, slots, values |
| `EventPumpProofs!PumpTypes`, `SpinIsBounded` | `TypeOK`, `SpinBounded` | any producers, either sleep, either memory model |
| `EventPumpProofs!NoNotifyIsLost` | `NoLostNotify` | any producers, given `Driver \/ ~Buffered` |
| `EventLoopProofs!LoopTypes`, `LoopNeverExitsEarly`, `LoopParksWhenIdle` | `TypeOK`, `NoEarlyExit`, `ParksOnlyWhenIdle` | any jobs, timers and flush rounds |
| `FutexProofs!FutexImplementsAbstract` | `ImplementsAbstract`: the futex implements `FutexAbstract` | as above |
| `ProcessesProofs!UpdaterIsSafe` | `UpdateIsSafe` | any versions, processes, threshold, installations and power losses, given `~Eager` and at most one failing call |
| `ProcessesProofs!KeptWhileBacked`, `RollbackIsNeeded` | `ProvenKept` while no installation begins without a target; `NoNeedlessRollback` | the same with any number of failing calls, given `~Eager` |
| `ProcessesProofs!ClusterSafe` | `ClusterIsSafe`: one owner for each connection, the order of a worker's events, a fair rotation | any finite set of workers, any connections, listens, buffer size, slow answers and deaths, with and without closes and failing sends |
| `ProcessesProofs!ComposeTypes` | `EngineTypes` of `Compose` | any engines, projects, specs, faults, operations and process ends |
| `ProcessesProofs!UndoIsClean` | `UndoClean` | the same, given `NoLate` |
| `ProcessesProofs!VolumesKept` | `KeepsVolumes` | the same, given `Apart` and, if `Idempotent`, no failing `inspect` |
| `ProcessesProofs!ProjectsApart` | `KeepsToProject` | the same, given `Named = {}` |
| `ProcessesProofs!RunningSpared` | `SparesRunning` | the same, given `Named = {}` or `Alone` |
| `GcCycleProofs!NoUseAfterSweep`, `CyclesAreClean`, `WeakSlotsAreSound` | `ReachableIsAllocated`, `CycleIsClean`, `HoldersTracked` and `NoDanglingWeak` | any heap, locals and number of cycles, given `Revivable` |
| `GcCycleProofs!SoundUnlessRevived` | the four of them | any heap, in behaviours in which no deref after the remark revives an object with a field (`Quietly`) |
| `GcCycleProofs!ClearedStayDead`, `ClearedUnlessRevived` | `ClearedIsDead` | heaps with one WeakRef; any heap, in behaviours in which a deref after the remark finds its target marked (`Firmly`) |
| `GcCycleProofs!RecordsSound` | `RecordsAreSound` of `FinReg` | any records, tokens and number of restarts |
| `TimersProofs!TypeCorrect`, `OnceEach`, `HeapsAlive` | `TypeOK`, `ExactlyOnce`, `HeapAlive` | any timers, pumps, workers, delays, nested ticks and registry size |
| `TimersProofs!TurnOrder` | `DeadlineOrder` | the same, given `Steady` |
| `MicrotasksProofs!RunnerTypes`, `RunsDrainDry` | `TypeOK`, `DrainsDry` | any tasks, depth and throws |
| `MicrotasksProofs!ChainsAreKept` | `ChainFollowsJob` | any tasks, given `Regular` |
| `MicrotasksProofs!ChainsFollowJobs`, `TicksKeepTheirTurn` | `ChainFollowsJob`; `TicksWait` | any tasks, depth, kinds and throws, in behaviours whose steps are `Orderly`; `Gentle` |
| `MicrotasksProofs!TrackerTypesHold`, `LateHandlersOnce`, `ToldOnlyUnhandled` | `TrackerTypes`, `HandledOnce`, `OnlyUnhandled` of `Rejections` | any promises, addresses, cap, throws and moves |
| `MicrotasksProofs!SurfacedAtZero`, `SurfacedUnlessAbandoned` | `SurfacesAtZero` | the same, with at most one throw; with any number of throws in behaviours whose steps are `Contained` |
| `NativeAsyncProofs!CompletedExactlyOnce`, `HandlesAreDisposed`, `PromiseOutlivesToken` | `ExactlyOnce`, `HandlesFollowSettlement`, `NeverFreedEarly` | any tokens, threads and number of calls |

Assumptions: `FutexAssumption` (the lock's free value is no agent, waiters and
notifiers are disjoint, waiters are finite), `PumpAssumption` (constants have their
types), `LoopAssumption` (at least one flush round, jobs are not timers),
`AsyncAssumption` (there is a main thread, Nil is neither a thread nor a payload),
`UpdaterAssumption` (version 0, the one installed first, works; the threshold is above 1;
the missing file is no version and no sentinel), `GcAssumption` (there are finitely many
objects, Nil is none of them), `TimersAssumption` (no thread is a pump and a worker, the
primary agent is no worker, delays are numbers, ticks can start and the registry holds an
id; `None` is neither a number nor a kind of timer), `MicrotasksAssumption` (the bounds are numbers, no task is
None), `ClusterAssumption` (there are finitely many workers, a worker may listen, a channel
of a bridge holds a connection), `EngineNumbers` (engines and bounds are numbers), `RejectionsAssumption` (there are finitely many promises, the cap is not zero, Nil
is no promise, no address and no exit code).

Some theorems have a hypothesis besides. Each excludes a case in which the code does not
keep the property (section 7), and TLC shows the violation when it is dropped:

- `~Eager`, `MaxFailures <= 1`, `Backed`: an installation while an update is on probation;
  two failing calls in one installation; an installation without a target.
- `Revivable` holds where nothing can be lost behind a revived object: there are no
  WeakRefs, or their targets have no fields, or there is one WeakRef and no native slot. It
  holds in each of the three heaps of run `gc`. `Quietly` and `Firmly` restrict the mutator
  in place of the heap.
- `Steady`: the program never unrefs a timer, or one thread runs it. `Start` reads
  `allow_unref` and `Drain` reads each entry's ref state later, each under a lock of its
  own. Another thread of the primary agent that refs or unrefs a timer in between decides
  which of the due entries the turn takes, and one that is due first is left to the next
  turn while a later one fires. All setups of run `timers` are steady.
- `Regular` is what the four setups of run `promises` have: no nested runs, or no throw
  and no inline job, or one throw and only promise and `queueMicrotask` jobs. `Orderly` is
  weaker and about steps: no job throws in a nested run, except the last throw, by a job
  with no inline job or step around it; no reaction without a callback runs inside an inline
  job, or inside a promise job that may still throw; no inline job or step runs inside an
  inline job. `Gentle`: while a job that is not a tick waits for a nested run, nothing
  throws and no inline job or step ends in it.
- `NoLate`: no `run` fails after its container exists or outlives its timeout. `Apart`: no
  two engines have one project. `Idempotent => "inspect" \notin Faults`: where a volume that
  exists is created without an error, no inspect fails, so that what is created was absent
  (`AbsentInv`). `Named = {}`: no service has a `container_name`. `Alone`:
  there is one engine.
- `Contained`: the listener of `uncaughtException` does not throw under the trap of the
  event loop's run, which needs a second throw. Such a throw leaves `process_rejections`
  without the reset of `PROCESSING_REJECTIONS`, so every later checkpoint, the last one
  too, returns at once. TLC finds a process that ends with 0 and an untold rejection when
  `MaxListenerThrows` is 2.

The inductive invariants:

- Futex, `IInv`. `NoLostWakeup` needs to know that a parked call that was not woken
  is in its list (`ParkedInv`), that lists hold only such calls, once each
  (`ListInv`), that the lock belongs to whoever is between its two ends
  (`LockInv`), and that a notify's remaining count does not exceed the list
  (`CoverInv`). A store during a registration is harmless because the storing agent
  itself now owes a notify. `ExactlyOneOutcome` needs `CountInv`: the flag is set
  exactly for the counted, and only while the call is parked or after it returned.
- Pump, `PumpInv`. Until the sleep, queued work has set `NOTIFIED` or its producer is
  about to (`ApproachInv`); during the sleep its producer has not yet passed the
  step that wakes (`SleepInv`). The store buffer breaks `ApproachInv` for the
  condition variable, since the producer may pass the test of `WAITER_COUNT` while
  the store is in the buffer; hence the hypothesis `Driver \/ ~Buffered`.
- Loop, `LoopInv`. A source found dead stays dead while the rest are asked
  (`CheckInv`): that needs that each counter counts exactly the jobs that have not
  handed over their result (`CountInv`) and that a result that was handed over is
  in some queue until it runs (`HandedInv`), and it depends on the order in which
  the sources are asked: counters before the queues they feed. `TellInv` follows
  a queued result from the pump to the park.
- Tokens, `AsyncInv`. At most one thread is between `Claim` and `Push` and its payload is
  the accepted one (`QueueInv`). The slots' lock is held only while the token is
  unsettled (`SlotInv`), so no handle arrives after the drain took them; until then
  `handles` is all that was attached (`SettleInv`). A pending promise is pinned and a
  token is registered exactly while it is PENDING or QUEUED (`RegistryInv`). A promise
  that allows one call is in one call, so no two threads adopt it (`ShimInv`).

- Refinement of the futex. With `IInv` each step is matched: `AbstractRefuse`,
  `AbstractPark`, `AbstractSettle` and `AbstractWake` are the four that change the
  abstract state, every other step is `AbstractStutter`. The removal of a waiter from its
  list (`RetainIsCut`) needs `ListInv`: it is there once. What a call is told is decided
  when its flag is set, not when it returns (`Verdict`), so a notify is an abstract wake and
  the return of a counted call is a stutter; `CoverInv` gives the notify a waiter to wake.
- Updater, `AllInv`. One process is active; a process that still acts on what it booted
  runs the target (`ImageInv`); between arming and relaunch the sentinel is there
  (`SentinelInv`). `KeepInv` says, for each program counter, whether the target or the
  backup is the proven version that is relied on: `ProvenKept` is about the whole disk, but
  the next call removes one file, and only the place of the version shows that it is
  another one.
  `FailInv` gives the target's presence as long as at most one call failed; `CalmInv` is
  the reason of a restart count above 0.
- Collector, `GcInv`. The tricolour condition (`TriInv`) alone does not survive the
  remark, since a native slot takes a value without a barrier. From the remark on
  `RemarkInv` takes over: the marks have all roots, they are closed or one trace away
  from it, and a holder already visited has a marked target. It gives `KeptInv` at the
  start of the sweep: what the sweep will leave has the roots and is closed, which is
  `ReachableIsAllocated` at every slice. `DoomInv` is the converse, for garbage.
  `ClearInv` adds that a tombstoned target stays unmarked. Reachability is a least closed
  set, so all of it is argued with `LeastClosed` and `LeastLeast`, without induction.
- Registry scan, `RegistryInv`. A record is in the array once, and as long as it is there
  it has not been delivered; it has at most one job, which took its target (`JobInv`).
  `ScanInv` is about the cursor: while the entries word is still the one it was set for,
  the array has only grown, and what the cursor has passed was tombstoned or has been
  revived. What `retain` returns is said by positions (`SelectLemma`).
- Timers, `TimersInv`. Each queue holds timers of its own kinds, in creation order and so
  once each (`QueueInv`); the batches of all ticks of all threads hold one-shot timers that
  are in no queue and in no other batch, or intervals (`BatchInv`); a one-shot timer that
  waits in either place has not fired and one that waits in neither has fired once or is
  cleared (`FireInv`). That gives `ExactlyOnce` by counting `Waits`: there is one place. What
  `drain_expired_timers` and the stable sort return is said by positions (`SelectLemma`,
  `OrderBatchLemma`): the position of an entry is the number of entries before it, which
  is a bijection because `Before` is a strict total order (`PlaceLemma`).
- Timers, `TurnInv`, for the order within a turn. It relates the batch of each tick to the
  callback queue: the batch is sorted, and what is left in the queue and was scheduled
  before the turn began comes later than all of the batch (`TurnsInv`). A refresh or a
  new timer has a deadline of at least the clock plus its delay, so it does not count as
  scheduled before; between `Start` and `Drain` the ref state that is read must be the one
  `allow_unref` was computed from (`DrainInv`, `RefInv`), which is what `Steady` gives.
- Microtasks, `BaseInv`: a task is in one queue, once, or in one run (`PlaceInv`,
  `StackInv`), and what a run remembers of the queues is still true (`DrainInv`).
  `ChainInv` needs to know for each run what the cells hold when control returns to it,
  and that is spread over the runs above it: the cells themselves if it is the innermost,
  else the copy saved by the next job that saves one (`CellInv`, `TrapInv`). `TickInv`
  needs the same of the callback cell (`CallbackInv`).
- Rejections, `TrackerInv`. The three lists have no duplicates, and each says something of
  its promises (`ListInv`): unhandled ones are rejected, untold and without a reaction the
  tracker heard of; reported ones are told and have none either; pending ones are told and
  have one. A told promise is in a list, or its late handler was reported, or the cap
  pushed one out (`LateInv`), and then more than `MaxReported` promises have been told:
  that is counted (`ElemsCount`). While nothing moved, a rejection without a reaction that
  is neither told nor the runtime's own is in the list (`TrackInv`), and a pass that has
  not emitted still has the whole list before it (`FlowInv`). So a pass that ends without
  having emitted found nothing to report, which is the only way to exit code 0 as long as
  the guard is down outside a checkpoint (`GuardInv`, in `EndInv`).
- Cluster, `ClusterInv`. A connection's owner is argued with sets: `Held` of a holder is what
  its queue, buffer, bridge or set has, and `Split` says that the held sets are disjoint and
  have together what was accepted (`OwnerInv`). A step moves a set from one holder to
  another, so each is a case of one lemma about `Split`; the death of a worker empties all
  of its holders at once. A move takes the head of a queue, which leaves the queue's held set
  without it only if it was there once (`NoTwice`), and starting a bridge overwrites nothing
  because a listen that is not answered has none (`FreshInv`). `RotationFair` is not
  inductive: it counts how often a worker was passed over, but not how soon its turn is.
  `RotationInv` adds the two: count plus distance to its turn stays below the length of the
  rotation, which has no duplicates and so is no longer than there are workers.
  `ClusterOrder` is about the log, but the order is decided when the immediates are queued:
  `EventInv` says of log and immediates together that each event is there once, that the
  `disconnect` is there exactly when the worker is marked, and before the `exit`.
- Compose, `ComposeInv`, for any engines that share the runtime. Every step of an engine has
  one of five effects on what engines share (`EffectOf`): it creates nothing, makes a network
  or a volume, creates a container, begins an operation or is the next process; the
  invariants are kept by the effects, not by the 20 actions one by one. The id of a new container is on no
  list of any engine and on no container (`UsedLemma`), so what is listed by id stays the
  container that was meant, and has the project of the engine, and the number of the `up` if an
  `up` listed it (`ListsInv`). `UndoClean` needs the converse, which is not of the returned
  state but of every step before it: what an `up` created is on its lists until it is gone
  (`CreatedInv`). Networks and volumes are listed by name, and a name does not tell who made
  it; that takes `Apart` (`OwnersInv`) and, where a create of an existing volume succeeds, that
  nothing exists under the name an engine is about to create (`AbsentInv`). So it is with containers that are found by name: without
  `container_name` the name has the engine and its process in it (`NamesInv`), and one engine
  alone finds, when it removes what it inspected, what it inspected (`SwapInv`).

Only model-checked: liveness (the prover does not handle fairness), and of `Compose` the
order of services (`StartsInOrder`, `StopsInOrder`) and what `down` leaves (`DownClean`): all
three are about the list of services that a recursive definition computes from the
dependencies, and what it computes needs induction over data.
`SharedAtomics` has no theorem: its one property fails, and it uses `Bitwise`. Some
invariants of the MC modules are conjunctions over several instances, and the theorems are
about their parts: `WakeupsSuffice` of `pump` is `NoLostNotify` in the builds for which
`NoNotifyIsLost` proves it; `WeakIsSound` of `gc` is `WeakSlotsAreSound` and
`ClearedStayDead`; `Types` of `promises` is `RunnerTypes` and
`TrackerTypesHold`; `EnginesClean` and `EnginesSpare` of `processes` are the properties of
`Compose` in the setups that meet the hypotheses, and `UndoClean`, `KeepsVolumes`,
`KeepsToProject` and `SparesRunning` are proved; `QueuesDrain` is `RunsDrainDry` and, in the setups with ticks,
`TicksKeepTheirTurn`, but for what must happen in the end.

## 7. Disagreements between the code and its comments

1. `event_pump.rs:352` and `:376`. The comments say that the flag makes an early
   notify survive and that the mutex-protected flag covers the lost-wakeup window.
   On x86-64, with no wait driver installed, the producer can return on
   `WAITER_COUNT == 0` while its store of `NOTIFIED` is still buffered, and the main
   thread then sleeps on queued work (`pump_lost`). The cost is bounded by the idle
   cap of one second (`QueuedIsDrained` of `pump`), and programs that link the async
   bridge sleep in the driver, which does not have the window (`WakeupsSuffice`). A `SeqCst`
   fence, or a `swap` in place of the store, closes it.
2. `promise/mod.rs:1248`. `js_microtasks_pending` is described as "the current
   thread's microtask queue has at least one pending entry", but is also true while
   a thread job runs, so `js_wait_for_event` returns at once for as long as a
   `spawn()` or a `waitAsync` is in progress and the loop spins, past the throttle
   (`loop_spin`).
3. `codegen/entry.rs:1354`. Work queued by a `beforeExit` listener is said to run
   still; there is one drain and no return to the loop, so a timer that is
   not due in that drain never fires (`loop_before_exit`).
4. `atomics.rs:523`. Atomics on shared memory are documented as genuine cross-thread
   coordination; read-modify-write is two plain accesses (`atomics_rmw`).
5. `compose.rs:782`. A rollback is said to remove volumes that "were just created". `up()`
   takes any error of `inspect_volume` (`:320`), a timeout too, for absence; docker's
   `volume create` (`docker.rs:313`) then succeeds for the volume that is there, which is
   listed as the session's (`:328`), and if a service fails afterwards the rollback
   removes it, with its data (`compose_rollback`). One engine alone can do this;
   `VolumesKept` shows that without two engines of one project it takes a failing inspect
   and such a create. The create's answer does not tell the two cases apart; only an
   inspect error that says "not found" should count as absence.

Also seen: the comment of `EVENT_READY` (`async_bridge.rs:142-145`) describes
`notify_one` and a stored permit; the code calls `notify_waiters`, which stores none.
The model follows the code, and no notify is lost by it, because `run_one_tick` enables
its future before it reads `NOTIFIED`.

Met while the other modules were written, and followed by them; where a module states
the claim, its name is given. No run checks these claims, and the setups of the passing
runs leave the failing case out of the properties it would break.

Timers:
- `timer.rs:1301`: the whole expired batch is detached before its first callback runs, and
  a clear only searches the queue: a timer cleared by an earlier callback of its batch
  still fires (`ClearedNeverFires`; `test_gap_encoding_timers.ts:82`).
- `timer.rs:931`: `refresh` finds only an entry that is still queued; the comment at `:922`
  says that it revives a cleared one.
- `timer/ref_states.rs:34`: an id is evicted although its timer is queued, and then counts
  as ref'd (`UnrefKept`; the comment at `:15` says evicted ids are never asked for).
- `fs_await.rs:207`: an await inside a callback ticks the queues, but a timer of the
  callback's own batch is in none of them; the two wait for each other (`AwaitWhat` limits
  `Await` to queued timers).
- `timer.rs:1724`: the interval tick has no microtask checkpoint between callbacks, and
  roots a closure only when its turn comes; the comments at `:1357` and `:1270` ask for
  both.

Microtasks:
- `promise/microtasks.rs:768`: the inline arm reads its promise from a cell that a nested
  run has cleared, and the chained promise never settles (comment at `:590`).
- `:366`: the recovery of a nested run clears the cells of the enclosing job, whose own
  throw is then reported as uncaught; and a tick that throws in a nested run rejects the
  promise of the enclosing job (comments at `:525`, `:264`).
- `:502`: a reaction without a callback, in a run inside an inline job, nulls the cells of
  that job. A chained promise is lost in no other way than by these nested runs:
  `ChainsFollowJobs` excludes them (`Orderly`).
- `:761`: the inline and async-step arms leave the cell empty that marks a running job, so
  that a nested run drains ticks first (comment at `:418`).

Rejections:
- `promise/rejection.rs:395`: a throw of the `uncaughtException` listener leaves the guard
  set for ever; rejections no longer surface (comment at `:252`).
- `:291`: a listener that handles a tracked promise leaves budget for one it rejects
  (comment at `:288`).
- `:237`: `internally_handled` is not rewritten when promises move (comment at `:80`).
- `:427`: after a throw of its listener a rejection is raised as uncaught as well (comment
  at `:404`).

Collector:
- `weakref/sliced.rs:172`: a holder that is unmarked in its slice leaves `WEAK_HOLDERS` and
  a weak read may still revive it.
- `weakref.rs:1081`: of two WeakRefs to one object, one may be cleared and the other revive
  the object (`ClearedIsDead` with two holders).
- `gc/cycle.rs:1076`: the field of an object that a weak read revived can reach a native
  spill slot after the last root scan (`ReachableIsAllocated` with a chain, a WeakRef and a
  native slot).

Cluster:
- `cluster_sched.rs:163`: a query that times out in the worker is still answered by the
  primary, which passes connections nobody takes (`Delivered`).
- `server.rs:983`: `close()` does not tell the primary (`Delivered`); `:727`: the bridge of
  the closed server competes with the next one (`ServerKeeps`).
- `cluster.rs:1372`: the fallback at exit emits only the cluster's `disconnect`
  (`WorkerOrder`).
- `cluster_sched.rs:625`: a query read after the exit puts a dead worker back into the
  rotation (`DeadLeave`); `:679`: removing a worker before the index skips the next one.

Compose:
- `compose.rs:692`: inspected by name and replaced two awaits later, when another engine
  may have replaced it (`SparesRunning` with two engines of one project).
- `:772`: a rollback removes its volumes by name, also one that another engine of the
  project has removed by a `down` and created again since (`KeepsVolumes` with two engines of
  one project and three operations; run `processes` does not ask it of that setup). Where
  no inspect fails it takes two engines of one project (`VolumesKept`); the other way to
  lose a volume is number 5 above.
- `:322`: networks and volumes of an `up()` that fails before its services stay
  (`NoDetritus`).
- `:725` and `cli_backend.rs:37`: a `run` that fails half way, or outlives its timeout,
  leaves a container the rollback does not know (`UndoClean`).
- `:752`: the rollback removes containers it should only stop (`StoppedKept`).
- `service.rs:25`: without `container_name` the next process runs a second container
  (`UpIsNoop`).
- `:718`: conditions of `depends_on` are not read.

Updater:
- `desktop.rs:204`: a crash between the two renames leaves nothing to boot
  (`NextBootExists`).
- `index.ts:268`: a crash between arming and the first rename makes the roll-back restore
  an older backup (`RestoresPrevious`).
- `index.ts:263`: the roll-back comes after one crash less than the documentation says.
- `desktop.rs:196`: a manual retry after a failed relaunch replaces the backup that worked
  by the version that is unproven (`Eager` stands for programs that retry; `ProvenKept` is
  checked for those that wait for the health check).
- `desktop.rs:206`: when the rename of the staged file fails and the one that puts the
  backup back fails too, the program runs on without a target, and its next installation
  begins by removing the backup (`:196`), the only version that worked (`ProvenKept` with
  two failing calls; `KeptWhileBacked` shows that it is lost in no other way).

## 8. What is not modelled

- Panics of native futures and closures: the counter's `fetch_sub` is skipped and the
  program would not exit. The models take native work to return.
- Coercion of arguments (which may run JavaScript), element kinds other than by how they
  narrow, BigInt views.
- The host-driven mode of the loop (`main` returns and an embedder polls), cron, and
  the event queues of individual modules (ws, net, tls, readline, zlib), each of
  which is one more source with the same protocol.
- Values of completions, and the rewriting of slots when the collector moves a promise.
  Two shim calls on one promise: `JsPromise` is consumed by its one call, and the model
  relies on that (`BeginShim`).
- Registration of the wait driver's slots: a driver is present for a whole run or
  absent.
- Memory reordering other than a store buffered past a load.
- Timers: mock timers, async_hooks, the clock's resolution; the clock and the liveness of
  the queues, which a phase reads under one lock after the other, are one step (`Start`).
  Microtasks: `Promise.all`
  tasks, chained steps, thenables, async_hooks; in `EventLoop` a drain is one step.
  Rejections: once-listeners, the text of the diagnostic.
- Collector: minor and copying collections, evacuation, pinning, the conservative scan,
  remembered sets, the pacing that starts a cycle, WeakMap and WeakSet entries (cleared by
  the same decision as a WeakRef). Block persistence is one step, which may keep any of
  `Recent`; the code walks the blocks in slices.
- Updater: the manifest, download, hash and signature, which come before the modelled
  steps.
- Cluster: `SCHED_NONE`, several addresses, `cluster.disconnect()` and its callbacks, the
  `online` and `listening` events, the bytes of the frames. Workers inherit the primary's
  stdio, as `cluster.fork` has it by default; a silent worker's exit would also wait for
  the end of its pipes (`reactor.rs:1741`). A `disconnect()` whose channel is gone only
  emits `disconnect` on the worker object once more, which `Mark` makes void for the
  cluster; it is left out.
- Compose: a stop and the forced remove after it are one step; late effects only of `run` (a
  create that outlives its timeout would leave a volume that is on no list);
  a caller's list names services of the spec, each once;
  `ps`, `logs`, `exec`, `config`, `down_all`, `remove_if_exists`, images, the YAML parser,
  capability tables, workload graphs, health checks.
- Agents: result tags and the shared buffer registry. Streams: a state machine of one
  thread, not taken up. The parts of section 1 that are sequential.
