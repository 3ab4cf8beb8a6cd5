----------------------------- MODULE Microtasks -----------------------------
(***************************************************************************)
(* The microtask runner of one thread (promise/microtasks.rs): promise     *)
(* reactions, queueMicrotask callbacks and async steps in one FIFO queue,  *)
(* process.nextTick callbacks in another.  A job that throws lands in the  *)
(* trap of the innermost run_microtasks, which finds out from thread-local *)
(* cells whose promise to reject.  A job may call run_microtasks again (an *)
(* await that busy-waits, a stream that pumps), and the inner run uses the *)
(* same cells.                                                             *)
(***************************************************************************)
EXTENDS Naturals, Sequences, FiniteSets, SequencesExt

CONSTANTS Kinds,      \* what the program queues: a subset of AllKinds
          Esm,        \* the entry module is ESM
          MaxTasks,   \* bound: tasks the program queues
          MaxDepth,   \* bound: nested runs
          MaxThrows,  \* bound: jobs that throw
          None        \* a null pointer

AllKinds == {"promise", "pass", "inline", "micro", "step", "tick"}

ASSUME MicrotasksAssumption ==
  /\ Kinds \subseteq AllKinds /\ Esm \in BOOLEAN
  /\ {MaxTasks, MaxDepth, MaxThrows} \subseteq Nat /\ None \notin Nat \cup AllKinds

Ids == 1 .. MaxTasks

\* The tasks that settle a chained promise; task i's is named i as well.
HasNext == {"promise", "pass", "inline", "step"}

VARIABLES kind,      \* task -> its kind, None while not queued yet
          creator,   \* task -> the job that queued it
          queue,     \* TASK_QUEUE
          ticks,     \* QUEUED_MICROTASKS
          stack,     \* the runs in progress, the innermost last
          cells,     \* CURRENT_MICROTASK_{PROMISE,CALLBACK,NEXT}
          trap,      \* INLINE_TRAP
          esm,       \* ESM_EVAL_CHECKPOINT_PENDING
          settled,   \* chained promise -> how, and by which job's outcome
          done,      \* history: how each job ended
          uncaught   \* the jobs whose exception was reported as uncaught

vars == <<kind, creator, queue, ticks, stack, cells, trap, esm, settled, done, uncaught>>
queues == <<kind, creator, queue, ticks>>

Task     == Ids \cup {None}
NoCells  == [promise |-> None, callback |-> None, next |-> None]
NoTrap   == [next |-> None, step |-> None]
Cells    == [promise : Task, callback : Task, next : Task]
Trap     == [next : Task, step : Task]

Run == [pc    : {"top", "ticks", "jobs", "last"},
        mode  : {"ticks", "jobs"},  \* may it drain ticks, or PromiseJobsOnly
        inner : BOOLEAN,            \* reentrant
        defer : BOOLEAN,            \* esm_defer_tick_drain
        ran   : BOOLEAN,            \* *ran has moved since the top of the loop
        job   : Task,               \* the callback that is running
        cells : Cells, trap : Trap] \* what the job's arm has saved

TypeOK ==
  /\ kind \in [Ids -> AllKinds \cup {None}] /\ creator \in [Ids -> Task]
  /\ queue \in Seq(Ids) /\ ticks \in Seq(Ids)
  /\ stack \in Seq(Run) /\ Len(stack) <= MaxDepth
  /\ cells \in Cells /\ trap \in Trap /\ esm \in BOOLEAN
  /\ settled \in [Ids -> [how : {"pending", "fulfilled", "rejected"}, by : Task]]
  /\ done \in [Ids -> {"no", "returned", "threw"}]
  /\ uncaught \subseteq Ids

Top       == Last(stack)
SetTop(r) == stack' = Append(Front(stack), r)
At(p)     == stack # <<>> /\ Top.job = None /\ Top.pc = p
Running   == stack # <<>> /\ Top.job # None
Created   == {i \in Ids : kind[i] # None}
Thrown    == {i \in Ids : done[i] = "threw"}
Current   == IF Running THEN Top.job ELSE None  \* the job whose JS runs now

Init ==
  /\ kind = [i \in Ids |-> None] /\ creator = [i \in Ids |-> None]
  /\ queue = <<>> /\ ticks = <<>> /\ stack = <<>>
  /\ cells = NoCells /\ trap = NoTrap /\ esm = Esm
  /\ settled = [i \in Ids |-> [how |-> "pending", by |-> None]]
  /\ done = [i \in Ids |-> "no"] /\ uncaught = {}

\* The program, or the running job, queues a task.
Queue(k) ==
  /\ Created # Ids /\ (stack = <<>> \/ Running)
  /\ LET i == Cardinality(Created) + 1
     IN  /\ kind' = [kind EXCEPT ![i] = k]
         /\ creator' = [creator EXCEPT ![i] = Current]
         /\ ticks' = IF k = "tick" THEN Append(ticks, i) ELSE ticks
         /\ queue' = IF k = "tick" THEN queue ELSE Append(queue, i)
  /\ UNCHANGED <<stack, cells, trap, esm, settled, done, uncaught>>

\* Mutant: only a module's evaluation defers ticks.
DeferEsmOnly(mode, inner, c) == mode = "ticks" /\ esm

\* esm_defer_tick_drain: ticks wait for the jobs in the first checkpoint of an
\* ESM program and in a run entered from inside a promise job.
Defer(mode, inner, c) ==
  mode = "ticks" /\ (esm \/ (inner /\ c.callback # None))

\* Mutant: a run starts only when there are promise jobs.
RunMicrotasksForJobs(mode) ==
  /\ Len(stack) < MaxDepth
  /\ IF stack = <<>> THEN queue # <<>> ELSE Running
  /\ stack' = Append(stack,
       [pc |-> "top", mode |-> mode, inner |-> stack # <<>>,
        defer |-> Defer(mode, stack # <<>>, cells), ran |-> FALSE,
        job |-> None, cells |-> NoCells, trap |-> NoTrap])
  /\ esm' = (esm /\ mode # "ticks")
  /\ UNCHANGED <<queues, cells, trap, settled, done, uncaught>>

\* run_microtasks, from the event loop, from an await of the program
\* (js_promise_run_promise_jobs, mode "jobs") or from inside a job.
RunMicrotasks(mode) ==
  /\ Len(stack) < MaxDepth
  /\ IF stack = <<>> THEN queue # <<>> \/ (mode = "ticks" /\ ticks # <<>>) ELSE Running
  /\ stack' = Append(stack,
       [pc |-> "top", mode |-> mode, inner |-> stack # <<>>,
        defer |-> Defer(mode, stack # <<>>, cells), ran |-> FALSE,
        job |-> None, cells |-> NoCells, trap |-> NoTrap])
  /\ esm' = (esm /\ mode # "ticks")
  /\ UNCHANGED <<queues, cells, trap, settled, done, uncaught>>

\* One pass of the loop: the ticks, then the jobs, then the deferred ticks.
Loop ==
  /\ At("top")
  /\ SetTop([Top EXCEPT !.ran = FALSE,
                        !.pc = IF Top.mode = "ticks" /\ ~Top.defer THEN "ticks" ELSE "jobs"])
  /\ UNCHANGED <<queues, cells, trap, esm, settled, done, uncaught>>

TicksDrained ==
  /\ At("ticks") \/ At("last")
  /\ ticks = <<>>
  /\ SetTop([Top EXCEPT !.pc = IF Top.pc = "ticks" THEN "jobs" ELSE "top"])
  /\ UNCHANGED <<queues, cells, trap, esm, settled, done, uncaught>>

\* Mutant: the run does not look at the queues again.
JobsDrainedOnce ==
  /\ At("jobs") /\ queue = <<>>
  /\ IF Top.defer THEN SetTop([Top EXCEPT !.defer = FALSE, !.pc = "last"])
     ELSE stack' = Front(stack)
  /\ UNCHANGED <<queues, cells, trap, esm, settled, done, uncaught>>

\* The queue is empty: deferred ticks get their first turn, or the loop
\* starts over, or the run ends because nothing ran in this pass.
JobsDrained ==
  /\ At("jobs") /\ queue = <<>>
  /\ IF Top.defer THEN SetTop([Top EXCEPT !.defer = FALSE, !.pc = "last"])
     ELSE IF Top.ran THEN SetTop([Top EXCEPT !.pc = "top"])
     ELSE stack' = Front(stack)
  /\ UNCHANGED <<queues, cells, trap, esm, settled, done, uncaught>>

-----------------------------------------------------------------------------
(* Jobs. *)

Settle(i, how, by) ==
  settled' = IF i # None /\ settled[i].how = "pending"
             THEN [settled EXCEPT ![i] = [how |-> how, by |-> by]] ELSE settled

\* A nextTick callback runs with the cells as they are.
RunTick ==
  /\ At("ticks") \/ At("last")
  /\ ticks # <<>>
  /\ SetTop([Top EXCEPT !.job = Head(ticks), !.ran = TRUE])
  /\ ticks' = Tail(ticks)
  /\ UNCHANGED <<kind, creator, queue, cells, trap, esm, settled, done, uncaught>>

\* A reaction without a callback hands the outcome on, and nulls the cells.
RunPass ==
  /\ At("jobs") /\ queue # <<>> /\ kind[Head(queue)] = "pass"
  /\ Settle(Head(queue), "fulfilled", Head(queue))
  /\ done' = [done EXCEPT ![Head(queue)] = "returned"]
  /\ cells' = [cells EXCEPT !.promise = None, !.next = None]
  /\ SetTop([Top EXCEPT !.ran = TRUE])
  /\ queue' = Tail(queue)
  /\ UNCHANGED <<kind, creator, ticks, trap, esm, uncaught>>

\* What the arm of task i puts into the cells for its callback.
EnterCells(i) ==
  CASE kind[i] = "promise"          -> [promise |-> i, callback |-> i, next |-> i]
    [] kind[i] = "micro"            -> [promise |-> None, callback |-> i, next |-> None]
    [] kind[i] \in {"inline", "step"} -> [cells EXCEPT !.callback = i, !.next = i]

EnterTrap(i) ==
  CASE kind[i] = "inline" -> [next |-> i, step |-> None]
    [] kind[i] = "step"   -> [next |-> i, step |-> i]
    [] OTHER              -> trap

RunJob ==
  /\ At("jobs") /\ queue # <<>> /\ kind[Head(queue)] # "pass"
  /\ LET i == Head(queue)
     IN  /\ SetTop([Top EXCEPT !.job = i, !.ran = TRUE, !.cells = cells, !.trap = trap])
         /\ cells' = EnterCells(i)
         /\ trap' = EnterTrap(i)
  /\ queue' = Tail(queue)
  /\ UNCHANGED <<kind, creator, ticks, esm, settled, done, uncaught>>

Ends(how) == /\ done' = [done EXCEPT ![Top.job] = how]
             /\ SetTop([Top EXCEPT !.job = None, !.cells = NoCells, !.trap = NoTrap])

\* Mutant: the chained promise is read back from the cells.
ReturnPromiseFromCells ==
  /\ Running /\ kind[Top.job] \in {"promise", "micro"}
  /\ Settle(cells.next, "fulfilled", Top.job)
  /\ cells' = NoCells
  /\ Ends("returned")
  /\ UNCHANGED <<queues, trap, esm, uncaught>>

\* The Promise arm settles the `next` it holds a handle on and restores the
\* cells it saved; so does the Microtask arm, which has no next.
ReturnPromise ==
  /\ Running /\ kind[Top.job] \in {"promise", "micro"}
  /\ Settle(IF kind[Top.job] = "promise" THEN Top.job ELSE None, "fulfilled", Top.job)
  /\ cells' = Top.cells
  /\ Ends("returned")
  /\ UNCHANGED <<queues, trap, esm, uncaught>>

\* The Inline arm restores the trap, and settles the `next` it finds in the cell.
ReturnInline ==
  /\ Running /\ kind[Top.job] = "inline"
  /\ Settle(cells.next, "fulfilled", Top.job)
  /\ cells' = [cells EXCEPT !.callback = None, !.next = None]
  /\ trap' = Top.trap
  /\ Ends("returned")
  /\ UNCHANGED <<queues, esm, uncaught>>

\* The last step of an async function ends in js_async_step_done, which
\* settles the trap's promise when the trap names this step; otherwise the
\* arm, like the Inline arm, settles what the cell holds.
StepTarget == IF trap.next # None /\ trap.step = Top.job THEN trap.next ELSE cells.next

ReturnStep ==
  /\ Running /\ kind[Top.job] = "step"
  /\ Settle(StepTarget, "fulfilled", Top.job)
  /\ cells' = [cells EXCEPT !.callback = None, !.next = None]
  /\ trap' = Top.trap
  /\ Ends("returned")
  /\ UNCHANGED <<queues, esm, uncaught>>

ReturnTick ==
  /\ Running /\ kind[Top.job] = "tick"
  /\ Ends("returned")
  /\ UNCHANGED <<queues, cells, trap, esm, settled, uncaught>>

\* The promise the trap of the innermost run rejects.
Victim == IF cells.promise # None THEN cells.promise ELSE trap.next

\* Mutant: the exception is reported although a promise takes it.
ThrowReportsVictim ==
  /\ Running /\ Cardinality(Thrown) < MaxThrows
  /\ Settle(Victim, "rejected", Top.job)
  /\ uncaught' = IF Victim = None THEN uncaught \cup {Victim} ELSE uncaught
  /\ cells' = NoCells /\ trap' = NoTrap
  /\ done' = [done EXCEPT ![Top.job] = "threw"]
  /\ SetTop([Top EXCEPT !.pc = "top", !.job = None, !.cells = NoCells, !.trap = NoTrap])
  /\ UNCHANGED <<queues, esm>>

\* The job throws: the run's trap clears every cell, rejects the victim or
\* reports the exception, and starts its loop again.
Throw ==
  /\ Running /\ Cardinality(Thrown) < MaxThrows
  /\ Settle(Victim, "rejected", Top.job)
  /\ uncaught' = IF Victim = None THEN uncaught \cup {Top.job} ELSE uncaught
  /\ cells' = NoCells /\ trap' = NoTrap
  /\ done' = [done EXCEPT ![Top.job] = "threw"]
  /\ SetTop([Top EXCEPT !.pc = "top", !.job = None, !.cells = NoCells, !.trap = NoTrap,
                        !.defer = Defer(Top.mode, Top.inner, NoCells)])
  /\ esm' = (esm /\ Top.mode # "ticks")
  /\ UNCHANGED queues

Returns == ReturnPromise \/ ReturnInline \/ ReturnStep \/ ReturnTick
Runner  == Loop \/ TicksDrained \/ JobsDrained \/ RunTick \/ RunPass \/ RunJob \/ Returns

Next == \/ \E k \in Kinds : Queue(k)
        \/ \E mode \in {"ticks", "jobs"} : RunMicrotasks(mode)
        \/ Runner \/ Throw

\* The event loop runs the runner while something is queued.  Jobs end: one may
\* pump the queues again and again, but not for ever.
Fairness == /\ WF_vars(Runner) /\ WF_vars(stack = <<>> /\ RunMicrotasks("ticks"))
            /\ SF_vars(Returns)

Spec == Init /\ [][Next]_vars /\ Fairness

-----------------------------------------------------------------------------
(* Properties. *)

\* How job i's own end settles its chained promise.
Own(i) == CASE done[i] = "no"       -> [how |-> "pending", by |-> None]
            [] done[i] = "returned" -> [how |-> "fulfilled", by |-> i]
            [] done[i] = "threw"    -> [how |-> "rejected", by |-> i]

\* A chained promise is settled by the job it belongs to, when that job ends
\* and the way it ended, and an exception is reported as uncaught exactly when
\* its job has no chained promise, however runs nest.
ChainFollowsJob ==
  \A i \in Created :
    IF kind[i] \in HasNext THEN settled[i] = Own(i) /\ i \notin uncaught
    ELSE i \in uncaught <=> done[i] = "threw"

OnStack == {stack[n].job : n \in DOMAIN stack} \ {None}

\* A tick queued by a promise job that is still running does not overtake the
\* jobs the same job has queued.
TicksWait ==
  [][RunTick =>
       LET j == creator[Head(ticks)] IN
       j \in OnStack /\ kind[j] # "tick" =>
         \A m \in Range(queue) : creator[m] # j]_vars

\* A run that may drain ticks returns with both queues empty: the wakeups that
\* are skipped for tasks queued during a run are not needed.
DrainsDry ==
  [][\A n \in DOMAIN stack :
       Len(stack') < n /\ stack[n].mode = "ticks" => queue = <<>> /\ ticks = <<>>]_vars

\* Every queued task runs.
AllRun == \A i \in Ids : (kind[i] # None) ~> (done[i] # "no")
=============================================================================
