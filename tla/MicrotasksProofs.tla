-------------------------- MODULE MicrotasksProofs --------------------------
(***************************************************************************)
(* Theorems about Microtasks.tla, for any number of tasks, nested runs and *)
(* throws.  A run drains the queues whatever its jobs do.  That a chained  *)
(* promise follows its own job, and that a tick waits for the jobs of its  *)
(* creator, hangs on thread-local cells that nested runs share, so those   *)
(* two are proved for the behaviours in which no step damages a cell that  *)
(* an outer job still needs; Orderly and Gentle name the steps that do.    *)
(*                                                                         *)
(* Then theorems about Rejections.tla.  What the tracker tells the program *)
(* is right whatever listeners throw.  That nothing is left untold at the  *)
(* end needs that the guard comes down again (Contained).                  *)
(***************************************************************************)
EXTENDS Microtasks, Rejections, FiniteSetTheorems, SequenceTheorems, TLAPS

\* Run n is in a job of one of these kinds.
Runs(n, ks) == stack[n].job # None /\ kind[stack[n].job] \in ks

\* A job may still throw.
Risk == Cardinality(Thrown) < MaxThrows

\* The tasks of a queue are not over, and in the order they were queued.
Listed(q) ==
  /\ \A n \in 1 .. Len(q) : q[n] \in Created /\ done[q[n]] = "no"
  /\ \A m, n \in 1 .. Len(q) : m < n => q[m] < q[n]

\* Where a task is: queued, in one of the queues and once, or running in one of
\* the runs, or over.
PlaceInv ==
  /\ \E k \in 0 .. MaxTasks : Created = 1 .. k
  /\ \A i \in Ids \ Created :
       done[i] = "no" /\ i \notin uncaught
  /\ Listed(queue) /\ Listed(ticks)
  /\ \A n \in 1 .. Len(queue) : kind[queue[n]] # "tick"
  /\ \A n \in 1 .. Len(ticks) : kind[ticks[n]] = "tick"

\* Every run but the innermost is in a job, and no job runs twice.
StackInv ==
  /\ \A n \in 1 .. Len(stack) :
       IF stack[n].job = None THEN n = Len(stack)
       ELSE /\ stack[n].job \in Created /\ done[stack[n].job] = "no"
            /\ kind[stack[n].job] # "pass"
            /\ \A m \in 1 .. Len(queue) : queue[m] # stack[n].job
            /\ \A m \in 1 .. Len(ticks) : ticks[m] # stack[n].job
            /\ \A m \in 1 .. Len(stack) : stack[m].job = stack[n].job => m = n

\* No run above n, up to m, is in a job of one of these kinds.
Free(ks, n, m) == \A k \in n + 1 .. m : ~Runs(k, ks)

\* The cells c are what the job of run n needs to end with; n = 0 stands for
\* the program outside all runs.
Intact(n, c) ==
  /\ Risk => /\ n = 0 => c.promise = None
             /\ n # 0 /\ Runs(n, {"promise"}) => c.promise = stack[n].job
             /\ n # 0 /\ Runs(n, {"micro"}) => c.promise = None
  /\ n # 0 /\ Runs(n, {"inline"}) => c.next = stack[n].job

\* The cells, or the copy that the next Promise or Microtask arm has saved, are
\* intact; no inline job waits for a run that is in an inline job or a step.
CellInv ==
  \A n \in 0 .. Len(stack) :
    /\ Free({"promise", "micro"}, n, Len(stack)) => Intact(n, cells)
    /\ \A m \in n + 1 .. Len(stack) :
         /\ Runs(m, {"promise", "micro"}) /\ Free({"promise", "micro"}, n, m - 1)
              => Intact(n, stack[m].cells)
         /\ n # 0 /\ Runs(n, {"inline"}) => ~Runs(m, {"inline", "step"})

\* The trap t is the one that run n's job has set.
TrapOf(n, t) ==
  /\ n = 0 => t = NoTrap
  /\ n # 0 /\ Runs(n, {"inline"}) => t = [next |-> stack[n].job, step |-> None]
  /\ n # 0 /\ Runs(n, {"step"})   => t = [next |-> stack[n].job, step |-> stack[n].job]

\* The trap, or the copy the next inline job or step has saved, is that of the
\* innermost job that sets one.
TrapInv ==
  \A n \in 0 .. Len(stack) :
    /\ Free({"inline", "step"}, n, Len(stack)) => TrapOf(n, trap)
    /\ \A m \in n + 1 .. Len(stack) :
         Runs(m, {"inline", "step"}) /\ Free({"inline", "step"}, n, m - 1)
           => TrapOf(n, stack[m].trap)

\* A run that passes its ticks over has drained them, or defers them.
DrainInv ==
  \A n \in 1 .. Len(stack) :
    /\ stack[n].job # None => stack[n].ran
    /\ stack[n].pc = "jobs" /\ stack[n].mode = "ticks" /\ ~stack[n].defer /\ ~stack[n].ran
         => ticks = <<>>

\* ChainFollowsJob; a promise whose task is not queued yet is pending.
ChainInv ==
  /\ ChainFollowsJob
  /\ \A i \in Ids \ Created : settled[i] = [how |-> "pending", by |-> None]

\* What the code does not get right, and the first theorem leaves out: a job
\* throws in a nested run, which clears the cells of the jobs around it (the
\* last throw of all is harmless where no inline job or step waits); a reaction
\* without a callback runs inside a job whose cells it nulls; an inline job or a
\* step runs inside an inline job.
Orderly ==
  /\ Throw /\ Len(stack) > 1 =>
       /\ Cardinality(Thrown) + 1 = MaxThrows
       /\ Runs(Len(stack), {"promise", "micro"})
       /\ \A n \in 1 .. Len(stack) : ~Runs(n, {"inline", "step"})
  /\ RunPass =>
       \A n \in 1 .. Len(stack) :
         ~Runs(n, {"inline"}) /\ (Risk => ~Runs(n, {"promise"}))
  /\ RunJob /\ kind[Head(queue)] \in {"inline", "step"} =>
       \A n \in 1 .. Len(stack) : ~Runs(n, {"inline"})

\* The jobs that are not ticks and have a callback.
Callbacks == {"promise", "micro", "inline", "step"}

\* Inside a job that is not a tick the callback cell is set, so that a run
\* entered from there defers its ticks.
CallbackInv ==
  \A n \in 1 .. Len(stack) : Runs(n, Callbacks) =>
    /\ cells.callback # None
    /\ \A m \in n + 1 .. Len(stack) :
         Runs(m, {"promise", "micro"}) => stack[m].cells.callback # None

\* A run drains ticks only when no job of an outer job is queued any more.
TickInv ==
  \A m \in 1 .. Len(stack) :
    /\ stack[m].defer => stack[m].mode = "ticks"
    /\ stack[m].pc \in {"ticks", "last"} => stack[m].mode = "ticks" /\ ~stack[m].defer
    /\ stack[m].mode = "ticks" /\ ~stack[m].defer =>
         \A n \in 1 .. m - 1 : Runs(n, Callbacks) =>
           \A k \in 1 .. Len(queue) : creator[queue[k]] # stack[n].job

\* Bounds of the claim that a tick waits for its creator's jobs: a throw, and
\* the end of an inline job or of an async step, null the callback cell.
Gentle ==
  Throw \/ ReturnInline \/ ReturnStep =>
    \A n \in 1 .. Len(stack) - 1 : Runs(n, {"tick"})

-----------------------------------------------------------------------------
(* The stack of runs and the queues as sequences. *)

\* The innermost run is the last of the stack.
LEMMA TopLemma ==
  ASSUME TypeOK, stack # <<>>
  PROVE  /\ Len(stack) \in Nat /\ Len(stack) >= 1 /\ Len(stack) \in 1 .. Len(stack)
         /\ Top = stack[Len(stack)] /\ Top \in Run
  <1>1. stack \in Seq(Run)  BY DEF TypeOK
  <1>2. Len(stack) \in Nat /\ Len(stack) # 0  BY <1>1
  <1> QED  BY <1>1, <1>2 DEF Top, Last

\* The runs below it.
LEMMA FrontLemma ==
  ASSUME TypeOK, stack # <<>>
  PROVE  /\ Front(stack) \in Seq(Run) /\ Len(Front(stack)) = Len(stack) - 1
         /\ \A n \in 1 .. Len(stack) - 1 : Front(stack)[n] = stack[n]
  <1> DEFINE l == Len(stack) - 1
             f == SubSeq(stack, 1, l)
  <1>1. stack \in Seq(Run)  BY DEF TypeOK
  <1>2. /\ l \in Nat /\ l \in Int /\ 1 \in Int
        /\ \A i \in 1 .. l : stack[i] \in Run
    BY <1>1, TopLemma
  <1> HIDE DEF l
  <1>3. /\ f \in Seq(Run) /\ Len(f) = IF 1 <= l THEN l - 1 + 1 ELSE 0
        /\ \A n \in 1 .. l - 1 + 1 : f[n] = stack[1 + n - 1]
    BY <1>2, SubSeqProperties
  <1>4. Len(f) = l /\ \A n \in 1 .. l : f[n] = stack[n]
    BY <1>2, <1>3
  <1> QED  BY <1>3, <1>4 DEF Front, l

\* SetTop changes the innermost run only.
LEMMA SetTopLemma ==
  ASSUME TypeOK, stack # <<>>, NEW r \in Run, SetTop(r)
  PROVE  /\ stack' \in Seq(Run) /\ Len(stack') = Len(stack)
         /\ stack'[Len(stack)] = r
         /\ \A n \in 1 .. Len(stack) - 1 : stack'[n] = stack[n]
  <1>1. stack \in Seq(Run)  BY DEF TypeOK
  <1>2. Len(stack) \in Nat /\ Len(stack) >= 1  BY TopLemma
  <1>3. /\ Front(stack) \in Seq(Run) /\ Len(Front(stack)) = Len(stack) - 1
        /\ \A n \in 1 .. Len(stack) - 1 : Front(stack)[n] = stack[n]
    BY FrontLemma
  <1>4. stack' = Append(Front(stack), r)  BY DEF SetTop
  <1> HIDE DEF Front
  <1> QED  BY <1>2, <1>3, <1>4, AppendProperties

\* A run that ends leaves the runs below it as they are.
LEMMA PopLemma ==
  ASSUME TypeOK, stack # <<>>, stack' = Front(stack)
  PROVE  /\ stack' \in Seq(Run) /\ Len(stack') = Len(stack) - 1
         /\ \A n \in 1 .. Len(stack) - 1 : stack'[n] = stack[n]
  BY FrontLemma

\* So does one that starts.
LEMMA PushLemma ==
  ASSUME TypeOK, NEW r \in Run, stack' = Append(stack, r)
  PROVE  /\ stack' \in Seq(Run) /\ Len(stack') = Len(stack) + 1
         /\ stack'[Len(stack) + 1] = r
         /\ \A n \in 1 .. Len(stack) : stack'[n] = stack[n]
  BY AppendProperties DEF TypeOK

\* pop_front of a queue.
LEMMA TailLemma ==
  ASSUME NEW q \in Seq(Ids), q # <<>>
  PROVE  /\ Len(q) \in Nat /\ Len(q) >= 1 /\ Head(q) = q[1] /\ q[1] \in Ids
         /\ Tail(q) \in Seq(Ids) /\ Len(Tail(q)) = Len(q) - 1
         /\ \A n \in 1 .. Len(q) - 1 : Tail(q)[n] = q[n + 1]
  <1>1. Len(q) \in Nat /\ Len(q) # 0  OBVIOUS
  <1> QED  BY <1>1, HeadTailProperties

\* push_back of a queue.
LEMMA AppendLemma ==
  ASSUME NEW q \in Seq(Ids), NEW i \in Ids
  PROVE  /\ Append(q, i) \in Seq(Ids) /\ Len(Append(q, i)) = Len(q) + 1 /\ Len(q) \in Nat
         /\ Append(q, i)[Len(q) + 1] = i
         /\ \A n \in 1 .. Len(q) : Append(q, i)[n] = q[n]
  BY AppendProperties

\* The next task's number, as Queue computes it.
LEMMA NextTask ==
  ASSUME TypeOK, PlaceInv, Created # Ids
  PROVE  \E k \in 0 .. MaxTasks - 1 :
           Created = 1 .. k /\ Cardinality(Created) + 1 = k + 1 /\ k + 1 \in Ids \ Created
  <1>1. PICK k \in 0 .. MaxTasks : Created = 1 .. k  BY DEF PlaceInv
  <1>2. k # MaxTasks  BY <1>1 DEF Ids
  <1>3. Cardinality(1 .. k) = k  BY FS_Interval, MicrotasksAssumption
  <1> QED  BY <1>1, <1>2, <1>3, MicrotasksAssumption DEF Ids

\* The head of a queue is a task that is not over, and is in the queue once.
LEMMA HeadLemma ==
  ASSUME TypeOK, PlaceInv, NEW q \in {queue, ticks}, q # <<>>
  PROVE  /\ Head(q) \in Created /\ done[Head(q)] = "no"
         /\ \A n \in 1 .. Len(q) - 1 : Tail(q)[n] # Head(q)
  <1>1. q \in Seq(Ids)  BY DEF TypeOK
  <1>2. /\ \A n \in 1 .. Len(q) : q[n] \in Created /\ done[q[n]] = "no"
        /\ \A m, n \in 1 .. Len(q) : m < n => q[m] < q[n]
    BY DEF PlaceInv, Listed
  <1>3. Created \subseteq Ids /\ Ids \subseteq Nat  BY DEF Created, Ids
  <1>4. /\ Len(q) \in Nat /\ Len(q) >= 1 /\ Head(q) = q[1]
        /\ \A n \in 1 .. Len(q) - 1 : Tail(q)[n] = q[n + 1]
    BY <1>1, TailLemma
  <1>5. ASSUME NEW n \in 1 .. Len(q) - 1  PROVE Tail(q)[n] # Head(q)
    <2>1. n + 1 \in 1 .. Len(q) /\ 1 \in 1 .. Len(q) /\ 1 < n + 1  BY <1>4
    <2>2. q[1] < q[n + 1] /\ q[1] \in Nat  BY <2>1, <1>2, <1>3
    <2> QED  BY <2>2, <1>4
  <1> QED  BY <1>2, <1>4, <1>5

\* The running job is a queued task that is not over.
LEMMA RunningLemma ==
  ASSUME TypeOK, StackInv, Running
  PROVE  /\ stack # <<>> /\ Top.job \in Created /\ Top.job \in Ids
         /\ done[Top.job] = "no" /\ kind[Top.job] \in AllKinds \ {"pass"}
  <1>1. stack # <<>> /\ Top.job # None  BY DEF Running
  <1>2. Top.job \in Created /\ done[Top.job] = "no" /\ kind[Top.job] # "pass"
    BY <1>1, TopLemma DEF StackInv
  <1>3. Top.job \in Ids  BY <1>2 DEF Created
  <1> QED  BY <1>1, <1>2, <1>3 DEF TypeOK, Created

-----------------------------------------------------------------------------
(* Types. *)

\* Every action keeps the types.
LEMMA TypeStep ==
  ASSUME TypeOK, PlaceInv, StackInv, [Next]_vars
  PROVE  TypeOK'
  <1> USE MicrotasksAssumption
  <1>0. /\ "ticks" \in {"ticks", "jobs"} /\ None \notin Ids /\ None \in Task
        /\ NoCells \in Cells /\ NoTrap \in Trap
    BY DEF Ids, Task, NoCells, NoTrap, Cells, Trap
  <1>1. ASSUME NEW k \in Kinds, Queue(k)  PROVE TypeOK'
    <2> DEFINE i == Cardinality(Created) + 1
    <2>1. i \in Ids  BY <1>1, NextTask DEF Queue
    <2>2. Current \in Task
      BY TopLemma, <1>0 DEF Current, Running, Run
    <2> HIDE DEF i
    <2>3. /\ kind' = [kind EXCEPT ![i] = k] /\ creator' = [creator EXCEPT ![i] = Current]
          /\ ticks' \in {ticks, Append(ticks, i)} /\ queue' \in {queue, Append(queue, i)}
      BY <1>1 DEF Queue, i
    <2>4. ticks' \in Seq(Ids) /\ queue' \in Seq(Ids)
      <3>1. queue \in Seq(Ids) /\ ticks \in Seq(Ids)  BY DEF TypeOK
      <3>2. Append(queue, i) \in Seq(Ids) /\ Append(ticks, i) \in Seq(Ids)
        BY <3>1, <2>1, AppendLemma
      <3> QED  BY <3>1, <3>2, <2>3
    <2>5. kind' \in [Ids -> AllKinds \cup {None}] /\ creator' \in [Ids -> Task]
      BY <2>1, <2>2, <2>3 DEF TypeOK
    <2> QED  BY <1>1, <2>4, <2>5 DEF TypeOK, Queue
  <1>2. ASSUME NEW mode \in {"ticks", "jobs"}, RunMicrotasks(mode)  PROVE TypeOK'
    <2>1. Defer(mode, stack # <<>>, cells) \in BOOLEAN
      BY DEF Defer, TypeOK
    <2> DEFINE r == [pc |-> "top", mode |-> mode, inner |-> stack # <<>>,
                     defer |-> Defer(mode, stack # <<>>, cells), ran |-> FALSE,
                     job |-> None, cells |-> NoCells, trap |-> NoTrap]
    <2>2. r \in Run
      BY <1>0, <2>1 DEF Run
    <2>3. stack' = Append(stack, r)
      BY <1>2 DEF RunMicrotasks
    <2> HIDE DEF r
    <2>4. stack' \in Seq(Run) /\ Len(stack') = Len(stack) + 1
      BY <2>2, <2>3, PushLemma
    <2>5. Len(stack') <= MaxDepth
      BY <1>2, <2>4 DEF RunMicrotasks, TypeOK
    <2> QED  BY <1>2, <2>4, <2>5 DEF TypeOK, RunMicrotasks, queues
  <1>3. CASE Loop
    <2> DEFINE r == [Top EXCEPT !.ran = FALSE,
                       !.pc = IF Top.mode = "ticks" /\ ~Top.defer THEN "ticks" ELSE "jobs"]
    <2>1. stack # <<>> /\ SetTop(r)  BY <1>3 DEF Loop, At
    <2>2. r \in Run  BY <2>1, TopLemma DEF Run
    <2> HIDE DEF r
    <2> QED  BY <1>3, <2>1, <2>2, SetTopLemma DEF TypeOK, Loop, queues
  <1>4. CASE TicksDrained
    <2> DEFINE r == [Top EXCEPT !.pc = IF Top.pc = "ticks" THEN "jobs" ELSE "top"]
    <2>1. stack # <<>> /\ SetTop(r)  BY <1>4 DEF TicksDrained, At
    <2>2. r \in Run  BY <2>1, TopLemma DEF Run
    <2> HIDE DEF r
    <2> QED  BY <1>4, <2>1, <2>2, SetTopLemma DEF TypeOK, TicksDrained, queues
  <1>5. CASE JobsDrained
    <2> DEFINE r == [Top EXCEPT !.defer = FALSE, !.pc = "last"]
               u == [Top EXCEPT !.pc = "top"]
    <2>1. stack # <<>> /\ (SetTop(r) \/ SetTop(u) \/ stack' = Front(stack))
      BY <1>5 DEF JobsDrained, At
    <2>2. r \in Run /\ u \in Run  BY <2>1, TopLemma DEF Run
    <2> HIDE DEF r, u
    <2>3. stack' \in Seq(Run) /\ Len(stack') <= MaxDepth
      BY <2>1, <2>2, TopLemma, SetTopLemma, PopLemma DEF TypeOK
    <2> QED  BY <1>5, <2>3 DEF TypeOK, JobsDrained, queues
  <1>6. CASE RunTick
    <2> DEFINE r == [Top EXCEPT !.job = Head(ticks), !.ran = TRUE]
    <2>1. stack # <<>> /\ ticks # <<>> /\ SetTop(r) /\ ticks' = Tail(ticks)
      BY <1>6 DEF RunTick, At
    <2>2. Head(ticks) \in Ids /\ Tail(ticks) \in Seq(Ids)
      BY <2>1, TailLemma DEF TypeOK
    <2>3. r \in Run  BY <2>1, <2>2, TopLemma DEF Run, Task
    <2> HIDE DEF r
    <2> QED  BY <1>6, <2>1, <2>2, <2>3, SetTopLemma DEF TypeOK, RunTick
  <1>7. CASE RunPass
    <2> DEFINE r == [Top EXCEPT !.ran = TRUE]
    <2>1. stack # <<>> /\ queue # <<>> /\ SetTop(r) /\ queue' = Tail(queue)
      BY <1>7 DEF RunPass, At
    <2>2. Head(queue) \in Ids /\ Tail(queue) \in Seq(Ids)
      BY <2>1, TailLemma DEF TypeOK
    <2>3. r \in Run  BY <2>1, <2>2, TopLemma DEF Run
    <2>4. stack' \in Seq(Run) /\ Len(stack') = Len(stack)
      <3> HIDE DEF r
      <3> QED  BY <2>1, <2>3, SetTopLemma
    <2>5. settled' \in [Ids -> [how : {"pending", "fulfilled", "rejected"}, by : Task]]
      BY <1>7, <2>2 DEF RunPass, Settle, TypeOK, Task
    <2>6. cells' \in Cells
      BY <1>7, <1>0 DEF RunPass, TypeOK, Cells
    <2>7. done' \in [Ids -> {"no", "returned", "threw"}]
      BY <1>7, <2>2 DEF RunPass, TypeOK
    <2> QED  BY <1>7, <2>1, <2>2, <2>4, <2>5, <2>6, <2>7 DEF TypeOK, RunPass
  <1>8. CASE RunJob
    <2> DEFINE i == Head(queue)
               r == [Top EXCEPT !.job = i, !.ran = TRUE, !.cells = cells, !.trap = trap]
    <2>1. /\ stack # <<>> /\ queue # <<>> /\ SetTop(r) /\ queue' = Tail(queue)
          /\ cells' = EnterCells(i) /\ trap' = EnterTrap(i)
      BY <1>8 DEF RunJob, At
    <2>2. i \in Ids /\ Tail(queue) \in Seq(Ids) /\ i \in Task
      BY <2>1, TailLemma DEF TypeOK, Task
    <2>3. kind[i] \in {"promise", "micro", "inline", "step"}
      <3>1. i \in Created /\ i = queue[1] /\ 1 \in 1 .. Len(queue)
        BY <2>1, HeadLemma, TailLemma DEF TypeOK
      <3>2. kind[i] # "tick" /\ kind[i] # "pass"
        BY <1>8, <3>1 DEF PlaceInv, RunJob
      <3> QED  BY <3>1, <3>2 DEF TypeOK, Created, AllKinds
    <2> HIDE DEF i
    <2>4. r \in Run  BY <2>1, <2>2, TopLemma DEF Run, TypeOK
    <2>5. stack' \in Seq(Run) /\ Len(stack') = Len(stack)
      <3> HIDE DEF r
      <3> QED  BY <2>1, <2>4, SetTopLemma
    <2>6. cells' \in Cells
      BY <1>0, <2>1, <2>2, <2>3 DEF EnterCells, Cells, TypeOK
    <2>7. trap' \in Trap
      BY <1>0, <2>1, <2>2, <2>3 DEF EnterTrap, Trap, TypeOK
    <2> QED  BY <1>8, <2>1, <2>2, <2>5, <2>6, <2>7 DEF TypeOK, RunJob
  <1> DEFINE e == [Top EXCEPT !.job = None, !.cells = NoCells, !.trap = NoTrap]
  <1>9. ASSUME Running, NEW how \in {"returned", "threw"}, Ends(how)
        PROVE  /\ stack' \in Seq(Run) /\ Len(stack') = Len(stack)
               /\ done' \in [Ids -> {"no", "returned", "threw"}]
    <2>1. SetTop(e) /\ stack # <<>>  BY <1>9 DEF Ends, Running
    <2>2. e \in Run  BY <1>0, <2>1, TopLemma DEF Run
    <2>3. done' \in [Ids -> {"no", "returned", "threw"}]
      BY <1>9, RunningLemma DEF Ends, TypeOK
    <2> HIDE DEF e
    <2> QED  BY <2>1, <2>2, <2>3, SetTopLemma
  <1>10. ASSUME Running, NEW x \in Task, NEW how \in {"fulfilled", "rejected"}, Settle(x, how, Top.job)
         PROVE  settled' \in [Ids -> [how : {"pending", "fulfilled", "rejected"}, by : Task]]
    BY <1>10, RunningLemma DEF Settle, TypeOK, Task
  <1>11. CASE ReturnPromise
    <2>1. /\ Running /\ Ends("returned") /\ cells' = Top.cells
          /\ Settle(IF kind[Top.job] = "promise" THEN Top.job ELSE None, "fulfilled", Top.job)
      BY <1>11 DEF ReturnPromise
    <2>2. Top \in Run  BY <2>1, RunningLemma, TopLemma
    <2>3. settled' \in [Ids -> [how : {"pending", "fulfilled", "rejected"}, by : Task]]
      BY <2>1, <2>2, <1>0, <1>10 DEF Run
    <2> QED  BY <1>11, <2>1, <2>2, <2>3, <1>9 DEF TypeOK, Run, ReturnPromise, queues
  <1>12. CASE ReturnInline
    <2>1. /\ Running /\ Ends("returned") /\ Settle(cells.next, "fulfilled", Top.job)
          /\ cells' = [cells EXCEPT !.callback = None, !.next = None] /\ trap' = Top.trap
      BY <1>12 DEF ReturnInline
    <2>2. Top \in Run  BY <2>1, RunningLemma, TopLemma
    <2>3. settled' \in [Ids -> [how : {"pending", "fulfilled", "rejected"}, by : Task]]
      BY <2>1, <1>10 DEF TypeOK, Cells
    <2>4. cells' \in Cells  BY <2>1, <1>0 DEF Cells, TypeOK
    <2> QED  BY <1>12, <2>1, <2>2, <2>3, <2>4, <1>9 DEF TypeOK, Run, ReturnInline, queues
  <1>13. CASE ReturnStep
    <2>1. /\ Running /\ Ends("returned") /\ Settle(StepTarget, "fulfilled", Top.job)
          /\ cells' = [cells EXCEPT !.callback = None, !.next = None] /\ trap' = Top.trap
      BY <1>13 DEF ReturnStep
    <2>2. Top \in Run  BY <2>1, RunningLemma, TopLemma
    <2>3. settled' \in [Ids -> [how : {"pending", "fulfilled", "rejected"}, by : Task]]
      BY <2>1, <1>10 DEF TypeOK, Cells, StepTarget, Trap
    <2>4. cells' \in Cells  BY <2>1, <1>0 DEF Cells, TypeOK
    <2> QED  BY <1>13, <2>1, <2>2, <2>3, <2>4, <1>9 DEF TypeOK, Run, ReturnStep, queues
  <1>14. CASE ReturnTick
    <2> QED  BY <1>14, <1>9 DEF TypeOK, ReturnTick, queues
  <1>15. CASE Throw
    <2> DEFINE r == [Top EXCEPT !.pc = "top", !.job = None, !.cells = NoCells, !.trap = NoTrap,
                                !.defer = Defer(Top.mode, Top.inner, NoCells)]
    <2>1. /\ Running /\ SetTop(r) /\ Settle(Victim, "rejected", Top.job)
          /\ done' = [done EXCEPT ![Top.job] = "threw"]
      BY <1>15 DEF Throw
    <2>2. Top \in Run /\ Top.job \in Ids  BY <2>1, RunningLemma, TopLemma
    <2>3. Defer(Top.mode, Top.inner, NoCells) \in BOOLEAN
      BY <2>2 DEF Defer, Run, TypeOK
    <2>4. r \in Run  BY <1>0, <2>2, <2>3 DEF Run
    <2>5. stack' \in Seq(Run) /\ Len(stack') = Len(stack)
      <3> HIDE DEF r
      <3> QED  BY <2>1, <2>4, SetTopLemma, RunningLemma
    <2>6. settled' \in [Ids -> [how : {"pending", "fulfilled", "rejected"}, by : Task]]
      BY <2>1, <1>10 DEF Victim, TypeOK, Cells, Trap
    <2>7. done' \in [Ids -> {"no", "returned", "threw"}] /\ uncaught' \subseteq Ids
      BY <1>15, <2>1, <2>2 DEF Throw, TypeOK
    <2> QED  BY <1>15, <1>0, <2>5, <2>6, <2>7 DEF TypeOK, Throw, queues
  <1>16. CASE UNCHANGED vars
    BY <1>16 DEF vars, TypeOK
  <1> QED  BY <1>1, <1>2, <1>3, <1>4, <1>5, <1>6, <1>7, <1>8, <1>11, <1>12, <1>13, <1>14, <1>15, <1>16
              DEF Next, Runner, Returns

-----------------------------------------------------------------------------
(* What the actions do to the stack. *)

\* The step is at the innermost run.
SameBelow == Len(stack') = Len(stack) /\ \A n \in 1 .. Len(stack) - 1 : stack'[n] = stack[n]

tasks == <<kind, settled, done, uncaught, creator>>

\* The runner goes on to its next queue, or to its next pass.
LEMMA ShiftFacts ==
  ASSUME TypeOK, Loop \/ TicksDrained \/ (JobsDrained /\ (Top.defer \/ Top.ran))
  PROVE  /\ stack # <<>> /\ SameBelow /\ Top.job = None /\ stack'[Len(stack)].job = None
         /\ UNCHANGED <<tasks, queue, ticks, cells, trap>>
  <1> DEFINE a == [Top EXCEPT !.ran = FALSE,
                     !.pc = IF Top.mode = "ticks" /\ ~Top.defer THEN "ticks" ELSE "jobs"]
             b == [Top EXCEPT !.pc = IF Top.pc = "ticks" THEN "jobs" ELSE "top"]
             c == [Top EXCEPT !.defer = FALSE, !.pc = "last"]
             d == [Top EXCEPT !.pc = "top"]
  <1>1. /\ stack # <<>> /\ Top.job = None
        /\ UNCHANGED <<tasks, queue, ticks, cells, trap>>
    BY DEF Loop, TicksDrained, JobsDrained, At, tasks, queues
  <1>2. SetTop(a) \/ SetTop(b) \/ SetTop(c) \/ SetTop(d)
    BY DEF Loop, TicksDrained, JobsDrained
  <1>3. /\ a \in Run /\ a.job = None /\ b \in Run /\ b.job = None
        /\ c \in Run /\ c.job = None /\ d \in Run /\ d.job = None
    BY <1>1, TopLemma DEF Run
  <1> HIDE DEF a, b, c, d
  <1> QED  BY <1>1, <1>2, <1>3, SetTopLemma DEF SameBelow

\* A run ends.
LEMMA PopFacts ==
  ASSUME TypeOK, JobsDrained, ~(Top.defer \/ Top.ran)
  PROVE  /\ stack # <<>> /\ Top.job = None /\ queue = <<>> /\ Top.pc = "jobs"
         /\ Len(stack') = Len(stack) - 1
         /\ \A n \in 1 .. Len(stack) - 1 : stack'[n] = stack[n]
         /\ UNCHANGED <<tasks, queue, ticks, cells, trap>>
  <1>1. /\ stack # <<>> /\ Top.job = None /\ queue = <<>> /\ Top.pc = "jobs"
        /\ stack' = Front(stack) /\ UNCHANGED <<tasks, queue, ticks, cells, trap>>
    BY DEF JobsDrained, At, tasks, queues
  <1> QED  BY <1>1, PopLemma

\* A run starts, from the loop or from the innermost job.
LEMMA PushFacts ==
  ASSUME TypeOK, StackInv, NEW mode \in {"ticks", "jobs"}, RunMicrotasks(mode)
  PROVE  /\ Len(stack') = Len(stack) + 1
         /\ \A n \in 1 .. Len(stack) : stack'[n] = stack[n] /\ stack[n].job # None
         /\ LET r == stack'[Len(stack) + 1] IN
              /\ r.job = None /\ r.pc = "top" /\ r.mode = mode
              /\ r.defer = Defer(mode, stack # <<>>, cells) /\ r.inner = (stack # <<>>)
         /\ UNCHANGED <<tasks, queue, ticks, cells, trap>>
  <1> DEFINE r == [pc |-> "top", mode |-> mode, inner |-> stack # <<>>,
                   defer |-> Defer(mode, stack # <<>>, cells), ran |-> FALSE,
                   job |-> None, cells |-> NoCells, trap |-> NoTrap]
  <1>1. r \in Run
    BY DEF Defer, TypeOK, Run, NoCells, NoTrap, Cells, Trap, Task
  <1>2. /\ stack' = Append(stack, r) /\ (stack = <<>> \/ Running)
        /\ UNCHANGED <<tasks, queue, ticks, cells, trap>>
    BY DEF RunMicrotasks, tasks, queues
  <1>3. /\ r.job = None /\ r.pc = "top" /\ r.mode = mode
        /\ r.defer = Defer(mode, stack # <<>>, cells) /\ r.inner = (stack # <<>>)
    OBVIOUS
  <1> HIDE DEF r
  <1>4. /\ Len(stack') = Len(stack) + 1 /\ stack'[Len(stack) + 1] = r
        /\ \A n \in 1 .. Len(stack) : stack'[n] = stack[n]
    BY <1>1, <1>2, PushLemma
  <1>5. ASSUME NEW n \in 1 .. Len(stack)  PROVE stack[n].job # None
    <2>1. stack # <<>>  BY <1>5 DEF TypeOK
    <2> QED  BY <2>1, <1>2, TopLemma DEF StackInv, Running
  <1> QED  BY <1>2, <1>3, <1>4, <1>5

\* A tick starts.
LEMMA RunTickFacts ==
  ASSUME TypeOK, RunTick
  PROVE  /\ stack # <<>> /\ SameBelow /\ Top.job = None /\ ticks # <<>>
         /\ stack'[Len(stack)].job = Head(ticks) /\ ticks' = Tail(ticks)
         /\ UNCHANGED <<tasks, queue, cells, trap>>
  <1> DEFINE r == [Top EXCEPT !.job = Head(ticks), !.ran = TRUE]
  <1>1. /\ stack # <<>> /\ ticks # <<>> /\ SetTop(r) /\ ticks' = Tail(ticks) /\ Top.job = None
        /\ UNCHANGED <<tasks, queue, cells, trap>>
    BY DEF RunTick, At, tasks
  <1>2. Head(ticks) \in Ids  BY <1>1, TailLemma DEF TypeOK
  <1>3. r \in Run /\ r.job = Head(ticks)  BY <1>1, <1>2, TopLemma DEF Run, Task
  <1> HIDE DEF r
  <1> QED  BY <1>1, <1>3, SetTopLemma DEF SameBelow

\* A reaction without a callback is over at once.
LEMMA RunPassFacts ==
  ASSUME TypeOK, RunPass
  PROVE  /\ stack # <<>> /\ SameBelow /\ Top.job = None /\ queue # <<>>
         /\ stack'[Len(stack)].job = None
         /\ cells' = [cells EXCEPT !.promise = None, !.next = None]
         /\ UNCHANGED <<kind, creator, ticks, trap, esm, uncaught>> /\ queue' = Tail(queue)
         /\ kind[Head(queue)] = "pass"
         /\ Settle(Head(queue), "fulfilled", Head(queue))
         /\ done' = [done EXCEPT ![Head(queue)] = "returned"]
  <1> DEFINE r == [Top EXCEPT !.ran = TRUE]
  <1>1. /\ stack # <<>> /\ queue # <<>> /\ SetTop(r) /\ Top.job = None
        /\ cells' = [cells EXCEPT !.promise = None, !.next = None]
        /\ UNCHANGED <<kind, creator, ticks, trap, esm, uncaught>> /\ queue' = Tail(queue)
        /\ kind[Head(queue)] = "pass"
        /\ Settle(Head(queue), "fulfilled", Head(queue))
        /\ done' = [done EXCEPT ![Head(queue)] = "returned"]
    BY DEF RunPass, At
  <1>2. r \in Run /\ r.job = None  BY <1>1, TopLemma DEF Run
  <1> HIDE DEF r
  <1> QED  BY <1>1, <1>2, SetTopLemma DEF SameBelow

\* A promise job, a queueMicrotask callback, an inline job or a step starts.
LEMMA RunJobFacts ==
  ASSUME TypeOK, PlaceInv, RunJob
  PROVE  /\ stack # <<>> /\ SameBelow /\ Top.job = None /\ queue # <<>>
         /\ kind[Head(queue)] \in {"promise", "micro", "inline", "step"}
         /\ stack'[Len(stack)].job = Head(queue)
         /\ stack'[Len(stack)].cells = cells /\ stack'[Len(stack)].trap = trap
         /\ cells' = EnterCells(Head(queue)) /\ trap' = EnterTrap(Head(queue))
         /\ UNCHANGED <<tasks, ticks>> /\ queue' = Tail(queue)
  <1> DEFINE i == Head(queue)
             r == [Top EXCEPT !.job = i, !.ran = TRUE, !.cells = cells, !.trap = trap]
  <1>1. /\ stack # <<>> /\ queue # <<>> /\ SetTop(r) /\ Top.job = None
        /\ kind[i] # "pass"
        /\ cells' = EnterCells(i) /\ trap' = EnterTrap(i)
        /\ UNCHANGED <<tasks, ticks>> /\ queue' = Tail(queue)
    BY DEF RunJob, At, tasks
  <1>2. i \in Created /\ i \in Ids /\ i = queue[1] /\ 1 \in 1 .. Len(queue)
    BY <1>1, HeadLemma, TailLemma DEF TypeOK
  <1>3. kind[i] \in {"promise", "micro", "inline", "step"}
    BY <1>1, <1>2 DEF PlaceInv, TypeOK, Created, AllKinds
  <1> HIDE DEF i
  <1>4. r \in Run /\ r.job = i /\ r.cells = cells /\ r.trap = trap
    BY <1>1, <1>2, TopLemma DEF Run, Task, TypeOK
  <1>5. SameBelow /\ stack'[Len(stack)] = r
    <2> HIDE DEF r
    <2> QED  BY <1>1, <1>4, SetTopLemma DEF SameBelow
  <1> HIDE DEF r
  <1> QED  BY <1>1, <1>3, <1>4, <1>5 DEF i

\* A job ends.
LEMMA EndFacts ==
  ASSUME TypeOK, StackInv, NEW how \in {"returned", "threw"},
         \/ how = "returned" /\ Returns
         \/ how = "threw" /\ Throw
  PROVE  /\ Running /\ SameBelow /\ stack'[Len(stack)].job = None
         /\ done' = [done EXCEPT ![Top.job] = how]
         /\ UNCHANGED <<kind, creator, queue, ticks>>
  <1> DEFINE e == [Top EXCEPT !.job = None, !.cells = NoCells, !.trap = NoTrap]
             t == [Top EXCEPT !.pc = "top", !.job = None, !.cells = NoCells, !.trap = NoTrap,
                              !.defer = Defer(Top.mode, Top.inner, NoCells)]
  <1>1. /\ Running /\ (SetTop(e) \/ SetTop(t)) /\ done' = [done EXCEPT ![Top.job] = how]
        /\ UNCHANGED <<kind, creator, queue, ticks>>
    BY DEF Returns, ReturnPromise, ReturnInline, ReturnStep, ReturnTick, Throw, Ends, queues
  <1>2. Top \in Run /\ stack # <<>>  BY <1>1, RunningLemma, TopLemma
  <1>3. Defer(Top.mode, Top.inner, NoCells) \in BOOLEAN
    BY <1>2 DEF Defer, Run, TypeOK
  <1>4. e \in Run /\ t \in Run /\ e.job = None /\ t.job = None
    BY <1>2, <1>3 DEF Run, NoCells, NoTrap, Cells, Trap, Task
  <1> HIDE DEF e, t
  <1> QED  BY <1>1, <1>2, <1>4, SetTopLemma DEF SameBelow

\* Every step is one of these.
LEMMA Steps ==
  ASSUME [Next]_vars
  PROVE  \/ \E k \in Kinds : Queue(k)
         \/ \E mode \in {"ticks", "jobs"} : RunMicrotasks(mode)
         \/ Loop \/ TicksDrained \/ (JobsDrained /\ (Top.defer \/ Top.ran))
         \/ JobsDrained /\ ~(Top.defer \/ Top.ran)
         \/ RunTick \/ RunPass \/ RunJob
         \/ Returns \/ Throw
         \/ UNCHANGED vars
  BY DEF Next, Runner

-----------------------------------------------------------------------------
(* Every task is in one place. *)

\* Tasks move from a queue to a run and are over then.
LEMMA PlaceStep ==
  ASSUME TypeOK, PlaceInv, StackInv, [Next]_vars
  PROVE  PlaceInv'
  <1> USE MicrotasksAssumption
  <1>0. /\ queue \in Seq(Ids) /\ ticks \in Seq(Ids) /\ Created \subseteq Ids /\ Ids \subseteq Nat
        /\ Len(queue) \in Nat /\ Len(ticks) \in Nat
    BY DEF TypeOK, Created, Ids
  <1>1. ASSUME NEW k \in Kinds, Queue(k)  PROVE PlaceInv'
    <2>1. PICK c \in 0 .. MaxTasks - 1 :
            Created = 1 .. c /\ Cardinality(Created) + 1 = c + 1 /\ c + 1 \in Ids \ Created
      BY <1>1, NextTask DEF Queue
    <2> DEFINE i == c + 1
    <2>2. /\ kind' = [kind EXCEPT ![i] = k] /\ UNCHANGED <<done, uncaught>>
          /\ ticks' = IF k = "tick" THEN Append(ticks, i) ELSE ticks
          /\ queue' = IF k = "tick" THEN queue ELSE Append(queue, i)
      BY <1>1, <2>1 DEF Queue
    <2>3. /\ i \in Ids /\ i \notin Created /\ \A j \in Created : j < i
      BY <2>1, <1>0
    <2>4. k # None  BY DEF AllKinds
    <2>5. Created' = Created \cup {i}
      BY <2>2, <2>3, <2>4 DEF Created, TypeOK
    <2>6. c + 1 \in 0 .. MaxTasks /\ Created' = 1 .. c + 1
      BY <2>1, <2>5
    <2> HIDE DEF i
    <2>7. ASSUME NEW q \in {queue, ticks}
          PROVE  /\ \A n \in 1 .. Len(q) : q[n] \in Created' /\ done'[q[n]] = "no" /\ kind'[q[n]] = kind[q[n]]
                 /\ \A m, n \in 1 .. Len(q) : m < n => q[m] < q[n]
                 /\ LET a == Append(q, i) IN
                    /\ \A n \in 1 .. Len(a) : a[n] \in Created' /\ done'[a[n]] = "no"
                                              /\ kind'[a[n]] = IF n = Len(a) THEN k ELSE kind[q[n]]
                    /\ \A m, n \in 1 .. Len(a) : m < n => a[m] < a[n]
      <3> DEFINE a == Append(q, i)
      <3>1. /\ Len(a) = Len(q) + 1 /\ a[Len(q) + 1] = i /\ Len(q) \in Nat
            /\ \A n \in 1 .. Len(q) : a[n] = q[n]
        BY <1>0, <2>3, AppendLemma
      <3>2. /\ \A n \in 1 .. Len(q) : q[n] \in Created /\ done[q[n]] = "no"
            /\ \A m, n \in 1 .. Len(q) : m < n => q[m] < q[n]
        BY DEF PlaceInv, Listed
      <3>3. \A n \in 1 .. Len(q) : q[n] \in Created' /\ done'[q[n]] = "no" /\ kind'[q[n]] = kind[q[n]]
        BY <3>2, <2>2, <2>3, <2>5, <1>0 DEF TypeOK
      <3>4. done[i] = "no" /\ kind'[i] = k /\ i \in Created'
        BY <2>2, <2>3, <2>5 DEF PlaceInv, TypeOK
      <3> HIDE DEF a
      <3>5. \A n \in 1 .. Len(a) : a[n] \in Created' /\ done'[a[n]] = "no"
                                   /\ kind'[a[n]] = IF n = Len(a) THEN k ELSE kind[q[n]]
        <4> TAKE n \in 1 .. Len(a)
        <4>1. CASE n = Len(a)  BY <4>1, <3>1, <3>4, <2>2
        <4>2. CASE n # Len(a)
          <5>1. n \in 1 .. Len(q)  BY <4>2, <3>1
          <5> QED  BY <5>1, <4>2, <3>1, <3>3
        <4> QED  BY <4>1, <4>2
      <3>6. ASSUME NEW m \in 1 .. Len(a), NEW n \in 1 .. Len(a), m < n  PROVE a[m] < a[n]
        <4>1. m \in 1 .. Len(q)  BY <3>6, <3>1
        <4>2. CASE n = Len(a)  BY <4>1, <4>2, <3>1, <3>2, <2>3
        <4>3. CASE n # Len(a)
          <5>1. n \in 1 .. Len(q)  BY <4>3, <3>1
          <5> QED  BY <5>1, <4>1, <3>6, <3>1, <3>2
        <4> QED  BY <4>2, <4>3
      <3> QED  BY <3>2, <3>3, <3>5, <3>6 DEF a
    <2>8. /\ Listed(queue)' /\ Listed(ticks)'
          /\ \A n \in 1 .. Len(queue') : kind'[queue'[n]] # "tick"
          /\ \A n \in 1 .. Len(ticks') : kind'[ticks'[n]] = "tick"
      <3>1. CASE k = "tick"
        <4>1. queue' = queue /\ ticks' = Append(ticks, i)  BY <3>1, <2>2
        <4>2. /\ Listed(queue)' /\ \A n \in 1 .. Len(queue') : kind'[queue'[n]] # "tick"
          <5>1. Listed(queue)'  BY <4>1, <2>7 DEF Listed
          <5>2. \A n \in 1 .. Len(queue) : kind[queue[n]] # "tick"  BY DEF PlaceInv
          <5> QED  BY <5>1, <5>2, <4>1, <2>7
        <4>3. Listed(ticks)'  BY <4>1, <2>7 DEF Listed
        <4>4. \A n \in 1 .. Len(ticks') : kind'[ticks'[n]] = "tick"
          <5> TAKE n \in 1 .. Len(ticks')
          <5>1. Len(ticks') = Len(ticks) + 1  BY <4>1, <1>0, <2>3, AppendLemma
          <5>2. n = Len(ticks') \/ n \in 1 .. Len(ticks)  BY <5>1, <1>0
          <5> QED  BY <5>2, <3>1, <4>1, <2>7 DEF PlaceInv
        <4> QED  BY <4>2, <4>3, <4>4
      <3>2. CASE k # "tick"
        <4>1. ticks' = ticks /\ queue' = Append(queue, i)  BY <3>2, <2>2
        <4>2. /\ Listed(ticks)' /\ \A n \in 1 .. Len(ticks') : kind'[ticks'[n]] = "tick"
          BY <4>1, <2>7 DEF PlaceInv, Listed
        <4>3. Listed(queue)'  BY <4>1, <2>7 DEF Listed
        <4>4. \A n \in 1 .. Len(queue') : kind'[queue'[n]] # "tick"
          <5> TAKE n \in 1 .. Len(queue')
          <5>1. Len(queue') = Len(queue) + 1  BY <4>1, <1>0, <2>3, AppendLemma
          <5>2. n = Len(queue') \/ n \in 1 .. Len(queue)  BY <5>1, <1>0
          <5> QED  BY <5>2, <3>2, <4>1, <2>7 DEF PlaceInv
        <4> QED  BY <4>2, <4>3, <4>4
      <3> QED  BY <3>1, <3>2
    <2>9. \A j \in (Ids \ Created)' : done'[j] = "no" /\ j \notin uncaught'
      BY <2>2, <2>5 DEF PlaceInv, Ids
    <2> QED  BY <2>6, <2>8, <2>9 DEF PlaceInv
  <1>2. ASSUME UNCHANGED <<tasks, queue, ticks>>  PROVE PlaceInv'
    BY <1>2 DEF PlaceInv, Listed, Created, tasks
  <1>3. ASSUME NEW q \in {queue, ticks}, q # <<>>, UNCHANGED kind,
               \A j \in Ids \ {Head(q)} : done'[j] = done[j]
        PROVE  /\ \A n \in 1 .. Len(Tail(q)) :
                    Tail(q)[n] \in Created' /\ done'[Tail(q)[n]] = "no"
                    /\ \E m \in 1 .. Len(q) : Tail(q)[n] = q[m]
               /\ \A m, n \in 1 .. Len(Tail(q)) : m < n => Tail(q)[m] < Tail(q)[n]
    <2>1. /\ Len(q) \in Nat /\ Len(Tail(q)) = Len(q) - 1
          /\ \A n \in 1 .. Len(q) - 1 : Tail(q)[n] = q[n + 1] /\ Tail(q)[n] # Head(q)
      BY <1>0, <1>3, TailLemma, HeadLemma
    <2>2. /\ \A n \in 1 .. Len(q) : q[n] \in Created /\ done[q[n]] = "no"
          /\ \A m, n \in 1 .. Len(q) : m < n => q[m] < q[n]
      BY DEF PlaceInv, Listed
    <2>3. Created' = Created  BY <1>3 DEF Created, Ids
    <2>4. ASSUME NEW n \in 1 .. Len(Tail(q))
          PROVE  Tail(q)[n] \in Created' /\ done'[Tail(q)[n]] = "no"
                 /\ \E m \in 1 .. Len(q) : Tail(q)[n] = q[m]
      <3>1. n + 1 \in 1 .. Len(q) /\ Tail(q)[n] = q[n + 1] /\ Tail(q)[n] # Head(q)  BY <2>1
      <3>2. q[n + 1] \in Created /\ done[q[n + 1]] = "no"  BY <3>1, <2>2
      <3> QED  BY <3>1, <3>2, <2>3, <1>0, <1>3
    <2>5. ASSUME NEW m \in 1 .. Len(Tail(q)), NEW n \in 1 .. Len(Tail(q)), m < n
          PROVE  Tail(q)[m] < Tail(q)[n]
      <3>1. m + 1 \in 1 .. Len(q) /\ n + 1 \in 1 .. Len(q) /\ m + 1 < n + 1  BY <2>1, <2>5
      <3> QED  BY <3>1, <2>1, <2>2
    <2> QED  BY <2>4, <2>5
  <1>4. CASE RunTick
    <2>1. /\ ticks # <<>> /\ ticks' = Tail(ticks) /\ UNCHANGED <<tasks, queue>>
      BY <1>4, RunTickFacts
    <2>2. Listed(ticks)' /\ \A n \in 1 .. Len(ticks') : kind'[ticks'[n]] = "tick"
      BY <2>1, <1>3 DEF Listed, tasks, PlaceInv
    <2> QED  BY <2>1, <2>2 DEF PlaceInv, Listed, Created, tasks
  <1>5. CASE RunPass
    <2>1. /\ queue # <<>> /\ queue' = Tail(queue) /\ UNCHANGED <<kind, ticks, uncaught>>
          /\ done' = [done EXCEPT ![Head(queue)] = "returned"] /\ kind[Head(queue)] = "pass"
      BY <1>5, RunPassFacts
    <2>2. Head(queue) \in Created  BY <2>1, HeadLemma
    <2>3. Listed(queue)' /\ \A n \in 1 .. Len(queue') : kind'[queue'[n]] # "tick"
      BY <2>1, <1>3 DEF Listed, PlaceInv, TypeOK
    <2>4. \A n \in 1 .. Len(ticks) : ticks[n] # Head(queue)
      BY <2>1 DEF PlaceInv
    <2>5. Created' = Created  BY <2>1 DEF Created, Ids
    <2>6. Listed(ticks)'
      BY <2>1, <2>2, <2>4, <2>5, <1>0 DEF PlaceInv, Listed, TypeOK
    <2> QED  BY <2>1, <2>2, <2>3, <2>5, <2>6 DEF PlaceInv, TypeOK
  <1>6. CASE RunJob
    <2>1. /\ queue # <<>> /\ queue' = Tail(queue) /\ UNCHANGED <<tasks, ticks>>
      BY <1>6, RunJobFacts
    <2>2. Listed(queue)' /\ \A n \in 1 .. Len(queue') : kind'[queue'[n]] # "tick"
      BY <2>1, <1>3 DEF Listed, tasks, PlaceInv
    <2> QED  BY <2>1, <2>2 DEF PlaceInv, Listed, Created, tasks
  <1>7. ASSUME NEW how \in {"returned", "threw"},
               \/ how = "returned" /\ Returns
               \/ how = "threw" /\ Throw
        PROVE  PlaceInv'
    <2>2. /\ Running /\ done' = [done EXCEPT ![Top.job] = how] /\ UNCHANGED <<kind, queue, ticks>>
      BY <1>7, EndFacts
    <2>3. stack # <<>> /\ Top.job \in Created /\ Top.job # None
      BY <2>2, RunningLemma DEF Running
    <2>4. /\ \A n \in 1 .. Len(queue) : queue[n] # Top.job
          /\ \A n \in 1 .. Len(ticks) : ticks[n] # Top.job
      BY <2>3, TopLemma DEF StackInv
    <2>5. uncaught' \subseteq uncaught \cup {Top.job}
      BY <1>7 DEF Returns, ReturnPromise, ReturnInline, ReturnStep, ReturnTick, Throw
    <2>6. Created' = Created  BY <2>2 DEF Created, Ids
    <2>7. Listed(queue)' /\ Listed(ticks)'
      BY <2>2, <2>4, <2>6, <1>0 DEF PlaceInv, Listed, TypeOK
    <2> QED  BY <2>2, <2>3, <2>5, <2>6, <2>7, <1>0 DEF PlaceInv, TypeOK
  <1>8. ASSUME NEW mode \in {"ticks", "jobs"}, RunMicrotasks(mode)  PROVE PlaceInv'
    BY <1>8, <1>2, PushFacts
  <1>9. CASE Returns  BY <1>7, <1>9
  <1>10. CASE Throw  BY <1>7, <1>10
  <1> QED  BY <1>1, <1>2, <1>4, <1>5, <1>6, <1>8, <1>9, <1>10, Steps, ShiftFacts, PopFacts DEF vars, tasks

\* No task runs twice, or runs while it is queued.
LEMMA StackStep ==
  ASSUME TypeOK, PlaceInv, StackInv, [Next]_vars
  PROVE  StackInv'
  <1> USE MicrotasksAssumption
  <1>0. /\ queue \in Seq(Ids) /\ ticks \in Seq(Ids) /\ Created \subseteq Ids /\ Ids \subseteq Nat
        /\ Len(queue) \in Nat /\ Len(ticks) \in Nat /\ Len(stack) \in Nat
    BY DEF TypeOK, Created, Ids
  <1>1. ASSUME NEW k \in Kinds, Queue(k)  PROVE StackInv'
    <2>1. PICK c \in 0 .. MaxTasks - 1 :
            Created = 1 .. c /\ Cardinality(Created) + 1 = c + 1 /\ c + 1 \in Ids \ Created
      BY <1>1, NextTask DEF Queue
    <2> DEFINE i == c + 1
    <2>2. /\ kind' = [kind EXCEPT ![i] = k] /\ UNCHANGED <<done, stack>>
          /\ ticks' = IF k = "tick" THEN Append(ticks, i) ELSE ticks
          /\ queue' = IF k = "tick" THEN queue ELSE Append(queue, i)
      BY <1>1, <2>1 DEF Queue
    <2>3. i \in Ids /\ i \notin Created  BY <2>1
    <2> HIDE DEF i
    <2>4. \A j \in Created : j \in Created' /\ kind'[j] = kind[j]
      BY <2>2, <2>3, <1>0 DEF Created, TypeOK, Ids
    <2>5. ASSUME NEW q \in {queue, ticks}, NEW n \in 1 .. Len(Append(q, i))
          PROVE  Append(q, i)[n] = i \/ \E m \in 1 .. Len(q) : Append(q, i)[n] = q[m]
      <3>1. /\ Len(Append(q, i)) = Len(q) + 1 /\ Append(q, i)[Len(q) + 1] = i /\ Len(q) \in Nat
            /\ \A m \in 1 .. Len(q) : Append(q, i)[m] = q[m]
        BY <1>0, <2>3, AppendLemma
      <3>2. n = Len(q) + 1 \/ n \in 1 .. Len(q)  BY <3>1
      <3> QED  BY <3>1, <3>2
    <2>6. ASSUME NEW j \in Created
          PROVE  /\ (\A m \in 1 .. Len(queue) : queue[m] # j) => \A m \in 1 .. Len(queue') : queue'[m] # j
                 /\ (\A m \in 1 .. Len(ticks) : ticks[m] # j) => \A m \in 1 .. Len(ticks') : ticks'[m] # j
      <3>1. j # i  BY <2>3
      <3>2. CASE k = "tick"
        <4>1. queue' = queue /\ ticks' = Append(ticks, i)  BY <3>2, <2>2
        <4> QED  BY <3>1, <4>1, <2>5
      <3>3. CASE k # "tick"
        <4>1. ticks' = ticks /\ queue' = Append(queue, i)  BY <3>3, <2>2
        <4> QED  BY <3>1, <4>1, <2>5
      <3> QED  BY <3>2, <3>3
    <2>7. ASSUME NEW n \in 1 .. Len(stack), stack[n].job # None
          PROVE  /\ stack[n].job \in Created' /\ done'[stack[n].job] = "no"
                 /\ kind'[stack[n].job] # "pass"
                 /\ \A m \in 1 .. Len(queue') : queue'[m] # stack[n].job
                 /\ \A m \in 1 .. Len(ticks') : ticks'[m] # stack[n].job
      <3>1. /\ stack[n].job \in Created /\ done[stack[n].job] = "no"
            /\ kind[stack[n].job] # "pass"
            /\ \A m \in 1 .. Len(queue) : queue[m] # stack[n].job
            /\ \A m \in 1 .. Len(ticks) : ticks[m] # stack[n].job
        BY <2>7 DEF StackInv
      <3> QED  BY <3>1, <2>2, <2>4, <2>6
    <2> QED  BY <2>2, <2>7 DEF StackInv
  <1>2. ASSUME NEW mode \in {"ticks", "jobs"}, RunMicrotasks(mode)  PROVE StackInv'
    <2>1. /\ Len(stack') = Len(stack) + 1 /\ stack'[Len(stack) + 1].job = None
          /\ \A n \in 1 .. Len(stack) : stack'[n] = stack[n] /\ stack[n].job # None
          /\ UNCHANGED <<kind, done, queue, ticks>> /\ Created' = Created
      BY <1>2, PushFacts DEF tasks, Created, Ids
    <2>2. \A n \in 1 .. Len(stack') : n = Len(stack') \/ n \in 1 .. Len(stack)
      BY <2>1, <1>0
    <2> QED  BY <1>0, <2>1, <2>2 DEF StackInv
  <1>3. CASE Loop \/ TicksDrained \/ (JobsDrained /\ (Top.defer \/ Top.ran))
    <2>1. /\ stack # <<>> /\ SameBelow /\ stack[Len(stack)].job = None
          /\ stack'[Len(stack)].job = None
          /\ UNCHANGED <<kind, done, queue, ticks>> /\ Created' = Created
      BY <1>3, ShiftFacts, TopLemma DEF tasks, Created, Ids
    <2>2. \A n \in 1 .. Len(stack') : n = Len(stack) \/ n \in 1 .. Len(stack) - 1
      BY <2>1, <1>0 DEF SameBelow
    <2>3. \A n \in 1 .. Len(stack') : stack'[n].job = stack[n].job
      BY <2>1, <2>2 DEF SameBelow
    <2> QED  BY <2>1, <2>3 DEF StackInv, SameBelow
  <1>4. CASE JobsDrained /\ ~(Top.defer \/ Top.ran)
    <2>1. /\ stack # <<>> /\ Len(stack') = Len(stack) - 1
          /\ \A n \in 1 .. Len(stack) - 1 : stack'[n] = stack[n]
          /\ UNCHANGED <<kind, done, queue, ticks>> /\ Created' = Created
      BY <1>4, PopFacts DEF tasks, Created, Ids
    <2>2. \A n \in 1 .. Len(stack') : n \in 1 .. Len(stack) /\ n # Len(stack) /\ stack'[n] = stack[n]
      BY <2>1, <1>0
    <2>3. ASSUME NEW n \in 1 .. Len(stack')
          PROVE  /\ stack'[n].job # None /\ stack'[n].job \in Created' /\ done'[stack'[n].job] = "no"
                 /\ kind'[stack'[n].job] # "pass"
                 /\ \A m \in 1 .. Len(queue') : queue'[m] # stack'[n].job
                 /\ \A m \in 1 .. Len(ticks') : ticks'[m] # stack'[n].job
                 /\ \A m \in 1 .. Len(stack') : stack'[m].job = stack'[n].job => m = n
      <3>1. n \in 1 .. Len(stack) /\ n # Len(stack) /\ stack'[n] = stack[n]  BY <2>2
      <3>2. /\ stack[n].job # None /\ stack[n].job \in Created /\ done[stack[n].job] = "no"
            /\ kind[stack[n].job] # "pass"
            /\ \A m \in 1 .. Len(queue) : queue[m] # stack[n].job
            /\ \A m \in 1 .. Len(ticks) : ticks[m] # stack[n].job
            /\ \A m \in 1 .. Len(stack) : stack[m].job = stack[n].job => m = n
        BY <3>1 DEF StackInv
      <3> QED  BY <3>1, <3>2, <2>1, <2>2
    <2> QED  BY <2>3 DEF StackInv
  <1>5. ASSUME stack # <<>>, SameBelow, Top.job = None, NEW i \in Created,
               stack'[Len(stack)].job = i, done[i] = "no", kind[i] # "pass",
               UNCHANGED <<kind, done>>,
               \A n \in 1 .. Len(stack) - 1 : stack[n].job # i,
               \A m \in 1 .. Len(queue') : queue'[m] # i /\ \E l \in 1 .. Len(queue) : queue'[m] = queue[l],
               \A m \in 1 .. Len(ticks') : ticks'[m] # i /\ \E l \in 1 .. Len(ticks) : ticks'[m] = ticks[l]
        PROVE  StackInv'
    <2>1. /\ Len(stack') = Len(stack) /\ Created' = Created /\ Len(stack) \in 1 .. Len(stack)
          /\ \A n \in 1 .. Len(stack) - 1 : stack'[n] = stack[n] /\ n \in 1 .. Len(stack) /\ n # Len(stack)
          /\ \A n \in 1 .. Len(stack) : n = Len(stack) \/ n \in 1 .. Len(stack) - 1
      BY <1>0, <1>5, TopLemma DEF SameBelow, Created, Ids
    <2>2. i # None  BY <1>0
    <2>3. ASSUME NEW n \in 1 .. Len(stack')
          PROVE  /\ stack'[n].job \in Created' /\ done'[stack'[n].job] = "no"
                 /\ kind'[stack'[n].job] # "pass" /\ stack'[n].job # None
                 /\ \A m \in 1 .. Len(queue') : queue'[m] # stack'[n].job
                 /\ \A m \in 1 .. Len(ticks') : ticks'[m] # stack'[n].job
                 /\ \A m \in 1 .. Len(stack') : stack'[m].job = stack'[n].job => m = n
      <3>1. CASE n = Len(stack)
        BY <3>1, <1>5, <2>1, <2>2
      <3>2. CASE n # Len(stack)
        <4>1. n \in 1 .. Len(stack) - 1 /\ stack'[n] = stack[n] /\ n \in 1 .. Len(stack)
          BY <3>2, <2>1
        <4>2. /\ stack[n].job # None /\ stack[n].job \in Created /\ done[stack[n].job] = "no"
              /\ kind[stack[n].job] # "pass"
              /\ \A m \in 1 .. Len(queue) : queue[m] # stack[n].job
              /\ \A m \in 1 .. Len(ticks) : ticks[m] # stack[n].job
              /\ \A m \in 1 .. Len(stack) : stack[m].job = stack[n].job => m = n
          BY <3>2, <4>1 DEF StackInv
        <4>3. ASSUME NEW m \in 1 .. Len(stack'), stack'[m].job = stack'[n].job  PROVE m = n
          <5>1. m = Len(stack) \/ m \in 1 .. Len(stack) - 1  BY <2>1
          <5> QED  BY <5>1, <4>1, <4>2, <4>3, <1>5, <2>1
        <4>4. /\ \A m \in 1 .. Len(queue') : queue'[m] # stack[n].job
              /\ \A m \in 1 .. Len(ticks') : ticks'[m] # stack[n].job
          BY <4>2, <1>5
        <4> QED  BY <4>1, <4>2, <4>3, <4>4, <1>5, <2>1
      <3> QED  BY <3>1, <3>2
    <2> QED  BY <2>3 DEF StackInv
  <1>6. ASSUME NEW q \in {queue, ticks}, q # <<>>
        PROVE  /\ Head(q) \in Created /\ done[Head(q)] = "no"
               /\ \A n \in 1 .. Len(stack) : stack[n].job # Head(q)
               /\ \A m \in 1 .. Len(Tail(q)) :
                    Tail(q)[m] # Head(q) /\ \E l \in 1 .. Len(q) : Tail(q)[m] = q[l]
    <2>1. /\ Head(q) \in Created /\ done[Head(q)] = "no" /\ Head(q) # None
          /\ \A n \in 1 .. Len(q) - 1 : Tail(q)[n] # Head(q)
      BY <1>0, <1>6, HeadLemma
    <2>2. /\ Len(q) \in Nat /\ Head(q) = q[1] /\ 1 \in 1 .. Len(q) /\ Len(Tail(q)) = Len(q) - 1
          /\ \A n \in 1 .. Len(q) - 1 : Tail(q)[n] = q[n + 1] /\ n + 1 \in 1 .. Len(q)
      BY <1>0, <1>6, TailLemma
    <2>3. ASSUME NEW n \in 1 .. Len(stack)  PROVE stack[n].job # Head(q)
      BY <2>1, <2>2 DEF StackInv
    <2> QED  BY <2>1, <2>2, <2>3
  <1>7. CASE RunTick
    <2>1. /\ stack # <<>> /\ SameBelow /\ Top.job = None /\ ticks # <<>>
          /\ stack'[Len(stack)].job = Head(ticks) /\ ticks' = Tail(ticks)
          /\ UNCHANGED <<kind, done, queue>>
      BY <1>7, RunTickFacts DEF tasks
    <2>2. kind[Head(ticks)] = "tick" /\ \A m \in 1 .. Len(queue) : queue[m] # Head(ticks)
      BY <2>1, <1>0, TailLemma DEF PlaceInv
    <2>3. /\ Head(ticks) \in Created /\ done[Head(ticks)] = "no"
          /\ \A n \in 1 .. Len(stack) - 1 : stack[n].job # Head(ticks)
          /\ \A m \in 1 .. Len(ticks') :
               ticks'[m] # Head(ticks) /\ \E l \in 1 .. Len(ticks) : ticks'[m] = ticks[l]
          /\ \A m \in 1 .. Len(queue') :
               queue'[m] # Head(ticks) /\ \E l \in 1 .. Len(queue) : queue'[m] = queue[l]
      BY <2>1, <2>2, <1>0, <1>6
    <2> DEFINE i == Head(ticks)
    <2> HIDE DEF i
    <2> QED  BY <2>1, <2>2, <2>3, <1>5 DEF i
  <1>8. CASE RunJob
    <2>1. /\ stack # <<>> /\ SameBelow /\ Top.job = None /\ queue # <<>>
          /\ stack'[Len(stack)].job = Head(queue) /\ queue' = Tail(queue)
          /\ UNCHANGED <<kind, done, ticks>> /\ kind[Head(queue)] # "pass"
      BY <1>8, RunJobFacts DEF tasks
    <2>2. \A m \in 1 .. Len(ticks) : ticks[m] # Head(queue)
      BY <2>1, <1>0, TailLemma DEF PlaceInv
    <2>3. /\ Head(queue) \in Created /\ done[Head(queue)] = "no"
          /\ \A n \in 1 .. Len(stack) - 1 : stack[n].job # Head(queue)
          /\ \A m \in 1 .. Len(queue') :
               queue'[m] # Head(queue) /\ \E l \in 1 .. Len(queue) : queue'[m] = queue[l]
          /\ \A m \in 1 .. Len(ticks') :
               ticks'[m] # Head(queue) /\ \E l \in 1 .. Len(ticks) : ticks'[m] = ticks[l]
      BY <2>1, <2>2, <1>0, <1>6
    <2> DEFINE i == Head(queue)
    <2> HIDE DEF i
    <2> QED  BY <2>1, <2>2, <2>3, <1>5 DEF i
  <1>9. CASE RunPass
    <2>1. /\ stack # <<>> /\ SameBelow /\ Top.job = None /\ queue # <<>>
          /\ stack'[Len(stack)].job = None /\ UNCHANGED <<kind, ticks>> /\ queue' = Tail(queue)
          /\ done' = [done EXCEPT ![Head(queue)] = "returned"]
      BY <1>9, RunPassFacts
    <2>2. /\ \A n \in 1 .. Len(stack') : stack'[n].job = stack[n].job
          /\ Len(stack') = Len(stack) /\ Created' = Created
      <3>1. \A n \in 1 .. Len(stack') : n = Len(stack) \/ n \in 1 .. Len(stack) - 1
        BY <2>1, <1>0 DEF SameBelow
      <3> QED  BY <3>1, <2>1, TopLemma DEF SameBelow, Created, Ids
    <2>3. /\ \A n \in 1 .. Len(stack) : stack[n].job # Head(queue)
          /\ \A m \in 1 .. Len(queue') : \E l \in 1 .. Len(queue) : queue'[m] = queue[l]
      BY <2>1, <1>6
    <2>4. \A n \in 1 .. Len(stack) : stack[n].job # None => done'[stack[n].job] = done[stack[n].job]
      BY <2>1, <2>3, <1>0 DEF StackInv, TypeOK
    <2> QED  BY <2>1, <2>2, <2>3, <2>4 DEF StackInv
  <1>10. ASSUME NEW how \in {"returned", "threw"},
                \/ how = "returned" /\ Returns
                \/ how = "threw" /\ Throw
         PROVE  StackInv'
    <2>1. /\ Running /\ SameBelow /\ stack'[Len(stack)].job = None
          /\ done' = [done EXCEPT ![Top.job] = how] /\ UNCHANGED <<kind, queue, ticks>>
      BY <1>10, EndFacts
    <2>2. /\ stack # <<>> /\ Top.job # None /\ Top = stack[Len(stack)]
          /\ Len(stack') = Len(stack) /\ Created' = Created /\ Len(stack) \in 1 .. Len(stack)
          /\ \A n \in 1 .. Len(stack') : n = Len(stack) \/ (n \in 1 .. Len(stack) - 1 /\ stack'[n] = stack[n])
      BY <2>1, <1>0, TopLemma DEF SameBelow, Running, Created, Ids
    <2>3. \A n \in 1 .. Len(stack) - 1 :
            /\ n \in 1 .. Len(stack) /\ n # Len(stack) /\ stack[n].job # None
            /\ stack[n].job # Top.job
      BY <2>2, <1>0 DEF StackInv
    <2>4. \A n \in 1 .. Len(stack) - 1 : done'[stack[n].job] = done[stack[n].job]
      BY <2>1, <2>3, <1>0 DEF StackInv, TypeOK
    <2>5. \A n \in 1 .. Len(stack) - 1 :
            /\ stack[n].job \in Created' /\ done'[stack[n].job] = "no"
            /\ kind'[stack[n].job] # "pass"
            /\ \A m \in 1 .. Len(queue') : queue'[m] # stack[n].job
            /\ \A m \in 1 .. Len(ticks') : ticks'[m] # stack[n].job
            /\ \A m \in 1 .. Len(stack) : stack[m].job = stack[n].job => m = n
      BY <2>1, <2>2, <2>3, <2>4 DEF StackInv
    <2>6. ASSUME NEW n \in 1 .. Len(stack) - 1, NEW m \in 1 .. Len(stack'),
                 stack'[m].job = stack'[n].job
          PROVE  m = n
      <3>1. n \in 1 .. Len(stack') /\ stack'[n] = stack[n] /\ stack[n].job # None  BY <2>2, <2>3
      <3>2. m # Len(stack)  BY <3>1, <2>1, <2>6
      <3>3. stack'[m] = stack[m] /\ m \in 1 .. Len(stack)  BY <3>2, <2>2
      <3> QED  BY <3>1, <3>3, <2>5, <2>6
    <2>7. ASSUME NEW n \in 1 .. Len(stack) - 1
          PROVE  /\ stack'[n] = stack[n] /\ stack'[n].job # None
                 /\ \A m \in 1 .. Len(stack') : stack'[m].job = stack'[n].job => m = n
      BY <2>2, <2>3, <2>6
    <2>8. ASSUME NEW n \in 1 .. Len(stack')  PROVE n = Len(stack') \/ n \in 1 .. Len(stack) - 1
      BY <2>2
    <2> QED  BY <2>1, <2>2, <2>5, <2>7, <2>8 DEF StackInv
  <1>11. CASE Returns  BY <1>10, <1>11
  <1>12. CASE Throw  BY <1>10, <1>12
  <1>13. CASE UNCHANGED vars
    BY <1>13 DEF vars, StackInv, Created
  <1> QED  BY <1>1, <1>2, <1>3, <1>4, <1>7, <1>8, <1>9, <1>11, <1>12, <1>13, Steps

-----------------------------------------------------------------------------
(* A run drains the queues. *)

\* A run looks at the ticks again before it ends.
LEMMA DrainStep ==
  ASSUME TypeOK, PlaceInv, StackInv, DrainInv, [Next]_vars
  PROVE  DrainInv'
  <1> DEFINE L == Len(stack)
             Ok(r, t) == /\ r.job # None => r.ran
                         /\ r.pc = "jobs" /\ r.mode = "ticks" /\ ~r.defer /\ ~r.ran => t = <<>>
  <1>0. L \in Nat /\ (stack # <<>> => L \in 1 .. L /\ L >= 1 /\ Top = stack[L])
    BY TopLemma DEF TypeOK
  <1>1. \A n \in 1 .. L - 1 : stack[n].ran
    BY <1>0 DEF StackInv, DrainInv
  <1>2. Running => \A n \in 1 .. L : stack[n].ran
    <2>1. Running => Top.ran  BY <1>0 DEF DrainInv, Running
    <2> QED  BY <2>1, <1>0, <1>1 DEF Running
  <1>3. ASSUME NEW k \in Kinds, Queue(k)  PROVE DrainInv'
    <2>1. UNCHANGED stack /\ (stack = <<>> \/ Running)  BY <1>3 DEF Queue
    <2>2. \A n \in 1 .. L : stack[n].ran  BY <2>1, <1>2
    <2> QED  BY <2>1, <2>2 DEF DrainInv
  <1>4. ASSUME NEW mode \in {"ticks", "jobs"}, RunMicrotasks(mode)  PROVE DrainInv'
    <2>1. /\ Len(stack') = L + 1 /\ stack'[L + 1].job = None /\ stack'[L + 1].pc = "top"
          /\ \A n \in 1 .. L : stack'[n] = stack[n]
          /\ UNCHANGED ticks
      BY <1>4, PushFacts
    <2>2. \A n \in 1 .. Len(stack') : n = L + 1 \/ n \in 1 .. L  BY <2>1, <1>0
    <2> QED  BY <2>1, <2>2 DEF DrainInv
  <1>5. CASE JobsDrained /\ ~(Top.defer \/ Top.ran)
    <2>1. /\ Len(stack') = L - 1 /\ UNCHANGED ticks
          /\ \A n \in 1 .. L - 1 : stack'[n] = stack[n]
      BY <1>5, PopFacts
    <2>2. \A n \in 1 .. Len(stack') : n \in 1 .. L /\ n \in 1 .. L - 1  BY <2>1, <1>0
    <2> QED  BY <2>1, <2>2 DEF DrainInv
  <1>6. ASSUME NEW r \in Run, stack # <<>>, SetTop(r), Ok(r, ticks')  PROVE DrainInv'
    <2> HIDE DEF Ok
    <2>1. Len(stack') = L /\ stack'[L] = r /\ \A n \in 1 .. L - 1 : stack'[n] = stack[n]
      BY <1>6, SetTopLemma
    <2>2. \A n \in 1 .. Len(stack') : n = L \/ n \in 1 .. L - 1  BY <2>1, <1>0
    <2> QED  BY <2>1, <2>2, <1>1, <1>6 DEF DrainInv, Ok
  <1>7. CASE Loop
    <2> DEFINE r == [Top EXCEPT !.ran = FALSE,
                       !.pc = IF Top.mode = "ticks" /\ ~Top.defer THEN "ticks" ELSE "jobs"]
    <2>1. stack # <<>> /\ Top.job = None /\ SetTop(r)  BY <1>7 DEF Loop, At
    <2>2. r \in Run /\ Ok(r, ticks')  BY <2>1, TopLemma DEF Run
    <2> QED  BY <2>1, <2>2, <1>6
  <1>8. CASE TicksDrained
    <2> DEFINE r == [Top EXCEPT !.pc = IF Top.pc = "ticks" THEN "jobs" ELSE "top"]
    <2>1. stack # <<>> /\ Top.job = None /\ SetTop(r) /\ ticks' = <<>>
      BY <1>8 DEF TicksDrained, At, queues
    <2>2. r \in Run /\ Ok(r, ticks')  BY <2>1, TopLemma DEF Run
    <2> QED  BY <2>1, <2>2, <1>6
  <1>9. CASE JobsDrained /\ (Top.defer \/ Top.ran)
    <2> DEFINE r == [Top EXCEPT !.defer = FALSE, !.pc = "last"]
               u == [Top EXCEPT !.pc = "top"]
    <2>1. stack # <<>> /\ Top.job = None /\ (SetTop(r) \/ SetTop(u))
      BY <1>9 DEF JobsDrained, At
    <2>2. r \in Run /\ u \in Run /\ Ok(r, ticks') /\ Ok(u, ticks')
      BY <2>1, TopLemma DEF Run
    <2> QED  BY <2>1, <2>2, <1>6
  <1>10. CASE RunTick
    <2> DEFINE r == [Top EXCEPT !.job = Head(ticks), !.ran = TRUE]
    <2>1. stack # <<>> /\ ticks # <<>> /\ SetTop(r)  BY <1>10 DEF RunTick, At
    <2>2. Head(ticks) \in Ids  BY <2>1, TailLemma DEF TypeOK
    <2>3. r \in Run /\ Ok(r, ticks')  BY <2>1, <2>2, TopLemma DEF Run, Task
    <2> QED  BY <2>1, <2>3, <1>6
  <1>11. CASE RunPass
    <2> DEFINE r == [Top EXCEPT !.ran = TRUE]
    <2>1. stack # <<>> /\ SetTop(r)  BY <1>11 DEF RunPass, At
    <2>2. r \in Run /\ Ok(r, ticks')  BY <2>1, TopLemma DEF Run
    <2> QED  BY <2>1, <2>2, <1>6
  <1>12. CASE RunJob
    <2> DEFINE r == [Top EXCEPT !.job = Head(queue), !.ran = TRUE, !.cells = cells, !.trap = trap]
    <2>1. stack # <<>> /\ queue # <<>> /\ SetTop(r)  BY <1>12 DEF RunJob, At
    <2>2. Head(queue) \in Ids  BY <2>1, TailLemma DEF TypeOK
    <2>3. r \in Run /\ Ok(r, ticks')  BY <2>1, <2>2, TopLemma DEF Run, Task, TypeOK
    <2> QED  BY <2>1, <2>3, <1>6
  <1>13. CASE Returns
    <2> DEFINE r == [Top EXCEPT !.job = None, !.cells = NoCells, !.trap = NoTrap]
    <2>1. Running /\ SetTop(r)
      BY <1>13 DEF Returns, ReturnPromise, ReturnInline, ReturnStep, ReturnTick, Ends
    <2>2. stack # <<>> /\ Top \in Run /\ Top.ran
      BY <2>1, <1>0, <1>2, TopLemma DEF Running
    <2>3. r \in Run /\ Ok(r, ticks')
      BY <2>2 DEF Run, NoCells, NoTrap, Cells, Trap, Task
    <2> QED  BY <2>1, <2>2, <2>3, <1>6
  <1>14. CASE Throw
    <2> DEFINE r == [Top EXCEPT !.pc = "top", !.job = None, !.cells = NoCells, !.trap = NoTrap,
                                !.defer = Defer(Top.mode, Top.inner, NoCells)]
    <2>1. Running /\ SetTop(r)  BY <1>14 DEF Throw
    <2>2. stack # <<>> /\ Top \in Run  BY <2>1, TopLemma DEF Running
    <2>3. Defer(Top.mode, Top.inner, NoCells) \in BOOLEAN
      BY <2>2 DEF Defer, Run, TypeOK
    <2>4. r \in Run /\ Ok(r, ticks')
      BY <2>2, <2>3 DEF Run, NoCells, NoTrap, Cells, Trap, Task
    <2> QED  BY <2>1, <2>2, <2>4, <1>6
  <1>15. CASE UNCHANGED vars
    BY <1>15 DEF vars, DrainInv
  <1> QED  BY <1>3, <1>4, <1>5, <1>7, <1>8, <1>9, <1>10, <1>11, <1>12, <1>13, <1>14, <1>15, Steps

\* The inductive invariant of every behaviour.
BaseInv == TypeOK /\ PlaceInv /\ StackInv /\ DrainInv

\* It holds at the start,
LEMMA BaseInit == Init => BaseInv
  <1> USE MicrotasksAssumption
  <1> SUFFICES ASSUME Init PROVE BaseInv
    OBVIOUS
  <1>1. TypeOK
    <2>1. /\ NoCells \in Cells /\ NoTrap \in Trap /\ None \in Task
      BY DEF NoCells, NoTrap, Cells, Trap, Task
    <2>2. <<>> \in Seq(Ids) /\ <<>> \in Seq(Run) /\ Len(<<>>) <= MaxDepth
      OBVIOUS
    <2> QED  BY <2>1, <2>2 DEF Init, TypeOK
  <1>2. Created = {}  BY DEF Init, Created
  <1>3. PlaceInv
    <2>1. 0 \in 0 .. MaxTasks /\ Created = 1 .. 0  BY <1>2
    <2> QED  BY <1>2, <2>1 DEF Init, PlaceInv, Listed
  <1> QED  BY <1>1, <1>3 DEF Init, BaseInv, StackInv, DrainInv

\* and every step keeps it.
LEMMA BaseStep == BaseInv /\ [Next]_vars => BaseInv'
  BY TypeStep, PlaceStep, StackStep, DrainStep DEF BaseInv

\* Every task is queued once, running once or over, no run is in a job but on
\* top of runs that are, and a run passes drained ticks only (run_microtasks).
THEOREM RunnerInvariant == Spec => []BaseInv
  BY BaseInit, BaseStep, PTL DEF Spec

\* The state of run_microtasks keeps its types, and runs nest no deeper than
\* they may.
THEOREM RunnerTypes == Spec => []TypeOK
  <1>1. BaseInv => TypeOK  BY DEF BaseInv
  <1> QED  BY <1>1, RunnerInvariant, PTL

\* A run that may drain ticks returns with both queues empty, however jobs nest
\* and throw: what is queued during a run needs no wakeup of the loop
\* (run_microtasks ends after a pass that found nothing).
THEOREM RunsDrainDry == Spec => DrainsDry
  <1> DEFINE A == \A n \in DOMAIN stack :
                    Len(stack') < n /\ stack[n].mode = "ticks" => queue = <<>> /\ ticks = <<>>
  <1>1. BaseInv /\ [Next]_vars => [A]_vars
    <2> SUFFICES ASSUME BaseInv, [Next]_vars, NEW n \in DOMAIN stack, Len(stack') < n,
                        stack[n].mode = "ticks"
                 PROVE  queue = <<>> /\ ticks = <<>>
      OBVIOUS
    <2> USE DEF BaseInv
    <2>1. Len(stack) \in Nat /\ n \in 1 .. Len(stack) /\ stack # <<>>  BY DEF TypeOK
    <2>2. Len(stack') < Len(stack) \/ Len(stack') # Len(stack)  BY <2>1
    <2>3. JobsDrained /\ ~(Top.defer \/ Top.ran)
      <3>1. ~ \E k \in Kinds : Queue(k)  BY <2>1 DEF Queue
      <3>2. ~ \E mode \in {"ticks", "jobs"} : RunMicrotasks(mode)  BY <2>1, PushFacts
      <3>3. ~(Loop \/ TicksDrained \/ (JobsDrained /\ (Top.defer \/ Top.ran)))
        BY <2>1, ShiftFacts DEF SameBelow
      <3>4. ~RunTick /\ ~RunPass /\ ~RunJob
        BY <2>1, RunTickFacts, RunPassFacts, RunJobFacts DEF SameBelow
      <3>5. ~Returns /\ ~Throw
        BY <2>1, EndFacts DEF SameBelow
      <3>6. ~UNCHANGED vars  BY <2>1 DEF vars
      <3> QED  BY <3>1, <3>2, <3>3, <3>4, <3>5, <3>6, Steps
    <2>4. /\ queue = <<>> /\ Len(stack') = Len(stack) - 1 /\ Top.pc = "jobs"
      BY <2>3, PopFacts
    <2>5. n = Len(stack) /\ stack[n] = Top  BY <2>1, <2>4, TopLemma
    <2>6. ticks = <<>>  BY <2>1, <2>3, <2>4, <2>5 DEF DrainInv
    <2> QED  BY <2>4, <2>6
  <1> QED  BY <1>1, RunnerInvariant, PTL DEF Spec, DrainsDry

-----------------------------------------------------------------------------
(* The cells and the trap of the running jobs. *)

\* The runs in a job of one of these kinds are the same after the step.
SameFor(ks) ==
  /\ \A n \in 1 .. Len(stack') :
       stack'[n].job # None /\ kind'[stack'[n].job] \in ks =>
         n \in 1 .. Len(stack) /\ stack'[n] = stack[n] /\ kind'[stack[n].job] = kind[stack[n].job]
  /\ \A n \in 1 .. Len(stack) :
       Runs(n, ks) =>
         n \in 1 .. Len(stack') /\ stack'[n] = stack[n] /\ kind'[stack[n].job] = kind[stack[n].job]

\* Throws are counted, and nothing else changes the count.
LEMMA RiskLemma ==
  ASSUME TypeOK, PlaceInv, StackInv, [Next]_vars
  PROVE  /\ Risk' => Risk
         /\ Throw => Cardinality(Thrown') = Cardinality(Thrown) + 1
  <1> USE MicrotasksAssumption
  <1>1. IsFiniteSet(Thrown) /\ Cardinality(Thrown) \in Nat
    <2>1. IsFiniteSet(Ids)  BY FS_Interval DEF Ids
    <2> QED  BY <2>1, FS_Subset, FS_CardinalityType DEF Thrown
  <1>2. CASE Throw
    <2>1. Running /\ done' = [done EXCEPT ![Top.job] = "threw"]  BY <1>2 DEF Throw
    <2>2. Top.job \in Ids /\ done[Top.job] = "no"  BY <2>1, RunningLemma
    <2>3. Thrown' = Thrown \cup {Top.job} /\ Top.job \notin Thrown
      BY <2>1, <2>2 DEF Thrown, TypeOK, Ids
    <2>4. Cardinality(Thrown') = Cardinality(Thrown) + 1
      BY <2>3, <1>1, FS_AddElement
    <2> QED  BY <2>4, <1>1 DEF Risk
  <1>3. CASE ~Throw
    <2>1. \A i \in Ids : (done'[i] = "threw") <=> (done[i] = "threw")
      <3>1. CASE Returns
        <4>1. Running /\ done' = [done EXCEPT ![Top.job] = "returned"]  BY <3>1, EndFacts
        <4> QED  BY <4>1, RunningLemma DEF TypeOK
      <3>2. CASE RunPass
        <4>1. queue # <<>> /\ done' = [done EXCEPT ![Head(queue)] = "returned"]
          BY <3>2, RunPassFacts
        <4>2. done[Head(queue)] = "no"  BY <4>1, HeadLemma
        <4> QED  BY <4>1, <4>2 DEF TypeOK
      <3>3. CASE ~Returns /\ ~RunPass
        <4>1. UNCHANGED done
          BY <1>3, <3>3 DEF Next, Runner, vars, Queue, RunMicrotasks, Loop, TicksDrained,
                            JobsDrained, RunTick, RunJob
        <4> QED  BY <4>1
      <3> QED  BY <3>1, <3>2, <3>3
    <2>2. Thrown' = Thrown  BY <2>1 DEF Thrown, Ids
    <2> QED  BY <1>3, <2>2 DEF Risk
  <1> QED  BY <1>2, <1>3

\* A step that changes neither the cells nor a job that saves or needs them.
LEMMA CellKeep ==
  ASSUME TypeOK, TypeOK', CellInv, SameFor({"promise", "micro", "inline", "step"}),
         cells' = cells, Risk' => Risk
  PROVE  CellInv'
  <1> DEFINE PM == {"promise", "micro"}
  <1>0. Len(stack) \in Nat /\ Len(stack') \in Nat  BY DEF TypeOK
  <1>1. ASSUME NEW ks \in SUBSET {"promise", "micro", "inline", "step"}
        PROVE  /\ \A n \in 1 .. Len(stack') : Runs(n, ks)' =>
                    n \in 1 .. Len(stack) /\ stack'[n] = stack[n] /\ Runs(n, ks)
               /\ \A n \in 1 .. Len(stack) : Runs(n, ks) =>
                    n \in 1 .. Len(stack') /\ stack'[n] = stack[n] /\ Runs(n, ks)'
    BY DEF SameFor, Runs
  <1>2. ASSUME NEW n \in 0 .. Len(stack')
        PROVE  \A c : (n \in 0 .. Len(stack) => Intact(n, c)) =>
                 /\ Risk' => /\ n = 0 => c.promise = None
                             /\ n # 0 /\ Runs(n, {"promise"})' => c.promise = stack'[n].job
                             /\ n # 0 /\ Runs(n, {"micro"})' => c.promise = None
                 /\ n # 0 /\ Runs(n, {"inline"})' => c.next = stack'[n].job
    <2>1. \A ks \in {{"promise"}, {"micro"}, {"inline"}} :
            n # 0 /\ Runs(n, ks)' => n \in 0 .. Len(stack) /\ stack'[n] = stack[n] /\ Runs(n, ks)
      <3> TAKE ks \in {{"promise"}, {"micro"}, {"inline"}}
      <3> HAVE n # 0 /\ Runs(n, ks)'
      <3>1. n \in 1 .. Len(stack') /\ ks \in SUBSET {"promise", "micro", "inline", "step"}
        BY <1>0
      <3> QED  BY <3>1, <1>0, <1>1
    <2> QED  BY <2>1, <1>0 DEF Intact
  <1>3. ASSUME NEW n \in 0 .. Len(stack')
        PROVE  /\ Free(PM, n, Len(stack))' => Intact(n, cells)'
               /\ \A m \in n + 1 .. Len(stack') :
                    /\ Runs(m, PM)' /\ Free(PM, n, m - 1)' => Intact(n, stack[m].cells)'
                    /\ n # 0 /\ Runs(n, {"inline"})' => ~Runs(m, {"inline", "step"})'
    <2>1. ASSUME Free(PM, n, Len(stack))'  PROVE Intact(n, cells)'
      <3>1. ASSUME n \in 0 .. Len(stack)  PROVE Intact(n, cells)
        <4>1. Free(PM, n, Len(stack))
          <5> SUFFICES ASSUME NEW k \in n + 1 .. Len(stack), Runs(k, PM)  PROVE FALSE
            BY DEF Free
          <5>1. k \in 1 .. Len(stack)  BY <1>0
          <5>2. k \in 1 .. Len(stack') /\ Runs(k, PM)'  BY <5>1, <1>1
          <5>3. k \in n + 1 .. Len(stack')  BY <5>1, <5>2, <1>0
          <5> QED  BY <5>2, <5>3, <2>1 DEF Free
        <4> QED  BY <4>1, <3>1 DEF CellInv
      <3> QED  BY <3>1, <1>2 DEF Intact
    <2>2. ASSUME NEW m \in n + 1 .. Len(stack'), Runs(m, PM)', Free(PM, n, m - 1)'
          PROVE  Intact(n, stack[m].cells)'
      <3>1. m \in 1 .. Len(stack')  BY <1>0
      <3>2. m \in 1 .. Len(stack) /\ stack'[m] = stack[m] /\ Runs(m, PM)  BY <3>1, <2>2, <1>1
      <3>3. n \in 0 .. Len(stack) /\ m \in n + 1 .. Len(stack)  BY <3>2, <1>0
      <3>4. Free(PM, n, m - 1)
        <4> SUFFICES ASSUME NEW k \in n + 1 .. m - 1, Runs(k, PM)  PROVE FALSE
          BY DEF Free
        <4>1. k \in 1 .. Len(stack)  BY <3>2, <1>0
        <4> QED  BY <4>1, <1>1, <2>2 DEF Free
      <3>5. Intact(n, stack[m].cells)  BY <3>2, <3>3, <3>4 DEF CellInv
      <3> QED  BY <3>2, <3>5, <1>2 DEF Intact
    <2>3. ASSUME NEW m \in n + 1 .. Len(stack'), n # 0, Runs(n, {"inline"})', Runs(m, {"inline", "step"})'
          PROVE  FALSE
      <3>1. m \in 1 .. Len(stack') /\ n \in 1 .. Len(stack')  BY <1>0, <2>3
      <3>2. n \in 1 .. Len(stack) /\ m \in 1 .. Len(stack) /\ Runs(n, {"inline"}) /\ Runs(m, {"inline", "step"})
        BY <3>1, <2>3, <1>1
      <3>3. n \in 0 .. Len(stack) /\ m \in n + 1 .. Len(stack)  BY <3>2, <1>0
      <3> QED  BY <3>2, <3>3, <2>3 DEF CellInv
    <2> QED  BY <2>1, <2>2, <2>3
  <1> QED  BY <1>3 DEF CellInv

\* The same for the trap.
LEMMA TrapKeep ==
  ASSUME TypeOK, TypeOK', TrapInv, SameFor({"inline", "step"}), trap' = trap
  PROVE  TrapInv'
  <1> DEFINE IS == {"inline", "step"}
  <1>0. Len(stack) \in Nat /\ Len(stack') \in Nat  BY DEF TypeOK
  <1>1. ASSUME NEW ks \in SUBSET {"inline", "step"}
        PROVE  /\ \A n \in 1 .. Len(stack') : Runs(n, ks)' =>
                    n \in 1 .. Len(stack) /\ stack'[n] = stack[n] /\ Runs(n, ks)
               /\ \A n \in 1 .. Len(stack) : Runs(n, ks) =>
                    n \in 1 .. Len(stack') /\ stack'[n] = stack[n] /\ Runs(n, ks)'
    BY DEF SameFor, Runs
  <1>2. ASSUME NEW n \in 0 .. Len(stack')
        PROVE  \A t : (n \in 0 .. Len(stack) => TrapOf(n, t)) =>
                 /\ n = 0 => t = NoTrap
                 /\ n # 0 /\ Runs(n, {"inline"})' => t = [next |-> stack'[n].job, step |-> None]
                 /\ n # 0 /\ Runs(n, {"step"})'   => t = [next |-> stack'[n].job, step |-> stack'[n].job]
    <2>1. \A ks \in {{"inline"}, {"step"}} :
            n # 0 /\ Runs(n, ks)' => n \in 0 .. Len(stack) /\ stack'[n] = stack[n] /\ Runs(n, ks)
      <3> TAKE ks \in {{"inline"}, {"step"}}
      <3> HAVE n # 0 /\ Runs(n, ks)'
      <3>1. n \in 1 .. Len(stack') /\ ks \in SUBSET {"inline", "step"}
        BY <1>0
      <3> QED  BY <3>1, <1>0, <1>1
    <2> QED  BY <2>1, <1>0 DEF TrapOf
  <1>3. ASSUME NEW n \in 0 .. Len(stack')
        PROVE  /\ Free(IS, n, Len(stack))' => TrapOf(n, trap)'
               /\ \A m \in n + 1 .. Len(stack') :
                    Runs(m, IS)' /\ Free(IS, n, m - 1)' => TrapOf(n, stack[m].trap)'
    <2>1. ASSUME Free(IS, n, Len(stack))'  PROVE TrapOf(n, trap)'
      <3>1. ASSUME n \in 0 .. Len(stack)  PROVE TrapOf(n, trap)
        <4>1. Free(IS, n, Len(stack))
          <5> SUFFICES ASSUME NEW k \in n + 1 .. Len(stack), Runs(k, IS)  PROVE FALSE
            BY DEF Free
          <5>1. k \in 1 .. Len(stack)  BY <1>0
          <5>2. k \in 1 .. Len(stack') /\ Runs(k, IS)'  BY <5>1, <1>1
          <5>3. k \in n + 1 .. Len(stack')  BY <5>1, <5>2, <1>0
          <5> QED  BY <5>2, <5>3, <2>1 DEF Free
        <4> QED  BY <4>1, <3>1 DEF TrapInv
      <3> QED  BY <3>1, <1>2 DEF TrapOf
    <2>2. ASSUME NEW m \in n + 1 .. Len(stack'), Runs(m, IS)', Free(IS, n, m - 1)'
          PROVE  TrapOf(n, stack[m].trap)'
      <3>1. m \in 1 .. Len(stack')  BY <1>0
      <3>2. m \in 1 .. Len(stack) /\ stack'[m] = stack[m] /\ Runs(m, IS)  BY <3>1, <2>2, <1>1
      <3>3. n \in 0 .. Len(stack) /\ m \in n + 1 .. Len(stack)  BY <3>2, <1>0
      <3>4. Free(IS, n, m - 1)
        <4> SUFFICES ASSUME NEW k \in n + 1 .. m - 1, Runs(k, IS)  PROVE FALSE
          BY DEF Free
        <4>1. k \in 1 .. Len(stack)  BY <3>2, <1>0
        <4> QED  BY <4>1, <1>1, <2>2 DEF Free
      <3>5. TrapOf(n, stack[m].trap)  BY <3>2, <3>3, <3>4 DEF TrapInv
      <3> QED  BY <3>2, <3>5, <1>2 DEF TrapOf
    <2> QED  BY <2>1, <2>2
  <1> QED  BY <1>3 DEF TrapInv

\* Jobs of other kinds start or end at the top.
LEMMA SameTop ==
  ASSUME TypeOK, stack # <<>>, SameBelow, UNCHANGED kind, NEW ks,
         Top.job = None \/ kind[Top.job] \notin ks,
         stack'[Len(stack)].job = None \/ kind[stack'[Len(stack)].job] \notin ks
  PROVE  SameFor(ks)
  <1>1. Len(stack) \in Nat /\ Top = stack[Len(stack)]  BY TopLemma
  <1>2. \A n \in 1 .. Len(stack) : n = Len(stack) \/ n \in 1 .. Len(stack) - 1  BY <1>1
  <1> QED  BY <1>1, <1>2 DEF SameFor, SameBelow, Runs

\* Steps that no running job's cells or trap depend on.
LEMMA QuietSame ==
  ASSUME TypeOK, PlaceInv, StackInv, [Next]_vars,
         ~RunPass, ~RunJob, ~ReturnPromise, ~ReturnInline, ~ReturnStep, ~Throw
  PROVE  /\ SameFor({"promise", "micro", "inline", "step"}) /\ SameFor({"inline", "step"})
         /\ UNCHANGED <<cells, trap>>
  <1> USE MicrotasksAssumption
  <1> DEFINE All == {"promise", "micro", "inline", "step"}
  <1> SUFFICES SameFor(All) /\ UNCHANGED <<cells, trap>>
    BY DEF SameFor, Runs
  <1>0. Len(stack) \in Nat  BY DEF TypeOK
  <1>1. ASSUME NEW k \in Kinds, Queue(k)  PROVE SameFor(All) /\ UNCHANGED <<cells, trap>>
    <2>1. PICK c \in 0 .. MaxTasks - 1 :
            Created = 1 .. c /\ Cardinality(Created) + 1 = c + 1 /\ c + 1 \in Ids \ Created
      BY <1>1, NextTask DEF Queue
    <2>2. kind' = [kind EXCEPT ![c + 1] = k] /\ UNCHANGED <<stack, cells, trap>>
      BY <1>1, <2>1 DEF Queue
    <2>3. \A n \in 1 .. Len(stack) : stack[n].job # None => kind'[stack[n].job] = kind[stack[n].job]
      BY <2>1, <2>2 DEF StackInv, Created, TypeOK
    <2> QED  BY <2>2, <2>3 DEF SameFor, Runs
  <1>2. ASSUME NEW mode \in {"ticks", "jobs"}, RunMicrotasks(mode)
        PROVE  SameFor(All) /\ UNCHANGED <<cells, trap>>
    <2>1. /\ Len(stack') = Len(stack) + 1 /\ stack'[Len(stack) + 1].job = None
          /\ \A n \in 1 .. Len(stack) : stack'[n] = stack[n]
          /\ UNCHANGED <<kind, cells, trap>>
      BY <1>2, PushFacts DEF tasks
    <2>2. \A n \in 1 .. Len(stack') : n = Len(stack) + 1 \/ n \in 1 .. Len(stack)  BY <2>1, <1>0
    <2>3. \A n \in 1 .. Len(stack) : n \in 1 .. Len(stack')  BY <2>1, <1>0
    <2> QED  BY <2>1, <2>2, <2>3 DEF SameFor, Runs
  <1>3. CASE Loop \/ TicksDrained \/ (JobsDrained /\ (Top.defer \/ Top.ran))
    BY <1>3, ShiftFacts, SameTop DEF tasks
  <1>4. CASE JobsDrained /\ ~(Top.defer \/ Top.ran)
    <2>1. /\ stack # <<>> /\ Top.job = None /\ Len(stack') = Len(stack) - 1
          /\ \A n \in 1 .. Len(stack) - 1 : stack'[n] = stack[n]
          /\ UNCHANGED <<kind, cells, trap>>
      BY <1>4, PopFacts DEF tasks
    <2>2. /\ \A n \in 1 .. Len(stack') : n \in 1 .. Len(stack) - 1 /\ n \in 1 .. Len(stack)
          /\ \A n \in 1 .. Len(stack) : n = Len(stack) \/ (n \in 1 .. Len(stack') /\ n \in 1 .. Len(stack) - 1)
      BY <2>1, <1>0
    <2> QED  BY <2>1, <2>2, TopLemma DEF SameFor, Runs
  <1>5. CASE RunTick
    <2>1. /\ stack # <<>> /\ SameBelow /\ Top.job = None /\ ticks # <<>>
          /\ stack'[Len(stack)].job = Head(ticks) /\ UNCHANGED <<kind, cells, trap>>
      BY <1>5, RunTickFacts DEF tasks
    <2>2. kind[Head(ticks)] = "tick"  BY <2>1, TailLemma DEF PlaceInv, TypeOK
    <2> QED  BY <2>1, <2>2, SameTop
  <1>6. CASE ReturnTick
    <2>1. Running /\ kind[Top.job] = "tick" /\ UNCHANGED <<cells, trap>> /\ stack # <<>>
      BY <1>6 DEF ReturnTick, Running
    <2>2. Returns  BY <1>6 DEF Returns
    <2>3. SameBelow /\ stack'[Len(stack)].job = None /\ UNCHANGED kind
      BY <2>2, EndFacts
    <2> QED  BY <2>1, <2>3, SameTop
  <1>7. CASE UNCHANGED vars
    BY <1>7 DEF vars, SameFor, Runs
  <1> QED  BY <1>1, <1>2, <1>3, <1>4, <1>5, <1>6, <1>7, Steps DEF Returns

\* The cells of the runs below the top one, after a step at the top.
LEMMA CellBelow ==
  ASSUME TypeOK, CellInv, stack # <<>>, SameBelow, UNCHANGED kind, Risk' => Risk,
         NEW n \in 0 .. Len(stack) - 1
  PROVE  /\ \A c : Intact(n, c) =>
              /\ Risk' => /\ n = 0 => c.promise = None
                          /\ n # 0 /\ Runs(n, {"promise"})' => c.promise = stack'[n].job
                          /\ n # 0 /\ Runs(n, {"micro"})' => c.promise = None
              /\ n # 0 /\ Runs(n, {"inline"})' => c.next = stack'[n].job
         /\ \A m \in n + 1 .. Len(stack) - 1 :
              /\ Runs(m, {"promise", "micro"})' /\ Free({"promise", "micro"}, n, m - 1)'
                   => Intact(n, stack[m].cells)'
              /\ n # 0 /\ Runs(n, {"inline"})' => ~Runs(m, {"inline", "step"})'
         /\ Free({"promise", "micro"}, n, Len(stack) - 1)' <=> Free({"promise", "micro"}, n, Len(stack) - 1)
         /\ Free({"promise", "micro"}, n, Len(stack)) <=>
              Free({"promise", "micro"}, n, Len(stack) - 1) /\ ~Runs(Len(stack), {"promise", "micro"})
         /\ Free({"promise", "micro"}, n, Len(stack))' <=>
              Free({"promise", "micro"}, n, Len(stack) - 1) /\ ~Runs(Len(stack), {"promise", "micro"})'
  <1> DEFINE PM == {"promise", "micro"}
  <1>0. Len(stack) \in Nat /\ Len(stack) >= 1 /\ Len(stack') = Len(stack)  BY TopLemma DEF SameBelow
  <1>1. \A k \in 1 .. Len(stack) - 1 : stack'[k] = stack[k] /\ k \in 1 .. Len(stack)
    BY <1>0 DEF SameBelow
  <1>2. \A k \in 1 .. Len(stack) - 1 : \A ks : Runs(k, ks)' <=> Runs(k, ks)
    BY <1>1 DEF Runs
  <1>3. n # 0 => n \in 1 .. Len(stack) - 1  BY <1>0
  <1>4. \A c : Intact(n, c) =>
              /\ Risk' => /\ n = 0 => c.promise = None
                          /\ n # 0 /\ Runs(n, {"promise"})' => c.promise = stack'[n].job
                          /\ n # 0 /\ Runs(n, {"micro"})' => c.promise = None
              /\ n # 0 /\ Runs(n, {"inline"})' => c.next = stack'[n].job
    BY <1>1, <1>2, <1>3 DEF Intact
  <1>5. \A m \in n .. Len(stack) - 1 : Free(PM, n, m)' <=> Free(PM, n, m)
    <2> TAKE m \in n .. Len(stack) - 1
    <2>1. \A k \in n + 1 .. m : k \in 1 .. Len(stack) - 1  BY <1>0
    <2> QED  BY <2>1, <1>2 DEF Free
  <1>6. ASSUME NEW m \in n + 1 .. Len(stack) - 1, Runs(m, PM)', Free(PM, n, m - 1)'
        PROVE  Intact(n, stack[m].cells)'
    <2>1. m \in 1 .. Len(stack) - 1 /\ m - 1 \in n .. Len(stack) - 1 /\ n \in 0 .. Len(stack)
          /\ m \in n + 1 .. Len(stack)
      BY <1>0
    <2>2. Runs(m, PM) /\ Free(PM, n, m - 1) /\ stack'[m] = stack[m]
      BY <2>1, <1>1, <1>2, <1>5, <1>6
    <2>3. Intact(n, stack[m].cells)  BY <2>1, <2>2 DEF CellInv
    <2> QED  BY <2>2, <2>3, <1>4 DEF Intact
  <1>7. ASSUME NEW m \in n + 1 .. Len(stack) - 1, n # 0, Runs(n, {"inline"})'
        PROVE  ~Runs(m, {"inline", "step"})'
    <2>1. m \in 1 .. Len(stack) - 1 /\ n \in 1 .. Len(stack) - 1 /\ n \in 0 .. Len(stack)
          /\ m \in n + 1 .. Len(stack)
      BY <1>0, <1>3, <1>7
    <2> QED  BY <2>1, <1>2, <1>7 DEF CellInv
  <1>8. Len(stack) - 1 \in n .. Len(stack) - 1  BY <1>0
  <1>9. \A k \in n + 1 .. Len(stack) : k = Len(stack) \/ k \in n + 1 .. Len(stack) - 1  BY <1>0
  <1>10. Len(stack) \in n + 1 .. Len(stack) /\ \A k \in n + 1 .. Len(stack) - 1 : k \in n + 1 .. Len(stack)
    BY <1>0
  <1>11. /\ Free(PM, n, Len(stack)) <=> Free(PM, n, Len(stack) - 1) /\ ~Runs(Len(stack), PM)
         /\ Free(PM, n, Len(stack))' <=> Free(PM, n, Len(stack) - 1)' /\ ~Runs(Len(stack), PM)'
    BY <1>0, <1>9, <1>10 DEF Free
  <1>12. Free(PM, n, Len(stack) - 1)' <=> Free(PM, n, Len(stack) - 1)
    BY <1>0, <1>5, <1>8 DEF Free
  <1> QED  BY <1>4, <1>6, <1>7, <1>11, <1>12

\* It is enough to look at the innermost run, and at what it saves or restores.
LEMMA CellTop ==
  ASSUME TypeOK, CellInv, stack # <<>>, SameBelow, UNCHANGED kind, Risk' => Risk,
         Intact(Len(stack), cells)',
         \A n \in 0 .. Len(stack) - 1 :
           /\ Free({"promise", "micro"}, n, Len(stack) - 1) /\ ~Runs(Len(stack), {"promise", "micro"})'
                => Intact(n, cells)'
           /\ Free({"promise", "micro"}, n, Len(stack) - 1) /\ Runs(Len(stack), {"promise", "micro"})'
                => Intact(n, stack[Len(stack)].cells)'
           /\ n # 0 /\ Runs(n, {"inline"})' => ~Runs(Len(stack), {"inline", "step"})'
  PROVE  CellInv'
  <1> DEFINE PM == {"promise", "micro"}
  <1>0. Len(stack) \in Nat /\ Len(stack) >= 1 /\ Len(stack') = Len(stack)  BY TopLemma DEF SameBelow
  <1>1. ASSUME NEW n \in 0 .. Len(stack) - 1
        PROVE  /\ Free(PM, n, Len(stack))' => Intact(n, cells)'
               /\ \A m \in n + 1 .. Len(stack') :
                    /\ Runs(m, PM)' /\ Free(PM, n, m - 1)' => Intact(n, stack[m].cells)'
                    /\ n # 0 /\ Runs(n, {"inline"})' => ~Runs(m, {"inline", "step"})'
    <2>1. Free(PM, n, Len(stack))' => Intact(n, cells)'
      BY CellBelow
    <2>2. ASSUME NEW m \in n + 1 .. Len(stack') 
          PROVE  /\ Runs(m, PM)' /\ Free(PM, n, m - 1)' => Intact(n, stack[m].cells)'
                 /\ n # 0 /\ Runs(n, {"inline"})' => ~Runs(m, {"inline", "step"})'
      <3>1. CASE m = Len(stack)
        <4>1. Free(PM, n, Len(stack) - 1)' <=> Free(PM, n, Len(stack) - 1)
          BY CellBelow
        <4>2. Free(PM, n, m - 1)' <=> Free(PM, n, Len(stack) - 1)
          BY <4>1, <3>1, <1>0 DEF Free
        <4>3. Runs(m, PM)' /\ Free(PM, n, m - 1)' => Intact(n, stack[m].cells)'
          BY <4>2, <3>1, <1>0 DEF Intact
        <4> QED  BY <4>3, <3>1, <1>0
      <3>2. CASE m # Len(stack)
        <4>1. m \in n + 1 .. Len(stack) - 1  BY <3>2, <1>0
        <4> QED  BY <4>1, CellBelow
      <3> QED  BY <3>1, <3>2
    <2> QED  BY <2>1, <2>2
  <1>2. ASSUME NEW n \in 0 .. Len(stack')  PROVE n \in 0 .. Len(stack) - 1 \/ n = Len(stack')
    BY <1>0
  <1>3. \A m \in Len(stack') + 1 .. Len(stack') : FALSE  BY <1>0
  <1> QED  BY <1>1, <1>2, <1>3 DEF CellInv

\* Orderly steps keep the cells that jobs still need.
LEMMA CellStep ==
  ASSUME BaseInv, TypeOK', CellInv, [Next]_vars, [Orderly]_vars
  PROVE  CellInv'
  <1> USE MicrotasksAssumption DEF BaseInv
  <1> DEFINE L == Len(stack)
             PM == {"promise", "micro"}
  <1>0. Risk' => Risk  BY RiskLemma
  <1>1. CASE ~RunPass /\ ~RunJob /\ ~ReturnPromise /\ ~ReturnInline /\ ~ReturnStep /\ ~Throw
    BY <1>0, <1>1, QuietSame, CellKeep
  <1>2. ASSUME stack # <<>>
        PROVE  /\ L \in Nat /\ L >= 1 /\ Top = stack[L] /\ L # 0 /\ L \in 0 .. L /\ L \in 1 .. L
               /\ \A n \in 0 .. L - 1 : n \in 0 .. L /\ L \in n + 1 .. L
               /\ Free(PM, L, L)
    BY <1>2, TopLemma DEF Free
  <1>3. CASE RunPass
    <2>1. /\ stack # <<>> /\ SameBelow /\ Top.job = None /\ stack'[L].job = None /\ UNCHANGED kind
          /\ cells' = [cells EXCEPT !.promise = None, !.next = None]
      BY <1>3, RunPassFacts
    <2>2. Orderly \/ UNCHANGED vars  OBVIOUS
    <2>3. \A n \in 1 .. L : ~Runs(n, {"inline"}) /\ (Risk => ~Runs(n, {"promise"}))
      <3>1. ~UNCHANGED vars
        <4>1. done[Head(queue)] = "no" /\ Head(queue) \in Ids
          BY <1>3, RunPassFacts, HeadLemma, TailLemma DEF TypeOK
        <4> QED  BY <1>3, <4>1, RunPassFacts DEF vars, TypeOK
      <3> QED  BY <1>3, <2>2, <3>1 DEF Orderly
    <2>4. cells'.promise = None /\ Len(stack') = L  BY <2>1 DEF TypeOK, Cells, SameBelow
    <2>5. ASSUME NEW n \in 1 .. L, NEW ks  PROVE Runs(n, ks)' => Runs(n, ks)
      <3>1. n = L \/ stack'[n] = stack[n]  BY <2>1, <1>2 DEF SameBelow
      <3> QED  BY <3>1, <2>1 DEF Runs
    <2>6. ASSUME NEW n \in 0 .. L  PROVE Intact(n, cells)'
      <3>1. n # 0 => n \in 1 .. L  BY <2>1, <1>2
      <3> QED  BY <3>1, <2>3, <2>4, <2>5, <1>0 DEF Intact
    <2>7. ~Runs(L, PM)' /\ ~Runs(L, {"inline", "step"})'  BY <2>1, <2>4 DEF Runs
    <2>8. Intact(L, cells)'  BY <2>6, <2>1, <2>4, <1>2 DEF Intact
    <2> QED  BY <2>1, <2>6, <2>7, <2>8, <1>0, <1>2, CellTop
  <1>4. CASE RunJob
    <2> DEFINE i == Head(queue)
    <2>1. /\ stack # <<>> /\ SameBelow /\ Top.job = None /\ stack'[L].job = i /\ UNCHANGED kind
          /\ kind[i] \in {"promise", "micro", "inline", "step"} /\ queue # <<>>
          /\ stack'[L].cells = cells /\ cells' = EnterCells(i) /\ Len(stack') = L
      BY <1>4, RunJobFacts DEF tasks, SameBelow
    <2>2. i \in Ids /\ i # None  BY <2>1, TailLemma DEF TypeOK, Ids
    <2> HIDE DEF i
    <2>3. \A ks : Runs(L, ks)' <=> kind[i] \in ks  BY <2>1, <2>2 DEF Runs
    <2>4. Intact(L, cells)'
      BY <2>1, <2>2, <2>3, <1>2 DEF Intact, EnterCells, TypeOK, Cells
    <2>5. ASSUME NEW n \in 0 .. L - 1, Free(PM, n, L - 1)
          PROVE  Intact(n, cells)
      <3>1. ~Runs(L, PM)  BY <2>1, <1>2 DEF Runs
      <3>2. Free(PM, n, L)  BY <2>1, <2>5, <3>1, <1>0, CellBelow
      <3> QED  BY <2>1, <3>2, <1>2 DEF CellInv
    <2>6. CASE kind[i] \in PM
      <3>1. ASSUME NEW n \in 0 .. L - 1, Free(PM, n, L - 1)  PROVE Intact(n, stack[L].cells)'
        BY <2>1, <2>5, <3>1, <1>0, CellBelow DEF Intact
      <3>2. Runs(L, PM)' /\ ~Runs(L, {"inline", "step"})'  BY <2>3, <2>6
      <3> QED  BY <2>1, <2>4, <3>1, <3>2, <1>0, CellTop
    <2>7. CASE kind[i] \in {"inline", "step"}
      <3>1. cells'.promise = cells.promise
        BY <2>1, <2>7 DEF EnterCells, TypeOK, Cells
      <3>2. \A n \in 1 .. L : ~Runs(n, {"inline"})
        <4>1. ~UNCHANGED vars  BY <2>1, <2>2, <1>2 DEF vars
        <4> QED  BY <1>4, <2>7, <4>1 DEF Orderly, i
      <3>3. ASSUME NEW n \in 0 .. L - 1  PROVE n # 0 => ~Runs(n, {"inline"})'
        <4>1. n # 0 => n \in 1 .. L /\ n \in 1 .. L - 1  BY <2>1, <1>2
        <4> QED  BY <4>1, <2>1, <3>2 DEF Runs, SameBelow
      <3>4. ASSUME NEW n \in 0 .. L - 1, Free(PM, n, L - 1)  PROVE Intact(n, cells)'
        BY <2>1, <2>5, <3>1, <3>3, <3>4, <1>0, CellBelow DEF Intact
      <3>5. ~Runs(L, PM)'  BY <2>3, <2>7
      <3> QED  BY <2>1, <2>4, <3>3, <3>4, <3>5, <1>0, CellTop
    <2> QED  BY <2>1, <2>6, <2>7
  <1>5. ASSUME Returns \/ Throw
        PROVE  /\ Running /\ stack # <<>> /\ SameBelow /\ stack'[L].job = None /\ UNCHANGED kind
               /\ Len(stack') = L /\ Intact(L, cells)'
               /\ ~Runs(L, PM)' /\ ~Runs(L, {"inline", "step"})'
    <2>1. /\ Running /\ SameBelow /\ stack'[L].job = None /\ UNCHANGED kind
      BY <1>5, EndFacts
    <2>2. stack # <<>> /\ Len(stack') = L  BY <2>1 DEF Running, SameBelow
    <2> QED  BY <2>1, <2>2, <1>2 DEF Intact, Runs
  <1>6. CASE ReturnPromise
    <2>1. kind[Top.job] \in PM /\ cells' = Top.cells /\ Running  BY <1>6 DEF ReturnPromise
    <2>2. Returns  BY <1>6 DEF Returns
    <2>3. Runs(L, PM)  BY <2>1, <2>2, <1>2, <1>5 DEF Runs, Running
    <2>4. ASSUME NEW n \in 0 .. L - 1, Free(PM, n, L - 1)  PROVE Intact(n, cells)'
      <3>1. Intact(n, stack[L].cells)  BY <2>2, <2>3, <2>4, <1>2, <1>5 DEF CellInv
      <3>2. cells' = stack[L].cells  BY <2>1, <2>2, <1>2, <1>5
      <3> QED  BY <2>2, <3>1, <3>2, <1>0, <1>5, CellBelow DEF Intact
    <2> QED  BY <2>2, <2>4, <1>0, <1>5, CellTop
  <1>7. CASE ReturnInline \/ ReturnStep
    <2>1. /\ kind[Top.job] \in {"inline", "step"} /\ Running
          /\ cells' = [cells EXCEPT !.callback = None, !.next = None]
      BY <1>7 DEF ReturnInline, ReturnStep
    <2>2. Returns  BY <1>7 DEF Returns
    <2>3. Runs(L, {"inline", "step"}) /\ ~Runs(L, PM)
      BY <2>1, <2>2, <1>2, <1>5 DEF Runs, Running
    <2>4. cells'.promise = cells.promise  BY <2>1 DEF TypeOK, Cells
    <2>5. ASSUME NEW n \in 0 .. L - 1  PROVE n # 0 => ~Runs(n, {"inline"})'
      <3>1. n # 0 => ~Runs(n, {"inline"})  BY <2>2, <2>3, <1>2, <1>5 DEF CellInv
      <3>2. n # 0 => n \in 1 .. L - 1  BY <2>2, <1>2, <1>5
      <3> QED  BY <2>2, <3>1, <3>2, <1>5 DEF Runs, SameBelow
    <2>6. ASSUME NEW n \in 0 .. L - 1, Free(PM, n, L - 1)  PROVE Intact(n, cells)'
      <3>1. Free(PM, n, L)  BY <2>2, <2>3, <2>6, <1>0, <1>5, CellBelow
      <3>2. Intact(n, cells)  BY <2>2, <3>1, <1>2, <1>5 DEF CellInv
      <3> QED  BY <2>2, <2>4, <2>5, <3>2, <1>0, <1>5, CellBelow DEF Intact
    <2> QED  BY <2>2, <2>6, <1>0, <1>5, CellTop
  <1>8. CASE Throw
    <2>1. cells' = NoCells /\ Risk  BY <1>8 DEF Throw, Risk
    <2>2. /\ stack # <<>> /\ SameBelow /\ UNCHANGED kind /\ Len(stack') = L
      BY <1>8, <1>5
    <2>3. ~UNCHANGED vars
      BY <1>8, RunningLemma DEF Throw, vars, TypeOK
    <2>4. ASSUME NEW n \in 0 .. L - 1  PROVE Intact(n, cells)'
      <3>1. CASE L = 1
        BY <3>1, <2>1, <2>4 DEF Intact, NoCells
      <3>2. CASE L # 1
        <4>1. L > 1  BY <3>2, <2>2, <1>2
        <4>2. Cardinality(Thrown) + 1 = MaxThrows /\ \A m \in 1 .. L : ~Runs(m, {"inline", "step"})
          BY <1>8, <4>1, <2>3 DEF Orderly
        <4>3. ~Risk'  BY <1>8, <4>2, RiskLemma DEF Risk
        <4>4. n # 0 => n \in 1 .. L /\ n \in 1 .. L - 1  BY <2>2, <1>2
        <4>5. n # 0 => ~Runs(n, {"inline"})'
          BY <4>2, <4>4, <2>2 DEF Runs, SameBelow
        <4> QED  BY <4>3, <4>5 DEF Intact
      <3> QED  BY <3>1, <3>2
    <2> QED  BY <1>8, <2>4, <1>0, <1>5, CellTop
  <1> QED  BY <1>1, <1>3, <1>4, <1>6, <1>7, <1>8

\* The same for the traps.
LEMMA TrapTop ==
  ASSUME TypeOK, TrapInv, stack # <<>>, SameBelow, UNCHANGED kind,
         TrapOf(Len(stack), trap)',
         \A n \in 0 .. Len(stack) - 1 :
           /\ Free({"inline", "step"}, n, Len(stack) - 1) /\ ~Runs(Len(stack), {"inline", "step"})'
                => TrapOf(n, trap)'
           /\ Free({"inline", "step"}, n, Len(stack) - 1) /\ Runs(Len(stack), {"inline", "step"})'
                => TrapOf(n, stack[Len(stack)].trap)'
  PROVE  TrapInv'
  <1> DEFINE IS == {"inline", "step"}
  <1>0. Len(stack) \in Nat /\ Len(stack) >= 1 /\ Len(stack') = Len(stack)  BY TopLemma DEF SameBelow
  <1>1. \A k \in 1 .. Len(stack) - 1 : stack'[k] = stack[k] /\ k \in 1 .. Len(stack)
    BY <1>0 DEF SameBelow
  <1>2. \A k \in 1 .. Len(stack) - 1 : \A ks : Runs(k, ks)' <=> Runs(k, ks)
    BY <1>1 DEF Runs
  <1>3. ASSUME NEW n \in 0 .. Len(stack) - 1
        PROVE  /\ Free(IS, n, Len(stack))' => TrapOf(n, trap)'
               /\ \A m \in n + 1 .. Len(stack') :
                    Runs(m, IS)' /\ Free(IS, n, m - 1)' => TrapOf(n, stack[m].trap)'
    <2>1. \A m \in n .. Len(stack) - 1 : Free(IS, n, m)' <=> Free(IS, n, m)
      <3> TAKE m \in n .. Len(stack) - 1
      <3>1. \A k \in n + 1 .. m : k \in 1 .. Len(stack) - 1  BY <1>0
      <3> QED  BY <3>1, <1>2 DEF Free
    <2>2. Free(IS, n, Len(stack))' => TrapOf(n, trap)'
      <3>1. Len(stack) - 1 \in n .. Len(stack) - 1 /\ Len(stack) \in n + 1 .. Len(stack)
            /\ \A k \in n + 1 .. Len(stack) - 1 : k \in n + 1 .. Len(stack)
        BY <1>0
      <3>2. Free(IS, n, Len(stack))' =>
              Free(IS, n, Len(stack) - 1) /\ ~Runs(Len(stack), IS)'
        BY <1>0, <3>1, <2>1 DEF Free
      <3> QED  BY <3>2
    <2>3. ASSUME NEW m \in n + 1 .. Len(stack'), Runs(m, IS)', Free(IS, n, m - 1)'
          PROVE  TrapOf(n, stack[m].trap)'
      <3>0. m - 1 \in n .. Len(stack) - 1 /\ m \in n + 1 .. Len(stack) /\ n \in 0 .. Len(stack)
        BY <1>0
      <3>1. Free(IS, n, m - 1)  BY <3>0, <2>1, <2>3
      <3>2. CASE m = Len(stack)
        BY <3>1, <3>2, <2>3, <1>0 DEF TrapOf
      <3>3. CASE m # Len(stack)
        <4>1. m \in 1 .. Len(stack) - 1 /\ (n # 0 => n \in 1 .. Len(stack) - 1)  BY <3>3, <1>0
        <4>2. TrapOf(n, stack[m].trap)  BY <3>0, <3>1, <4>1, <2>3, <1>2 DEF TrapInv
        <4> QED  BY <4>1, <4>2, <1>1, <1>2 DEF TrapOf
      <3> QED  BY <3>2, <3>3
    <2> QED  BY <2>2, <2>3
  <1>4. ASSUME NEW n \in 0 .. Len(stack')  PROVE n \in 0 .. Len(stack) - 1 \/ n = Len(stack')
    BY <1>0
  <1>5. \A m \in Len(stack') + 1 .. Len(stack') : FALSE  BY <1>0
  <1> QED  BY <1>3, <1>4, <1>5 DEF TrapInv

\* Orderly steps keep the traps that jobs still need.
LEMMA TrapStep ==
  ASSUME BaseInv, TypeOK', TrapInv, [Next]_vars, [Orderly]_vars
  PROVE  TrapInv'
  <1> USE MicrotasksAssumption DEF BaseInv
  <1> DEFINE L == Len(stack)
             IS == {"inline", "step"}
  <1>1. CASE ~RunPass /\ ~RunJob /\ ~ReturnPromise /\ ~ReturnInline /\ ~ReturnStep /\ ~Throw
    BY <1>1, QuietSame, TrapKeep
  <1>2. ASSUME stack # <<>>
        PROVE  /\ L \in Nat /\ L >= 1 /\ Top = stack[L] /\ L # 0 /\ L \in 0 .. L /\ L \in 1 .. L
               /\ \A n \in 0 .. L - 1 : n \in 0 .. L /\ L \in n + 1 .. L
    BY <1>2, TopLemma
  <1>3. CASE RunPass
    BY <1>3, RunPassFacts, SameTop, TrapKeep
  <1>4. CASE RunJob
    <2> DEFINE i == Head(queue)
    <2>1. /\ stack # <<>> /\ SameBelow /\ Top.job = None /\ stack'[L].job = i /\ UNCHANGED kind
          /\ kind[i] \in {"promise", "micro", "inline", "step"} /\ queue # <<>>
          /\ stack'[L].trap = trap /\ trap' = EnterTrap(i) /\ Len(stack') = L
      BY <1>4, RunJobFacts DEF tasks, SameBelow
    <2>2. i \in Ids /\ i # None  BY <2>1, TailLemma DEF TypeOK, Ids
    <2> HIDE DEF i
    <2>3. CASE kind[i] \notin IS
      <3>1. trap' = trap  BY <2>1, <2>3 DEF EnterTrap
      <3> QED  BY <2>1, <2>3, <3>1, SameTop, TrapKeep
    <2>4. CASE kind[i] \in IS
      <3>1. \A ks : Runs(L, ks)' <=> kind[i] \in ks  BY <2>1, <2>2 DEF Runs
      <3>2. TrapOf(L, trap)'
        BY <2>1, <2>4, <3>1, <1>2 DEF TrapOf, EnterTrap
      <3>3. ASSUME NEW n \in 0 .. L - 1, Free(IS, n, L - 1)  PROVE TrapOf(n, stack[L].trap)'
        <4>1. \A k \in n + 1 .. L : k = L \/ k \in n + 1 .. L - 1  BY <2>1, <1>2
        <4>2. Free(IS, n, L)  BY <2>1, <4>1, <3>3, <1>2 DEF Free, Runs
        <4>3. TrapOf(n, trap)  BY <2>1, <4>2, <1>2 DEF TrapInv
        <4>4. n # 0 => n \in 1 .. L - 1  BY <2>1, <1>2
        <4> QED  BY <2>1, <4>3, <4>4 DEF TrapOf, Runs, SameBelow
      <3> QED  BY <2>1, <2>4, <3>1, <3>2, <3>3, TrapTop
    <2> QED  BY <2>3, <2>4
  <1>5. ASSUME Returns \/ Throw
        PROVE  /\ Running /\ stack # <<>> /\ SameBelow /\ stack'[L].job = None /\ UNCHANGED kind
               /\ Len(stack') = L /\ TrapOf(L, trap)' /\ ~Runs(L, IS)'
    <2>1. /\ Running /\ SameBelow /\ stack'[L].job = None /\ UNCHANGED kind
      BY <1>5, EndFacts
    <2>2. stack # <<>> /\ Len(stack') = L  BY <2>1 DEF Running, SameBelow
    <2> QED  BY <2>1, <2>2, <1>2 DEF TrapOf, Runs
  <1>6. CASE ReturnPromise
    <2>1. kind[Top.job] \notin IS /\ trap' = trap  BY <1>6 DEF ReturnPromise
    <2>2. Returns  BY <1>6 DEF Returns
    <2> QED  BY <2>1, <2>2, <1>5, SameTop, TrapKeep
  <1>7. CASE ReturnInline \/ ReturnStep
    <2>1. /\ kind[Top.job] \in IS /\ Running /\ trap' = Top.trap
      BY <1>7 DEF ReturnInline, ReturnStep
    <2>2. Returns  BY <1>7 DEF Returns
    <2>3. Runs(L, IS)  BY <2>1, <2>2, <1>2, <1>5 DEF Runs, Running
    <2>4. ASSUME NEW n \in 0 .. L - 1, Free(IS, n, L - 1)  PROVE TrapOf(n, trap)'
      <3>1. TrapOf(n, stack[L].trap)  BY <2>2, <2>3, <2>4, <1>2, <1>5 DEF TrapInv
      <3>2. trap' = stack[L].trap  BY <2>1, <2>2, <1>2, <1>5
      <3>3. n # 0 => n \in 1 .. L - 1  BY <2>2, <1>2, <1>5
      <3> QED  BY <2>2, <3>1, <3>2, <3>3, <1>5 DEF TrapOf, Runs, SameBelow
    <2> QED  BY <2>2, <2>4, <1>5, TrapTop
  <1>8. CASE Throw
    <2>1. trap' = NoTrap  BY <1>8 DEF Throw
    <2>2. /\ stack # <<>> /\ SameBelow /\ UNCHANGED kind /\ Len(stack') = L
      BY <1>8, <1>5
    <2>3. ~UNCHANGED vars
      BY <1>8, RunningLemma DEF Throw, vars, TypeOK
    <2>4. ASSUME NEW n \in 0 .. L - 1  PROVE TrapOf(n, trap)'
      <3>1. CASE L = 1
        BY <3>1, <2>1, <2>4 DEF TrapOf
      <3>2. CASE L # 1
        <4>1. L > 1  BY <3>2, <2>2, <1>2
        <4>2. \A m \in 1 .. L : ~Runs(m, IS)
          BY <1>8, <4>1, <2>3 DEF Orderly
        <4>3. n # 0 => n \in 1 .. L /\ n \in 1 .. L - 1  BY <2>2, <1>2
        <4> QED  BY <4>2, <4>3, <2>1, <2>2 DEF TrapOf, Runs, SameBelow
      <3> QED  BY <3>1, <3>2
    <2> QED  BY <1>8, <2>4, <1>5, TrapTop
  <1> QED  BY <1>1, <1>3, <1>4, <1>6, <1>7, <1>8

-----------------------------------------------------------------------------
(* A chained promise follows its job. *)

\* Job j ends, and its own chained promise, if it has one, is settled.
LEMMA OwnEnd ==
  ASSUME TypeOK, PlaceInv, ChainInv, UNCHANGED kind,
         NEW j \in Created, done[j] = "no",
         NEW how \in {"returned", "threw"}, done' = [done EXCEPT ![j] = how],
         uncaught' = IF how = "threw" /\ kind[j] \notin HasNext THEN uncaught \cup {j} ELSE uncaught,
         Settle(IF kind[j] \in HasNext THEN j ELSE None,
                IF how = "threw" THEN "rejected" ELSE "fulfilled", j)
  PROVE  ChainInv'
  <1>0. j \in Ids /\ Created' = Created /\ j # None /\ None \notin Ids
    BY MicrotasksAssumption DEF Created, Ids
  <1>1. CASE kind[j] \in HasNext
    <2>1. settled[j] = [how |-> "pending", by |-> None] /\ j \notin uncaught
      BY <1>1 DEF ChainInv, ChainFollowsJob, Own
    <2>2. settled' = [settled EXCEPT ![j] =
                        [how |-> IF how = "threw" THEN "rejected" ELSE "fulfilled", by |-> j]]
      BY <1>0, <1>1, <2>1 DEF Settle
    <2>3. uncaught' = uncaught  BY <1>1
    <2>4. ASSUME NEW i \in Created, i # j
          PROVE  settled'[i] = settled[i] /\ Own(i)' = Own(i) /\ (done'[i] = done[i])
      BY <1>0, <2>2, <2>4 DEF Own, TypeOK, Created
    <2>5. settled'[j] = Own(j)'
      <3>1. done'[j] = how  BY <1>0 DEF TypeOK
      <3>2. settled'[j] = [how |-> IF how = "threw" THEN "rejected" ELSE "fulfilled", by |-> j]
        BY <1>0, <2>2 DEF TypeOK
      <3>3. CASE how = "threw"  BY <3>1, <3>2, <3>3 DEF Own
      <3>4. CASE how = "returned"  BY <3>1, <3>2, <3>4 DEF Own
      <3> QED  BY <3>3, <3>4
    <2>6. ChainFollowsJob'
      BY <1>0, <1>1, <2>1, <2>3, <2>4, <2>5 DEF ChainInv, ChainFollowsJob
    <2> QED  BY <1>0, <2>2, <2>6 DEF ChainInv, TypeOK, Ids
  <1>2. CASE kind[j] \notin HasNext
    <2>1. settled' = settled  BY <1>2 DEF Settle
    <2>2. j \notin uncaught  BY <1>2 DEF ChainInv, ChainFollowsJob
    <2>3. ASSUME NEW i \in Created, i # j
          PROVE  Own(i)' = Own(i) /\ (done'[i] = done[i]) /\ (i \in uncaught' <=> i \in uncaught)
      BY <1>0, <2>3 DEF Own, TypeOK, Created
    <2>4. j \in uncaught' <=> done'[j] = "threw"
      BY <1>0, <1>2, <2>2 DEF TypeOK
    <2>5. ChainFollowsJob'
      BY <1>0, <1>2, <2>1, <2>3, <2>4 DEF ChainInv, ChainFollowsJob
    <2> QED  BY <1>0, <2>1, <2>5 DEF ChainInv, Ids
  <1> QED  BY <1>1, <1>2

\* Every job that ends settles its own chained promise and no other.
LEMMA ChainStep ==
  ASSUME BaseInv, CellInv, TrapInv, ChainInv, [Next]_vars, [Orderly]_vars
  PROVE  ChainInv'
  <1> USE MicrotasksAssumption DEF BaseInv
  <1> DEFINE L == Len(stack)
             j == Top.job
  <1>0. None \notin Ids /\ Created \subseteq Ids  BY DEF Ids, Created
  <1>1. ASSUME NEW k \in Kinds, Queue(k)  PROVE ChainInv'
    <2>1. PICK c \in 0 .. MaxTasks - 1 :
            Created = 1 .. c /\ Cardinality(Created) + 1 = c + 1 /\ c + 1 \in Ids \ Created
      BY <1>1, NextTask DEF Queue
    <2> DEFINE i == c + 1
    <2>2. kind' = [kind EXCEPT ![i] = k] /\ UNCHANGED <<settled, done, uncaught>>
      BY <1>1, <2>1 DEF Queue
    <2>3. i \in Ids \ Created  BY <2>1
    <2> HIDE DEF i
    <2>4. k \in AllKinds /\ k # None  BY DEF AllKinds
    <2>5. Created' = Created \cup {i}
      BY <2>2, <2>3, <2>4 DEF Created, TypeOK
    <2>6. done[i] = "no" /\ i \notin uncaught /\ settled[i] = [how |-> "pending", by |-> None]
      BY <2>3 DEF PlaceInv, ChainInv
    <2>7. \A n \in Ids : Own(n)' = Own(n)  BY <2>2 DEF Own
    <2>8. settled[i] = Own(i)  BY <2>6 DEF Own
    <2>9. \A n \in Created : kind'[n] = kind[n]  BY <2>2, <2>3, <1>0 DEF TypeOK
    <2>10. ChainFollowsJob'
      BY <1>0, <2>2, <2>3, <2>5, <2>6, <2>7, <2>8, <2>9 DEF ChainInv, ChainFollowsJob
    <2> QED  BY <2>2, <2>5, <2>10 DEF ChainInv, Ids
  <1>2. ASSUME UNCHANGED tasks  PROVE ChainInv'
    BY <1>2 DEF tasks, ChainInv, ChainFollowsJob, Own, Created
  <1>3. CASE RunPass
    <2> DEFINE i == Head(queue)
    <2>1. /\ queue # <<>> /\ UNCHANGED <<kind, uncaught>> /\ kind[i] = "pass"
          /\ Settle(i, "fulfilled", i) /\ done' = [done EXCEPT ![i] = "returned"]
      BY <1>3, RunPassFacts
    <2>2. i \in Created /\ done[i] = "no"  BY <2>1, HeadLemma
    <2> HIDE DEF i
    <2>3. kind[i] \in HasNext  BY <2>1 DEF HasNext
    <2> QED  BY <2>1, <2>2, <2>3, OwnEnd
  <1>4. ASSUME Returns \/ Throw
        PROVE  /\ Running /\ UNCHANGED kind /\ stack # <<>> /\ j \in Created /\ j \in Ids /\ done[j] = "no"
               /\ L \in Nat /\ L >= 1 /\ Top = stack[L] /\ L \in 0 .. L /\ L # 0 /\ 0 \in 0 .. L
               /\ Free({"promise", "micro"}, L, L) /\ Free({"inline", "step"}, L, L)
               /\ kind[j] \in AllKinds \ {"pass"} /\ \A ks : Runs(L, ks) <=> kind[j] \in ks
    <2>1. Running /\ UNCHANGED kind  BY <1>4, EndFacts
    <2>2. stack # <<>> /\ j # None  BY <2>1 DEF Running
    <2> QED  BY <2>1, <2>2, RunningLemma, TopLemma DEF Free, Runs
  <1>5. ASSUME NEW how \in {"returned", "threw"}, Returns \/ Throw,
               done' = [done EXCEPT ![j] = how],
               uncaught' = IF how = "threw" /\ kind[j] \notin HasNext THEN uncaught \cup {j} ELSE uncaught,
               Settle(IF kind[j] \in HasNext THEN j ELSE None,
                      IF how = "threw" THEN "rejected" ELSE "fulfilled", j)
        PROVE  ChainInv'
    <2> HIDE DEF j
    <2> QED  BY <1>4, <1>5, OwnEnd
  <1>6. CASE ReturnPromise
    <2>1. Returns  BY <1>6 DEF Returns
    <2>2. /\ kind[j] \in {"promise", "micro"} /\ UNCHANGED uncaught /\ done' = [done EXCEPT ![j] = "returned"]
          /\ Settle(IF kind[j] = "promise" THEN j ELSE None, "fulfilled", j)
      BY <1>6 DEF ReturnPromise, Ends
    <2>3. (kind[j] = "promise") <=> (kind[j] \in HasNext)  BY <2>2 DEF HasNext
    <2> HIDE DEF j
    <2> QED  BY <2>1, <2>2, <2>3, <1>5
  <1>7. CASE ReturnInline
    <2>1. Returns  BY <1>7 DEF Returns
    <2>2. /\ kind[j] = "inline" /\ UNCHANGED uncaught /\ done' = [done EXCEPT ![j] = "returned"]
          /\ Settle(cells.next, "fulfilled", j)
      BY <1>7 DEF ReturnInline, Ends
    <2>3. cells.next = j
      BY <2>1, <2>2, <1>4 DEF CellInv, Intact
    <2>4. kind[j] \in HasNext  BY <2>2 DEF HasNext
    <2> HIDE DEF j
    <2> QED  BY <2>1, <2>2, <2>3, <2>4, <1>5
  <1>8. CASE ReturnStep
    <2>1. Returns  BY <1>8 DEF Returns
    <2>2. /\ kind[j] = "step" /\ UNCHANGED uncaught /\ done' = [done EXCEPT ![j] = "returned"]
          /\ Settle(StepTarget, "fulfilled", j)
      BY <1>8 DEF ReturnStep, Ends
    <2>3. trap = [next |-> j, step |-> j]
      BY <2>1, <2>2, <1>4 DEF TrapInv, TrapOf
    <2>4. StepTarget = j
      BY <2>1, <2>3, <1>0, <1>4 DEF StepTarget
    <2>5. kind[j] \in HasNext  BY <2>2 DEF HasNext
    <2> HIDE DEF j
    <2> QED  BY <2>1, <2>2, <2>4, <2>5, <1>5
  <1>9. CASE ReturnTick
    <2>1. Returns  BY <1>9 DEF Returns
    <2>2. /\ kind[j] = "tick" /\ UNCHANGED <<settled, uncaught>> /\ done' = [done EXCEPT ![j] = "returned"]
      BY <1>9 DEF ReturnTick, Ends
    <2>3. kind[j] \notin HasNext  BY <2>2 DEF HasNext
    <2>4. Settle(None, "fulfilled", j)  BY <2>2 DEF Settle
    <2> HIDE DEF j
    <2> QED  BY <2>1, <2>2, <2>3, <2>4, <1>5
  <1>10. CASE Throw
    <2>1. /\ Risk /\ done' = [done EXCEPT ![j] = "threw"] /\ Settle(Victim, "rejected", j)
          /\ uncaught' = IF Victim = None THEN uncaught \cup {j} ELSE uncaught
      BY <1>10 DEF Throw, Risk
    <2>2. ~UNCHANGED vars
      BY <1>10, RunningLemma DEF Throw, vars, TypeOK
    <2>3. Victim = IF kind[j] \in HasNext THEN j ELSE None
      <3>1. kind[j] = "promise" => cells.promise = j
        BY <1>4, <1>10, <2>1 DEF CellInv, Intact
      <3>2. kind[j] = "micro" => cells.promise = None
        BY <1>4, <1>10, <2>1 DEF CellInv, Intact
      <3>0. /\ L \in Nat /\ L >= 1 /\ L \in 0 .. L /\ L # 0 /\ 0 \in 0 .. L
            /\ Free({"inline", "step"}, L, L) /\ \A ks : Runs(L, ks) <=> kind[j] \in ks
            /\ Top = stack[L]
        BY <1>4, <1>10
      <3>3. kind[j] \in {"inline", "step"} => trap.next = j
        <4>1. TrapOf(L, trap)  BY <3>0 DEF TrapInv
        <4>2. CASE kind[j] = "inline"
          BY <3>0, <4>1, <4>2 DEF TrapOf
        <4>3. CASE kind[j] = "step"
          BY <3>0, <4>1, <4>3 DEF TrapOf
        <4> QED  BY <4>2, <4>3
      <3>4. Free({"inline", "step"}, 0, L) => trap.next = None
        <4>1. Free({"inline", "step"}, 0, L) => TrapOf(0, trap)  BY <3>0 DEF TrapInv
        <4> QED  BY <4>1 DEF TrapOf, NoTrap
      <3>5. Free({"promise", "micro"}, 0, L) => cells.promise = None
        BY <1>4, <1>10, <2>1 DEF CellInv, Intact
      <3>6. CASE L = 1
        <4>1. \A ks : Free(ks, 0, L) <=> kind[j] \notin ks
          BY <3>6, <1>4, <1>10 DEF Free
        <4>2. kind[j] \in AllKinds \ {"pass"} /\ j # None  BY <1>0, <1>4, <1>10
        <4> HIDE DEF j, L
        <4> QED  BY <4>1, <4>2, <3>1, <3>2, <3>3, <3>4, <3>5 DEF Victim, HasNext, AllKinds
      <3>7. CASE L # 1
        <4>0. L \in Nat /\ L >= 1  BY <3>0
        <4>1. L > 1
          <5> HIDE DEF L
          <5> QED  BY <3>7, <4>0
        <4>2. Runs(L, {"promise", "micro"}) /\ \A n \in 1 .. L : ~Runs(n, {"inline", "step"})
          BY <1>10, <2>2, <4>1 DEF Orderly
        <4>3. Free({"inline", "step"}, 0, L)  BY <4>2 DEF Free
        <4>4. kind[j] \in {"promise", "micro"} /\ j # None  BY <4>2, <1>0, <1>4, <1>10
        <4> HIDE DEF j
        <4> QED  BY <4>3, <4>4, <3>1, <3>2, <3>4 DEF Victim, HasNext
      <3> QED  BY <3>6, <3>7
    <2>4. j # None  BY <1>0, <1>4, <1>10
    <2> HIDE DEF j
    <2> QED  BY <2>1, <2>3, <2>4, <1>5, <1>10
  <1>11. ASSUME NEW mode \in {"ticks", "jobs"}, RunMicrotasks(mode)  PROVE ChainInv'
    BY <1>2, <1>11, PushFacts
  <1>12. CASE Loop \/ TicksDrained \/ JobsDrained \/ RunTick \/ RunJob \/ UNCHANGED vars
    <2>1. UNCHANGED tasks
      BY <1>12 DEF Loop, TicksDrained, JobsDrained, RunTick, RunJob, vars, tasks, queues
    <2> QED  BY <2>1, <1>2
  <1> QED  BY <1>1, <1>3, <1>6, <1>7, <1>8, <1>9, <1>10, <1>11, <1>12, Steps DEF Returns

\* The inductive invariant of orderly behaviours, on top of BaseInv.
ChainsInv == CellInv /\ TrapInv /\ ChainInv

\* It holds at the start.
LEMMA ChainsInit == Init => ChainsInv
  <1> USE MicrotasksAssumption
  <1> SUFFICES ASSUME Init PROVE ChainsInv
    OBVIOUS
  <1>1. stack = <<>> /\ Len(stack) = 0 /\ Created = {} /\ cells = NoCells /\ trap = NoTrap
    BY DEF Init, Created
  <1>2. \A n \in 0 .. Len(stack) : n = 0 /\ \A m \in n + 1 .. Len(stack) : FALSE
    BY <1>1
  <1>3. CellInv  BY <1>1, <1>2 DEF CellInv, Intact, NoCells
  <1>4. TrapInv  BY <1>1, <1>2 DEF TrapInv, TrapOf
  <1>5. ChainInv  BY <1>1 DEF Init, ChainInv, ChainFollowsJob
  <1> QED  BY <1>3, <1>4, <1>5 DEF ChainsInv

\* As long as no step damages a cell that an outer job needs, a chained promise
\* is settled by its own job, when that ends and the way it ends, and an
\* exception is reported as uncaught exactly when its job has no chained promise
\* (the arms of run_microtasks and its trap), however runs nest.
THEOREM ChainsFollowJobs == Spec /\ [][Orderly]_vars => []ChainFollowsJob
  <1>1. BaseInv /\ BaseInv' /\ ChainsInv /\ [Next]_vars /\ [Orderly]_vars => ChainsInv'
    BY CellStep, TrapStep, ChainStep DEF BaseInv, ChainsInv
  <1>2. ChainsInv => ChainFollowsJob  BY DEF ChainsInv, ChainInv
  <1> QED  BY <1>1, <1>2, ChainsInit, RunnerInvariant, PTL DEF Spec

\* Programs every step of which is orderly.
Regular ==
  \/ MaxDepth <= 1
  \/ MaxThrows = 0 /\ "inline" \notin Kinds
  \/ MaxThrows <= 1 /\ Kinds \subseteq {"promise", "micro"}

\* The program queues tasks of its kinds only.
KindInv == \A i \in Created : kind[i] \in Kinds

\* So it is in every program that does not nest runs, in every program without
\* inline jobs in which nothing throws, and in every one of promise jobs and
\* queueMicrotask callbacks of which at most one throws.
THEOREM ChainsAreKept == ASSUME Regular PROVE Spec => []ChainFollowsJob
  <1> USE MicrotasksAssumption
  <1>1. Init => KindInv  BY DEF Init, KindInv, Created
  <1>2. BaseInv /\ KindInv /\ [Next]_vars => KindInv'
    <2> SUFFICES ASSUME BaseInv, KindInv, [Next]_vars  PROVE KindInv'
      OBVIOUS
    <2>1. ASSUME NEW k \in Kinds, Queue(k)  PROVE KindInv'
      <3>1. \E i \in Ids : kind' = [kind EXCEPT ![i] = k]
        BY <2>1, NextTask DEF Queue, BaseInv
      <3> QED  BY <3>1 DEF KindInv, Created, BaseInv, TypeOK
    <2>2. CASE UNCHANGED kind
      BY <2>2 DEF KindInv, Created
    <2>3. (\E k \in Kinds : Queue(k)) \/ UNCHANGED kind
      BY DEF Next, Runner, Returns, Throw, RunMicrotasks, Loop, TicksDrained, JobsDrained, RunTick,
             RunPass, RunJob, ReturnPromise, ReturnInline, ReturnStep, ReturnTick, queues, vars
    <2> QED  BY <2>1, <2>2, <2>3
  <1>3. BaseInv /\ KindInv /\ [Next]_vars => [Orderly]_vars
    <2> SUFFICES ASSUME BaseInv, KindInv  PROVE Orderly
      OBVIOUS
    <2> USE DEF BaseInv
    <2>1. \A n \in 1 .. Len(stack) : \A ks : Runs(n, ks) => \E k \in Kinds : k \in ks
      BY DEF StackInv, KindInv, Runs
    <2>2. IsFiniteSet(Thrown) /\ Cardinality(Thrown) \in Nat
      <3>1. IsFiniteSet(Ids)  BY FS_Interval DEF Ids
      <3> QED  BY <3>1, FS_Subset, FS_CardinalityType DEF Thrown
    <2>3. Len(stack) \in Nat /\ Len(stack) <= MaxDepth  BY DEF TypeOK
    <2>4. At("jobs") /\ Len(stack) <= 1 => \A n \in 1 .. Len(stack) : \A ks : ~Runs(n, ks)
      BY <2>3, TopLemma DEF At, Runs
    <2>5. CASE MaxDepth <= 1
      BY <2>3, <2>4, <2>5 DEF Orderly, RunPass, RunJob
    <2>6. CASE MaxThrows = 0 /\ "inline" \notin Kinds
      <3>1. ~Throw /\ ~Risk  BY <2>2, <2>6 DEF Throw, Risk
      <3>2. \A n \in 1 .. Len(stack) : ~Runs(n, {"inline"})  BY <2>1, <2>6
      <3> QED  BY <3>1, <3>2 DEF Orderly
    <2>7. CASE MaxThrows <= 1 /\ Kinds \subseteq {"promise", "micro"}
      <3>1. Throw => Cardinality(Thrown) + 1 = MaxThrows /\ Runs(Len(stack), {"promise", "micro"})
        <4>1. Throw => Cardinality(Thrown) + 1 = MaxThrows  BY <2>2, <2>7 DEF Throw
        <4>2. Throw => Running  BY DEF Throw
        <4>3. Running => Runs(Len(stack), {"promise", "micro"})
          <5>1. Running => Top.job \in Created /\ Top = stack[Len(stack)] /\ Top.job # None
            BY RunningLemma, TopLemma DEF Running
          <5> QED  BY <5>1, <2>7 DEF Runs, KindInv
        <4> QED  BY <4>1, <4>2, <4>3
      <3>2. \A n \in 1 .. Len(stack) : ~Runs(n, {"inline"}) /\ ~Runs(n, {"inline", "step"})
        BY <2>1, <2>7
      <3>3. ~RunPass
        <4>1. RunPass => queue # <<>> /\ kind[Head(queue)] = "pass"  BY DEF RunPass
        <4> QED  BY <4>1, HeadLemma, <2>7 DEF KindInv
      <3> QED  BY <3>1, <3>2, <3>3 DEF Orderly
    <2> QED  BY <2>5, <2>6, <2>7 DEF Regular
  <1> QED  BY <1>1, <1>2, <1>3, RunnerInvariant, ChainsFollowJobs, PTL DEF Spec

-----------------------------------------------------------------------------
(* A tick waits for the jobs of its creator. *)

\* Gentle steps keep the callback cell that an outer job needs.
LEMMA CallbackStep ==
  ASSUME BaseInv, BaseInv', CallbackInv, [Next]_vars, [Gentle]_vars
  PROVE  CallbackInv'
  <1> USE MicrotasksAssumption DEF BaseInv
  <1> DEFINE L == Len(stack)
             PM == {"promise", "micro"}
  <1>0. Len(stack) \in Nat /\ Len(stack') \in Nat  BY DEF TypeOK
  <1>1. ASSUME SameFor(Callbacks), cells'.callback = cells.callback  PROVE CallbackInv'
    <2>1. ASSUME NEW n \in 1 .. Len(stack'), Runs(n, Callbacks)'
          PROVE  n \in 1 .. L /\ Runs(n, Callbacks) /\ stack'[n] = stack[n]
      BY <1>1, <2>1 DEF SameFor, Runs
    <2>2. ASSUME NEW n \in 1 .. Len(stack'), Runs(n, Callbacks)',
                 NEW m \in n + 1 .. Len(stack'), Runs(m, PM)'
          PROVE  stack'[m].cells.callback # None
      <3>1. m \in 1 .. Len(stack') /\ Runs(m, Callbacks)'  BY <1>0, <2>2 DEF Runs, Callbacks
      <3>2. m \in 1 .. L /\ stack'[m] = stack[m] /\ Runs(m, PM)
        BY <1>1, <2>2, <3>1 DEF SameFor, Runs
      <3>3. n \in 1 .. L /\ Runs(n, Callbacks) /\ m \in n + 1 .. L  BY <1>0, <2>1, <2>2, <3>2
      <3> QED  BY <3>2, <3>3 DEF CallbackInv
    <2> QED  BY <1>1, <2>1, <2>2 DEF CallbackInv
  <1>2. CASE ~RunPass /\ ~RunJob /\ ~ReturnPromise /\ ~ReturnInline /\ ~ReturnStep /\ ~Throw
    BY <1>1, <1>2, QuietSame DEF Callbacks
  <1>3. CASE RunPass
    <2>1. SameFor(Callbacks)  BY <1>3, RunPassFacts, SameTop
    <2>2. cells'.callback = cells.callback  BY <1>3, RunPassFacts DEF TypeOK, Cells
    <2> QED  BY <2>1, <2>2, <1>1
  <1>4. ASSUME stack # <<>>, SameBelow, UNCHANGED kind
        PROVE  /\ L >= 1 /\ Len(stack') = L /\ Top = stack[L]
               /\ \A n \in 1 .. L : n = L \/ n \in 1 .. L - 1
               /\ \A n \in 1 .. L - 1 : n \in 1 .. L /\ stack'[n] = stack[n] /\ L \in n + 1 .. L
               /\ \A n \in 1 .. L - 1 : \A ks : Runs(n, ks)' <=> Runs(n, ks)
    BY <1>4, <1>0, TopLemma DEF SameBelow, Runs
  <1>5. CASE RunJob
    <2> DEFINE i == Head(queue)
    <2>1. /\ stack # <<>> /\ SameBelow /\ Top.job = None /\ stack'[L].job = i /\ UNCHANGED kind
          /\ kind[i] \in {"promise", "micro", "inline", "step"} /\ queue # <<>>
          /\ stack'[L].cells = cells /\ cells' = EnterCells(i)
      BY <1>5, RunJobFacts DEF tasks
    <2>2. i \in Ids /\ i # None  BY <2>1, TailLemma DEF TypeOK, Ids
    <2> HIDE DEF i
    <2>3. cells'.callback # None
      BY <2>1, <2>2 DEF EnterCells, TypeOK, Cells
    <2>4. ASSUME NEW n \in 1 .. L, Runs(n, Callbacks)', NEW m \in n + 1 .. L, Runs(m, PM)'
          PROVE  stack'[m].cells.callback # None
      <3>1. n \in 1 .. L - 1  BY <1>0
      <3>2. Runs(n, Callbacks)  BY <3>1, <2>1, <2>4, <1>4
      <3>3. CASE m = L
        BY <3>1, <3>2, <3>3, <2>1, <1>4 DEF CallbackInv
      <3>4. CASE m # L
        <4>1. m \in 1 .. L - 1  BY <3>4, <1>0
        <4> QED  BY <3>1, <3>2, <4>1, <2>1, <2>4, <1>4 DEF CallbackInv
      <3> QED  BY <3>3, <3>4
    <2> QED  BY <2>1, <2>3, <2>4, <1>4 DEF CallbackInv
  <1>6. ASSUME Returns \/ Throw
        PROVE  /\ stack # <<>> /\ SameBelow /\ UNCHANGED kind /\ stack'[L].job = None
               /\ Running /\ \A ks : ~Runs(L, ks)'
    <2>1. Running /\ SameBelow /\ UNCHANGED kind /\ stack'[L].job = None  BY <1>6, EndFacts
    <2> QED  BY <2>1 DEF Running, Runs, SameBelow
  <1>7. ASSUME Returns \/ Throw,
               \A n \in 1 .. L - 1 : Runs(n, Callbacks) => cells'.callback # None
        PROVE  CallbackInv'
    <2>0. /\ L >= 1 /\ Len(stack') = L /\ \A n \in 1 .. L : n = L \/ n \in 1 .. L - 1
          /\ \A n \in 1 .. L - 1 : n \in 1 .. L /\ stack'[n] = stack[n]
          /\ \A n \in 1 .. L - 1 : \A ks : Runs(n, ks)' <=> Runs(n, ks)
          /\ \A ks : ~Runs(L, ks)'
      BY <1>4, <1>6, <1>7
    <2>1. ASSUME NEW n \in 1 .. L, Runs(n, Callbacks)'
          PROVE  n \in 1 .. L - 1 /\ Runs(n, Callbacks) /\ cells'.callback # None
      <3>1. n # L  BY <2>0, <2>1
      <3> QED  BY <3>1, <2>0, <2>1, <1>7
    <2>2. ASSUME NEW n \in 1 .. L, Runs(n, Callbacks)', NEW m \in n + 1 .. L, Runs(m, PM)'
          PROVE  stack'[m].cells.callback # None
      <3>1. m \in 1 .. L /\ m # L  BY <1>0, <2>0, <2>2
      <3>2. m \in 1 .. L - 1  BY <3>1, <2>0
      <3> QED  BY <3>2, <2>0, <2>1, <2>2 DEF CallbackInv
    <2> QED  BY <2>0, <2>1, <2>2 DEF CallbackInv
  <1>8. CASE ReturnPromise
    <2>1. Returns /\ kind[Top.job] \in PM /\ cells' = Top.cells  BY <1>8 DEF Returns, ReturnPromise
    <2>2. Runs(L, PM) /\ Top = stack[L]  BY <2>1, <1>4, <1>6 DEF Runs, Running
    <2> QED  BY <2>1, <2>2, <1>4, <1>6, <1>7 DEF CallbackInv
  <1>9. CASE ReturnInline \/ ReturnStep \/ Throw
    <2>1. Returns \/ Throw  BY <1>9 DEF Returns
    <2>2. ~UNCHANGED vars
      <3>1. Running /\ stack'[L].job = None  BY <2>1, <1>6
      <3> QED  BY <3>1, TopLemma DEF Running, vars
    <2>3. \A n \in 1 .. L - 1 : Runs(n, {"tick"})  BY <1>9, <2>2 DEF Gentle
    <2>4. \A n \in 1 .. L - 1 : ~Runs(n, Callbacks)  BY <2>3 DEF Runs, Callbacks
    <2> QED  BY <2>1, <2>4, <1>7
  <1> QED  BY <1>2, <1>3, <1>5, <1>8, <1>9

\* A run that has begun its ticks has drained the jobs of every outer job.
LEMMA TickStep ==
  ASSUME BaseInv, BaseInv', CallbackInv, TickInv, [Next]_vars, [Gentle]_vars
  PROVE  TickInv'
  <1> USE MicrotasksAssumption DEF BaseInv
  <1> DEFINE L == Len(stack)
             \* What TickInv asks of a run r of depth m.
             Ok(r) == /\ r.defer => r.mode = "ticks"
                      /\ r.pc \in {"ticks", "last"} => r.mode = "ticks" /\ ~r.defer
             Far(m) == \A n \in 1 .. m - 1 : Runs(n, Callbacks)' =>
                         \A k \in 1 .. Len(queue') : creator'[queue'[k]] # stack'[n].job
  <1>0. /\ L \in Nat /\ Len(stack') \in Nat /\ queue \in Seq(Ids) /\ Len(queue) \in Nat
        /\ (stack # <<>> => L \in 1 .. L /\ L >= 1 /\ Top = stack[L] /\ Top \in Run)
    BY TopLemma DEF TypeOK
  <1>1. \A m \in 1 .. L :
          /\ Ok(stack[m])
          /\ stack[m].mode = "ticks" /\ ~stack[m].defer =>
               \A n \in 1 .. m - 1 : Runs(n, Callbacks) =>
                 \A k \in 1 .. Len(queue) : creator[queue[k]] # stack[n].job
    BY DEF TickInv
  <1>2. ASSUME \A m \in 1 .. Len(stack') :
                 Ok(stack'[m]) /\ (stack'[m].mode = "ticks" /\ ~stack'[m].defer => Far(m))
        PROVE  TickInv'
    BY <1>2 DEF TickInv
  <1>3. ASSUME NEW k \in Kinds, Queue(k)  PROVE TickInv'
    <2>1. PICK c \in 0 .. MaxTasks - 1 :
            Created = 1 .. c /\ Cardinality(Created) + 1 = c + 1 /\ c + 1 \in Ids \ Created
      BY <1>3, NextTask DEF Queue
    <2> DEFINE i == c + 1
    <2>2. /\ kind' = [kind EXCEPT ![i] = k] /\ creator' = [creator EXCEPT ![i] = Current]
          /\ queue' \in {queue, Append(queue, i)} /\ UNCHANGED stack /\ (stack = <<>> \/ Running)
      BY <1>3, <2>1 DEF Queue
    <2>3. i \in Ids \ Created  BY <2>1
    <2> HIDE DEF i
    <2>4. /\ Len(Append(queue, i)) = Len(queue) + 1 /\ Append(queue, i)[Len(queue) + 1] = i
          /\ \A n \in 1 .. Len(queue) : Append(queue, i)[n] = queue[n]
      BY <1>0, <2>3, AppendLemma
    <2>5. \A n \in 1 .. Len(queue') :
            \/ queue'[n] = i
            \/ \E l \in 1 .. Len(queue) : queue'[n] = queue[l]
      <3>1. CASE queue' = queue  BY <3>1
      <3>2. CASE queue' = Append(queue, i)
        <4>1. \A n \in 1 .. Len(queue') : n = Len(queue) + 1 \/ n \in 1 .. Len(queue)
          BY <3>2, <2>4, <1>0
        <4> QED  BY <4>1, <3>2, <2>4
      <3> QED  BY <3>1, <3>2, <2>2
    <2>6. \A l \in 1 .. Len(queue) : creator'[queue[l]] = creator[queue[l]]
      BY <2>2, <2>3, <1>0 DEF PlaceInv, Listed, TypeOK
    <2>7. creator'[i] = Current  BY <2>2, <2>3 DEF TypeOK
    <2>8. ASSUME NEW n \in 1 .. L, n < L  PROVE stack[n].job # Current /\ stack[n].job # None
      <3>1. stack # <<>> /\ Running /\ Current = stack[L].job /\ L \in 1 .. L
        BY <2>2, <2>8, <1>0 DEF Current, Running
      <3>2. stack[n].job # None  BY <2>8 DEF StackInv
      <3>3. \A m \in 1 .. L : stack[m].job = stack[n].job => m = n  BY <3>2 DEF StackInv
      <3> QED  BY <3>1, <3>2, <3>3, <2>8, <1>0
    <2>9. \A n \in 1 .. L : stack[n].job # None => kind'[stack[n].job] = kind[stack[n].job]
      BY <2>2, <2>3 DEF StackInv, Created, TypeOK
    <2>10. ASSUME NEW m \in 1 .. L, stack[m].mode = "ticks" /\ ~stack[m].defer,
                  NEW n \in 1 .. m - 1, Runs(n, Callbacks)', NEW l \in 1 .. Len(queue')
           PROVE  creator'[queue'[l]] # stack'[n].job
      <3>1. n \in 1 .. L /\ n < L /\ stack'[n] = stack[n] /\ Runs(n, Callbacks)
        <4>1. n \in 1 .. L /\ n < L  BY <1>0
        <4> QED  BY <4>1, <2>2, <2>9, <2>10 DEF Runs
      <3>2. CASE queue'[l] = i
        BY <3>1, <3>2, <2>7, <2>8
      <3>3. CASE queue'[l] # i
        <4>1. PICK o \in 1 .. Len(queue) : queue'[l] = queue[o]  BY <3>3, <2>5
        <4> QED  BY <4>1, <3>1, <2>6, <2>10, <1>1
      <3> QED  BY <3>2, <3>3
    <2> QED  BY <2>2, <2>10, <1>1, <1>2
  <1>4. ASSUME NEW mode \in {"ticks", "jobs"}, RunMicrotasks(mode)  PROVE TickInv'
    <2> DEFINE r == stack'[L + 1]
    <2>1. /\ Len(stack') = L + 1 /\ r.pc = "top" /\ r.mode = mode
          /\ r.defer = Defer(mode, stack # <<>>, cells)
          /\ \A n \in 1 .. L : stack'[n] = stack[n] 
          /\ UNCHANGED <<kind, creator, queue>>
      BY <1>4, PushFacts DEF tasks
    <2>2. \A n \in 1 .. L : \A ks : Runs(n, ks)' <=> Runs(n, ks)  BY <2>1 DEF Runs
    <2>3. Ok(r)  BY <2>1 DEF Defer
    <2>4. ASSUME r.mode = "ticks" /\ ~r.defer, NEW n \in 1 .. L  PROVE ~Runs(n, Callbacks)
      <3>1. stack # <<>>  BY <1>0
      <3>2. cells.callback = None  BY <3>1, <2>1, <2>4 DEF Defer
      <3> QED  BY <3>2 DEF CallbackInv
    <2> HIDE DEF r
    <2>5. r.mode = "ticks" /\ ~r.defer => Far(L + 1)
      <3>1. \A n \in 1 .. L + 1 - 1 : n \in 1 .. L  BY <1>0
      <3> QED  BY <3>1, <2>2, <2>4
    <2>6. ASSUME NEW m \in 1 .. L
          PROVE  Ok(stack'[m]) /\ (stack'[m].mode = "ticks" /\ ~stack'[m].defer => Far(m))
      <3>1. \A n \in 1 .. m - 1 : n \in 1 .. L  BY <1>0
      <3> QED  BY <3>1, <2>1, <2>2, <1>1
    <2>7. \A m \in 1 .. Len(stack') : m = L + 1 \/ m \in 1 .. L  BY <2>1, <1>0
    <2> QED  BY <2>3, <2>5, <2>6, <2>7, <1>2 DEF r
  <1>5. CASE JobsDrained /\ ~(Top.defer \/ Top.ran)
    <2>1. /\ Len(stack') = L - 1 /\ UNCHANGED <<kind, creator, queue>>
          /\ \A n \in 1 .. L - 1 : stack'[n] = stack[n]
      BY <1>5, PopFacts DEF tasks
    <2>2. \A m \in 1 .. Len(stack') : m \in 1 .. L - 1 /\ m \in 1 .. L
      BY <2>1, <1>0
    <2>3. ASSUME NEW m \in 1 .. Len(stack')
          PROVE  Ok(stack'[m]) /\ (stack'[m].mode = "ticks" /\ ~stack'[m].defer => Far(m))
      <3>1. \A n \in 1 .. m - 1 : n \in 1 .. L - 1 /\ n \in 1 .. L  BY <1>0, <2>2
      <3> QED  BY <3>1, <2>1, <2>2, <1>1 DEF Runs
    <2> QED  BY <2>3, <1>2
  <1>6. ASSUME NEW r \in Run, stack # <<>>, SetTop(r), UNCHANGED <<kind, creator>>,
               \A k \in 1 .. Len(queue') : \E l \in 1 .. Len(queue) : queue'[k] = queue[l],
               Ok(r),
               r.mode = "ticks" /\ ~r.defer => \/ Top.mode = "ticks" /\ ~Top.defer
                                               \/ Len(queue') = 0
                                               \/ \A n \in 1 .. L - 1 : ~Runs(n, Callbacks)
        PROVE  TickInv'
    <2> HIDE DEF Ok
    <2>1. Len(stack') = L /\ stack'[L] = r /\ \A n \in 1 .. L - 1 : stack'[n] = stack[n]
      BY <1>6, SetTopLemma
    <2>2. \A n \in 1 .. L - 1 : \A ks : Runs(n, ks)' <=> Runs(n, ks)  BY <2>1, <1>6 DEF Runs
    <2>3. ASSUME NEW m \in 1 .. L,
                 \/ stack[m].mode = "ticks" /\ ~stack[m].defer
                 \/ Len(queue') = 0
                 \/ \A n \in 1 .. L - 1 : ~Runs(n, Callbacks)
          PROVE  Far(m)
      <3>1. \A n \in 1 .. m - 1 : n \in 1 .. L - 1  BY <1>0
      <3>2. CASE stack[m].mode = "ticks" /\ ~stack[m].defer
        <4> SUFFICES ASSUME NEW n \in 1 .. m - 1, Runs(n, Callbacks)', NEW k \in 1 .. Len(queue')
                     PROVE  creator'[queue'[k]] # stack'[n].job
          OBVIOUS
        <4>1. PICK l \in 1 .. Len(queue) : queue'[k] = queue[l]  BY <1>6
        <4>2. Runs(n, Callbacks) /\ stack'[n] = stack[n]  BY <3>1, <2>1, <2>2
        <4>3. creator[queue[l]] # stack[n].job  BY <3>2, <4>2, <1>1
        <4> QED  BY <4>1, <4>2, <4>3, <1>6
      <3>3. CASE Len(queue') = 0
        BY <3>3
      <3>4. CASE \A n \in 1 .. L - 1 : ~Runs(n, Callbacks)
        BY <3>1, <3>4, <2>2
      <3> QED  BY <2>3, <3>2, <3>3, <3>4
    <2>4. ASSUME NEW m \in 1 .. Len(stack')
          PROVE  Ok(stack'[m]) /\ (stack'[m].mode = "ticks" /\ ~stack'[m].defer => Far(m))
      <3>1. CASE m = L
        <4>1. stack'[m] = r /\ m \in 1 .. L /\ stack[m] = Top  BY <3>1, <2>1, <1>0, <1>6
        <4> HIDE DEF Far
        <4> QED  BY <4>1, <2>3, <1>6
      <3>2. CASE m # L
        <4>1. m \in 1 .. L - 1 /\ m \in 1 .. L  BY <3>2, <2>1, <1>0
        <4> HIDE DEF Far
        <4> QED  BY <4>1, <2>1, <2>3, <1>1
      <3> QED  BY <3>1, <3>2
    <2> HIDE DEF Far
    <2> QED  BY <2>4, <1>2 DEF Far, Ok
  <1> HIDE DEF Far
  <1>7. CASE Loop
    <2> DEFINE r == [Top EXCEPT !.ran = FALSE,
                       !.pc = IF Top.mode = "ticks" /\ ~Top.defer THEN "ticks" ELSE "jobs"]
    <2>1. stack # <<>> /\ SetTop(r) /\ UNCHANGED <<kind, creator, queue>>
      BY <1>7 DEF Loop, At, queues
    <2>2. /\ r \in Run /\ Ok(r) /\ r.mode = Top.mode /\ r.defer = Top.defer
      BY <2>1, <1>0, <1>1 DEF Run
    <2> HIDE DEF r
    <2> QED  BY <2>1, <2>2, <1>6
  <1>8. CASE TicksDrained
    <2> DEFINE r == [Top EXCEPT !.pc = IF Top.pc = "ticks" THEN "jobs" ELSE "top"]
    <2>1. stack # <<>> /\ SetTop(r) /\ UNCHANGED <<kind, creator, queue>>
      BY <1>8 DEF TicksDrained, At, queues
    <2>2. /\ r \in Run /\ Ok(r) /\ r.mode = Top.mode /\ r.defer = Top.defer
      BY <2>1, <1>0, <1>1 DEF Run
    <2> HIDE DEF r
    <2> QED  BY <2>1, <2>2, <1>6
  <1>9. CASE JobsDrained /\ (Top.defer \/ Top.ran)
    <2>1. stack # <<>> /\ queue' = <<>> /\ UNCHANGED <<kind, creator, queue>>
      BY <1>9 DEF JobsDrained, At, queues
    <2>2. Len(queue') = 0 /\ Ok(Top)  BY <2>1, <1>0, <1>1
    <2>3. CASE Top.defer
      <3> DEFINE r == [Top EXCEPT !.defer = FALSE, !.pc = "last"]
      <3>1. SetTop(r)  BY <1>9, <2>3 DEF JobsDrained
      <3>2. r \in Run /\ Ok(r)  BY <2>1, <2>2, <2>3, <1>0 DEF Run
      <3> HIDE DEF r
      <3> QED  BY <2>1, <2>2, <3>1, <3>2, <1>6
    <2>4. CASE ~Top.defer
      <3> DEFINE r == [Top EXCEPT !.pc = "top"]
      <3>1. SetTop(r)  BY <1>9, <2>4 DEF JobsDrained
      <3>2. r \in Run /\ Ok(r)  BY <2>1, <2>2, <2>4, <1>0 DEF Run
      <3> HIDE DEF r
      <3> QED  BY <2>1, <2>2, <3>1, <3>2, <1>6
    <2> QED  BY <2>3, <2>4
  <1>10. CASE RunTick
    <2> DEFINE r == [Top EXCEPT !.job = Head(ticks), !.ran = TRUE]
    <2>1. stack # <<>> /\ ticks # <<>> /\ SetTop(r) /\ UNCHANGED <<kind, creator, queue>>
      BY <1>10 DEF RunTick, At
    <2>2. Head(ticks) \in Task  BY <2>1, TailLemma DEF TypeOK, Task
    <2>3. r \in Run /\ Ok(r) /\ r.mode = Top.mode /\ r.defer = Top.defer
      BY <2>1, <2>2, <1>0, <1>1 DEF Run
    <2> HIDE DEF r
    <2> QED  BY <2>1, <2>3, <1>6
  <1>11. ASSUME queue # <<>>, queue' = Tail(queue)
         PROVE  \A k \in 1 .. Len(queue') : \E l \in 1 .. Len(queue) : queue'[k] = queue[l]
    <2>1. /\ Len(queue') = Len(queue) - 1
          /\ \A n \in 1 .. Len(queue) - 1 : queue'[n] = queue[n + 1] /\ n + 1 \in 1 .. Len(queue)
      BY <1>0, <1>11, TailLemma
    <2> QED  BY <2>1
  <1>12. CASE RunPass
    <2> DEFINE r == [Top EXCEPT !.ran = TRUE]
    <2>1. stack # <<>> /\ queue # <<>> /\ SetTop(r) /\ UNCHANGED <<kind, creator>> /\ queue' = Tail(queue)
      BY <1>12 DEF RunPass, At
    <2>2. r \in Run /\ Ok(r) /\ r.mode = Top.mode /\ r.defer = Top.defer
      BY <2>1, <1>0, <1>1 DEF Run
    <2> HIDE DEF r
    <2> QED  BY <2>1, <2>2, <1>6, <1>11
  <1>13. CASE RunJob
    <2> DEFINE r == [Top EXCEPT !.job = Head(queue), !.ran = TRUE, !.cells = cells, !.trap = trap]
    <2>1. stack # <<>> /\ queue # <<>> /\ SetTop(r) /\ UNCHANGED <<kind, creator>> /\ queue' = Tail(queue)
      BY <1>13 DEF RunJob, At
    <2>2. Head(queue) \in Task  BY <2>1, TailLemma DEF TypeOK, Task
    <2>3. r \in Run /\ Ok(r) /\ r.mode = Top.mode /\ r.defer = Top.defer
      BY <2>1, <2>2, <1>0, <1>1 DEF Run, TypeOK
    <2> HIDE DEF r
    <2> QED  BY <2>1, <2>3, <1>6, <1>11
  <1>14. CASE Returns
    <2> DEFINE r == [Top EXCEPT !.job = None, !.cells = NoCells, !.trap = NoTrap]
    <2>1. stack # <<>> /\ SetTop(r) /\ UNCHANGED <<kind, creator, queue>>
      BY <1>14 DEF Returns, ReturnPromise, ReturnInline, ReturnStep, ReturnTick, Ends, Running, queues
    <2>2. r \in Run /\ Ok(r) /\ r.mode = Top.mode /\ r.defer = Top.defer
      BY <2>1, <1>0, <1>1 DEF Run, NoCells, NoTrap, Cells, Trap, Task
    <2> HIDE DEF r
    <2> QED  BY <2>1, <2>2, <1>6
  <1>15. CASE Throw
    <2> DEFINE r == [Top EXCEPT !.pc = "top", !.job = None, !.cells = NoCells, !.trap = NoTrap,
                                !.defer = Defer(Top.mode, Top.inner, NoCells)]
    <2>1. stack # <<>> /\ SetTop(r) /\ UNCHANGED <<kind, creator, queue>>
      BY <1>15 DEF Throw, Running, queues
    <2>2. Defer(Top.mode, Top.inner, NoCells) \in BOOLEAN
          /\ (Defer(Top.mode, Top.inner, NoCells) => Top.mode = "ticks")
      BY <2>1, <1>0 DEF Defer, Run, TypeOK
    <2>3. r \in Run /\ Ok(r)
      BY <2>1, <2>2, <1>0 DEF Run, NoCells, NoTrap, Cells, Trap, Task
    <2>4. ~UNCHANGED vars
      BY <1>15, RunningLemma DEF Throw, vars, TypeOK
    <2>5. \A n \in 1 .. L - 1 : ~Runs(n, Callbacks)
      BY <1>15, <2>4 DEF Gentle, Runs, Callbacks
    <2> HIDE DEF r
    <2> QED  BY <2>1, <2>3, <2>5, <1>6
  <1>16. CASE UNCHANGED vars
    BY <1>16 DEF vars, TickInv, Runs
  <1> QED  BY <1>3, <1>4, <1>5, <1>7, <1>8, <1>9, <1>10, <1>12, <1>13, <1>14, <1>15, <1>16, Steps

\* As long as no step nulls the callback cell of an outer job, a tick queued by a
\* job that is still running does not overtake the jobs that job has queued
\* (esm_defer_tick_drain).
THEOREM TicksKeepTheirTurn == Spec /\ [][Gentle]_vars => TicksWait
  <1> DEFINE A == RunTick =>
                    LET j == creator[Head(ticks)] IN
                    j \in OnStack /\ kind[j] # "tick" =>
                      \A m \in Range(queue) : creator[m] # j
  <1>1. Init => CallbackInv /\ TickInv
    <2> SUFFICES ASSUME Init PROVE CallbackInv /\ TickInv
      OBVIOUS
    <2>1. \A n \in 1 .. Len(stack) : FALSE  BY DEF Init
    <2> QED  BY <2>1 DEF CallbackInv, TickInv
  <1>2. BaseInv /\ BaseInv' /\ CallbackInv /\ TickInv /\ [Next]_vars /\ [Gentle]_vars
          => CallbackInv' /\ TickInv'
    BY CallbackStep, TickStep
  <1>3. BaseInv /\ TickInv => [A]_vars
    <2> DEFINE j == creator[Head(ticks)]
    <2> SUFFICES ASSUME BaseInv, TickInv, RunTick, j \in OnStack, kind[j] # "tick",
                        NEW m \in Range(queue), creator[m] = j
                 PROVE  FALSE
      OBVIOUS
    <2> USE DEF BaseInv
    <2>1. /\ stack # <<>> /\ Top.job = None /\ Top.pc \in {"ticks", "last"}
      BY DEF RunTick, At
    <2>2. Len(stack) \in Nat /\ Len(stack) \in 1 .. Len(stack) /\ Top = stack[Len(stack)]
      BY <2>1, TopLemma
    <2>3. Top.mode = "ticks" /\ ~Top.defer  BY <2>1, <2>2 DEF TickInv
    <2>4. PICK n \in 1 .. Len(stack) : stack[n].job = j /\ j # None
      <3>1. DOMAIN stack = 1 .. Len(stack)  BY DEF TypeOK
      <3> HIDE DEF j
      <3> QED  BY <3>1 DEF OnStack
    <2>5. n \in 1 .. Len(stack) - 1
      <3>1. n # Len(stack)  BY <2>1, <2>2, <2>4
      <3> QED  BY <3>1, <2>2
    <2>6. Runs(n, Callbacks)
      <3>1. j \in Created /\ kind[j] # "pass"  BY <2>4 DEF StackInv
      <3> QED  BY <3>1, <2>4 DEF Runs, Callbacks, Created, TypeOK, AllKinds
    <2>7. \E k \in 1 .. Len(queue) : m = queue[k]
      BY DEF Range, TypeOK
    <2> QED  BY <2>2, <2>3, <2>4, <2>5, <2>6, <2>7 DEF TickInv
  <1> QED  BY <1>1, <1>2, <1>3, RunnerInvariant, PTL DEF Spec, TicksWait

-----------------------------------------------------------------------------
(* Rejections.tla, for any promises, cap, throws and moves. *)

\* No element is there twice.
Distinct(s) == \A m, n \in 1 .. Len(s) : s[m] = s[n] => m = n

\* The elements of a list.
Elems(s) == {s[n] : n \in 1 .. Len(s)}

(* Vec::retain leaves elements of the array, each once if it was there once: the
   positions that are kept are numbered by what they are greater than. *)
LEMMA SelectLemma ==
    ASSUME NEW E, NEW q \in Seq(E), NEW K \in SUBSET (1 .. Len(q))
    PROVE  /\ Select(q, K) \in Seq(E) /\ Len(Select(q, K)) <= Len(q)
           /\ \A n \in K : \E k \in 1 .. Len(Select(q, K)) : Select(q, K)[k] = q[n]
           /\ \A k \in 1 .. Len(Select(q, K)) : \E n \in K : Select(q, K)[k] = q[n]
           /\ Distinct(q) => Distinct(Select(q, K))
           /\ K # {} => \E n \in K : \A m \in K : n <= m
  <1> DEFINE under(n) == {m \in K : m < n}
             place == [n \in K |-> 1 + Cardinality(under(n))]
             c == Cardinality(K)
             nth(k) == CHOOSE n \in K : 1 + Cardinality({m \in K : m < n}) = k
             z == Select(q, K)
  <1>0. Cardinality(K) <= Len(q)
    <2>0. Len(q) \in Nat
      OBVIOUS
    <2>1. IsFiniteSet(1 .. Len(q)) /\ Cardinality(1 .. Len(q)) = IF 1 > Len(q) THEN 0 ELSE Len(q) - 1 + 1
      BY <2>0, FS_Interval
    <2>2. K \in SUBSET (1 .. Len(q))
      OBVIOUS
    <2>3. Cardinality(K) <= Cardinality(1 .. Len(q))
      BY <2>1, <2>2, FS_Subset
    <2> QED  BY <2>0, <2>1, <2>3
  <1>1. IsFiniteSet(K) /\ c \in Nat /\ K \subseteq Nat
    <2>1. IsFiniteSet(1 .. Len(q))
      BY FS_Interval
    <2>2. IsFiniteSet(K)
      BY <2>1, FS_Subset
    <2> QED  BY <2>2, FS_CardinalityType
  <1>2. ASSUME NEW n \in K
        PROVE  IsFiniteSet(under(n)) /\ Cardinality(under(n)) \in Nat /\ Cardinality(under(n)) < c
    <2>1. under(n) \in SUBSET K /\ n \notin under(n)
      BY <1>1
    <2> HIDE DEF under
    <2>2. IsFiniteSet(under(n)) /\ Cardinality(under(n)) <= c /\ (c = Cardinality(under(n)) => K = under(n))
      BY <1>1, <2>1, FS_Subset
    <2>3. Cardinality(under(n)) \in Nat
      BY <2>2, FS_CardinalityType
    <2> QED  BY <1>1, <2>1, <2>2, <2>3
  <1>3. ASSUME NEW m \in K, NEW n \in K, m < n PROVE place[m] < place[n]
    <2>1. under(m) \subseteq under(n) /\ m \in under(n) /\ m \notin under(m)
      <3>1. m \in Nat /\ n \in Nat /\ \A k \in K : k \in Nat
        BY <1>1
      <3>2. \A k \in K : k < m => k < n
        BY <1>3, <3>1
      <3>3. ~(m < m)
        BY <3>1
      <3> QED  BY <1>3, <3>2, <3>3
    <2> HIDE DEF under
    <2>2. /\ Cardinality(under(m)) <= Cardinality(under(n))
          /\ (Cardinality(under(n)) = Cardinality(under(m)) => under(n) = under(m))
      BY <2>1, <1>2, FS_Subset
    <2> QED  BY <1>2, <2>1, <2>2
  <1>4. place \in [K -> 1 .. c]
    <2> HIDE DEF under, c
    <2>1. \A n \in K : 1 + Cardinality(under(n)) \in 1 .. c
      BY <1>1, <1>2
    <2> QED  BY <2>1
  <1>5. c = Cardinality(K) /\ \A n \in K : place[n] = 1 + Cardinality({m \in K : m < n})
    OBVIOUS
  <1> HIDE DEF place
  <1>6. \A m, n \in K : place[m] = place[n] => m = n
    <2> SUFFICES ASSUME NEW m \in K, NEW n \in K, m < n \/ n < m PROVE place[m] # place[n]
      BY <1>1
    <2>1. place[m] \in Nat /\ place[n] \in Nat
      BY <1>1, <1>4
    <2> QED  BY <1>3, <2>1
  <1>7. \A k \in 1 .. c : \E n \in K : place[n] = k
    <2>1. place \in Injection(K, 1 .. c)
      BY <1>4, <1>6 DEF Injection, IsInjective
    <2>2. IsFiniteSet(1 .. c) /\ Cardinality(1 .. c) = c
      BY <1>1, FS_Interval
    <2>3. place \in Surjection(K, 1 .. c)
      BY <1>1, <2>1, <2>2, FS_Injection
    <2> QED  BY <2>3 DEF Surjection
  <1>8. \A k \in 1 .. c : nth(k) \in K /\ place[nth(k)] = k
    <2> TAKE k \in 1 .. c
    <2>1. \E n \in K : 1 + Cardinality({m \in K : m < n}) = k
      BY <1>5, <1>7
    <2>2. nth(k) \in K /\ 1 + Cardinality({m \in K : m < nth(k)}) = k
      BY <2>1
    <2> HIDE DEF nth
    <2> QED  BY <1>5, <2>2
  <1>9. z = [k \in 1 .. Cardinality(K) |-> q[nth(k)]]
    BY Zenon DEF Select, Arrange
  <1> HIDE DEF z, nth, c
  <1>10. \A k \in 1 .. c : q[nth(k)] \in E
    BY <1>8, ElementOfSeq
  <1>11. z \in Seq(E) /\ Len(z) = c /\ \A k \in 1 .. c : z[k] = q[nth(k)]
    BY <1>1, <1>5, <1>9, <1>10
  <1>12. Distinct(q) => Distinct(z)
    <2> SUFFICES ASSUME Distinct(q), NEW k \in 1 .. c, NEW l \in 1 .. c, q[nth(k)] = q[nth(l)] PROVE k = l
      BY <1>11 DEF Distinct
    <2>1. nth(k) = nth(l)
      BY <1>8 DEF Distinct
    <2> QED  BY <1>8, <2>1
  <1>13. \A n \in K : \E k \in 1 .. c : z[k] = q[n]
    <2> TAKE n \in K
    <2>1. place[n] \in 1 .. c /\ place[nth(place[n])] = place[n] /\ nth(place[n]) \in K
      BY <1>4, <1>8
    <2>2. nth(place[n]) = n
      BY <1>6, <2>1
    <2> QED  BY <1>11, <2>1, <2>2
  <1>14. c <= Len(q)
    BY <1>0 DEF c
  <1>15. ASSUME K # {} PROVE \E n \in K : \A m \in K : n <= m
    <2>1. c # 0
      BY <1>1, <1>15, FS_EmptySet DEF c
    <2>2. 1 \in 1 .. c
      BY <1>1, <2>1 DEF c
    <2>3. PICK n \in K : place[n] = 1
      BY <1>7, <2>2
    <2>4. Cardinality(under(n)) = 0
      <3>1. place[n] = 1 + Cardinality(under(n))
        BY DEF place
      <3>2. Cardinality(under(n)) \in Nat
        BY <1>2
      <3> QED  BY <2>3, <3>1, <3>2
    <2>5. under(n) = {}
      BY <1>2, <2>4, FS_EmptySet
    <2>6. \A m \in K : ~(m < n)
      BY <2>5
    <2> QED  BY <1>1, <2>6
  <1> QED  BY <1>8, <1>11, <1>12, <1>13, <1>14, <1>15 DEF z


\* What the operations on the lists do to their elements.
LEMMA WithoutLemma ==
    ASSUME NEW s \in Seq(Promises), Distinct(s), NEW p, NEW z, z = Forget(s, p)
    PROVE  z \in Seq(Promises) /\ Distinct(z) /\ Elems(z) = Elems(s) \ {p} /\ Len(z) <= Len(s)
  <1> DEFINE K == {n \in DOMAIN s : ~(s[n] = p)}
  <1>1. z = Select(s, K)
    BY DEF Forget, Without
  <1>2. K \in SUBSET (1 .. Len(s)) /\ \A n \in 1 .. Len(s) : n \in K <=> s[n] # p
    OBVIOUS
  <1> HIDE DEF K
  <1>3. /\ z \in Seq(Promises) /\ Len(z) <= Len(s) /\ Distinct(z)
        /\ \A n \in K : \E k \in 1 .. Len(z) : z[k] = s[n]
        /\ \A k \in 1 .. Len(z) : \E n \in K : z[k] = s[n]
    <2>1. K \in SUBSET (1 .. Len(s))
      BY <1>2
    <2>2. /\ Select(s, K) \in Seq(Promises) /\ Len(Select(s, K)) <= Len(s) /\ Distinct(Select(s, K))
          /\ \A n \in K : \E k \in 1 .. Len(Select(s, K)) : Select(s, K)[k] = s[n]
          /\ \A k \in 1 .. Len(Select(s, K)) : \E n \in K : Select(s, K)[k] = s[n]
      BY <2>1, SelectLemma
    <2> QED  BY <1>1, <2>2
  <1>4. Elems(z) = Elems(s) \ {p}
    <2>1. ASSUME NEW k \in 1 .. Len(z) PROVE z[k] \in Elems(s) \ {p}
      <3>1. PICK n \in K : z[k] = s[n]
        BY <1>3
      <3> QED  BY <1>2, <3>1 DEF Elems
    <2>2. ASSUME NEW n \in 1 .. Len(s), s[n] # p PROVE s[n] \in Elems(z)
      <3>1. PICK k \in 1 .. Len(z) : z[k] = s[n]
        BY <1>2, <1>3, <2>2
      <3> QED  BY <3>1 DEF Elems
    <2> QED  BY <2>1, <2>2 DEF Elems
  <1> QED  BY <1>3, <1>4

LEMMA AddLemma ==
    ASSUME NEW s \in Seq(Promises), Distinct(s), NEW p \in Promises, p \notin Elems(s)
    PROVE  /\ Append(s, p) \in Seq(Promises) /\ Distinct(Append(s, p)) /\ Len(Append(s, p)) = Len(s) + 1
           /\ Elems(Append(s, p)) = Elems(s) \cup {p}
  <1>1. PICK z : z = Append(s, p)
    OBVIOUS
  <1>2. /\ z \in Seq(Promises) /\ Len(z) = Len(s) + 1 /\ Len(s) \in Nat /\ z[Len(s) + 1] = p
        /\ \A n \in 1 .. Len(s) : z[n] = s[n]
    BY <1>1
  <1>3. \A n \in 1 .. Len(z) : n \in 1 .. Len(s) \/ n = Len(s) + 1
    BY <1>2
  <1>4. 1 .. Len(s) \subseteq 1 .. Len(z) /\ Len(s) + 1 \in 1 .. Len(z)
    BY <1>2
  <1>5. Elems(z) = Elems(s) \cup {p}
    BY <1>2, <1>3, <1>4 DEF Elems
  <1>6. Distinct(z)
    BY <1>2, <1>3 DEF Distinct, Elems
  <1> QED  BY <1>1, <1>2, <1>5, <1>6

\* What follows position k.
LEMMA CutLemma ==
    ASSUME NEW s \in Seq(Promises), Distinct(s), NEW k \in 1 .. Len(s)
    PROVE  LET z == SubSeq(s, k + 1, Len(s)) IN
           /\ z \in Seq(Promises) /\ Distinct(z) /\ Len(z) = Len(s) - k
           /\ Elems(z) \subseteq Elems(s) /\ s[k] \in Elems(s) /\ s[k] \notin Elems(z)
           /\ \A n \in 1 .. Len(s) : n > k => s[n] \in Elems(z)
  <1>1. PICK z : z = SubSeq(s, k + 1, Len(s))
    OBVIOUS
  <1>2. k \in Nat /\ Len(s) \in Nat /\ k >= 1 /\ k <= Len(s)
    OBVIOUS
  <1>3. /\ z \in Seq(Promises) /\ Len(z) = Len(s) - k
        /\ \A i \in 1 .. Len(z) : z[i] = s[i + k]
    <2>1. \A i \in k + 1 .. Len(s) : s[i] \in Promises
      BY <1>2
    <2>2. k + 1 \in Int /\ Len(s) \in Int
      BY <1>2
    <2>3. /\ z \in Seq(Promises) /\ Len(z) = IF k + 1 <= Len(s) THEN Len(s) - (k + 1) + 1 ELSE 0
          /\ \A i \in 1 .. Len(s) - (k + 1) + 1 : z[i] = s[k + 1 + i - 1]
      BY <1>1, <2>1, <2>2, SubSeqProperties
    <2>4. Len(z) = Len(s) - k /\ Len(s) - (k + 1) + 1 = Len(s) - k
      BY <1>2, <2>3
    <2>5. \A i \in 1 .. Len(z) : k + 1 + i - 1 = i + k
      BY <1>2, <2>4
    <2> QED  BY <2>3, <2>4, <2>5
  <1>4. \A i \in 1 .. Len(z) : i + k \in 1 .. Len(s) /\ i + k # k /\ i \in Nat
    BY <1>2, <1>3
  <1>5. \A n \in 1 .. Len(s) : n > k => n - k \in 1 .. Len(z) /\ (n - k) + k = n
    BY <1>2, <1>3
  <1>6. \A n \in 1 .. Len(s) : n > k => s[n] \in Elems(z)
    BY <1>3, <1>5 DEF Elems
  <1>7. Elems(z) \subseteq Elems(s) /\ s[k] \in Elems(s)
    BY <1>3, <1>4 DEF Elems
  <1>8. s[k] \notin Elems(z)
    BY <1>3, <1>4 DEF Elems, Distinct
  <1>9. Distinct(z)
    <2> SUFFICES ASSUME NEW m \in 1 .. Len(z), NEW n \in 1 .. Len(z), z[m] = z[n] PROVE m = n
      BY DEF Distinct
    <2>1. m + k = n + k
      BY <1>3, <1>4 DEF Distinct
    <2> QED  BY <1>2, <1>4, <2>1
  <1> QED  BY <1>1, <1>3, <1>6, <1>7, <1>8, <1>9

LEMMA RestLemma ==
    ASSUME NEW s \in Seq(Promises), Distinct(s), s # <<>>
    PROVE  /\ Tail(s) \in Seq(Promises) /\ Distinct(Tail(s)) /\ Len(Tail(s)) = Len(s) - 1
           /\ Head(s) \in Promises /\ Head(s) \in Elems(s) /\ Elems(Tail(s)) = Elems(s) \ {Head(s)}
  <1>1. Len(s) \in Nat /\ 1 \in 1 .. Len(s) /\ Head(s) = s[1] /\ s[1] \in Promises
    OBVIOUS
  <1>2. PICK z : z = SubSeq(s, 1 + 1, Len(s))
    OBVIOUS
  <1>3. Tail(s) = z
    BY <1>1, <1>2, TailIsSubSeq
  <1>4. /\ z \in Seq(Promises) /\ Distinct(z) /\ Len(z) = Len(s) - 1
        /\ Elems(z) \subseteq Elems(s) /\ s[1] \in Elems(s) /\ s[1] \notin Elems(z)
        /\ \A n \in 1 .. Len(s) : n > 1 => s[n] \in Elems(z)
    BY <1>1, <1>2, CutLemma
  <1>5. Elems(s) \ {s[1]} \subseteq Elems(z)
    <2> SUFFICES ASSUME NEW n \in 1 .. Len(s), s[n] # s[1] PROVE s[n] \in Elems(z)
      BY DEF Elems
    <2>1. n > 1
      BY <1>1
    <2> QED  BY <1>4, <2>1
  <1> QED  BY <1>1, <1>3, <1>4, <1>5

\* A list has as many elements as positions.
LEMMA ElemsCount ==
    ASSUME NEW s \in Seq(Promises), Distinct(s)
    PROVE  IsFiniteSet(Elems(s)) /\ Cardinality(Elems(s)) = Len(s)
  <1>1. s \in [1 .. Len(s) -> Elems(s)] /\ Len(s) \in Nat
    BY DEF Elems
  <1>2. s \in Bijection(1 .. Len(s), Elems(s))
    BY <1>1 DEF Bijection, Injection, Surjection, IsInjective, Distinct, Elems
  <1>3. ExistsBijection(1 .. Len(s), Elems(s))
    BY <1>2 DEF ExistsBijection
  <1>4. Cardinality(Elems(s)) = Len(s)
    BY <1>1, <1>3, FS_CountingElements
  <1>5. IsFiniteSet(Elems(s))
    BY <1>1, <1>3, FS_NatBijection
  <1> QED  BY <1>4, <1>5

\* take_next_unhandled: the first entry without a reaction, or none has one.
LEMMA KeptLemma ==
    ASSUME unhandled \in Seq(Promises)
    PROVE  \/ Kept = 0 /\ \A n \in 1 .. Len(unhandled) : ~StillUnhandled(unhandled[n])
           \/ /\ Kept \in 1 .. Len(unhandled) /\ StillUnhandled(unhandled[Kept])
              /\ \A n \in 1 .. Len(unhandled) : n < Kept => ~StillUnhandled(unhandled[n])
  <1> DEFINE I == {n \in 1 .. Len(unhandled) : StillUnhandled(unhandled[n])}
             min == CHOOSE x \in I : \A y \in I : x <= y
  <1>1. Kept = IF I # {} THEN min ELSE 0
    BY DEF Kept, SelectInSeq, Min
  <1>2. I \subseteq 1 .. Len(unhandled) /\ I \subseteq Nat /\ Len(unhandled) \in Nat
    OBVIOUS
  <1>3. ASSUME I # {} PROVE min \in I /\ \A y \in I : min <= y
    <2> HIDE DEF I
    <2>1. I \in SUBSET (1 .. Len(unhandled))
      BY <1>2
    <2>2. \E x \in I : \A y \in I : x <= y
      BY <1>3, <2>1, SelectLemma
    <2> QED  BY <2>2
  <1>4. CASE I = {}
    BY <1>1, <1>4
  <1>5. CASE I # {}
    <2> HIDE DEF min
    <2>1. Kept = min /\ min \in I /\ \A y \in I : min <= y
      BY <1>1, <1>3, <1>5
    <2>2. \A n \in 1 .. Len(unhandled) : n < min => n \notin I
      BY <1>2, <2>1
    <2> QED  BY <2>1, <2>2
  <1> QED  BY <1>4, <1>5

\* RejectionTracker.  What is in the three lists has been rejected and has no reaction
\* the tracker was told of, or has been reported and got one since; a promise is
\* reported once.
ListInv ==
  /\ Distinct(unhandled) /\ Distinct(reported) /\ Distinct(pendingHandled)
  /\ rejected \subseteq Live /\ told \subseteq rejected
  /\ \A p \in Elems(unhandled) : p \in rejected \ told /\ "hook" \notin react[p]
  /\ \A p \in Elems(reported) : /\ p \in told \ Elems(pendingHandled)
                                /\ "hook" \notin react[p] /\ handledEv[p] = 0
  /\ \A p \in Elems(pendingHandled) : p \in told /\ "hook" \in react[p] /\ handledEv[p] = 0
  /\ \A p \in Promises : handledEv[p] \in {0, 1} /\ (handledEv[p] = 1 => p \in told /\ "hook" \in react[p])

\* A reported promise is in a list or its late handler has been reported, unless the
\* cap pushed it out.
LateInv ==
  \A p \in told : \/ p \in Elems(reported) \cup Elems(pendingHandled)
                  \/ handledEv[p] = 1
                  \/ Cardinality(told) > MaxReported

\* While no promise has been moved, the addresses in internally_handled are those of the
\* runtime's own promises; a rejection with no reaction that is neither told nor the
\* runtime's own is in the list.
TrackInv ==
  /\ marked \subseteq Live
  /\ moves = 0 =>
       /\ internally = {addr[p] : p \in marked}
       /\ \A p, q \in Live : addr[p] = addr[q] => p = q
       /\ \A p \in Elems(unhandled) : p \notin marked
       /\ \A p \in rejected \ (marked \cup told) : react[p] = {} => p \in Elems(unhandled)

\* Whenever JS runs inside the checkpoint the pass has emitted; a pass that has not emitted
\* has all of the list to go and no late handler to report.  The first throw finds the
\* listener of uncaughtException under its own trap.
FlowInv ==
  /\ cp.pc \in Events \cup {"drain"} => cp.emitted
  /\ code = Nil /\ cp.pc = "take" /\ ~cp.emitted => pendingHandled = <<>> /\ cp.budget = Len(unhandled)
  /\ cp.pc = "uncaughtException" /\ throws = 0 => cp.trap = "own"

HeapTypes ==
  /\ addr \in [Promises -> Addrs \cup {Nil}] /\ rejected \subseteq Promises
  /\ react \in [Promises -> SUBSET {"field", "hook"}]
  /\ internally \subseteq Addrs /\ marked \subseteq Promises

ListTypes ==
  /\ unhandled \in Seq(Promises) /\ reported \in Seq(Promises) /\ pendingHandled \in Seq(Promises)
  /\ Len(reported) \in Nat /\ Len(reported) <= MaxReported /\ MaxReported \in Nat \ {0}

EventTypes == told \subseteq Promises /\ handledEv \in [Promises -> Nat]

FrameTypes ==
  /\ processing \in BOOLEAN /\ listeners \subseteq Events /\ cp \in Frame
  /\ throws \in 0..MaxListenerThrows /\ moves \in 0..MaxMoves /\ code \in {Nil, 0, 1}

TrackerInv == /\ HeapTypes /\ ListTypes /\ EventTypes /\ FrameTypes
              /\ ListInv /\ LateInv /\ TrackInv /\ FlowInv

LEMMA TypesList ==
    ASSUME HeapTypes, ListTypes, EventTypes, FrameTypes
    PROVE  TrackerTypes
  BY DEF TrackerTypes, HeapTypes, ListTypes, EventTypes, FrameTypes

LEMMA TrackerBegins ==
    ASSUME TrackerInit
    PROVE  TrackerInv
  <1>1. HeapTypes
    BY DEF TrackerInit, HeapTypes
  <1>2. ListTypes
    BY RejectionsAssumption DEF TrackerInit, ListTypes
  <1>3. EventTypes
    BY DEF TrackerInit, EventTypes
  <1>4. cp \in Frame
    BY DEF TrackerInit, NoFrame, Frame, Pc, Traps
  <1>5. FrameTypes
    <2>1. MaxListenerThrows \in Nat /\ MaxMoves \in Nat
      BY RejectionsAssumption
    <2>2. throws = 0 /\ moves = 0 /\ code = Nil /\ processing = FALSE /\ listeners \subseteq Events
      BY DEF TrackerInit
    <2>3. throws \in 0..MaxListenerThrows /\ moves \in 0..MaxMoves
      BY <2>1, <2>2
    <2> QED  BY <1>4, <2>2, <2>3 DEF FrameTypes
  <1>6. Elems(unhandled) = {} /\ Elems(reported) = {} /\ Elems(pendingHandled) = {}
    BY DEF TrackerInit, Elems
  <1>7. Distinct(unhandled) /\ Distinct(reported) /\ Distinct(pendingHandled)
    BY DEF TrackerInit, Distinct
  <1>8. ListInv
    BY <1>6, <1>7 DEF TrackerInit, ListInv
  <1>9. LateInv
    BY DEF TrackerInit, LateInv
  <1>9a. TrackInv
    BY DEF TrackerInit, TrackInv, Live, Elems
  <1>10. FlowInv
    BY DEF TrackerInit, FlowInv, NoFrame, Events
  <1> QED  BY <1>1, <1>2, <1>3, <1>5, <1>8, <1>9, <1>9a, <1>10 DEF TrackerInv

LEMMA HandledLemma ==
    ASSUME ListTypes, ListInv, NEW p \in Promises, Handled(p)
    PROVE  /\ ListTypes'
           /\ Distinct(unhandled') /\ Distinct(reported') /\ Distinct(pendingHandled')
           /\ Elems(unhandled') = Elems(unhandled) \ {p}
           /\ Elems(reported') = Elems(reported) \ {p}
           /\ Elems(pendingHandled') = IF p \in Elems(reported) THEN Elems(pendingHandled) \cup {p}
                                       ELSE Elems(pendingHandled)
  <1>1. /\ unhandled' = Forget(unhandled, p)
        /\ reported' = Forget(reported, p)
        /\ pendingHandled' = IF Contains(reported, p) THEN Append(pendingHandled, p) ELSE pendingHandled
    BY DEF Handled
  <1>2. /\ unhandled \in Seq(Promises) /\ reported \in Seq(Promises) /\ pendingHandled \in Seq(Promises)
        /\ Len(reported) \in Nat /\ Len(reported) <= MaxReported /\ MaxReported \in Nat \ {0}
        /\ Distinct(unhandled) /\ Distinct(reported) /\ Distinct(pendingHandled)
    BY DEF ListTypes, ListInv
  <1>3. unhandled' \in Seq(Promises) /\ Distinct(unhandled') /\ Elems(unhandled') = Elems(unhandled) \ {p}
    BY <1>1, <1>2, WithoutLemma
  <1>4. /\ reported' \in Seq(Promises) /\ Distinct(reported') /\ Elems(reported') = Elems(reported) \ {p}
        /\ Len(reported') <= Len(reported)
    BY <1>1, <1>2, WithoutLemma
  <1>5. Len(reported') \in Nat /\ Len(reported') <= MaxReported
    BY <1>2, <1>4
  <1>6. Contains(reported, p) <=> p \in Elems(reported)
    BY DEF Contains, Elems
  <1>7. CASE p \in Elems(reported)
    <2>1. p \notin Elems(pendingHandled)
      BY <1>7 DEF ListInv
    <2>2. pendingHandled' = Append(pendingHandled, p)
      BY <1>1, <1>6, <1>7
    <2>3. /\ pendingHandled' \in Seq(Promises) /\ Distinct(pendingHandled')
          /\ Elems(pendingHandled') = Elems(pendingHandled) \cup {p}
      BY <1>2, <2>1, <2>2, AddLemma
    <2> QED  BY <1>2, <1>3, <1>4, <1>5, <1>7, <2>3 DEF ListTypes
  <1>8. CASE p \notin Elems(reported)
    <2>1. pendingHandled' = pendingHandled
      BY <1>1, <1>6, <1>8
    <2> QED  BY <1>2, <1>3, <1>4, <1>5, <1>8, <2>1 DEF ListTypes
  <1> QED  BY <1>7, <1>8

\* Where an exception takes the checkpoint.
LEMMA UncaughtLemma ==
    ASSUME cp \in Frame, NEW r \in {"js", "handled", "take", "drain", "raise", "die"}, NEW tr \in Traps,
           Uncaught(r, tr)
    PROVE  /\ cp' \in Frame
           /\ \/ /\ code' = code /\ cp'.pc = "uncaughtException" /\ cp'.ret = r /\ cp'.trap = tr
                 /\ cp'.final = cp.final /\ cp'.emitted = cp.emitted
              \/ code' = 1 /\ cp' = cp
  <1>1. CASE "uncaughtException" \in listeners
    <2>1. cp' = [cp EXCEPT !.pc = "uncaughtException", !.ret = r, !.trap = tr] /\ code' = code
      BY <1>1 DEF Uncaught
    <2> QED  BY <2>1 DEF Frame, Pc, Events
  <1>2. CASE "uncaughtException" \notin listeners
    BY <1>2 DEF Uncaught, Exit
  <1> QED  BY <1>1, <1>2

-----------------------------------------------------------------------------
(* The program's steps. *)

\* What JS does leaves the frame alone.
LEMMA FlowKept ==
    ASSUME TrackerInv, cp.pc # "take", cp' = cp, throws' = throws
    PROVE  FlowInv'
  BY DEF TrackerInv, FlowInv

LEMMA JSIsNotTake ==
    ASSUME InJS
    PROVE  cp.pc # "take"
  BY DEF InJS, Events

LEMMA NewStep ==
    ASSUME TrackerInv, NEW p \in Promises, NEW a \in Addrs, New(p, a)
    PROVE  TrackerInv'
  <1>1. /\ InJS /\ p \notin Live /\ a \in FreeAddrs /\ addr' = [addr EXCEPT ![p] = a]
        /\ rejected' = rejected /\ react' = react /\ internally' = internally /\ marked' = marked
        /\ unhandled' = unhandled /\ reported' = reported /\ pendingHandled' = pendingHandled
        /\ processing' = processing /\ listeners' = listeners /\ cp' = cp
        /\ told' = told /\ handledEv' = handledEv /\ throws' = throws /\ moves' = moves /\ code' = code
    BY DEF New, lists, events
  <1>2. HeapTypes' /\ ListTypes' /\ EventTypes' /\ FrameTypes'
    BY <1>1 DEF TrackerInv, HeapTypes, ListTypes, EventTypes, FrameTypes
  <1>3. Live' = Live \cup {p} /\ addr'[p] = a /\ \A q \in Live : addr'[q] = addr[q] /\ addr[q] # a
    BY RejectionsAssumption, <1>1 DEF TrackerInv, HeapTypes, Live, FreeAddrs
  <1>4. ListInv'
    BY <1>1, <1>3 DEF TrackerInv, ListInv
  <1>5. LateInv'
    BY <1>1 DEF TrackerInv, LateInv
  <1>6. TrackInv'
    <2>1. {addr'[q] : q \in marked} = {addr[q] : q \in marked}
      BY <1>3 DEF TrackerInv, TrackInv
    <2>2. ASSUME moves = 0 PROVE \A q, r \in Live' : addr'[q] = addr'[r] => q = r
      BY <1>3, <2>2 DEF TrackerInv, TrackInv
    <2> QED  BY <1>1, <1>3, <2>1, <2>2 DEF TrackerInv, TrackInv
  <1>7. FlowInv'
    BY <1>1, FlowKept, JSIsNotTake
  <1> QED  BY <1>2, <1>4, <1>5, <1>6, <1>7 DEF TrackerInv

\* mark_rejection_handled(p), with p's reaction or before p can be rejected.
LEMMA HandledStep ==
    ASSUME TrackerInv, NEW p \in Promises, Handled(p),
           rejected' = rejected, told' = told, handledEv' = handledEv, Live \subseteq Live',
           react' \in [Promises -> SUBSET {"field", "hook"}],
           \A q \in Promises \ {p} : react'[q] = react[q],
           react[p] \subseteq react'[p],
           "hook" \in react'[p] \/ p \notin rejected
    PROVE  ListTypes' /\ ListInv' /\ LateInv'
  <1>1. /\ ListTypes'
        /\ Distinct(unhandled') /\ Distinct(reported') /\ Distinct(pendingHandled')
        /\ Elems(unhandled') = Elems(unhandled) \ {p}
        /\ Elems(reported') = Elems(reported) \ {p}
        /\ Elems(pendingHandled') = IF p \in Elems(reported) THEN Elems(pendingHandled) \cup {p}
                                    ELSE Elems(pendingHandled)
    BY HandledLemma DEF TrackerInv
  <1>2. /\ Elems(unhandled) \subseteq Promises /\ Elems(reported) \subseteq Promises
        /\ Elems(pendingHandled) \subseteq Promises /\ told \subseteq Promises
    BY DEF TrackerInv, ListTypes, EventTypes, Elems
  <1>3. p \in Elems(reported) => p \in told \ Elems(pendingHandled) /\ handledEv[p] = 0 /\ "hook" \in react'[p]
    BY DEF TrackerInv, ListInv
  <1>4. rejected' \subseteq Live' /\ told' \subseteq rejected'
    BY DEF TrackerInv, ListInv
  <1>5. \A q \in Elems(unhandled') : q \in rejected' \ told' /\ "hook" \notin react'[q]
    BY <1>1, <1>2 DEF TrackerInv, ListInv
  <1>6. \A q \in Elems(reported') : /\ q \in told' \ Elems(pendingHandled')
                                    /\ "hook" \notin react'[q] /\ handledEv'[q] = 0
    BY <1>1, <1>2 DEF TrackerInv, ListInv
  <1>7. \A q \in Elems(pendingHandled') : q \in told' /\ "hook" \in react'[q] /\ handledEv'[q] = 0
    BY <1>1, <1>2, <1>3 DEF TrackerInv, ListInv
  <1>8. \A q \in Promises : handledEv'[q] \in {0, 1} /\ (handledEv'[q] = 1 => q \in told' /\ "hook" \in react'[q])
    BY DEF TrackerInv, ListInv
  <1>9. LateInv'
    BY <1>1, <1>3 DEF TrackerInv, LateInv
  <1> QED  BY <1>1, <1>4, <1>5, <1>6, <1>7, <1>8, <1>9 DEF ListInv

LEMMA NewInternalStep ==
    ASSUME TrackerInv, NEW p \in Promises, NEW a \in Addrs, NewInternal(p, a)
    PROVE  TrackerInv'
  <1>1. /\ InJS /\ p \notin Live /\ a \in FreeAddrs /\ addr' = [addr EXCEPT ![p] = a]
        /\ internally' = internally \cup {a} /\ marked' = marked \cup {p} /\ Handled(p)
        /\ rejected' = rejected /\ react' = react
        /\ processing' = processing /\ listeners' = listeners /\ cp' = cp
        /\ told' = told /\ handledEv' = handledEv /\ throws' = throws /\ moves' = moves /\ code' = code
    BY DEF NewInternal, events
  <1>2. HeapTypes' /\ EventTypes' /\ FrameTypes'
    BY <1>1 DEF TrackerInv, HeapTypes, EventTypes, FrameTypes
  <1>3. Live' = Live \cup {p} /\ addr'[p] = a /\ \A q \in Live : addr'[q] = addr[q] /\ addr[q] # a
    BY RejectionsAssumption, <1>1 DEF TrackerInv, HeapTypes, Live, FreeAddrs
  <1>4. p \notin rejected
    BY <1>1 DEF TrackerInv, ListInv
  <1>5. ListTypes' /\ ListInv' /\ LateInv'
    BY <1>1, <1>2, <1>3, <1>4, HandledStep DEF HeapTypes
  <1>6. Elems(unhandled') = Elems(unhandled) \ {p}
    BY <1>1, HandledLemma DEF TrackerInv
  <1>7. TrackInv'
    <2>1. {addr'[q] : q \in marked'} = {addr[q] : q \in marked} \cup {a}
      BY <1>1, <1>3 DEF TrackerInv, TrackInv
    <2>2. ASSUME moves = 0 PROVE \A q, r \in Live' : addr'[q] = addr'[r] => q = r
      BY <1>3, <2>2 DEF TrackerInv, TrackInv
    <2>3. marked' \subseteq Live'
      BY <1>1, <1>3 DEF TrackerInv, TrackInv
    <2>4. ASSUME moves = 0 PROVE \A q \in Elems(unhandled') : q \notin marked'
      BY <1>1, <1>6, <2>4 DEF TrackerInv, TrackInv
    <2>5. ASSUME moves = 0
          PROVE  \A q \in rejected' \ (marked' \cup told') : react'[q] = {} => q \in Elems(unhandled')
      BY <1>1, <1>6, <2>5 DEF TrackerInv, TrackInv
    <2>6. moves = 0 => internally' = {addr'[q] : q \in marked'}
      BY <1>1, <2>1 DEF TrackerInv, TrackInv
    <2> QED  BY <1>1, <2>2, <2>3, <2>4, <2>5, <2>6 DEF TrackInv
  <1>8. FlowInv'
    BY <1>1, FlowKept, JSIsNotTake
  <1> QED  BY <1>2, <1>5, <1>7, <1>8 DEF TrackerInv

LEMMA RejectStep ==
    ASSUME TrackerInv, NEW p \in Promises, Reject(p)
    PROVE  TrackerInv'
  <1>1. /\ InJS /\ p \in Live /\ p \notin rejected /\ rejected' = rejected \cup {p}
        /\ unhandled' = IF react[p] = {} /\ addr[p] \notin internally THEN Append(unhandled, p) ELSE unhandled
        /\ addr' = addr /\ react' = react /\ internally' = internally /\ marked' = marked
        /\ reported' = reported /\ pendingHandled' = pendingHandled
        /\ processing' = processing /\ listeners' = listeners /\ cp' = cp
        /\ told' = told /\ handledEv' = handledEv /\ throws' = throws /\ moves' = moves /\ code' = code
    BY DEF Reject, events
  <1>2. HeapTypes' /\ EventTypes' /\ FrameTypes'
    BY <1>1 DEF TrackerInv, HeapTypes, EventTypes, FrameTypes
  <1>3. p \notin Elems(unhandled) /\ p \notin told /\ Live' = Live
    BY <1>1 DEF TrackerInv, ListInv, Live
  <1>4. /\ unhandled' \in Seq(Promises) /\ Distinct(unhandled')
        /\ Elems(unhandled') = IF react[p] = {} /\ addr[p] \notin internally THEN Elems(unhandled) \cup {p}
                               ELSE Elems(unhandled)
    <2>1. unhandled \in Seq(Promises) /\ Distinct(unhandled)
      BY DEF TrackerInv, ListTypes, ListInv
    <2>2. CASE react[p] = {} /\ addr[p] \notin internally
      <3>1. unhandled' = Append(unhandled, p)
        BY <1>1, <2>2
      <3>2. /\ Append(unhandled, p) \in Seq(Promises) /\ Distinct(Append(unhandled, p))
            /\ Elems(Append(unhandled, p)) = Elems(unhandled) \cup {p}
        BY <1>3, <2>1, AddLemma
      <3> QED  BY <2>2, <3>1, <3>2
    <2>3. CASE ~(react[p] = {} /\ addr[p] \notin internally)
      BY <1>1, <2>1, <2>3
    <2> QED  BY <2>2, <2>3
  <1>5. ListTypes'
    BY <1>1, <1>4 DEF TrackerInv, ListTypes
  <1>6. ListInv'
    <2>1. rejected' \subseteq Live' /\ told' \subseteq rejected'
      BY <1>1, <1>3 DEF TrackerInv, ListInv
    <2>2. \A q \in Elems(unhandled') : q \in rejected' \ told' /\ "hook" \notin react'[q]
      BY <1>1, <1>3, <1>4 DEF TrackerInv, ListInv
    <2> QED  BY <1>1, <1>4, <2>1, <2>2 DEF TrackerInv, ListInv
  <1>7. LateInv'
    BY <1>1 DEF TrackerInv, LateInv
  <1>8. ASSUME moves = 0 PROVE p \in marked <=> addr[p] \in internally
    BY <1>1, <1>8 DEF TrackerInv, TrackInv
  <1>9. TrackInv'
    BY <1>1, <1>3, <1>4, <1>8 DEF TrackerInv, TrackInv
  <1>10. FlowInv'
    BY <1>1, FlowKept, JSIsNotTake
  <1> QED  BY <1>2, <1>5, <1>6, <1>7, <1>9, <1>10 DEF TrackerInv

LEMMA AttachStep ==
    ASSUME TrackerInv, NEW p \in Promises, NEW k \in {{"field"}, {"hook"}, {"field", "hook"}},
           Attach(p, k)
    PROVE  TrackerInv'
  <1>1. /\ InJS /\ p \in Live /\ react' = [react EXCEPT ![p] = @ \cup k]
        /\ IF "hook" \in k THEN Handled(p)
           ELSE unhandled' = unhandled /\ reported' = reported /\ pendingHandled' = pendingHandled
        /\ addr' = addr /\ rejected' = rejected /\ internally' = internally /\ marked' = marked
        /\ processing' = processing /\ listeners' = listeners /\ cp' = cp
        /\ told' = told /\ handledEv' = handledEv /\ throws' = throws /\ moves' = moves /\ code' = code
    BY DEF Attach, events, lists
  <1>2. HeapTypes' /\ EventTypes' /\ FrameTypes'
    BY <1>1 DEF TrackerInv, HeapTypes, EventTypes, FrameTypes
  <1>3. /\ Live' = Live /\ react'[p] = react[p] \cup k /\ \A q \in Promises \ {p} : react'[q] = react[q]
        /\ react'[p] # {}
    BY <1>1 DEF Live, TrackerInv, HeapTypes
  <1>4. ListTypes' /\ ListInv' /\ LateInv' /\ Elems(unhandled) \subseteq Elems(unhandled') \cup {p}
        /\ Elems(unhandled') \subseteq Elems(unhandled)
    <2>1. CASE "hook" \in k
      <3>1. Handled(p)
        BY <1>1, <2>1
      <3>2. Elems(unhandled') = Elems(unhandled) \ {p}
        BY <3>1, HandledLemma DEF TrackerInv
      <3>3. ListTypes' /\ ListInv' /\ LateInv'
        BY <1>1, <1>2, <1>3, <2>1, <3>1, HandledStep DEF HeapTypes
      <3> QED  BY <3>2, <3>3
    <2>2. CASE "hook" \notin k
      <3>1. unhandled' = unhandled /\ reported' = reported /\ pendingHandled' = pendingHandled
        BY <1>1, <2>2
      <3>2. \A q \in Promises : "hook" \in react'[q] <=> "hook" \in react[q]
        BY <1>3, <2>2
      <3>3. /\ Elems(unhandled) \subseteq Promises /\ Elems(reported) \subseteq Promises
            /\ Elems(pendingHandled) \subseteq Promises
        BY DEF TrackerInv, ListTypes, Elems
      <3>4. ListInv'
        BY <1>1, <1>3, <3>1, <3>2, <3>3 DEF TrackerInv, ListInv
      <3>5. ListTypes' /\ LateInv'
        BY <1>1, <3>1 DEF TrackerInv, ListTypes, LateInv
      <3> QED  BY <3>1, <3>4, <3>5
    <2> QED  BY <2>1, <2>2
  <1>5. TrackInv'
    <2>1. \A q \in rejected' \ (marked' \cup told') : react'[q] = {} => q # p /\ react[q] = {}
      BY <1>1, <1>3 DEF TrackerInv, HeapTypes
    <2> QED  BY <1>1, <1>3, <1>4, <2>1 DEF TrackerInv, TrackInv
  <1>6. FlowInv'
    BY <1>1, FlowKept, JSIsNotTake
  <1> QED  BY <1>2, <1>4, <1>5, <1>6 DEF TrackerInv

LEMMA EvacuateStep ==
    ASSUME TrackerInv, NEW p \in Promises, NEW a \in Addrs, Evacuate(p, a)
    PROVE  TrackerInv'
  <1>1. /\ cp.pc = "js" /\ moves < MaxMoves /\ p \in Live /\ addr' = [addr EXCEPT ![p] = a] /\ moves' = moves + 1
        /\ rejected' = rejected /\ react' = react /\ internally' = internally /\ marked' = marked
        /\ unhandled' = unhandled /\ reported' = reported /\ pendingHandled' = pendingHandled
        /\ processing' = processing /\ listeners' = listeners /\ cp' = cp
        /\ told' = told /\ handledEv' = handledEv /\ throws' = throws /\ code' = code
    BY DEF Evacuate, lists, events
  <1>2. HeapTypes' /\ ListTypes' /\ EventTypes'
    BY <1>1 DEF TrackerInv, HeapTypes, ListTypes, EventTypes
  <1>3. moves' \in 0..MaxMoves /\ moves' # 0
    BY RejectionsAssumption, <1>1 DEF TrackerInv, FrameTypes
  <1>4. FrameTypes'
    BY <1>1, <1>3 DEF TrackerInv, FrameTypes
  <1>5. Live' = Live
    BY RejectionsAssumption, <1>1 DEF TrackerInv, HeapTypes, Live
  <1>6. ListInv'
    BY <1>1, <1>5 DEF TrackerInv, ListInv
  <1>7. LateInv'
    BY <1>1 DEF TrackerInv, LateInv
  <1>8. TrackInv'
    BY <1>1, <1>3, <1>5 DEF TrackerInv, TrackInv
  <1>9. FlowInv'
    BY <1>1, FlowKept
  <1> QED  BY <1>2, <1>4, <1>6, <1>7, <1>8, <1>9 DEF TrackerInv

-----------------------------------------------------------------------------
(* The checkpoint's steps. *)

\* A step of the checkpoint that leaves the tracker, the heap and the events alone.
LEMMA FrameStep ==
    ASSUME TrackerInv, UNCHANGED <<heap, lists, events, listeners, moves>>,
           processing' \in BOOLEAN, cp' \in Frame, throws' \in 0..MaxListenerThrows, code' \in {Nil, 0, 1},
           FlowInv'
    PROVE  TrackerInv'
  <1>1. /\ addr' = addr /\ rejected' = rejected /\ react' = react /\ internally' = internally /\ marked' = marked
        /\ unhandled' = unhandled /\ reported' = reported /\ pendingHandled' = pendingHandled
        /\ listeners' = listeners /\ told' = told /\ handledEv' = handledEv /\ moves' = moves
    BY DEF heap, lists, events
  <1>2. HeapTypes' /\ ListTypes' /\ EventTypes' /\ FrameTypes'
    BY <1>1 DEF TrackerInv, HeapTypes, ListTypes, EventTypes, FrameTypes
  <1>3. Live' = Live
    BY <1>1 DEF Live
  <1>4. ListInv' /\ LateInv' /\ TrackInv'
    BY <1>1, <1>3 DEF TrackerInv, ListInv, LateInv, TrackInv
  <1> QED  BY <1>2, <1>4 DEF TrackerInv

\* The process ends where it is.
LEMMA ExitStep ==
    ASSUME TrackerInv, UNCHANGED <<heap, lists, events, listeners, moves>>,
           processing' \in BOOLEAN, NEW c \in {0, 1}, Exit(c),
           throws' \in {throws, throws + 1}, throws' \in 0..MaxListenerThrows
    PROVE  TrackerInv'
  <1>1. cp' = cp /\ code' = c
    BY DEF Exit
  <1>2. cp' \in Frame /\ throws' \in 0..MaxListenerThrows /\ code' \in {Nil, 0, 1} /\ throws \in Nat
    BY <1>1 DEF TrackerInv, FrameTypes
  <1>3. throws' = 0 => throws = 0
    BY <1>2
  <1>4. FlowInv'
    <2>1. code' # Nil
      BY RejectionsAssumption, <1>1
    <2> QED  BY <1>1, <1>3, <2>1 DEF TrackerInv, FlowInv
  <1> QED  BY <1>2, <1>4, FrameStep

LEMMA EnterStep ==
    ASSUME TrackerInv, NEW final \in BOOLEAN, Enter(final)
    PROVE  TrackerInv'
  <1>1. UNCHANGED <<heap, lists, events, listeners, moves>> /\ throws' = throws
    BY DEF Enter
  <1>2. CASE ~processing
    <2>1. cp' = [NoFrame EXCEPT !.pc = "handled", !.final = final] /\ processing' = TRUE /\ code' = code
      BY <1>2 DEF Enter
    <2>2. cp' \in Frame /\ cp'.pc = "handled"
      BY <2>1 DEF NoFrame, Frame, Pc, Traps
    <2>3. FlowInv'
      BY <2>2 DEF FlowInv, Events
    <2>4. throws' \in 0..MaxListenerThrows /\ code' \in {Nil, 0, 1}
      BY <1>1, <2>1 DEF TrackerInv, FrameTypes
    <2>5. processing' \in BOOLEAN
      BY <2>1
    <2> QED  BY <1>1, <2>2, <2>3, <2>4, <2>5, FrameStep
  <1>3. CASE processing
    <2>1. Exit(0) /\ processing' = processing
      BY <1>3 DEF Enter
    <2>2. processing' \in BOOLEAN
      BY <2>1 DEF TrackerInv, FrameTypes
    <2>3. throws' \in {throws, throws + 1} /\ throws' \in 0..MaxListenerThrows
      BY <1>1 DEF TrackerInv, FrameTypes
    <2> QED  BY <1>1, <2>1, <2>2, <2>3, ExitStep
  <1> QED  BY <1>2, <1>3

LEMMA StartPassStep ==
    ASSUME TrackerInv, StartPass
    PROVE  TrackerInv'
  <1>1. /\ UNCHANGED <<heap, lists, events, listeners, moves>> /\ throws' = throws /\ code' = code
        /\ processing' = processing /\ pendingHandled = <<>>
        /\ cp' = [cp EXCEPT !.pc = "take", !.budget = Len(unhandled)]
    BY DEF StartPass
  <1>2. cp \in Frame /\ Len(unhandled) \in Nat
    BY DEF TrackerInv, FrameTypes, ListTypes
  <1>3. cp' \in Frame /\ cp'.pc = "take" /\ cp'.budget = Len(unhandled)
    BY <1>1, <1>2 DEF Frame, Pc
  <1>4. unhandled' = unhandled /\ pendingHandled' = <<>>
    BY <1>1 DEF lists
  <1>5. FlowInv'
    BY <1>3, <1>4 DEF FlowInv, Events
  <1>6. processing' \in BOOLEAN /\ throws' \in 0..MaxListenerThrows /\ code' \in {Nil, 0, 1}
    BY <1>1 DEF TrackerInv, FrameTypes
  <1> QED  BY <1>1, <1>3, <1>5, <1>6, FrameStep

LEMMA DrainedStep ==
    ASSUME TrackerInv, Drained
    PROVE  TrackerInv'
  <1>1. /\ UNCHANGED <<heap, lists, events, listeners, moves>> /\ throws' = throws /\ code' = code
        /\ processing' = processing /\ cp' = [cp EXCEPT !.pc = "handled", !.emitted = FALSE]
    BY DEF Drained
  <1>2. cp \in Frame
    BY DEF TrackerInv, FrameTypes
  <1>3. cp' \in Frame /\ cp'.pc = "handled"
    BY <1>1, <1>2 DEF Frame, Pc
  <1>4. FlowInv'
    BY <1>3 DEF FlowInv, Events
  <1>5. processing' \in BOOLEAN /\ throws' \in 0..MaxListenerThrows /\ code' \in {Nil, 0, 1}
    BY <1>1 DEF TrackerInv, FrameTypes
  <1> QED  BY <1>1, <1>3, <1>4, <1>5, FrameStep

\* The uncaughtException listener is called, or the process ends.
LEMMA UncaughtStep ==
    ASSUME TrackerInv, UNCHANGED <<heap, lists, events, listeners, moves, processing>>,
           cp.pc \in Events \cup {"drain"},
           NEW r \in {"js", "handled", "take", "drain", "raise", "die"}, NEW tr \in Traps, Uncaught(r, tr),
           throws' \in 0..MaxListenerThrows,
           (throws' = throws /\ tr = "own") \/ throws' = throws + 1
    PROVE  TrackerInv'
  <1>1. throws \in Nat /\ code \in {Nil, 0, 1} /\ cp \in Frame /\ processing' \in BOOLEAN
    BY DEF TrackerInv, FrameTypes
  <1>2. CASE "uncaughtException" \in listeners
    <2>1. /\ cp' \in Frame /\ code' = code /\ cp'.pc = "uncaughtException" /\ cp'.trap = tr
          /\ cp'.emitted = cp.emitted
      BY <1>1, <1>2 DEF Uncaught, Frame, Pc, Events
    <2>2. cp.emitted
      BY DEF TrackerInv, FlowInv
    <2>3. throws' = 0 => tr = "own"
      BY <1>1
    <2>4. FlowInv'
      BY <2>1, <2>2, <2>3 DEF FlowInv
    <2> QED  BY <1>1, <2>1, <2>4, FrameStep
  <1>3. CASE "uncaughtException" \notin listeners
    <2>1. Exit(1)
      BY <1>3 DEF Uncaught
    <2> QED  BY <1>1, <2>1, ExitStep
  <1> QED  BY <1>2, <1>3

LEMMA ListenerReturnsStep ==
    ASSUME TrackerInv, Return
    PROVE  TrackerInv'
  <1>1. /\ UNCHANGED <<heap, lists, events, listeners, moves, processing>> /\ throws' = throws
        /\ cp.pc \in Events
    BY DEF Return, events
  <1>2. /\ cp \in Frame /\ cp.emitted /\ processing' \in BOOLEAN /\ throws' \in 0..MaxListenerThrows
        /\ code \in {Nil, 0, 1}
    BY <1>1 DEF TrackerInv, FrameTypes, FlowInv
  <1>3. ASSUME NEW pc \in {"js", "handled", "take", "drain"}, cp' = [cp EXCEPT !.pc = pc], code' = code
        PROVE  TrackerInv'
    <2>1. cp' \in Frame /\ cp'.pc = pc /\ cp'.emitted = cp.emitted
      BY <1>2, <1>3 DEF Frame, Pc
    <2>2. FlowInv'
      BY <1>2, <2>1 DEF FlowInv, Events
    <2> QED  BY <1>1, <1>2, <1>3, <2>1, <2>2, FrameStep
  <1>4. CASE cp.pc = "rejectionHandled"
    <2>1. cp' = [cp EXCEPT !.pc = "handled"] /\ code' = code
      BY <1>4 DEF Return
    <2> QED  BY <1>3, <2>1
  <1>5. CASE cp.pc = "unhandledRejection"
    <2>1. cp' = [cp EXCEPT !.pc = "take"] /\ code' = code
      BY <1>5 DEF Return
    <2> QED  BY <1>3, <2>1
  <1>6. CASE cp.pc = "uncaughtException"
    <2>1. CASE cp.ret = "raise"
      <3>1. Uncaught("take", "own")
        BY <1>6, <2>1 DEF Return
      <3> QED  BY <1>1, <1>2, <3>1, UncaughtStep DEF Traps
    <2>2. CASE cp.ret = "die"
      <3>1. Exit(1)
        BY <1>6, <2>2 DEF Return
      <3> QED  BY <1>1, <1>2, <3>1, ExitStep
    <2>3. CASE cp.ret \notin {"raise", "die"}
      <3>1. cp' = [cp EXCEPT !.pc = cp.ret] /\ code' = code
        BY <1>6, <2>3 DEF Return
      <3>2. cp.ret \in {"js", "handled", "take", "drain"}
        BY <1>2, <2>3 DEF Frame
      <3> QED  BY <1>3, <3>1, <3>2
    <2> QED  BY <2>1, <2>2, <2>3
  <1> QED  BY <1>1, <1>4, <1>5, <1>6 DEF Events

LEMMA ListenerThrowsStep ==
    ASSUME TrackerInv, ListenerThrows
    PROVE  TrackerInv'
  <1>1. /\ UNCHANGED <<heap, lists, events, listeners, moves, processing>> /\ throws' = throws + 1
        /\ cp.pc \in {"drain"} \cup Events /\ throws < MaxListenerThrows
    BY DEF ListenerThrows
  <1>2. /\ processing' \in BOOLEAN /\ throws' \in 0..MaxListenerThrows
        /\ {"own", "pump", "none"} \subseteq Traps
    BY RejectionsAssumption, <1>1 DEF TrackerInv, FrameTypes, Traps
  <1>3. \/ \E r \in {"js", "handled", "take", "drain", "raise", "die"}, tr \in Traps : Uncaught(r, tr)
        \/ Exit(1)
    <2>1. CASE cp.pc = "rejectionHandled"
      BY <1>2, <2>1 DEF ListenerThrows
    <2>2. CASE cp.pc = "unhandledRejection"
      BY <1>2, <2>2 DEF ListenerThrows
    <2>3. CASE cp.pc = "drain"
      BY <1>2, <2>3 DEF ListenerThrows
    <2>4. CASE cp.pc = "uncaughtException"
      BY <1>2, <2>4 DEF ListenerThrows
    <2> QED  BY <1>1, <2>1, <2>2, <2>3, <2>4 DEF Events
  <1>4. ASSUME NEW r \in {"js", "handled", "take", "drain", "raise", "die"}, NEW tr \in Traps, Uncaught(r, tr)
        PROVE  TrackerInv'
    BY <1>1, <1>2, <1>4, UncaughtStep
  <1>5. ASSUME Exit(1) PROVE TrackerInv'
    BY <1>1, <1>2, <1>5, ExitStep
  <1> QED  BY <1>3, <1>4, <1>5

LEMMA EmitHandledStep ==
    ASSUME TrackerInv, EmitHandled
    PROVE  TrackerInv'
  <1>1. PICK p : p = Head(pendingHandled)
    OBVIOUS
  <1>2. PICK pc : pc = IF "rejectionHandled" \in listeners THEN "rejectionHandled" ELSE cp.pc
    OBVIOUS
  <1>3. /\ cp.pc = "handled" /\ pendingHandled # <<>> /\ pendingHandled' = Tail(pendingHandled)
        /\ handledEv' = [handledEv EXCEPT ![p] = @ + 1]
        /\ cp' = [cp EXCEPT !.pc = pc, !.emitted = TRUE]
        /\ addr' = addr /\ rejected' = rejected /\ react' = react /\ internally' = internally /\ marked' = marked
        /\ unhandled' = unhandled /\ reported' = reported /\ processing' = processing
        /\ listeners' = listeners /\ told' = told /\ throws' = throws /\ moves' = moves /\ code' = code
    BY <1>1, <1>2 DEF EmitHandled, heap
  <1>4. pendingHandled \in Seq(Promises) /\ Distinct(pendingHandled) /\ cp \in Frame
    BY DEF TrackerInv, ListTypes, ListInv, FrameTypes
  <1>5. /\ pendingHandled' \in Seq(Promises) /\ Distinct(pendingHandled')
        /\ p \in Promises /\ p \in Elems(pendingHandled) /\ Elems(pendingHandled') = Elems(pendingHandled) \ {p}
    BY <1>1, <1>3, <1>4, RestLemma
  <1>6. handledEv[p] = 0 /\ p \in told /\ "hook" \in react[p] /\ p \notin Elems(reported)
    BY <1>5 DEF TrackerInv, ListInv
  <1>7. handledEv' \in [Promises -> Nat] /\ handledEv'[p] = 1 /\ \A q \in Promises \ {p} : handledEv'[q] = handledEv[q]
    BY <1>3, <1>5, <1>6 DEF TrackerInv, EventTypes
  <1>8. HeapTypes' /\ ListTypes' /\ EventTypes'
    BY <1>3, <1>5, <1>7 DEF TrackerInv, HeapTypes, ListTypes, EventTypes
  <1>9. pc \in {"handled", "rejectionHandled"} /\ cp' \in Frame /\ cp'.pc = pc /\ cp'.emitted
    BY <1>2, <1>3, <1>4 DEF Frame, Pc, Events
  <1>10. FrameTypes'
    BY <1>3, <1>9 DEF TrackerInv, FrameTypes
  <1>11. Live' = Live
    BY <1>3 DEF Live
  <1>12. /\ Elems(reported) \subseteq Promises /\ Elems(pendingHandled) \subseteq Promises
         /\ Elems(reported') = Elems(reported) /\ Elems(unhandled') = Elems(unhandled) /\ told \subseteq Promises
    BY <1>3 DEF TrackerInv, ListTypes, EventTypes, Elems
  <1>13. ListInv'
    <2>1. rejected' \subseteq Live' /\ told' \subseteq rejected' /\ Distinct(unhandled') /\ Distinct(reported')
      BY <1>3, <1>11 DEF TrackerInv, ListInv
    <2>2. \A q \in Elems(unhandled') : q \in rejected' \ told' /\ "hook" \notin react'[q]
      BY <1>3 DEF TrackerInv, ListInv
    <2>3. \A q \in Elems(reported') : /\ q \in told' \ Elems(pendingHandled')
                                      /\ "hook" \notin react'[q] /\ handledEv'[q] = 0
      BY <1>3, <1>5, <1>6, <1>7, <1>12 DEF TrackerInv, ListInv
    <2>4. \A q \in Elems(pendingHandled') : q \in told' /\ "hook" \in react'[q] /\ handledEv'[q] = 0
      BY <1>3, <1>5, <1>7, <1>12 DEF TrackerInv, ListInv
    <2>5. \A q \in Promises : handledEv'[q] \in {0, 1} /\ (handledEv'[q] = 1 => q \in told' /\ "hook" \in react'[q])
      BY <1>3, <1>6, <1>7 DEF TrackerInv, ListInv
    <2> QED  BY <1>5, <2>1, <2>2, <2>3, <2>4, <2>5 DEF ListInv
  <1>14. LateInv'
    <2>1. ASSUME NEW q \in told' \ {p}
          PROVE  \/ q \in Elems(reported') \cup Elems(pendingHandled') \/ handledEv'[q] = 1
                 \/ Cardinality(told') > MaxReported
      BY <1>3, <1>5, <1>7, <1>12 DEF TrackerInv, LateInv
    <2> QED  BY <1>7, <2>1 DEF LateInv
  <1>15. TrackInv'
    BY <1>3, <1>11 DEF TrackerInv, TrackInv
  <1>16. FlowInv'
    BY <1>9 DEF FlowInv
  <1> QED  BY <1>8, <1>10, <1>13, <1>14, <1>15, <1>16 DEF TrackerInv

\* Past the cap the oldest entry leaves the list of reported rejections.
LEMMA ReportLemma ==
    ASSUME ListTypes, Distinct(reported), NEW p \in Promises, p \notin Elems(reported)
    PROVE  /\ Report(p) \in Seq(Promises) /\ Distinct(Report(p)) /\ Len(Report(p)) \in Nat
           /\ Len(Report(p)) <= MaxReported
           /\ p \in Elems(Report(p)) /\ Elems(Report(p)) \subseteq Elems(reported) \cup {p}
           /\ Len(reported) < MaxReported => Elems(reported) \subseteq Elems(Report(p))
  <1>1. reported \in Seq(Promises) /\ Len(reported) \in Nat /\ Len(reported) <= MaxReported /\ MaxReported \in Nat \ {0}
    BY DEF ListTypes
  <1>2. CASE Len(reported) >= MaxReported
    <2>1. reported # <<>>
      BY <1>1, <1>2
    <2>2. PICK s : s = Tail(reported)
      OBVIOUS
    <2>3. s \in Seq(Promises) /\ Distinct(s) /\ Len(s) = Len(reported) - 1 /\ Elems(s) \subseteq Elems(reported)
      BY <1>1, <2>1, <2>2, RestLemma
    <2>4. Report(p) = Append(s, p)
      BY <1>2, <2>2 DEF Report
    <2>5. /\ Append(s, p) \in Seq(Promises) /\ Distinct(Append(s, p)) /\ Len(Append(s, p)) = Len(s) + 1
          /\ Elems(Append(s, p)) = Elems(s) \cup {p}
      BY <2>3, AddLemma
    <2>6. Len(s) + 1 = Len(reported) /\ ~(Len(reported) < MaxReported)
      BY <1>1, <1>2, <2>3
    <2> QED  BY <1>1, <2>3, <2>4, <2>5, <2>6
  <1>3. CASE ~(Len(reported) >= MaxReported)
    <2>1. Report(p) = Append(reported, p)
      BY <1>3 DEF Report
    <2>2. /\ Append(reported, p) \in Seq(Promises) /\ Distinct(Append(reported, p))
          /\ Len(Append(reported, p)) = Len(reported) + 1
          /\ Elems(Append(reported, p)) = Elems(reported) \cup {p}
      BY <1>1, AddLemma
    <2>3. Len(reported) + 1 \in Nat /\ Len(reported) + 1 <= MaxReported
      BY <1>1, <1>3
    <2> QED  BY <2>1, <2>2, <2>3
  <1> QED  BY <1>2, <1>3

LEMMA ReportUnhandledStep ==
    ASSUME TrackerInv, ReportUnhandled
    PROVE  TrackerInv'
  <1>1. PICK p : p = unhandled[Kept]
    OBVIOUS
  <1>2. PICK k : k = Kept
    OBVIOUS
  <1>3. /\ code = Nil /\ cp.pc = "take" /\ cp.budget > 0 /\ k # 0
        /\ unhandled' = SubSeq(unhandled, k + 1, Len(unhandled)) /\ reported' = Report(p)
        /\ told' = told \cup {p}
        /\ addr' = addr /\ rejected' = rejected /\ react' = react /\ internally' = internally /\ marked' = marked
        /\ pendingHandled' = pendingHandled /\ processing' = processing /\ listeners' = listeners
        /\ handledEv' = handledEv /\ throws' = throws /\ moves' = moves
    BY <1>1, <1>2 DEF ReportUnhandled, ReportAllowed, heap
  <1>4. unhandled \in Seq(Promises) /\ Distinct(unhandled) /\ cp \in Frame
    BY DEF TrackerInv, ListTypes, ListInv, FrameTypes
  <1>5. /\ k \in 1 .. Len(unhandled) /\ unhandled[k] = p /\ StillUnhandled(p)
        /\ \A n \in 1 .. Len(unhandled) : n < k => ~StillUnhandled(unhandled[n])
    BY <1>1, <1>2, <1>3, <1>4, KeptLemma
  <1>6. /\ unhandled' \in Seq(Promises) /\ Distinct(unhandled') /\ Elems(unhandled') \subseteq Elems(unhandled)
        /\ p \in Elems(unhandled) /\ p \notin Elems(unhandled')
        /\ \A n \in 1 .. Len(unhandled) : n > k => unhandled[n] \in Elems(unhandled')
    BY <1>3, <1>4, <1>5, CutLemma
  <1>7. p \in Promises /\ p \in rejected \ told /\ "hook" \notin react[p] /\ "field" \notin react[p]
    BY <1>4, <1>5, <1>6 DEF TrackerInv, ListInv, StillUnhandled
  <1>8. p \notin Elems(reported) /\ p \notin Elems(pendingHandled) /\ handledEv[p] = 0
    BY <1>7 DEF TrackerInv, ListInv
  <1>9. /\ reported' \in Seq(Promises) /\ Distinct(reported') /\ Len(reported') \in Nat /\ Len(reported') <= MaxReported
        /\ p \in Elems(reported') /\ Elems(reported') \subseteq Elems(reported) \cup {p}
        /\ Len(reported) < MaxReported => Elems(reported) \subseteq Elems(reported')
    BY <1>3, <1>7, <1>8, ReportLemma DEF TrackerInv, ListInv
  <1>10. HeapTypes' /\ ListTypes' /\ EventTypes'
    BY <1>3, <1>6, <1>7, <1>9 DEF TrackerInv, HeapTypes, ListTypes, EventTypes
  <1>11. cp' \in Frame /\ code' \in {Nil, 0, 1} /\ FlowInv'
    <2> DEFINE next == [cp EXCEPT !.p = p, !.budget = @ - 1, !.emitted = TRUE]
    <2>0. cp.budget - 1 \in Nat
      BY <1>3, <1>4 DEF Frame
    <2>1. next \in Frame /\ next.emitted
      BY <1>4, <1>7, <2>0 DEF Frame
    <2>2. \/ cp' = [next EXCEPT !.pc = "unhandledRejection"] /\ code' = code
          \/ cp' = [next EXCEPT !.pc = "uncaughtException", !.ret = "take", !.trap = "own"] /\ code' = code
          \/ cp' = cp /\ code' = 1
      BY <1>1 DEF ReportUnhandled, Exit
    <2> HIDE DEF next
    <2>3. CASE cp' = [next EXCEPT !.pc = "unhandledRejection"] /\ code' = code
      <3>1. cp' \in Frame /\ cp'.pc = "unhandledRejection" /\ cp'.emitted
        BY <2>1, <2>3 DEF Frame, Pc, Events
      <3> QED  BY <1>3, <2>3, <3>1 DEF FlowInv
    <2>4. CASE cp' = [next EXCEPT !.pc = "uncaughtException", !.ret = "take", !.trap = "own"] /\ code' = code
      <3>1. cp' \in Frame /\ cp'.pc = "uncaughtException" /\ cp'.emitted /\ cp'.trap = "own"
        BY <2>1, <2>4 DEF Frame, Pc, Events, Traps
      <3> QED  BY <1>3, <2>4, <3>1 DEF FlowInv
    <2>5. CASE cp' = cp /\ code' = 1
      <3>1. code' # Nil
        BY RejectionsAssumption, <2>5
      <3> QED  BY <1>3, <1>4, <2>5, <3>1 DEF TrackerInv, FlowInv
    <2> QED  BY <2>2, <2>3, <2>4, <2>5
  <1>12. FrameTypes'
    BY <1>3, <1>11 DEF TrackerInv, FrameTypes
  <1>13. Live' = Live
    BY <1>3 DEF Live
  <1>14. ListInv'
    <2>1. rejected' \subseteq Live' /\ told' \subseteq rejected' /\ Distinct(pendingHandled')
      BY <1>3, <1>7, <1>13 DEF TrackerInv, ListInv
    <2>2. \A q \in Elems(unhandled') : q \in rejected' \ told' /\ "hook" \notin react'[q]
      BY <1>3, <1>6 DEF TrackerInv, ListInv
    <2>3. \A q \in Elems(reported') : /\ q \in told' \ Elems(pendingHandled')
                                      /\ "hook" \notin react'[q] /\ handledEv'[q] = 0
      BY <1>3, <1>7, <1>8, <1>9 DEF TrackerInv, ListInv
    <2>4. \A q \in Elems(pendingHandled') : q \in told' /\ "hook" \in react'[q] /\ handledEv'[q] = 0
      BY <1>3 DEF TrackerInv, ListInv
    <2>5. \A q \in Promises : handledEv'[q] \in {0, 1} /\ (handledEv'[q] = 1 => q \in told' /\ "hook" \in react'[q])
      BY <1>3 DEF TrackerInv, ListInv
    <2> QED  BY <1>6, <1>9, <2>1, <2>2, <2>3, <2>4, <2>5 DEF ListInv
  <1>15. LateInv'
    <2>1. /\ told' \in SUBSET Promises /\ told \in SUBSET told' /\ IsFiniteSet(Promises)
          /\ MaxReported \in Nat
      BY RejectionsAssumption, <1>3, <1>7 DEF TrackerInv, EventTypes
    <2>2. IsFiniteSet(told') /\ IsFiniteSet(told)
      BY <2>1, FS_Subset
    <2>3. Cardinality(told) \in Nat /\ Cardinality(told') \in Nat /\ Cardinality(told) <= Cardinality(told')
      BY <2>1, <2>2, FS_Subset, FS_CardinalityType
    <2>4. CASE Len(reported) < MaxReported
      BY <1>3, <1>9, <2>1, <2>3, <2>4 DEF TrackerInv, LateInv
    <2>5. CASE ~(Len(reported) < MaxReported)
      <3>1. reported \in Seq(Promises) /\ Distinct(reported) /\ Len(reported) \in Nat
        BY DEF TrackerInv, ListTypes, ListInv
      <3>2. IsFiniteSet(Elems(reported)) /\ Cardinality(Elems(reported)) = Len(reported)
        BY <3>1, ElemsCount
      <3>3. Elems(reported) \in SUBSET told
        BY DEF TrackerInv, ListInv
      <3>4. Cardinality(Elems(reported)) <= Cardinality(told)
        BY <2>2, <3>3, FS_Subset
      <3>5. Cardinality(told') = Cardinality(told) + 1
        BY <1>3, <1>7, <2>2, FS_AddElement
      <3>6. Cardinality(told') > MaxReported
        BY <2>1, <2>3, <2>5, <3>1, <3>2, <3>4, <3>5
      <3> QED  BY <3>6 DEF LateInv
    <2> QED  BY <2>4, <2>5
  <1>16. TrackInv'
    <2>1. ASSUME moves = 0, NEW q \in rejected \ (marked \cup told \cup {p}), react[q] = {}
          PROVE  q \in Elems(unhandled')
      <3>1. q \in Elems(unhandled)
        BY <2>1 DEF TrackerInv, TrackInv
      <3>2. PICK n \in 1 .. Len(unhandled) : unhandled[n] = q
        BY <3>1 DEF Elems
      <3>3. ~(n < k) /\ n # k
        BY <1>5, <2>1, <3>2 DEF StillUnhandled
      <3>4. n > k
        BY <1>5, <3>3
      <3> QED  BY <1>6, <3>2, <3>4
    <2>2. moves = 0 => \A q \in Elems(unhandled') : q \notin marked
      BY <1>6 DEF TrackerInv, TrackInv
    <2> QED  BY <1>3, <1>13, <2>1, <2>2 DEF TrackerInv, TrackInv
  <1> QED  BY <1>10, <1>11, <1>12, <1>14, <1>15, <1>16 DEF TrackerInv

LEMMA EndPassStep ==
    ASSUME TrackerInv, EndPass
    PROVE  TrackerInv'
  <1>1. /\ code = Nil /\ cp.pc = "take" /\ ~ReportAllowed
        /\ unhandled' = IF cp.budget > 0 THEN <<>> ELSE unhandled
        /\ addr' = addr /\ rejected' = rejected /\ react' = react /\ internally' = internally /\ marked' = marked
        /\ reported' = reported /\ pendingHandled' = pendingHandled /\ listeners' = listeners
        /\ told' = told /\ handledEv' = handledEv /\ throws' = throws /\ moves' = moves
    BY DEF EndPass, heap, events
  <1>2. unhandled \in Seq(Promises) /\ Distinct(unhandled) /\ cp \in Frame
    BY DEF TrackerInv, ListTypes, ListInv, FrameTypes
  <1>3. /\ unhandled' \in Seq(Promises) /\ Distinct(unhandled') /\ Elems(unhandled') \subseteq Elems(unhandled)
        /\ \A q \in Elems(unhandled) : q \in Elems(unhandled') \/ react[q] # {}
    <2>1. CASE cp.budget > 0
      <3>1. unhandled' = <<>> /\ Elems(<<>>) = {} /\ Distinct(<<>>) /\ <<>> \in Seq(Promises)
        BY <1>1, <2>1 DEF Elems, Distinct
      <3>2. Kept = 0
        BY <1>1, <2>1 DEF ReportAllowed
      <3>3. \A n \in 1 .. Len(unhandled) : ~StillUnhandled(unhandled[n])
        BY <1>2, <3>2, KeptLemma
      <3>4. \A q \in Elems(unhandled) : ~StillUnhandled(q) /\ q \in rejected
        BY <3>3 DEF TrackerInv, ListInv, Elems
      <3> QED  BY <3>1, <3>4 DEF StillUnhandled
    <2>2. CASE ~(cp.budget > 0)
      BY <1>1, <1>2, <2>2
    <2> QED  BY <2>1, <2>2
  <1>4. HeapTypes' /\ ListTypes' /\ EventTypes'
    BY <1>1, <1>3 DEF TrackerInv, HeapTypes, ListTypes, EventTypes
  <1>5. Live' = Live
    BY <1>1 DEF Live
  <1>6. ListInv'
    BY <1>1, <1>3, <1>5 DEF TrackerInv, ListInv
  <1>7. LateInv'
    BY <1>1 DEF TrackerInv, LateInv
  <1>8. TrackInv'
    BY <1>1, <1>3, <1>5 DEF TrackerInv, TrackInv
  <1>9. FrameTypes' /\ FlowInv'
    <2>1. CASE cp.emitted
      <3>1. cp' = [cp EXCEPT !.pc = "drain"] /\ processing' = processing /\ code' = code
        BY <2>1 DEF EndPass
      <3>2. cp' \in Frame /\ cp'.pc = "drain" /\ cp'.emitted
        BY <1>2, <2>1, <3>1 DEF Frame, Pc
      <3>3. FrameTypes'
        BY <1>1, <3>1, <3>2 DEF TrackerInv, FrameTypes
      <3> QED  BY <3>2, <3>3 DEF FlowInv
    <2>2. CASE ~cp.emitted
      <3>1. Leave /\ processing' = FALSE
        BY <2>2 DEF EndPass, Leave
      <3>2. CASE cp.final
        <4>1. cp' = cp /\ code' = 0 /\ code' # Nil
          BY RejectionsAssumption, <3>1, <3>2 DEF Leave, Exit
        <4>2. FlowInv'
          BY <1>1, <4>1 DEF FlowInv, Events
        <4>3. FrameTypes'
          BY <1>1, <3>1, <4>1 DEF TrackerInv, FrameTypes
        <4> QED  BY <4>2, <4>3
      <3>3. CASE ~cp.final
        <4>1. cp' = NoFrame /\ code' = code
          BY <3>1, <3>3 DEF Leave
        <4>2. cp' \in Frame /\ cp'.pc = "js"
          BY <4>1 DEF NoFrame, Frame, Pc, Traps
        <4>3. FlowInv'
          BY <4>2 DEF FlowInv, Events
        <4>4. FrameTypes'
          BY <1>1, <3>1, <4>1, <4>2 DEF TrackerInv, FrameTypes
        <4> QED  BY <4>3, <4>4
      <3> QED  BY <3>2, <3>3
    <2> QED  BY <2>1, <2>2
  <1> QED  BY <1>4, <1>6, <1>7, <1>8, <1>9 DEF TrackerInv

LEMMA TrackerGoesOn ==
    ASSUME TrackerInv, [TrackerNext]_trackervars
    PROVE  TrackerInv'
  <1>1. ASSUME UNCHANGED trackervars PROVE TrackerInv'
    <2>1. UNCHANGED <<heap, lists, events, listeners, moves>> /\ UNCHANGED <<processing, cp, throws, code, unhandled, pendingHandled>>
      BY <1>1 DEF trackervars, heap, lists, events
    <2>2. FlowInv'
      BY <2>1 DEF TrackerInv, FlowInv
    <2>3. processing' \in BOOLEAN /\ cp' \in Frame /\ throws' \in 0..MaxListenerThrows /\ code' \in {Nil, 0, 1}
      BY <2>1 DEF TrackerInv, FrameTypes
    <2> QED  BY <2>1, <2>2, <2>3, FrameStep
  <1>2. ASSUME Program PROVE TrackerInv'
    BY <1>2, NewStep, NewInternalStep, EvacuateStep, RejectStep, AttachStep DEF Program
  <1>3. ASSUME Checkpoint PROVE TrackerInv'
    BY <1>3, EmitHandledStep, StartPassStep, ReportUnhandledStep, EndPassStep, DrainedStep, ListenerReturnsStep DEF Checkpoint
  <1> QED  BY <1>1, <1>2, <1>3, EnterStep, ListenerThrowsStep DEF TrackerNext

-----------------------------------------------------------------------------
(* The end of the process. *)

\* No listener of uncaughtException throws while only the trap of the event loop's run is
\* left, except in the last checkpoint, where that ends the process.
Contained ==
  ~(ListenerThrows /\ cp.pc = "uncaughtException" /\ cp.trap = "pump" /\ ~cp.final)

\* Outside a checkpoint the guard is down, so the last checkpoint runs.
GuardInv ==
  /\ code = Nil /\ cp.pc = "js" => ~processing
  /\ cp.pc = "uncaughtException" => cp.ret # "js"

\* At the end with code 0 no late handler waits and every rejection has surfaced.
EndInv == GuardInv /\ (code = 0 => pendingHandled = <<>>) /\ SurfacesBeforeZero

LEMMA GuardKept ==
    ASSUME GuardInv, code' = code, cp' = cp, processing' = processing
    PROVE  GuardInv'
  BY DEF GuardInv

LEMMA NotYetZero ==
    ASSUME code' \in {Nil, 1}
    PROVE  (code' = 0 => pendingHandled' = <<>>) /\ SurfacesBeforeZero'
  BY RejectionsAssumption DEF SurfacesBeforeZero

LEMMA ProgramStep ==
    ASSUME Program
    PROVE  code = Nil /\ code' = code /\ cp' = cp /\ processing' = processing
  BY DEF Program, New, NewInternal, Evacuate, Reject, Attach, InJS

LEMMA EndInvGoesOn ==
    ASSUME TrackerInv, EndInv, [TrackerNext /\ Contained]_trackervars
    PROVE  EndInv'
  <1>1. CASE UNCHANGED trackervars
    BY <1>1 DEF trackervars, EndInv, GuardInv, SurfacesBeforeZero
  <1>2. CASE Program
    <2>1. code = Nil /\ code' = code /\ cp' = cp /\ processing' = processing
      BY <1>2, ProgramStep
    <2>2. GuardInv'
      BY <2>1, GuardKept DEF EndInv
    <2> QED  BY <2>1, <2>2, NotYetZero DEF EndInv
  <1> USE DEF Events
  <1>3. CASE EmitHandled
    <2>1. code = Nil /\ code' = code /\ cp'.pc \in {"handled", "rejectionHandled"}
      BY <1>3 DEF EmitHandled, TrackerInv, FrameTypes, Frame
    <2>2. GuardInv'
      BY <2>1 DEF GuardInv
    <2> QED  BY <2>1, <2>2, NotYetZero DEF EndInv
  <1>4. CASE StartPass \/ Drained
    <2>1. code = Nil /\ code' = code /\ cp'.pc \in {"handled", "take"}
      BY <1>4 DEF StartPass, Drained, TrackerInv, FrameTypes, Frame
    <2>2. GuardInv'
      BY <2>1 DEF GuardInv
    <2> QED  BY <2>1, <2>2, NotYetZero DEF EndInv
  <1>5. CASE ReportUnhandled
    <2>1. code = Nil /\ cp \in Frame /\ cp.pc = "take"
      BY <1>5 DEF ReportUnhandled, ReportAllowed, TrackerInv, FrameTypes
    <2>2. /\ code' \in {Nil, 1}
          /\ \/ cp'.pc = "unhandledRejection"
             \/ cp'.pc = "uncaughtException" /\ cp'.ret = "take"
             \/ cp'.pc = "take"
      BY <1>5, <2>1 DEF ReportUnhandled, Exit, Frame
    <2>3. GuardInv'
      BY <2>2 DEF GuardInv
    <2> QED  BY <2>2, <2>3, NotYetZero DEF EndInv
  <1>6. CASE EndPass
    <2>1. code = Nil /\ cp \in Frame /\ cp.pc = "take" /\ pendingHandled' = pendingHandled
      BY <1>6 DEF EndPass, TrackerInv, FrameTypes
    <2>2. CASE cp.emitted
      <3>1. code' = code /\ cp'.pc = "drain"
        BY <1>6, <2>1, <2>2 DEF EndPass, Frame
      <3>2. GuardInv'
        BY <3>1 DEF GuardInv
      <3> QED  BY <2>1, <3>1, <3>2, NotYetZero DEF EndInv
    <2>3. CASE ~cp.emitted /\ ~cp.final
      <3>1. code' = code /\ cp'.pc = "js" /\ processing' = FALSE
        BY <1>6, <2>3 DEF EndPass, Leave, NoFrame
      <3>2. GuardInv'
        BY <3>1 DEF GuardInv
      <3> QED  BY <2>1, <3>1, <3>2, NotYetZero DEF EndInv
    <2>4. CASE ~cp.emitted /\ cp.final
      <3>1. code' = 0 /\ cp' = cp
        BY <1>6, <2>4 DEF EndPass, Leave, Exit
      <3>2. GuardInv'
        BY RejectionsAssumption, <2>1, <3>1 DEF GuardInv
      <3>3. pendingHandled = <<>> /\ cp.budget = Len(unhandled)
        BY <2>1, <2>4 DEF TrackerInv, FlowInv
      <3>4. \A q \in Elems(unhandled) : react[q] # {}
        <4>1. unhandled \in Seq(Promises) /\ Len(unhandled) \in Nat
          BY DEF TrackerInv, ListTypes
        <4>2. CASE cp.budget > 0
          <5>1. Kept = 0
            BY <1>6, <2>1, <4>2 DEF EndPass, ReportAllowed
          <5>2. \A n \in 1 .. Len(unhandled) : ~StillUnhandled(unhandled[n])
            BY <4>1, <5>1, KeptLemma
          <5>3. \A q \in Elems(unhandled) : ~StillUnhandled(q) /\ q \in rejected
            BY <5>2 DEF TrackerInv, ListInv, Elems
          <5> QED  BY <5>3 DEF StillUnhandled
        <4>3. CASE ~(cp.budget > 0)
          <5>1. Len(unhandled) = 0
            BY <3>3, <4>1, <4>3
          <5> QED  BY <5>1 DEF Elems
        <4> QED  BY <4>2, <4>3
      <3>5. /\ rejected' = rejected /\ marked' = marked /\ told' = told /\ react' = react /\ moves' = moves
        BY <1>6 DEF EndPass, heap, events
      <3>6. SurfacesBeforeZero'
        BY <3>4, <3>5 DEF SurfacesBeforeZero, TrackerInv, TrackInv
      <3> QED  BY <2>1, <3>1, <3>2, <3>3, <3>6 DEF EndInv
    <2> QED  BY <2>2, <2>3, <2>4
  <1>7. CASE Return
    <2>1. code = Nil /\ cp \in Frame /\ cp.pc \in Events
      BY <1>7 DEF Return, TrackerInv, FrameTypes
    <2>2. CASE cp.pc = "rejectionHandled" \/ cp.pc = "unhandledRejection"
      <3>1. code' = code /\ cp'.pc \in {"handled", "take"}
        BY <1>7, <2>1, <2>2 DEF Return, Frame
      <3>2. GuardInv'
        BY <3>1 DEF GuardInv
      <3> QED  BY <2>1, <3>1, <3>2, NotYetZero DEF EndInv
    <2>3. CASE cp.pc = "uncaughtException"
      <3>1. cp.ret \in {"handled", "take", "drain", "raise", "die"}
        BY <2>1, <2>3 DEF EndInv, GuardInv, Frame
      <3>2. code' \in {Nil, 1} /\ (cp'.pc = "uncaughtException" => cp'.ret # "js") /\ cp'.pc # "js"
        <4>1. CASE cp.ret = "raise"
          <5>1. Uncaught("take", "own")
            BY <1>7, <2>3, <4>1 DEF Return
          <5> QED  BY <2>1, <2>3, <4>1, <5>1, UncaughtLemma DEF Traps
        <4>2. CASE cp.ret = "die"
          BY <1>7, <2>3, <4>2 DEF Return, Exit
        <4>3. CASE cp.ret \in {"handled", "take", "drain"}
          BY <1>7, <2>1, <2>3, <4>3 DEF Return, Frame
        <4> QED  BY <3>1, <4>1, <4>2, <4>3
      <3>3. GuardInv'
        BY <3>2 DEF GuardInv
      <3> QED  BY <3>2, <3>3, NotYetZero DEF EndInv
    <2> QED  BY <2>1, <2>2, <2>3
  <1>8. CASE ListenerThrows /\ Contained
    <2>1. code = Nil /\ cp \in Frame /\ cp.pc \in {"drain"} \cup Events
      BY <1>8 DEF ListenerThrows, TrackerInv, FrameTypes
    <2>2. \/ Uncaught("handled", "pump") \/ Uncaught("raise", "pump") \/ Uncaught("drain", "pump") \/ Uncaught("die", "pump")
          \/ Exit(1) /\ cp.pc = "uncaughtException"
      BY <1>8, <2>1 DEF ListenerThrows, Contained
    <2>3. ASSUME NEW r \in {"handled", "drain", "raise", "die"}, Uncaught(r, "pump")
          PROVE  code' \in {Nil, 1} /\ (cp'.pc = "uncaughtException" => cp'.ret # "js") /\ cp'.pc # "js"
      <3>1. "pump" \in Traps /\ r \in {"js", "handled", "take", "drain", "raise", "die"}
        BY DEF Traps
      <3>2. \/ code' = code /\ cp'.pc = "uncaughtException" /\ cp'.ret = r
            \/ code' = 1 /\ cp' = cp
        BY <2>1, <2>3, <3>1, UncaughtLemma
      <3> QED  BY <2>1, <3>2 DEF EndInv, GuardInv
    <2>4. code' \in {Nil, 1} /\ (cp'.pc = "uncaughtException" => cp'.ret # "js") /\ cp'.pc # "js"
      <3>1. ASSUME Exit(1) PROVE code' = 1 /\ cp' = cp
        BY <3>1 DEF Exit
      <3> QED  BY <2>1, <2>2, <2>3, <3>1 DEF EndInv, GuardInv
    <2>5. GuardInv'
      BY <2>4 DEF GuardInv
    <2> QED  BY <2>4, <2>5, NotYetZero DEF EndInv
  <1>9. CASE \E final \in BOOLEAN : Enter(final)
    <2>1. PICK final \in BOOLEAN : Enter(final)
      BY <1>9
    <2>2. code = Nil /\ ~processing
      BY <2>1 DEF Enter, EndInv, GuardInv
    <2>3. code' = code /\ cp'.pc = "handled"
      BY <2>1, <2>2 DEF Enter, NoFrame
    <2>4. GuardInv'
      BY <2>3 DEF GuardInv
    <2> QED  BY <2>2, <2>3, <2>4, NotYetZero DEF EndInv
  <1> QED  BY <1>1, <1>2, <1>3, <1>4, <1>5, <1>6, <1>7, <1>8, <1>9 DEF TrackerNext, Checkpoint

(* The inductive invariant of the tracker and of the checkpoint, whatever listeners do. *)
THEOREM TrackerInvariant ==
    TrackerSpec => []TrackerInv
  <1> QED  BY TrackerBegins, TrackerGoesOn, PTL DEF TrackerSpec

(* Type correctness of the checkpoint; the list of reported rejections keeps to its cap
   (MAX_REPORTED_REJECTIONS). *)
THEOREM TrackerTypesHold ==
    TrackerSpec => []TrackerTypes
  <1>1. TrackerInv => TrackerTypes
    BY TypesList DEF TrackerInv
  <1> QED  BY <1>1, TrackerInvariant, PTL

LEMMA InvHandledOnce ==
    ASSUME TrackerInv
    PROVE  HandledOnce
  <1> SUFFICES ASSUME NEW p \in Promises
               PROVE  handledEv[p] <= 1 /\ (handledEv[p] = 1 => p \in told /\ react[p] # {})
    BY DEF HandledOnce
  <1>1. handledEv[p] \in {0, 1} /\ (handledEv[p] = 1 => p \in told /\ "hook" \in react[p])
    BY DEF TrackerInv, ListInv
  <1> QED  BY <1>1

(* Only what has no reaction and is not the runtime's own is told to the program
   (take_next_unhandled), whatever listeners and jobs do and throw. *)
THEOREM ToldOnlyUnhandled ==
    TrackerSpec => [][OnlyUnhandled]_trackervars
  <1>1. ASSUME TrackerInv, TrackerNext PROVE OnlyUnhandled
    <2>1. CASE ReportUnhandled
      <3>1. PICK p : p = unhandled[Kept]
        OBVIOUS
      <3>2. told' = told \cup {p} /\ Kept # 0 /\ unhandled \in Seq(Promises)
        BY <1>1, <2>1, <3>1 DEF ReportUnhandled, ReportAllowed, TrackerInv, ListTypes
      <3>3. Kept \in 1 .. Len(unhandled) /\ StillUnhandled(p)
        BY <3>1, <3>2, KeptLemma
      <3>4. p \in Elems(unhandled) /\ p \in Promises
        BY <3>1, <3>2, <3>3 DEF Elems
      <3>5. "hook" \notin react[p] /\ "field" \notin react[p] /\ react[p] \subseteq {"field", "hook"}
        BY <1>1, <3>3, <3>4 DEF TrackerInv, ListInv, HeapTypes, StillUnhandled
      <3>6. react[p] = {} /\ (moves = 0 => p \notin marked)
        BY <1>1, <3>4, <3>5 DEF TrackerInv, TrackInv
      <3> QED  BY <3>2, <3>6 DEF OnlyUnhandled
    <2>2. CASE ~ReportUnhandled
      <3>1. told' = told
        BY <1>1, <2>2 DEF TrackerNext, Program, Checkpoint, New, NewInternal, Evacuate, Reject, Attach,
           EmitHandled, StartPass, EndPass, Drained, Return, ListenerThrows, Enter, events
      <3> QED  BY <3>1 DEF OnlyUnhandled
    <2> QED  BY <2>1, <2>2
  <1> QED  BY <1>1, TrackerInvariant, PTL DEF TrackerSpec

LEMMA EndInvSurfaces ==
    ASSUME TrackerInv, EndInv
    PROVE  SurfacesAtZero
  <1>1. LateHandlersSurface
    <2> SUFFICES ASSUME code = 0, NEW p \in told, "hook" \in react[p]
                 PROVE  handledEv[p] = 1 \/ Cardinality(told) > MaxReported
      BY DEF LateHandlersSurface
    <2>1. pendingHandled = <<>>
      BY DEF EndInv
    <2>2. p \notin Elems(pendingHandled)
      BY <2>1 DEF Elems
    <2>3. p \notin Elems(reported)
      BY DEF TrackerInv, ListInv
    <2> QED  BY <2>2, <2>3 DEF TrackerInv, LateInv
  <1> QED  BY <1>1, InvHandledOnce DEF SurfacesAtZero, EndInv

LEMMA EndInvBegins ==
    ASSUME TrackerInit
    PROVE  EndInv
  BY RejectionsAssumption DEF TrackerInit, NoFrame, EndInv, GuardInv, SurfacesBeforeZero

(* A process that ends with code 0 has told the program of every rejection without a
   reaction and of every late handler, in every behaviour in which no exception leaves
   the checkpoint for the event loop's trap while the guard is up (process_rejections). *)
THEOREM SurfacedUnlessAbandoned ==
    TrackerSpec /\ [][Contained]_trackervars => []SurfacesAtZero
  <1>1. TrackerInv /\ EndInv /\ [TrackerNext]_trackervars /\ [Contained]_trackervars => EndInv'
    BY EndInvGoesOn
  <1>2. TrackerInv /\ EndInv => SurfacesAtZero
    BY EndInvSurfaces
  <1> QED  BY <1>1, <1>2, EndInvBegins, TrackerInvariant, PTL DEF TrackerSpec

(* The same, when listeners and jobs throw at most once: it takes a second throw, out of
   the listener of uncaughtException, to leave the guard up. *)
THEOREM SurfacedAtZero ==
    ASSUME MaxListenerThrows <= 1
    PROVE  TrackerSpec => []SurfacesAtZero
  <1>1. TrackerInv => Contained
    <2> SUFFICES ASSUME TrackerInv, ListenerThrows, cp.pc = "uncaughtException", cp.trap = "pump" PROVE FALSE
      BY DEF Contained
    <2>1. throws < MaxListenerThrows /\ throws \in Nat /\ MaxListenerThrows \in Nat
      BY RejectionsAssumption DEF ListenerThrows, TrackerInv, FrameTypes
    <2>2. throws = 0
      BY <2>1
    <2> QED  BY <2>2 DEF TrackerInv, FlowInv
  <1>2. TrackerInv => [Contained]_trackervars
    BY <1>1
  <1> QED  BY <1>2, TrackerInvariant, SurfacedUnlessAbandoned, PTL

(* rejectionHandled is emitted at most once for a promise, and only for one that was
   reported and got a reaction (mark_rejection_handled), whatever listeners throw. *)
THEOREM LateHandlersOnce ==
    TrackerSpec => []HandledOnce
  <1> QED  BY InvHandledOnce, TrackerInvariant, PTL
=============================================================================
