------------------------------- MODULE Timers -------------------------------
(***************************************************************************)
(* The timer queues of perry-runtime (timer.rs and timer/): promise        *)
(* timers, setTimeout/setImmediate callbacks and intervals, shared by all  *)
(* threads of the process, each entry owned by the agent (JS heap) that    *)
(* scheduled it.  A tick detaches the batch of expired entries under the   *)
(* queue's lock and then runs it; a callback is arbitrary JS that may      *)
(* schedule, clear, ref, unref and refresh timers, pump the loop, or       *)
(* busy-wait in an `await`, which ticks the timers again.                  *)
(***************************************************************************)
EXTENDS Integers, Sequences, FiniteSets, SequencesExt, Queues

CONSTANTS Pumps,      \* threads of the primary agent (the JS thread, Android's UI thread)
          Workers,    \* perry/thread workers, each an agent of its own
          Ops,        \* what the program's JS does: a subset of AllOps
          AwaitWhat,  \* the timers a callback may busy-wait for: "queued" or "any"
          Handles,    \* what js_stdlib_has_active_handles may answer
          Delays,     \* the delays the program passes
          MaxTimers,  \* bound: timers the program creates
          MaxTime,    \* bound: clock ticks
          MaxDepth,   \* bound: nested ticks on one thread
          Cap,        \* TIMER_REF_STATES_CAP
          Primary,    \* PRIMARY_AGENT
          None        \* no timer

AllOps == {"timeout", "immediate", "interval", "promise", "unrefPromise", "clear",
           "ref", "unref", "refresh", "await", "pump"}
Kinds  == {"timeout", "immediate", "interval", "promise"}

ASSUME TimersAssumption ==
  /\ Pumps \cap Workers = {} /\ Primary \notin Workers
  /\ Ops \subseteq AllOps /\ AwaitWhat \in {"queued", "any"}
  /\ Handles \subseteq BOOLEAN /\ Handles # {} /\ Delays \subseteq Nat
  /\ {MaxTimers, MaxTime} \subseteq Nat /\ {MaxDepth, Cap} \subseteq Nat \ {0}
  /\ None \notin Nat \cup Kinds

Threads == Pumps \cup Workers
Ids     == 1 .. MaxTimers
Agents  == {Primary} \cup Workers
Phases  == <<"promise", "callback", "interval">>

VARIABLES now,        \* Instant::now()
          promiseQ,   \* TIMER_QUEUE
          callbackQ,  \* CALLBACK_TIMERS
          intervalQ,  \* INTERVAL_TIMERS
          kind,       \* the timers created so far, by id (NEXT_TIMER_ID)
          states,     \* TIMER_REF_STATES: id -> has_ref, at most Cap ids
          order,      \* its eviction queue
          stack,      \* per thread, the ticks in progress, the innermost last
          live,       \* worker agents that have not been retired
          fires,      \* history: how often each timer has fired
          gone,       \* history: cleared by the program, or purged with its agent
          wish        \* history: the ref state the program asked for last

queues  == <<promiseQ, callbackQ, intervalQ>>
refs    == <<states, order>>
history == <<fires, gone, wish>>
vars == <<now, promiseQ, callbackQ, intervalQ, kind, states, order, stack,
          live, fires, gone, wish>>

(***************************************************************************)
(* Entries.  One record shape for the three queues: deadline is            *)
(* next_deadline for an interval, delay its interval_ms.                   *)
(***************************************************************************)
Entry == [id : Ids, kind : Kinds, deadline : Nat, delay : Nat,
          owner : Agents, ref : BOOLEAN]

Frame == [phase : 1 .. Len(Phases),
          pc    : {"start", "drain", "fire", "js", "wait"},
          plain : BOOLEAN,          \* a pump from inside a callback, guard not suspended
          at    : Nat,              \* `now` as this phase read it
          unref : BOOLEAN,          \* allow_unref, likewise
          batch : Seq(Entry),       \* expired, detached, still to fire
          on    : Ids \cup {None}]  \* the callback running, or the timer awaited

TypeOK ==
  /\ now \in Nat
  /\ {promiseQ, callbackQ, intervalQ} \subseteq Seq(Entry)
  /\ kind \in [Ids -> Kinds \cup {None}]
  /\ order \in Seq(Ids) /\ states \in [Range(order) -> BOOLEAN] /\ Len(order) <= Cap
  /\ stack \in [Threads -> Seq(Frame)]
  /\ live \subseteq Workers
  /\ fires \in [Ids -> 0 .. 2] /\ wish \in [Ids -> BOOLEAN]
  /\ gone \subseteq Ids

\* agent::current_agent: a worker is its own agent, any other thread pumps
\* for the primary one.
CurrentAgent(t) == IF t \in Workers THEN t ELSE Primary

Top(t)        == Last(stack[t])
SetTop(t, f)  == stack' = [stack EXCEPT ![t] = Append(Front(@), f)]
Push(t, f)    == stack' = [stack EXCEPT ![t] = Append(@, f)]

Created   == {i \in Ids : kind[i] # None}
IdsOf(q)  == {q[n].id : n \in DOMAIN q}
Queued    == IdsOf(promiseQ) \cup IdsOf(callbackQ) \cup IdsOf(intervalQ)

\* timer_has_ref_state: an id the registry does not hold counts as ref'd.
HasRef(i) == IF i \in DOMAIN states THEN states[i] ELSE TRUE

\* Mutant: the registry has no cap.
SetRefUnbounded(i, b) ==
  IF i \in DOMAIN states
  THEN states' = [states EXCEPT ![i] = b] /\ UNCHANGED order
  ELSE /\ order' = Append(order, i)
       /\ states' = [j \in DOMAIN states \cup {i} |-> IF j = i THEN b ELSE states[j]]

\* insert_bounded: a new id extends the eviction queue and pushes the oldest
\* ids out, a known one is overwritten in place.
SetRef(i, b) ==
  IF i \in DOMAIN states
  THEN states' = [states EXCEPT ![i] = b] /\ UNCHANGED order
  ELSE LET o == Append(order, i)
           k == IF Len(o) > Cap THEN Tail(o) ELSE o
       IN  /\ order' = k
           /\ states' = [j \in Range(k) |-> IF j = i THEN b ELSE states[j]]

\* has_refed_{promise,callback,interval}_timer: liveness counts the agent's
\* own entries only.
HasRefed(t, q) ==
  \E n \in DOMAIN q : /\ q[n].owner = CurrentAgent(t)
                      /\ IF q[n].kind = "promise" THEN q[n].ref ELSE HasRef(q[n].id)

\* Mutant: intervals do not keep the loop alive.
AnyRefedOneShot(t) == \E q \in {promiseQ, callbackQ} : HasRefed(t, q)

AnyRefed(t) == \E q \in {promiseQ, callbackQ, intervalQ} : HasRefed(t, q)

(***************************************************************************)
(* What one phase of a tick detaches and leaves behind.                    *)
(***************************************************************************)
PhaseQueue(p) == CASE p = "promise"  -> promiseQ
                   [] p = "callback" -> callbackQ
                   [] p = "interval" -> intervalQ

Expired(t, f, e) ==
  /\ e.owner = CurrentAgent(t)
  /\ e.deadline <= f.at
  /\ f.unref \/ (IF e.kind = "promise" THEN e.ref ELSE HasRef(e.id))

\* Mutant: what another agent owns is dropped from the queue.
DrainDropsForeign(t, f, q) ==
  [batch |-> Select(q, {n \in DOMAIN q : Expired(t, f, q[n])}),
   rest  |-> Without(q, LAMBDA e : e.deadline <= f.at)]

\* drain_expired_timers: a stable partition of the queue.
DrainExpired(t, f, q) ==
  [batch |-> Select(q, {n \in DOMAIN q : Expired(t, f, q[n])}),
   rest  |-> Without(q, LAMBDA e : Expired(t, f, e))]

\* Mutant: the batch keeps the order of creation.
BeforeByCreation(q, m, n) == m < n

\* order_expired_callback_batch and the promise tick's sort_by_key: a stable
\* sort, timeouts (or promise timers) by deadline, then immediates in order.
Before(q, m, n) ==
  LET a == q[m]  b == q[n] IN
  IF a.kind = "immediate" \/ b.kind = "immediate"
  THEN IF a.kind = b.kind THEN m < n ELSE b.kind = "immediate"
  ELSE a.deadline < b.deadline \/ (a.deadline = b.deadline /\ m < n)

OrderBatch(q) == Arrange(q, DOMAIN q, LAMBDA m, n : Before(q, m, n))

\* js_interval_timer_tick re-arms every interval it is about to call, and
\* calls them in creation order.
Rearm(t, f, q) ==
  [n \in DOMAIN q |-> IF Expired(t, f, q[n])
                      THEN [q[n] EXCEPT !.deadline = f.at + q[n].delay]
                      ELSE q[n]]

NewFrame(plain) == [phase |-> 1, pc |-> "start", plain |-> plain, at |-> 0,
                    unref |-> FALSE, batch |-> <<>>, on |-> None]

Init ==
  /\ now = 0
  /\ promiseQ = <<>> /\ callbackQ = <<>> /\ intervalQ = <<>>
  /\ kind = [i \in Ids |-> None]
  /\ order = <<>> /\ states = [i \in {} |-> TRUE]
  /\ stack = [t \in Threads |-> <<>>]
  /\ live = Workers
  /\ fires = [i \in Ids |-> 0] /\ wish = [i \in Ids |-> TRUE]
  /\ gone = {}

-----------------------------------------------------------------------------
(* Ticks. *)

\* The generated event loop (or a platform pump) ticks while a ref'd timer is
\* left; an empty, unref'd loop ends.  Promise jobs drain before the timers.
LoopTick(t) ==
  /\ t \in Pumps /\ stack[t] = <<>> /\ AnyRefed(t)
  /\ Push(t, NewFrame(FALSE))
  /\ UNCHANGED <<now, queues, kind, refs, live, history>>

\* Handles of the standard library (a server, a socket) keep the loop going too,
\* for as long as they please.
HandleTick(t) ==
  /\ t \in Pumps /\ stack[t] = <<>> /\ TRUE \in Handles
  /\ Push(t, NewFrame(FALSE))
  /\ UNCHANGED <<now, queues, kind, refs, live, history>>

\* Mutant: the await loop leaves timers to the callback it runs in.
AwaitTickGuarded(t) ==
  /\ stack[t] # <<>> /\ Top(t).pc = "wait" /\ fires[Top(t).on] = 0
  /\ Len(stack[t]) < MaxDepth
  /\ Push(t, NewFrame(TRUE))
  /\ UNCHANGED <<now, queues, kind, refs, live, history>>

\* js_await_loop_tick_timers: the await loop suspends the dispatch guard.
AwaitTick(t) ==
  /\ stack[t] # <<>> /\ Top(t).pc = "wait" /\ fires[Top(t).on] = 0
  /\ Len(stack[t]) < MaxDepth
  /\ Push(t, NewFrame(FALSE))
  /\ UNCHANGED <<now, queues, kind, refs, live, history>>

\* in_timer_callback_dispatch: a plain pump made by a running callback finds
\* the guard held and skips the callback and interval phases.
Guarded(t) == Top(t).plain /\ Phases[Top(t).phase] # "promise"

\* A phase reads the clock and the liveness of the other queues, each under
\* a lock of its own, before it takes its queue's lock.  The reads are one
\* step here.
Start(t) ==
  /\ stack[t] # <<>> /\ Top(t).pc = "start"
  /\ \E h \in Handles :
       SetTop(t, [Top(t) EXCEPT !.pc = IF Guarded(t) THEN "fire" ELSE "drain",
                                !.at = now, !.unref = AnyRefed(t) \/ h])
  /\ UNCHANGED <<now, queues, kind, refs, live, history>>

Drain(t) ==
  /\ stack[t] # <<>> /\ Top(t).pc = "drain"
  /\ LET f == Top(t)
         p == Phases[f.phase]
         d == DrainExpired(t, f, PhaseQueue(p))
     IN  /\ SetTop(t, [f EXCEPT !.pc = "fire",
                                !.batch = IF p = "interval" THEN d.batch
                                          ELSE OrderBatch(d.batch)])
         /\ promiseQ'  = IF p = "promise" THEN d.rest ELSE promiseQ
         /\ callbackQ' = IF p = "callback" THEN d.rest ELSE callbackQ
         /\ intervalQ' = IF p = "interval" THEN Rearm(t, f, intervalQ) ELSE intervalQ
  /\ UNCHANGED <<now, kind, refs, live, history>>

\* The history counts to 2, "twice or more", which bounds it for intervals.
Fired(i) == fires' = [fires EXCEPT ![i] = IF @ < 2 THEN @ + 1 ELSE @]

\* The promise tick resolves the promise; its reactions become jobs.
Resolve(t) ==
  /\ stack[t] # <<>> /\ Top(t).pc = "fire" /\ Top(t).batch # <<>>
  /\ Phases[Top(t).phase] = "promise"
  /\ Fired(Head(Top(t).batch).id)
  /\ SetTop(t, [Top(t) EXCEPT !.batch = Tail(@)])
  /\ UNCHANGED <<now, queues, kind, refs, live, gone, wish>>

\* The callback of the next detached entry is entered.
Call(t) ==
  /\ stack[t] # <<>> /\ Top(t).pc = "fire" /\ Top(t).batch # <<>>
  /\ Phases[Top(t).phase] # "promise"
  /\ Fired(Head(Top(t).batch).id)
  /\ SetTop(t, [Top(t) EXCEPT !.pc = "js", !.on = Head(Top(t).batch).id,
                              !.batch = Tail(@)])
  /\ UNCHANGED <<now, queues, kind, refs, live, gone, wish>>

\* It returns (or throws: the trap turns that into a return).
Return(t) ==
  /\ stack[t] # <<>> /\ Top(t).pc = "js"
  /\ SetTop(t, [Top(t) EXCEPT !.pc = "fire", !.on = None])
  /\ UNCHANGED <<now, queues, kind, refs, live, history>>

NextPhase(t) ==
  /\ stack[t] # <<>> /\ Top(t).pc = "fire" /\ Top(t).batch = <<>>
  /\ IF Top(t).phase < Len(Phases)
     THEN SetTop(t, [NewFrame(Top(t).plain) EXCEPT !.phase = Top(t).phase + 1])
     ELSE stack' = [stack EXCEPT ![t] = Front(@)]
  /\ UNCHANGED <<now, queues, kind, refs, live, history>>

-----------------------------------------------------------------------------
(* What JS does, in a callback or from the main program or another event. *)

InJs(t) == /\ t \in Pumps \/ t \in live
           /\ stack[t] # <<>> => Top(t).pc = "js"

\* schedule_callback_timer, schedule_interval_timer, schedule_promise_timer.
\* js_set_timeout_value_ref: a promise timer may be created unref'd.
CreatesRef(k, b) == b \/ (k = "promise" /\ "unrefPromise" \in Ops)

\* The delay is one that normalize_timer_delay has let through.
Schedule(t, k, d, b) ==
  /\ InJs(t) /\ k \in Ops /\ Created # Ids /\ now + d <= MaxTime
  /\ CreatesRef(k, b)
  /\ LET i == Cardinality(Created) + 1
         e == [id |-> i, kind |-> k, deadline |-> now + d, delay |-> d,
               owner |-> CurrentAgent(t), ref |-> b]
     IN  /\ kind' = [kind EXCEPT ![i] = k]
         /\ promiseQ'  = IF k = "promise" THEN Append(promiseQ, e) ELSE promiseQ
         /\ intervalQ' = IF k = "interval" THEN Append(intervalQ, e) ELSE intervalQ
         /\ callbackQ' = IF k \in {"timeout", "immediate"}
                         THEN Append(callbackQ, e) ELSE callbackQ
         /\ IF k = "promise" THEN UNCHANGED refs ELSE SetRef(i, TRUE)
         /\ wish' = [wish EXCEPT ![i] = b]
  /\ UNCHANGED <<now, stack, live, fires, gone>>

\* clearTimeout / clearInterval / clearImmediate: the entry leaves its queue.
Clear(t, i) ==
  /\ InJs(t) /\ "clear" \in Ops /\ i \in Created /\ kind[i] # "promise"
  /\ callbackQ' = Without(callbackQ, LAMBDA e : e.id = i)
  /\ intervalQ' = Without(intervalQ, LAMBDA e : e.id = i)
  /\ gone' = gone \cup {i}
  /\ UNCHANGED <<now, promiseQ, kind, refs, stack, live, fires, wish>>

\* js_timer_ref, js_timer_unref.
Ref(t, i, b) ==
  /\ InJs(t) /\ (IF b THEN "ref" ELSE "unref") \in Ops
  /\ i \in Created /\ kind[i] # "promise"
  /\ SetRef(i, b)
  /\ wish' = [wish EXCEPT ![i] = b]
  /\ UNCHANGED <<now, queues, kind, stack, live, fires, gone>>

\* js_timer_refresh: a new deadline for an entry that is still queued.
Refresh(t, i) ==
  /\ InJs(t) /\ "refresh" \in Ops /\ i \in Created
  /\ kind[i] \in {"timeout", "interval"}
  /\ LET again(q) == [n \in DOMAIN q |-> IF q[n].id = i
                                         THEN [q[n] EXCEPT !.deadline = now + q[n].delay]
                                         ELSE q[n]]
         all == callbackQ \o intervalQ
     IN  /\ \A n \in DOMAIN all : all[n].id = i => now + all[n].delay <= MaxTime
         /\ callbackQ' = again(callbackQ)
         /\ intervalQ' = again(intervalQ)
  /\ IF i \in Queued
     THEN SetRef(i, TRUE) /\ wish' = [wish EXCEPT ![i] = TRUE]
     ELSE UNCHANGED <<refs, wish>>
  /\ UNCHANGED <<now, promiseQ, kind, stack, live, fires, gone>>

\* A callback pumps the loop itself (a stream pipeline, a file copy).
NestedPump(t) ==
  /\ stack[t] # <<>> /\ Top(t).pc = "js" /\ "pump" \in Ops
  /\ Len(stack[t]) < MaxDepth
  /\ Push(t, NewFrame(TRUE))
  /\ UNCHANGED <<now, queues, kind, refs, live, history>>

\* A callback awaits a promise that the firing of a one-shot timer resolves.
Await(t, i) ==
  /\ stack[t] # <<>> /\ Top(t).pc = "js" /\ "await" \in Ops
  /\ Len(stack[t]) < MaxDepth
  /\ i \in Created \ gone /\ kind[i] # "interval" /\ fires[i] = 0
  /\ AwaitWhat = "queued" => i \in Queued
  /\ SetTop(t, [Top(t) EXCEPT !.pc = "wait", !.on = i])
  /\ UNCHANGED <<now, queues, kind, refs, live, history>>

Resume(t) ==
  /\ stack[t] # <<>> /\ Top(t).pc = "wait" /\ fires[Top(t).on] > 0
  /\ SetTop(t, [Top(t) EXCEPT !.pc = "js"])
  /\ UNCHANGED <<now, queues, kind, refs, live, history>>

\* What agent t scheduled and is queued in q.
OwnIds(q, t) == {q[n].id : n \in {m \in DOMAIN q : q[m].owner = t}}

\* Mutant: intervals of the ended worker stay.
RetireAgentOneShots(t) ==
  /\ t \in live
  /\ LET own(e) == e.owner = t
     IN  /\ promiseQ'  = Without(promiseQ, own)
         /\ callbackQ' = Without(callbackQ, own)
         /\ gone' = gone \cup OwnIds(promiseQ, t) \cup OwnIds(callbackQ, t)
  /\ live' = live \ {t}
  /\ UNCHANGED <<now, intervalQ, kind, refs, stack, fires, wish>>

\* A worker ends: agent::retire_agent purges what it scheduled.
RetireAgent(t) ==
  /\ t \in live
  /\ LET own(e) == e.owner = t
     IN  /\ promiseQ'  = Without(promiseQ, own)
         /\ callbackQ' = Without(callbackQ, own)
         /\ intervalQ' = Without(intervalQ, own)
         /\ gone' = gone \cup OwnIds(promiseQ, t) \cup OwnIds(callbackQ, t) \cup OwnIds(intervalQ, t)
  /\ live' = live \ {t}
  /\ UNCHANGED <<now, kind, refs, stack, fires, wish>>

Clock == /\ now < MaxTime
         /\ now' = now + 1
         /\ UNCHANGED <<queues, kind, refs, stack, live, history>>

Step(t) == \/ LoopTick(t) \/ AwaitTick(t) \/ Start(t) \/ Drain(t)
           \/ Resolve(t) \/ Call(t) \/ Return(t) \/ NextPhase(t) \/ Resume(t)

Js(t) == \/ \E k \in Kinds, d \in Delays, b \in BOOLEAN :
               (k = "immediate" => d = 0) /\ Schedule(t, k, d, b)
         \/ \E i \in Ids : \/ Clear(t, i) \/ Refresh(t, i) \/ Await(t, i)
                           \/ \E b \in BOOLEAN : Ref(t, i, b)
         \/ NestedPump(t) \/ HandleTick(t)

Next == Clock \/ \E t \in Threads : Step(t) \/ Js(t) \/ RetireAgent(t)

\* Threads run, time passes, and a callback does not pump the loop for ever.
Fairness == /\ WF_vars(Clock)
            /\ \A t \in Threads : WF_vars(Step(t)) /\ SF_vars(Return(t))

Spec == Init /\ [][Next]_vars /\ Fairness

-----------------------------------------------------------------------------
(* Properties. *)

\* Where timer i waits to fire: one element per queue entry or detached entry.
Waits(i) ==
  {w \in (1 .. 3) \X Ids :
     w[2] \in DOMAIN queues[w[1]] /\ queues[w[1]][w[2]].id = i}
  \cup {w \in Threads \X (1 .. MaxDepth) \X Ids :
          /\ w[2] \in DOMAIN stack[w[1]] /\ w[3] \in DOMAIN stack[w[1]][w[2]].batch
          /\ stack[w[1]][w[2]].batch[w[3]].id = i}

\* A one-shot timer that nobody cleared is queued, or detached, or has fired,
\* exactly one of the three and once, whatever threads tick the queue at the
\* same time and however ticks nest; an interval stays queued until cleared.
ExactlyOnce ==
  \A i \in Created \ gone :
    IF kind[i] = "interval" THEN i \in IdsOf(intervalQ)
    ELSE Cardinality(Waits(i)) + fires[i] = 1

\* No thread holds a closure of a heap that is not its own, and no queue
\* names the heap of a worker that has ended.
HeapAlive ==
  /\ \A q \in {promiseQ, callbackQ, intervalQ} :
       \A n \in DOMAIN q : q[n].owner \in live \cup {Primary}
  /\ \A t \in Threads : \A m \in DOMAIN stack[t] :
       \A n \in DOMAIN stack[t][m].batch :
         stack[t][m].batch[n].owner = CurrentAgent(t)

\* Within one turn timeouts fire by deadline and, at the same deadline, in
\* creation order; immediates fire in creation order, after every timeout that
\* was due when the turn began.  Timers set or refreshed during the turn wait
\* for the next.
PendingOf(t) == \* the entries the turn of t may still have to fire
  {e \in Range(Top(t).batch) \cup Range(callbackQ) :
     e.owner = CurrentAgent(t) /\ (e.deadline - e.delay < Top(t).at \/ e \in Range(Top(t).batch))}

DeadlineOrder ==
  [][\A t \in Threads :
       Call(t) /\ Head(Top(t).batch).kind # "interval" =>
         LET f == Head(Top(t).batch) IN
         \A e \in PendingOf(t) \ {f} :
           /\ f.kind = "timeout" /\ e.kind = "timeout" =>
                f.deadline < e.deadline \/ (f.deadline = e.deadline /\ f.id < e.id)
           /\ f.kind = "immediate" /\ e.kind = "immediate" => f.id < e.id
           /\ f.kind = "immediate" /\ e.kind = "timeout" => e.deadline > Top(t).at]_vars

\* A timer of the primary agent that keeps its ref and is not cleared fires,
\* whatever the other pumps and the workers do.
TimersFire ==
  \A i \in Ids :
    (kind[i] # None /\ \E q \in {promiseQ, callbackQ, intervalQ} :
       \E n \in DOMAIN q : q[n].id = i /\ q[n].owner = Primary)
      ~> (fires[i] > 0 \/ i \in gone \/ ~wish[i])

Waiting(t, n) == n \in DOMAIN stack[t] /\ stack[t][n].pc = "wait"

\* A busy-waiting await inside a callback ends once the timer that resolves
\* its promise is due, unless the program clears or unrefs that timer: the
\* await loop keeps firing timers.  (The loop waits one frame below the bound.)
AwaitSettles ==
  \A t \in Pumps : \A n \in 1 .. MaxDepth - 1 :
    Waiting(t, n) ~> \/ ~Waiting(t, n)
                     \/ stack[t][n].on \in gone \/ ~wish[stack[t][n].on]

-----------------------------------------------------------------------------
(* What texts of the repository claim and the code does not keep: no run     *)
(* checks these, README section 7 tells how each of them fails.              *)

\* A cleared timer does not fire any more.
ClearedNeverFires ==
  [][\A i \in gone : fires'[i] = fires[i]]_vars

\* An unref'd timer stays unref'd while it is scheduled.
UnrefKept == \A i \in IdsOf(callbackQ) \cup IdsOf(intervalQ) : HasRef(i) = wish[i]
=============================================================================
