----------------------------- MODULE Rejections -----------------------------
(***************************************************************************)
(* The unhandled-rejection checkpoint (promise/rejection.rs).  A promise   *)
(* rejected with no reaction is tracked; the checkpoint after each         *)
(* microtask drain of the event loop, and once more before the process     *)
(* ends, tells the program about those that still have none.  The          *)
(* listeners run JS in the middle of the checkpoint: they reject, attach   *)
(* reactions, allocate and throw.                                          *)
(***************************************************************************)
EXTENDS Naturals, Sequences, FiniteSets, SequencesExt, Queues

CONSTANTS Promises,
          Addrs,        \* where promises live on the movable heap
          MaxReported,  \* MAX_REPORTED_REJECTIONS
          MaxListenerThrows,    \* bound: throws out of listeners and jobs
          MaxMoves,     \* bound: promises the collector moves
          Nil

ASSUME RejectionsAssumption ==
  /\ IsFiniteSet(Promises) /\ Cardinality(Promises) <= Cardinality(Addrs)
  /\ MaxReported \in Nat \ {0} /\ {MaxListenerThrows, MaxMoves} \subseteq Nat
  /\ Nil \notin Promises \cup Addrs \cup {0, 1}

VARIABLES addr,        \* promise -> its address, Nil before it exists
          rejected,    \* the promises that are rejected
          react,       \* promise -> the reactions attached to it
          internally,  \* internally_handled: a set of addresses
          marked,      \* history: the promises that were put into it
          unhandled, reported, pendingHandled, \* RejectionTracker
          processing,  \* PROCESSING_REJECTIONS
          listeners,   \* the events the program listens to
          cp,          \* what the main thread is doing
          told,        \* promises an unhandledRejection was raised for
          handledEv,   \* promise -> rejectionHandled events
          throws, moves, code

trackervars == <<addr, rejected, react, internally, marked, unhandled, reported, pendingHandled,
                 processing, listeners, cp, told, handledEv, throws, moves, code>>
lists   == <<unhandled, reported, pendingHandled>>
heap    == <<addr, rejected, react, internally, marked>>
events  == <<told, handledEv>>

Events == {"unhandledRejection", "uncaughtException", "rejectionHandled"}

\* "js" is the program outside a checkpoint; the last three are JS inside one.
Pc == {"js", "handled", "take", "drain"} \cup Events

\* "own": with_listener_uncaught_trap, "pump": pump_protected, "none": fatal.
Traps == {"own", "pump", "none"}

\* ret: where an uncaughtException listener returns to.
Frame == [pc : Pc, p : Promises \cup {Nil}, budget : Nat, emitted : BOOLEAN,
          final : BOOLEAN, trap : Traps,
          ret : {"js", "handled", "take", "drain", "raise", "die"}]

TrackerTypes ==
  /\ addr \in [Promises -> Addrs \cup {Nil}] /\ rejected \subseteq Promises
  /\ react \in [Promises -> SUBSET {"field", "hook"}]
  /\ internally \subseteq Addrs /\ marked \subseteq Promises
  /\ {unhandled, reported, pendingHandled} \subseteq Seq(Promises)
  /\ Len(reported) <= MaxReported
  /\ processing \in BOOLEAN /\ listeners \subseteq Events /\ cp \in Frame
  /\ told \subseteq Promises
  /\ handledEv \in [Promises -> Nat]
  /\ throws \in 0..MaxListenerThrows /\ moves \in 0..MaxMoves /\ code \in {Nil, 0, 1}

NoFrame == [pc |-> "js", p |-> Nil, budget |-> 0, emitted |-> FALSE,
         final |-> FALSE, trap |-> "pump", ret |-> "js"]

TrackerInit ==
  /\ addr = [p \in Promises |-> Nil] /\ rejected = {}
  /\ react = [p \in Promises |-> {}] /\ internally = {} /\ marked = {}
  /\ unhandled = <<>> /\ reported = <<>> /\ pendingHandled = <<>>
  /\ processing = FALSE /\ listeners \in SUBSET Events /\ cp = NoFrame
  /\ told = {} /\ handledEv = [p \in Promises |-> 0]
  /\ throws = 0 /\ moves = 0 /\ code = Nil

-----------------------------------------------------------------------------
(* What the program does, in a job, a timer or a listener. *)

InJS == code = Nil /\ cp.pc \in {"js", "drain"} \cup Events
Live == {p \in Promises : addr[p] # Nil}
FreeAddrs == Addrs \ {addr[p] : p \in Live}

New(p, a) ==
  /\ InJS /\ p \notin Live /\ a \in FreeAddrs
  /\ addr' = [addr EXCEPT ![p] = a]
  /\ UNCHANGED <<rejected, react, internally, marked, lists, processing, listeners, cp,
                 events, throws, moves, code>>

\* retain on one list, position and remove on the other, which has p at most once.
Forget(s, p) == Without(s, LAMBDA q : q = p)

\* Mutant: the promise stays in the reported list.
HandledKeepsReported(p) ==
  /\ unhandled' = Forget(unhandled, p)
  /\ pendingHandled' = IF Contains(reported, p) THEN Append(pendingHandled, p)
                       ELSE pendingHandled
  /\ UNCHANGED reported

\* mark_rejection_handled.
Handled(p) ==
  /\ unhandled' = Forget(unhandled, p)
  /\ reported' = Forget(reported, p)
  /\ pendingHandled' = IF Contains(reported, p) THEN Append(pendingHandled, p)
                       ELSE pendingHandled

\* internal_promise: a stream's own promise, marked when it is allocated.
NewInternal(p, a) ==
  /\ InJS /\ p \notin Live /\ a \in FreeAddrs
  /\ addr' = [addr EXCEPT ![p] = a]
  /\ internally' = internally \cup {a} /\ marked' = marked \cup {p}
  /\ Handled(p)
  /\ UNCHANGED <<rejected, react, processing, listeners, cp, events, throws,
                 moves, code>>

\* js_promise_reject of a promise that is pending.
Reject(p) ==
  /\ InJS /\ p \in Live \ rejected
  /\ rejected' = rejected \cup {p}
  /\ unhandled' = IF react[p] = {} /\ addr[p] \notin internally
                  THEN Append(unhandled, p) ELSE unhandled
  /\ UNCHANGED <<addr, react, internally, marked, reported, pendingHandled, processing,
                 listeners, cp, events, throws, moves, code>>

\* A reaction: `then` sets the promise's fields and tells the tracker; a settle
\* listener or a combinator only tells it; some internal paths only set fields.
Attach(p, kinds) ==
  /\ InJS /\ p \in Live /\ ~(kinds \subseteq react[p])
  /\ react' = [react EXCEPT ![p] = @ \cup kinds]
  /\ IF "hook" \in kinds THEN Handled(p) ELSE UNCHANGED lists
  /\ UNCHANGED <<addr, rejected, internally, marked, processing, listeners, cp,
                 events, throws, moves, code>>

\* The moving minor at the pump's boundary evacuates p: the root scanner
\* rewrites the three lists, so they still name p, and leaves
\* internally_handled alone.
Evacuate(p, a) ==
  /\ code = Nil /\ cp.pc = "js" /\ moves < MaxMoves /\ p \in Live /\ a \in FreeAddrs
  /\ addr' = [addr EXCEPT ![p] = a] /\ moves' = moves + 1
  /\ UNCHANGED <<rejected, react, internally, marked, lists, processing, listeners,
                 cp, events, throws, code>>

-----------------------------------------------------------------------------
(* process_rejections. *)

Exit(c) == code' = c /\ UNCHANGED cp

\* process.emit("uncaughtException"), or the end of the process.
Uncaught(ret, trap) ==
  IF "uncaughtException" \in listeners
  THEN /\ cp' = [cp EXCEPT !.pc = "uncaughtException", !.ret = ret, !.trap = trap]
       /\ UNCHANGED code
  ELSE Exit(1)

\* Mutant: the checkpoint runs only when the process is about to end.
EnterAtEnd(final) ==
  /\ final
  /\ code = Nil /\ cp.pc = "js"
  /\ IF ~processing
     THEN /\ cp' = [NoFrame EXCEPT !.pc = "handled", !.final = final]
          /\ processing' = TRUE /\ UNCHANGED code
     ELSE /\ final /\ Exit(0) /\ UNCHANGED processing
  /\ UNCHANGED <<heap, lists, listeners, events, throws, moves>>

\* From the event loop, and from its epilogue for the last time.
Enter(final) ==
  /\ code = Nil /\ cp.pc = "js"
  /\ IF ~processing
     THEN /\ cp' = [NoFrame EXCEPT !.pc = "handled", !.final = final]
          /\ processing' = TRUE /\ UNCHANGED code
     ELSE /\ final /\ Exit(0) /\ UNCHANGED processing
  /\ UNCHANGED <<heap, lists, listeners, events, throws, moves>>

EmitHandled ==
  /\ code = Nil /\ cp.pc = "handled" /\ pendingHandled # <<>>
  /\ LET p == Head(pendingHandled)
         heard == "rejectionHandled" \in listeners
     IN  /\ handledEv' = [handledEv EXCEPT ![p] = @ + 1]
         /\ cp' = [cp EXCEPT !.pc = IF heard THEN "rejectionHandled" ELSE @, !.emitted = TRUE]
  /\ pendingHandled' = Tail(pendingHandled)
  /\ UNCHANGED <<heap, unhandled, reported, processing, listeners, told,
                 throws, moves, code>>

\* The budget is what the list holds now.
StartPass ==
  /\ code = Nil /\ cp.pc = "handled" /\ pendingHandled = <<>>
  /\ cp' = [cp EXCEPT !.pc = "take", !.budget = Len(unhandled)]
  /\ UNCHANGED <<heap, lists, processing, listeners, events, throws, moves, code>>

\* Mutant: a handler attached since is overlooked.
StillUnhandledAlways(p) == TRUE

StillUnhandled(p) == p \in rejected /\ "field" \notin react[p]

\* take_next_unhandled skips what has got a reaction in the meantime.
Kept == SelectInSeq(unhandled, StillUnhandled)

ReportAllowed == code = Nil /\ cp.pc = "take" /\ cp.budget > 0 /\ Kept # 0

\* Mutant: the list of reported rejections has no cap.
ReportUncapped(p) == Append(reported, p)

\* Past the cap the oldest reported promise is forgotten.
Report(p) == Append(IF Len(reported) >= MaxReported THEN Tail(reported) ELSE reported, p)

\* report_unhandled: the listener of unhandledRejection, else uncaughtException,
\* else the process ends.
ReportUnhandled ==
  /\ ReportAllowed
  /\ LET p == unhandled[Kept]
         next == [cp EXCEPT !.p = p, !.budget = @ - 1, !.emitted = TRUE]
     IN  /\ unhandled' = SubSeq(unhandled, Kept + 1, Len(unhandled))
         /\ reported' = Report(p)
         /\ told' = told \cup {p}
         /\ \/ /\ "unhandledRejection" \in listeners
               /\ cp' = [next EXCEPT !.pc = "unhandledRejection"] /\ UNCHANGED code
            \/ /\ listeners \cap {"unhandledRejection", "uncaughtException"} = {"uncaughtException"}
               /\ cp' = [next EXCEPT !.pc = "uncaughtException", !.ret = "take", !.trap = "own"]
               /\ UNCHANGED code
            \/ /\ listeners \cap {"unhandledRejection", "uncaughtException"} = {}
               /\ Exit(1)
  /\ UNCHANGED <<heap, pendingHandled, processing, listeners, handledEv, throws, moves>>

\* Mutant: the guard is not reset.
LeaveKeepsGuard ==
  /\ UNCHANGED processing
  /\ IF cp.final THEN Exit(0) ELSE cp' = NoFrame /\ UNCHANGED code

Leave ==
  /\ processing' = FALSE
  /\ IF cp.final THEN Exit(0) ELSE cp' = NoFrame /\ UNCHANGED code

\* Mutant: one pass only.
EndPassOnce ==
  /\ code = Nil /\ cp.pc = "take" /\ ~ReportAllowed
  /\ unhandled' = IF cp.budget > 0 THEN <<>> ELSE unhandled
  /\ Leave
  /\ UNCHANGED <<heap, reported, pendingHandled, listeners, events, throws, moves>>

\* The checkpoint is over when a pass has emitted nothing.
EndPass ==
  /\ code = Nil /\ cp.pc = "take" /\ ~ReportAllowed
  /\ unhandled' = IF cp.budget > 0 THEN <<>> ELSE unhandled
  /\ IF cp.emitted THEN cp' = [cp EXCEPT !.pc = "drain"] /\ UNCHANGED <<processing, code>>
     ELSE Leave
  /\ UNCHANGED <<heap, reported, pendingHandled, listeners, events, throws, moves>>

\* The jobs the listeners queued are done.
Drained ==
  /\ code = Nil /\ cp.pc = "drain"
  /\ cp' = [cp EXCEPT !.pc = "handled", !.emitted = FALSE]
  /\ UNCHANGED <<heap, lists, processing, listeners, events, throws, moves, code>>

\* "raise": report_unhandled goes on when its listener's exception was taken
\* care of; `handled` is still false, so the rejection is raised again.
Return ==
  /\ code = Nil /\ cp.pc \in Events
  /\ CASE cp.pc = "rejectionHandled"   -> cp' = [cp EXCEPT !.pc = "handled"] /\ UNCHANGED code
       [] cp.pc = "unhandledRejection" -> cp' = [cp EXCEPT !.pc = "take"] /\ UNCHANGED code
       [] cp.pc = "uncaughtException"  ->
            CASE cp.ret = "raise" -> Uncaught("take", "own")
              [] cp.ret = "die"   -> Exit(1)
              [] OTHER            -> cp' = [cp EXCEPT !.pc = cp.ret] /\ UNCHANGED code
  /\ UNCHANGED <<heap, lists, processing, listeners, told, handledEv, throws, moves>>

\* A throw out of a listener or of a drained job.  Its trap is popped before
\* uncaughtException is emitted: what that listener throws leaves the checkpoint
\* for the trap of the event loop's run, which reports it when it has ended.
ListenerThrows ==
  /\ code = Nil /\ cp.pc \in {"drain"} \cup Events /\ throws < MaxListenerThrows
  /\ throws' = throws + 1
  /\ CASE cp.pc = "rejectionHandled"   -> Uncaught("handled", "pump")
       [] cp.pc = "unhandledRejection" -> Uncaught("raise", "pump")
       [] cp.pc = "drain"              -> Uncaught("drain", "pump")
       [] cp.pc = "uncaughtException"  ->
            CASE cp.trap = "own"                  -> Uncaught("die", "pump")
              [] cp.trap = "pump" /\ ~cp.final    -> Uncaught("js", "none")
              [] OTHER                            -> Exit(1)
  /\ UNCHANGED <<heap, lists, processing, listeners, events, moves>>

Program == \/ \E p \in Promises, a \in Addrs : New(p, a) \/ NewInternal(p, a) \/ Evacuate(p, a)
           \/ \E p \in Promises : Reject(p)
           \/ \E p \in Promises : \E k \in {{"field"}, {"hook"}, {"field", "hook"}} : Attach(p, k)

Checkpoint == EmitHandled \/ StartPass \/ ReportUnhandled \/ EndPass \/ Drained \/ Return

TrackerNext == Program \/ Checkpoint \/ ListenerThrows \/ \E final \in BOOLEAN : Enter(final)

\* The event loop turns, listeners return and the drain ends.
TrackerSpec == /\ TrackerInit /\ [][TrackerNext]_trackervars
               /\ WF_trackervars(Checkpoint) /\ WF_trackervars(Enter(FALSE))

-----------------------------------------------------------------------------
(* Properties.  OnlyUnhandled is kept by every step: [][OnlyUnhandled]_trackervars. *)

\* Nobody is told of a rejection that has a reaction, whichever way it was
\* attached, or of a promise the runtime keeps to itself (internally_handled is a
\* set of addresses, so of the latter only while no promise has been moved).
OnlyUnhandled ==
  \A p \in told' \ told : react[p] = {} /\ (moves = 0 => p \notin marked)

\* rejectionHandled is emitted at most once for a promise, and only for one that
\* was reported before its reaction came.
HandledOnce ==
  \A p \in Promises : handledEv[p] <= 1 /\ (handledEv[p] = 1 => p \in told /\ react[p] # {})

\* A process that ends with code 0 has told the program of every rejection that
\* is without a reaction, if no promise has been moved.
SurfacesBeforeZero ==
  code = 0 /\ moves = 0 => \A p \in rejected \ (marked \cup told) : react[p] # {}

\* A process that ends with code 0 has emitted rejectionHandled for every
\* reported promise that got a reaction and was not forgotten.
LateHandlersSurface ==
  code = 0 => \A p \in told : "hook" \in react[p] =>
                handledEv[p] = 1 \/ Cardinality(told) > MaxReported

\* A process that ends with 0 has reported every unhandled rejection and every late
\* handler; a late handler is reported once, and only for what was reported before
\* (process_rejections, mark_rejection_handled).
SurfacesAtZero == SurfacesBeforeZero /\ LateHandlersSurface /\ HandledOnce

\* A rejection without a reaction is reported, or gets one, or the process ends.
Reported ==
  \A p \in Promises :
    (p \in rejected \ marked /\ react[p] = {}) ~> (p \in told \/ react[p] # {} \/ code # Nil)
=============================================================================
