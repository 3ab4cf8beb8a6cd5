------------------------------ MODULE MCTimers ------------------------------
(***************************************************************************)
(* Timers.tla for TLC.  A behaviour is one of Solo, where JS on one thread *)
(* does everything it can to two timers, of Shared, where two threads of   *)
(* the primary agent and a worker tick the same queues, or of Idle, where  *)
(* unref'd timers, promise timers among them, depend on what else keeps    *)
(* the loop going.                                                         *)
(***************************************************************************)
EXTENDS Timers

CONSTANTS main, ui, worker

VARIABLE setup

S == INSTANCE Timers WITH Pumps <- {main}, Workers <- {}
H == INSTANCE Timers WITH Ops <- {"timeout", "interval", "clear"}, Delays <- {1}, MaxDepth <- 1
I == INSTANCE Timers WITH Pumps <- {main}, Workers <- {}, Handles <- BOOLEAN, MaxDepth <- 1, Delays <- {1},
                          Ops <- {"timeout", "interval", "promise", "unrefPromise", "unref"}

mcvars == <<vars, setup>>

Of(solo, shared, idle) == /\ \/ setup = "solo" /\ solo
                             \/ setup = "shared" /\ shared
                             \/ setup = "idle" /\ idle
                          /\ UNCHANGED setup

MCInit == Init /\ setup \in {"solo", "shared", "idle"}
MCNext == Of(S!Next, H!Next, I!Next)
MCSpec == /\ MCInit /\ [][MCNext]_mcvars
          /\ WF_mcvars(Of(S!Clock, H!Clock, I!Clock))
          /\ WF_mcvars(Of(S!Step(main), H!Step(main), I!Step(main)))
          /\ SF_mcvars(Of(S!Return(main), FALSE, FALSE))  \* only there a callback can pump
          /\ WF_mcvars(Of(FALSE, H!Step(ui), FALSE))
          /\ WF_mcvars(Of(FALSE, H!Step(worker), FALSE))

\* What js_callback_timer_tick and its siblings owe a program that waits: timers
\* fire, and an await inside a callback, which only Solo has, ends.
TimersSettle == TimersFire /\ S!AwaitSettles
=============================================================================
