---------------------------- MODULE MCEventPump ----------------------------
(***************************************************************************)
(* EventPump.tla for TLC.  The cfg's constants are the build with ordered  *)
(* stores and no wait driver; a behaviour of MCSpec is one of that build,  *)
(* of one with the driver, or of one without it whose stores are buffered. *)
(* Only the last one may rely on the idle cap.                             *)
(***************************************************************************)
EXTENDS EventPump

VARIABLE build

D == INSTANCE EventPump WITH Driver <- TRUE, Buffered <- TRUE
B == INSTANCE EventPump WITH Driver <- FALSE, Buffered <- TRUE

mcvars == <<vars, build>>

(* The step of the build at hand. *)
Of(ordered, driver, buffered) ==
    /\ \/ build = "ordered" /\ ordered
       \/ build = "driver" /\ driver
       \/ build = "buffered" /\ buffered
    /\ UNCHANGED build

MCInit == Init /\ build \in {"ordered", "driver", "buffered"}
MCNext == Of(Next, D!Next, B!Next)

(* The fairness of PromptSpec in the first two builds, of Spec in the third. *)
MCSpec ==
    /\ MCInit /\ [][MCNext]_mcvars
    /\ WF_mcvars(Of(MainRuns, D!MainRuns, B!MainRuns))
    /\ WF_mcvars(Of(FALSE, FALSE, B!Timeout))
    /\ \A p \in Producers :
           /\ WF_mcvars(Of(ProducerStep(p), D!ProducerStep(p), B!ProducerStep(p)))
           /\ WF_mcvars(Of(FlushStore(p), D!FlushStore(p), B!FlushStore(p)))

(* Where the store of NOTIFIED is ordered before the load of WAITER_COUNT, or
   the main thread sleeps in the driver's tick, js_notify_main_thread always
   ends a sleep on queued work: the 1-second cap is not what wakes it. *)
WakeupsSuffice == build # "buffered" => NoLostNotify
============================================================================
