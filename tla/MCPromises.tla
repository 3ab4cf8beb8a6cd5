----------------------------- MODULE MCPromises -----------------------------
(***************************************************************************)
(* Microtasks.tla and Rejections.tla for TLC.  A behaviour is one of       *)
(*   A  tasks of every kind and throws in the runs of an ESM program,      *)
(*   N  promise jobs, queueMicrotask callbacks and async steps that run    *)
(*      the queue themselves,                                              *)
(*   T  the same without steps, and with a throw,                          *)
(*   K  promise jobs and ticks in nested runs,                             *)
(*   R  rejections, reactions, listeners and a throw,                      *)
(*   M  one promise, which a collection moves.                             *)
(***************************************************************************)
EXTENDS Microtasks, Rejections

CONSTANTS p1, p2, a1, a2

VARIABLES setup

A == INSTANCE Microtasks WITH MaxDepth <- 1
N == INSTANCE Microtasks WITH Kinds <- {"promise", "micro", "step"}, Esm <- FALSE, MaxThrows <- 0
T == INSTANCE Microtasks WITH Kinds <- {"promise", "micro"}, Esm <- FALSE, MaxThrows <- 1
K == INSTANCE Microtasks WITH Kinds <- {"promise", "micro", "tick"}, Esm <- FALSE, MaxThrows <- 0, MaxDepth <- 2
R == INSTANCE Rejections WITH MaxMoves <- 0
M == INSTANCE Rejections WITH Promises <- {p1}

ASSUME R!RejectionsAssumption /\ M!RejectionsAssumption

runner == <<vars, setup>>
mcvars == <<runner, trackervars>>

MCInit == /\ setup \in {"A", "N", "T", "K", "R", "M"}
          /\ IF setup = "A" THEN Init ELSE N!Init
          /\ TrackerInit /\ (setup \in {"R", "M"} \/ listeners = {})

(* A step of the runner's setups, or of the checkpoint's. *)
Jobs(a, n, t, k) == /\ \/ setup = "A" /\ a
                       \/ setup = "N" /\ n
                       \/ setup = "T" /\ t
                       \/ setup = "K" /\ k
                    /\ UNCHANGED <<setup, trackervars>>
Tracker(r, m) == /\ \/ setup = "R" /\ r
                    \/ setup = "M" /\ m
                 /\ UNCHANGED runner

MCNext == Jobs(A!Next, N!Next, T!Next, K!Next) \/ Tracker(R!TrackerNext, M!TrackerNext)

Idle == stack = <<>> /\ RunMicrotasks("ticks")

MCSpec == /\ MCInit /\ [][MCNext]_mcvars
          /\ WF_mcvars(Jobs(A!Runner, N!Runner, T!Runner, K!Runner))
          /\ SF_mcvars(Jobs(A!Returns, N!Returns, T!Returns, K!Returns))
          /\ WF_mcvars(Jobs(Idle, Idle, Idle, Idle))
          /\ WF_mcvars(Tracker(R!Checkpoint, M!Checkpoint))
          /\ WF_mcvars(Tracker(R!Enter(FALSE), M!Enter(FALSE)))

Types == TypeOK /\ TrackerTypes

(* The queues: a tick does not overtake the jobs of its creator, a run     *)
(* leaves nothing queued (js_promise_run_microtasks), and every task runs. *)
QueuesDrain == TicksWait /\ DrainsDry /\ AllRun

(* What is handled, or the runtime's own, is not reported, unless a        *)
(* promise was moved; what stays unhandled is reported while the process   *)
(* runs (report_unhandled).                                                *)
ReportsUnhandled ==
    /\ [][OnlyUnhandled]_mcvars
    /\ Reported
=============================================================================
