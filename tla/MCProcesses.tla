---------------------------- MODULE MCProcesses ----------------------------
(***************************************************************************)
(* Updater.tla, Cluster.tla and Compose.tla for TLC.  A behaviour is one   *)
(* of                                                                      *)
(*   power, calm    the updater, with and without a power loss;            *)
(*   relisten       one worker whose server is closed and listens again,   *)
(*   faults         one worker and every fault, one listen(),              *)
(*   leave          one worker that leaves or dies, no close(), no slow    *)
(*                  answer,                                                *)
(*   pair           two workers that stay;                                 *)
(*   redeploy       one engine, processes that end anywhere, edited specs, *)
(*   late           one engine, runs that fail half way or outlive their   *)
(*                  timeout,                                               *)
(*   shared         two engines of one project,                            *)
(*   apart          two projects without container names or networks.      *)
(***************************************************************************)
EXTENDS Updater, Cluster

CONSTANTS w1, w2

VARIABLES setup, cont, res, eng, late, ops, faults, fresh, exits

compose == <<cont, res, eng, late, ops, faults, fresh, exits>>
mcvars  == <<vars, clustervars, compose, setup>>

(* The configuration has what the cluster's setups have between them; each *)
(* leaves something out.                                                   *)
Without(setups, p) == setup \in setups => ~p

ClusterSetup ==
    /\ Without({"relisten", "faults", "leave"}, proc'[w2] # "none" \/ next' > 3)
    /\ Without({"faults", "leave", "pair"}, gen'[w1] > 1 \/ gen'[w2] > 1)
    /\ Without({"relisten", "pair"}, shut'[w1] \/ shut'[w2])
    /\ Without({"leave", "pair"}, slow' > 0 \/ pump' = "no" \/ \E s \in DOMAIN srv : srv'[s] = "closing")
    /\ Without({"pair"}, kills' > 0)

(* A web service (1) depends on a database (2); the spec after an edit,    *)
(* without the web service, and with a cycle.                              *)
Plain  == [svcs |-> <<1, 2>>, deps |-> {<<1, 2>>}, ver |-> 1]
Edited == [Plain EXCEPT !.ver = 2]
Fewer  == [Plain EXCEPT !.svcs = <<2>>, !.deps = {}]
Cyclic == [Plain EXCEPT !.deps = {<<1, 2>>, <<2, 1>>}]
Only(s) == [svcs |-> <<s>>, deps |-> {}, ver |-> 1]

Refusals == {"mk", "build", "inspect", "start", "run", "rm", "list"}

R == INSTANCE Compose WITH Engines <- {1}, ProjOf <- <<1>>, Specs <- {Plain, Edited, Fewer, Cyclic},
                           Named <- {2}, Nets <- 1, Vols <- 2,
                           External <- {[k |-> "vol", p |-> 1, i |-> 2]}, Bridge <- TRUE,
                           Idempotent <- FALSE, Faults <- Refusals, MaxOps <- 2, MaxFaults <- 1,
                           MaxFresh <- 1, MaxExits <- 1
L == INSTANCE Compose WITH Engines <- {1}, ProjOf <- <<1>>, Specs <- {Plain}, Named <- {2},
                           Nets <- 1, Vols <- 1, External <- {}, Bridge <- TRUE,
                           Idempotent <- TRUE, Faults <- {"partial", "timeout"}, MaxOps <- 2,
                           MaxFaults <- 1, MaxFresh <- 0, MaxExits <- 0
S == INSTANCE Compose WITH Engines <- {1, 2}, ProjOf <- <<1, 1>>, Specs <- {Only(1)}, Named <- {1},
                           Nets <- 1, Vols <- 1, External <- {}, Bridge <- TRUE,
                           Idempotent <- TRUE, Faults <- Refusals, MaxOps <- 2, MaxFaults <- 1,
                           MaxFresh <- 0, MaxExits <- 0
A == INSTANCE Compose WITH Engines <- {1, 2}, ProjOf <- <<1, 2>>, Specs <- {Only(1), Only(2)},
                           Named <- {}, Nets <- 1, Vols <- 1, External <- {}, Bridge <- FALSE,
                           Idempotent <- TRUE, Faults <- {}, MaxOps <- 2, MaxFaults <- 0, MaxFresh <- 0, MaxExits <- 0

ASSUME R!EngineNumbers /\ L!EngineNumbers /\ S!EngineNumbers /\ A!EngineNumbers

MCInit ==
    /\ Init /\ ClusterInit
    /\ \/ setup \in {"power", "calm", "relisten", "faults", "leave", "pair", "late"} /\ L!ComposeInit
       \/ setup = "redeploy" /\ R!ComposeInit
       \/ setup = "shared" /\ S!ComposeInit
       \/ setup = "apart" /\ A!ComposeInit

(* A step of the updater, of the cluster, of an engine. *)
Up(step) == /\ setup \in {"power", "calm"} /\ step /\ Without({"calm"}, losses' > 0)
            /\ UNCHANGED <<clustervars, compose, setup>>
Cl(step) == /\ setup \in {"relisten", "faults", "leave", "pair"} /\ step /\ ClusterSetup
            /\ UNCHANGED <<vars, compose, setup>>
Co(r, l, s, a) == /\ \/ setup = "redeploy" /\ r
                     \/ setup = "late" /\ l
                     \/ setup = "shared" /\ s
                     \/ setup = "apart" /\ a
                  /\ UNCHANGED <<vars, clustervars, setup>>

MCNext ==
    \/ Up(Next) \/ Cl(ClusterNext)
    \/ Co(R!ComposeNext, L!ComposeNext, S!ComposeNext, A!ComposeNext)

(* Weaker than the fairness of the three modules: some thread, process or  *)
(* engine goes on, not each of them.                                       *)
GoesOn ==
    \/ Up(\E p \in Procs : Step(p))
    \/ Cl(\/ Primary
          \/ \E w \in Workers : ReaderP(w) \/ Waiter(w) \/ Worker(w)
          \/ \E s \in Servers : Server(s))
    \/ Co(R!EngineStep(1), L!EngineStep(1),
          S!EngineStep(1) \/ S!EngineStep(2), A!EngineStep(1) \/ A!EngineStep(2))

MCSpec == MCInit /\ [][MCNext]_mcvars /\ WF_mcvars(GoesOn)

(* The properties of Compose.tla.  One engine alone, or alone in its       *)
(* project, keeps each of them; two of one project keep what the other may *)
(* not undo.  A rollback does not see a container of a run that failed     *)
(* half way or came late.                                                  *)
In(r, l, s, a) == /\ setup = "redeploy" => r
                  /\ setup = "late" => l
                  /\ setup = "shared" => s
                  /\ setup = "apart" => a

(* A rollback of up(), or a down(), that was refused nothing leaves        *)
(* nothing of its own behind.                                              *)
EnginesClean ==
    /\ In(R!EngineTypes, L!EngineTypes, S!EngineTypes, A!EngineTypes)
    /\ In(R!UndoClean, TRUE, S!UndoClean, A!UndoClean)
    /\ In(R!DownClean, TRUE, TRUE, A!DownClean)

(* No step of an engine touches what it has to spare: a running container  *)
(* of an unchanged service, a volume nobody asked to remove, another       *)
(* project; services start after what they depend on and stop before it.   *)
EnginesSpare ==
    [][/\ In(R!SparesRunning, L!SparesRunning, TRUE, A!SparesRunning)
       /\ In(R!KeepsVolumes, L!KeepsVolumes, TRUE, A!KeepsVolumes)
       /\ In(R!StartsInOrder, L!StartsInOrder, TRUE, TRUE)
       /\ In(R!StopsInOrder, L!StopsInOrder, TRUE, TRUE)
       /\ setup = "apart" => A!KeepsToProject]_mcvars

(* What must come to an end does: a crash loop, if the power stays on; a   *)
(* connection passed to a worker is served or closed, if no server is      *)
(* closed and no answer is slow; bridges end and deaths are seen; every    *)
(* operation of an engine ends (Ends of Compose.tla; operations are        *)
(* bounded, so it is enough that all engines are idle again and again).    *)
ProcessesEnd ==
    /\ setup = "calm" => CrashLoopEnds
    /\ setup \in {"leave", "pair"} => Delivered
    /\ BridgesEnd /\ ExitSeen
    /\ []<>(\A e \in DOMAIN eng : eng[e].pc = "idle")
============================================================================
