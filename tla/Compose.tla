------------------------------- MODULE Compose -------------------------------
(***************************************************************************)
(* The container compose orchestrator: ComposeEngine of                     *)
(* perry-container-compose/src/compose.rs.  An engine holds a spec and the  *)
(* lists of what its last up() created (session_containers, _networks,      *)
(* _volumes); everything else lives in the container runtime, which other   *)
(* engines (another terminal, the next process) use at the same time.       *)
(* up() creates the networks, the volumes and the services in dependency    *)
(* order and rolls back when a service fails; down() rolls the session      *)
(* back, sweeps the services by label and by name, and removes the          *)
(* networks.  One action is one call to the backend: the engine awaits each *)
(* of them, and between two of them anything can happen.  A stop followed   *)
(* by a forced remove of the same container is one action.                  *)
(*                                                                          *)
(* A service is a number, so that the BTreeSet's order is <; a spec is its  *)
(* services in the order of their declaration, the pairs <<s, d>> of its    *)
(* depends_on, and the hash of its content (ver).  A process that ends, at  *)
(* any point, leaves a fresh engine behind (FreshEngine), perhaps with an   *)
(* edited spec.                                                             *)
(***************************************************************************)
EXTENDS Integers, Sequences, FiniteSets, SequencesExt, FiniteSetsExt, Queues

CONSTANTS Engines,     \* engines, one operation at a time each: {1, 2}
          ProjOf,      \* the project of each engine
          Specs,       \* the specs an engine may hold: [svcs, deps, ver]
          Named,       \* services with a container_name
          Nets, Vols,  \* numbers of networks and volumes in every spec
          External,    \* the resources declared external: true
          Bridge,      \* the backend has user-defined networks
          Idempotent,  \* creating a volume that exists succeeds: docker does
          Faults,      \* what the backend may refuse (see Fault)
          MaxOps, MaxFaults, MaxFresh, MaxExits  \* bounds

EngineNumbers ==
    /\ Engines \subseteq Nat \ {0}
    /\ {Nets, Vols, MaxOps, MaxFaults, MaxFresh, MaxExits} \subseteq Nat
    /\ Idempotent \in BOOLEAN

VARIABLES cont,   \* containers of the runtime
          res,    \* its networks and volumes
          eng,    \* the engines
          late,   \* runs the engine gave up on and the CLI did not
          ops, faults, fresh, exits

composevars == <<cont, res, eng, late, ops, faults, fresh, exits>>

-----------------------------------------------------------------------------
(* The spec of an engine.                                                  *)

\* resolve_network_name / resolve_volume_name: <project>_<decl>.
Declared(e, kind, n) ==
    Without([i \in 1..n |-> [k |-> kind, p |-> ProjOf[e], i |-> i]],
            LAMBDA r : r \in External)

NetSeq(e) == Declared(e, "net", Nets)
VolSeq(e) == Declared(e, "vol", Vols)

\* A container_name is used as it is; otherwise the name ends in a random
\* number, drawn once per engine and kept in service_container_names.
NameOf(e, s) == IF s \in Named THEN <<0, 0, s>> ELSE <<e, eng[e].inc, s>>

Services(sp) == Range(sp.svcs)

\* Mutant, a mistaken StartupOrder: the names alone decide.
StartupByName(sp) == SetToSortSeq(Services(sp), <)

\* Kahn's algorithm with a BTreeSet as its queue: the least service whose
\* dependencies have all been placed comes next.
StartupOrder(sp) ==
    LET Ready(P) == {s \in Services(sp) \ P :
                        \A d \in sp.deps : d[1] = s => d[2] \in P}
        From[P \in SUBSET Services(sp)] ==
            IF Ready(P) = {} THEN <<>>
            ELSE <<Min(Ready(P))>> \o From[P \cup {Min(Ready(P))}]
    IN From[{}]

\* A cycle, or a dependency the spec does not define, is an error.
OrderOk(sp) == Len(StartupOrder(sp)) = Len(sp.svcs)

\* An empty list of services means all of them.
Target(e) ==
    SelectSeq(StartupOrder(eng[e].spec),
              LAMBDA s : eng[e].svcs = <<>> \/ s \in Range(eng[e].svcs))

\* Mutant, a mistaken DownOrder: the order of up().
DownInUpOrder(e) == Target(e)

\* Dependents go first.
DownOrder(e) == Reverse(Target(e))

-----------------------------------------------------------------------------
(* The container runtime, from how the engine uses it.                     *)

\* Every container mounts the volumes of its project and joins its networks:
\* a volume a container mounts and a network a running one is on cannot be
\* removed.
InUse(r) ==
    \E c \in cont : /\ c.proj = r.p
                    /\ r.k = "net" => c.st = "running"

ByName(n) == {c \in cont : c.name = n}
ById(i) == {c \in cont : c.id = i}

\* An entry of session_containers is the id of a container that was run, or
\* the name of one that was started.
Entry(x) == IF x.id = 0 THEN ByName(x.name) ELSE ById(x.id)

\* The backend refuses a call: the CLI fails or hangs until its timeout.
Fault(kind) ==
    /\ kind \in Faults
    /\ faults < MaxFaults
    /\ faults' = faults + 1

NoFault == faults' = faults

Stopped(C) == (cont \ C) \cup {[c EXCEPT !.st = "stopped"] : c \in C}

\* stop, then a forced remove; both results are dropped.  A failed remove
\* leaves the container stopped.
KillAll(C) ==
    \/ cont' = cont \ C /\ NoFault
    \/ /\ C # {}
       /\ Fault("rm")
       /\ cont' = Stopped(C)

Gone(C) == ~\E c \in C, d \in cont' : d.id = c.id

Set(e, r) == eng' = [eng EXCEPT ![e] = r]

Bounds == UNCHANGED <<ops, fresh, exits>>

-----------------------------------------------------------------------------
(* up().                                                                   *)

EngineIdle(e) == eng[e].pc = "idle" /\ ops < MaxOps

Begin(e, r) ==
    /\ EngineIdle(e)
    /\ ops' = ops + 1
    /\ eng' = [eng EXCEPT ![e] = [r EXCEPT !.n = ops + 1, !.ret = "none",
                                           !.bad = FALSE]]
    /\ UNCHANGED <<cont, res, late, faults, fresh, exits>>

\* Mutant, a mistaken UpStart: session_containers keeps what an earlier up() created.
UpStartKeeps(e, q) ==
    [eng[e] EXCEPT !.op = "up", !.pc = "res", !.svcs = q, !.sr = <<>>,
                   !.todo = (IF Bridge THEN NetSeq(e) ELSE <<>>) \o VolSeq(e)]

\* The session lists of an earlier up() are cleared first.  Networks are
\* skipped where the backend has no user-defined ones.
UpStart(e, q) ==
    [eng[e] EXCEPT !.op = "up", !.pc = "res", !.svcs = q,
                   !.sc = <<>>, !.sr = <<>>,
                   !.todo = (IF Bridge THEN NetSeq(e) ELSE <<>>) \o VolSeq(e)]

\* The caller's list: services of the spec, each once, in any order.
Asked(e) == SetToAllKPermutations(Services(eng[e].spec))

Up(e) == \E q \in Asked(e) : Begin(e, UpStart(e, q))

\* Mutant, a mistaken Return: the operation does not end.
ReturnInPlace(e, r, how) == [r EXCEPT !.ret = how, !.todo = <<>>, !.ids = {}]

Return(e, r, how) == [r EXCEPT !.pc = "idle", !.ret = how, !.todo = <<>>,
                               !.ids = {}]

\* What exists in the runtime under the name of r.
Exists(r) == r \in {x.r : x \in res}

\* inspect_network / inspect_volume: any error, not only the one that says the
\* name is unknown, reads as absent.  Then resolve_startup_order, whose error
\* leaves up() by `?`.
NextRes(e) ==
    /\ eng[e].pc = "res"
    /\ IF eng[e].todo # <<>>
       THEN \/ /\ Exists(Head(eng[e].todo)) /\ NoFault
               /\ Set(e, [eng[e] EXCEPT !.todo = Tail(@)])
            \/ /\ \/ ~Exists(Head(eng[e].todo)) /\ NoFault
                  \/ Fault("inspect")
               /\ Set(e, [eng[e] EXCEPT !.pc = "mk"])
       ELSE /\ NoFault
            /\ IF OrderOk(eng[e].spec)
               THEN Set(e, [eng[e] EXCEPT !.pc = "svc", !.todo = Target(e)])
               ELSE Set(e, Return(e, eng[e], "failed"))
    /\ Bounds /\ UNCHANGED <<cont, res, late>>

\* `volume create` of a name that exists succeeds and changes nothing; any
\* other create of it is refused.
Adopts(r) == Exists(r) /\ r.k = "vol" /\ Idempotent

\* create_network / create_volume.  What was created without an error is
\* listed as the session's, be it new or not; an error, also when another
\* engine has just created it, leaves up() by `?`.
MakeRes(e) ==
    LET r == Head(eng[e].todo) IN
    /\ eng[e].pc = "mk"
    /\ \/ /\ \/ ~Exists(r) /\ res' = res \cup {[r |-> r, by |-> eng[e].n]}
             \/ Adopts(r) /\ res' = res
          /\ Set(e, [eng[e] EXCEPT !.pc = "res", !.todo = Tail(@),
                                   !.sr = Append(@, r)])
          /\ NoFault
       \/ /\ \/ Exists(r) /\ ~Adopts(r) /\ NoFault
             \/ Fault("mk")
          /\ Set(e, Return(e, eng[e], "failed"))
          /\ res' = res
    /\ Bounds /\ UNCHANGED <<cont, late>>

\* Mutant, a mistaken Undo: only containers are rolled back.
UndoContainers(r) == [r EXCEPT !.pc = "undo", !.todo = <<>>, !.sr = <<>>]

Undo(r) == [r EXCEPT !.pc = "undo", !.todo = <<>>]

\* The image is built and the spec normalised; either may end the up(), and
\* rolls back.  Otherwise inspect decides: a container whose hash differs is
\* replaced, one that runs is skipped, a stopped one is started.  An inspect
\* that fails reads as absent.
Service(e) ==
    LET s == Head(eng[e].todo)
        live == ByName(NameOf(e, s))
        To(pc) == Set(e, [eng[e] EXCEPT !.pc = pc])
    IN
    /\ eng[e].pc = "svc"
    /\ IF eng[e].todo = <<>>
       THEN Set(e, Return(e, eng[e], "up")) /\ NoFault
       ELSE \/ Fault("build") /\ Set(e, Undo(eng[e]))
            \/ Fault("inspect") /\ To("run")
            \/ live = {} /\ To("run") /\ NoFault
            \/ \E c \in live :
                  /\ \/ c.ver # eng[e].spec.ver /\ To("swap")
                     \/ /\ c.ver = eng[e].spec.ver /\ c.st = "running"
                        /\ Set(e, [eng[e] EXCEPT !.todo = Tail(@)])
                     \/ c.ver = eng[e].spec.ver /\ c.st # "running" /\ To("start")
                  /\ NoFault
    /\ Bounds /\ UNCHANGED <<cont, res, late>>

\* The container of an edited spec goes before its successor is run.
SwapContainer(e) ==
    /\ eng[e].pc = "swap"
    /\ KillAll(ByName(NameOf(e, Head(eng[e].todo))))
    /\ Set(e, [eng[e] EXCEPT !.pc = "run"])
    /\ Bounds /\ UNCHANGED <<res, late>>

Started(C) == (cont \ C) \cup {[c EXCEPT !.st = "running"] : c \in C}

\* A stopped container is started and listed by its name.
StartOld(e) ==
    LET n == NameOf(e, Head(eng[e].todo))
        live == ByName(n) IN
    /\ eng[e].pc = "start"
    /\ \/ /\ live # {}
          /\ cont' = Started({c \in live : c.st # "running"})
          /\ Set(e, [eng[e] EXCEPT !.pc = "svc", !.todo = Tail(@),
                                   !.sc = Append(@, [id |-> 0, name |-> n])])
          /\ NoFault
       \/ /\ \/ live = {} /\ NoFault
             \/ Fault("start")
          /\ Set(e, Undo(eng[e]))
          /\ cont' = cont
    /\ Bounds /\ UNCHANGED <<res, late>>

\* The runtime gives no id twice.
UsedIds == {0} \cup {c.id : c \in cont} \cup {l.id : l \in late}
               \cup {x.id : x \in UNION {Range(eng[f].sc) : f \in Engines}}
               \cup UNION {eng[f].ids : f \in Engines}

\* The labels carry the project, the service and the hash of the spec.
NewContainer(e, st) ==
    LET s == Head(eng[e].todo) IN
    [id |-> 1 + Max(UsedIds),
     name |-> NameOf(e, s), svc |-> s, proj |-> ProjOf[e],
     ver |-> eng[e].spec.ver, st |-> st, by |-> eng[e].n]

\* run_with_security.  It fails when the name is taken; it may also fail
\* before or after the container exists ("run", "partial"), or the CLI may
\* outlive the timeout the engine gave it ("timeout").  Only a run that
\* returned is listed.
Run(e) ==
    LET new == NewContainer(e, "running")
        free == ByName(new.name) = {} IN
    /\ eng[e].pc = "run"
    /\ \/ /\ free
          /\ cont' = cont \cup {new}
          /\ Set(e, [eng[e] EXCEPT !.pc = "svc", !.todo = Tail(@),
                                   !.sc = Append(@, [id |-> new.id,
                                                     name |-> new.name])])
          /\ NoFault /\ late' = late
       \/ /\ Set(e, Undo(eng[e]))
          /\ \/ ~free /\ NoFault /\ UNCHANGED <<cont, late>>
             \/ Fault("run") /\ UNCHANGED <<cont, late>>
             \/ /\ free /\ Fault("partial")
                /\ cont' = cont \cup {[new EXCEPT !.st = "created"]}
                /\ late' = late
             \/ Fault("timeout") /\ late' = late \cup {new} /\ cont' = cont
    /\ Bounds /\ UNCHANGED res

-----------------------------------------------------------------------------
(* rollback(), of a failed up() and at the start of every down().          *)

\* The last thing the rollback has yet to undo: containers, then networks,
\* then volumes, each list from its end.
Kind(e, k) == Without(eng[e].sr, LAMBDA r : r.k # k)

LastRes(e) == IF Kind(e, "net") # <<>> THEN Last(Kind(e, "net"))
              ELSE Last(Kind(e, "vol"))

\* What remove_network / remove_volume does; the result is dropped.
RemoveRes(r) ==
    \/ ~InUse(r) /\ res' = {x \in res : x.r # r} /\ NoFault
    \/ InUse(r) /\ res' = res /\ NoFault
    \/ Fault("rm") /\ res' = res

Left(r) == \E x \in res' : x.r = r

UndoStep(e) ==
    /\ eng[e].pc = "undo"
    /\ \/ /\ eng[e].sc # <<>>
          /\ KillAll(Entry(Last(eng[e].sc)))
          /\ Set(e, [eng[e] EXCEPT !.sc = Front(@),
                        !.bad = @ \/ ~Gone(Entry(Last(eng[e].sc)))])
          /\ res' = res
       \/ /\ eng[e].sc = <<>> /\ eng[e].sr # <<>>
          /\ RemoveRes(LastRes(e))
          /\ Set(e, [eng[e] EXCEPT !.sr = Without(@, LAMBDA r : r = LastRes(e)),
                                   !.bad = @ \/ Left(LastRes(e))])
          /\ cont' = cont
       \/ /\ eng[e].sc = <<>> /\ eng[e].sr = <<>>
          /\ NoFault /\ UNCHANGED <<cont, res>>
          /\ \/ eng[e].op = "up" /\ Set(e, Return(e, eng[e], "undone"))
             \/ /\ eng[e].op = "down"
                /\ LET back == [eng[e] EXCEPT !.sr = eng[e].saved,
                                              !.saved = <<>>] IN
                   IF OrderOk(eng[e].spec)
                   THEN Set(e, [back EXCEPT !.pc = "list",
                                            !.todo = DownOrder(e)])
                   ELSE Set(e, Return(e, back, "failed"))
    /\ Bounds /\ UNCHANGED late

-----------------------------------------------------------------------------
(* down().                                                                 *)

\* Mutant, a mistaken DownStart: the rollback sees the volumes.
DownStartPlain(e, q, v, o) ==
    [eng[e] EXCEPT !.op = "down", !.pc = "undo", !.svcs = q,
                   !.rmvol = v, !.orph = o, !.saved = <<>>]

\* Volumes the caller keeps are taken off the session's list around the
\* rollback.
DownStart(e, q, v, o) ==
    [eng[e] EXCEPT !.op = "down", !.pc = "undo", !.svcs = q,
                   !.rmvol = v, !.orph = o,
                   !.saved = IF v THEN <<>> ELSE Kind(e, "vol"),
                   !.sr = IF v THEN @ ELSE Kind(e, "net")]

Down(e) == \E q \in Asked(e), v, o \in BOOLEAN : Begin(e, DownStart(e, q, v, o))

\* Mutant, a mistaken Labelled: list(false), which leaves out what is stopped.
LabelledRunning(e, s) ==
    {c \in cont : c.proj = ProjOf[e] /\ c.svc = s /\ c.st = "running"}

Labelled(e, s) == {c \in cont : c.proj = ProjOf[e] /\ c.svc = s}

\* list(true), filtered by the project and service labels; an error leaves
\* down() by `?`.  After the last service come the orphans.
ListService(e) ==
    /\ eng[e].pc = "list"
    /\ IF eng[e].todo = <<>>
       THEN Set(e, [eng[e] EXCEPT !.pc = IF eng[e].orph THEN "orphans"
                                         ELSE "rmres",
                                  !.todo = NetSeq(e) \o
                                     IF eng[e].rmvol THEN VolSeq(e) ELSE <<>>])
            /\ NoFault
       ELSE \/ /\ Set(e, [eng[e] EXCEPT !.pc = "kill",
                             !.ids = {c.id : c \in Labelled(e, Head(eng[e].todo))}])
               /\ NoFault
            \/ Fault("list") /\ Set(e, Return(e, eng[e], "failed"))
    /\ Bounds /\ UNCHANGED <<cont, res, late>>

\* The listed containers one by one, then the one of the engine's own name.
KillListed(e) ==
    /\ eng[e].pc = "kill"
    /\ \/ \E i \in eng[e].ids :
            /\ KillAll(ById(i))
            /\ Set(e, [eng[e] EXCEPT !.ids = @ \ {i},
                                     !.bad = @ \/ ~Gone(ById(i))])
       \/ /\ eng[e].ids = {}
          /\ LET C == ByName(NameOf(e, Head(eng[e].todo))) IN
             /\ KillAll(C)
             /\ Set(e, [eng[e] EXCEPT !.pc = "list", !.todo = Tail(@),
                                      !.bad = @ \/ ~Gone(C)])
    /\ Bounds /\ UNCHANGED <<res, late>>

\* Mutant, a mistaken Orphans: any project's.
OrphansOfAll(e) == {c \in cont : c.svc \notin Services(eng[e].spec)}

\* Orphans: this project's label, and a service the spec no longer has.
Orphans(e) ==
    {c \in cont : c.proj = ProjOf[e] /\ c.svc \notin Services(eng[e].spec)}

\* A failed list only skips the sweep.
ListOrphans(e) ==
    /\ eng[e].pc = "orphans"
    /\ \/ /\ Set(e, [eng[e] EXCEPT !.pc = "sweep",
                                   !.ids = {c.id : c \in Orphans(e)}])
          /\ NoFault
       \/ Fault("list") /\ Set(e, [eng[e] EXCEPT !.pc = "rmres", !.bad = TRUE])
    /\ Bounds /\ UNCHANGED <<cont, res, late>>

\* One container of the sweep of down() or of down_by_project().
Sweep(e) ==
    /\ eng[e].pc = "sweep"
    /\ \/ \E i \in eng[e].ids :
            /\ KillAll(ById(i))
            /\ Set(e, [eng[e] EXCEPT !.ids = @ \ {i},
                                     !.bad = @ \/ ~Gone(ById(i))])
       \/ /\ eng[e].ids = {}
          /\ IF eng[e].op = "down"
             THEN Set(e, [eng[e] EXCEPT !.pc = "rmres"])
             ELSE Set(e, Return(e, eng[e], "swept"))
          /\ NoFault /\ cont' = cont
    /\ Bounds /\ UNCHANGED <<res, late>>

\* The networks of the spec, and its volumes when the caller asked.
RemoveDeclared(e) ==
    /\ eng[e].pc = "rmres"
    /\ IF eng[e].todo = <<>>
       THEN Set(e, Return(e, eng[e], "downed")) /\ NoFault /\ res' = res
       ELSE /\ RemoveRes(Head(eng[e].todo))
            /\ Set(e, [eng[e] EXCEPT !.todo = Tail(@),
                                     !.bad = @ \/ Left(Head(eng[e].todo))])
    /\ Bounds /\ UNCHANGED <<cont, late>>

-----------------------------------------------------------------------------
(* start(), stop(), restart() and down_by_project().                       *)

\* The caller's order, or that of the declarations: dependencies play no part.
ServiceSeq(e, q) == IF q = <<>> THEN eng[e].spec.svcs ELSE q

Control(e) ==
    \E q \in Asked(e), op \in {"start", "stop", "restart"} :
        Begin(e, [eng[e] EXCEPT !.op = op, !.svcs = q,
                     !.pc = IF op = "start" THEN "bstart" ELSE "bstop",
                     !.todo = ServiceSeq(e, q)])

\* Mutant, a mistaken AfterStops: restart() calls itself.
AfterStopsAgain(e) ==
    IF eng[e].op = "restart"
    THEN [eng[e] EXCEPT !.todo = ServiceSeq(e, eng[e].svcs)]
    ELSE Return(e, eng[e], "done")

\* restart() starts only after every stop.
AfterStops(e) ==
    IF eng[e].op = "restart"
    THEN [eng[e] EXCEPT !.pc = "bstart", !.todo = ServiceSeq(e, eng[e].svcs)]
    ELSE Return(e, eng[e], "done")

\* The first service that fails ends the loop.
StopEach(e) ==
    LET live == ByName(NameOf(e, Head(eng[e].todo))) IN
    /\ eng[e].pc = "bstop"
    /\ IF eng[e].todo = <<>>
       THEN Set(e, AfterStops(e)) /\ NoFault /\ cont' = cont
       ELSE \/ /\ live # {} /\ NoFault
               /\ cont' = Stopped(live)
               /\ Set(e, [eng[e] EXCEPT !.todo = Tail(@)])
            \/ /\ (live = {} /\ NoFault) \/ Fault("start")
               /\ Set(e, Return(e, eng[e], "failed")) /\ cont' = cont
    /\ Bounds /\ UNCHANGED <<res, late>>

StartEach(e) ==
    LET live == ByName(NameOf(e, Head(eng[e].todo))) IN
    /\ eng[e].pc = "bstart"
    /\ IF eng[e].todo = <<>>
       THEN Set(e, Return(e, eng[e], "done")) /\ NoFault /\ cont' = cont
       ELSE \/ /\ live # {} /\ NoFault
               /\ cont' = Started({c \in live : c.st # "running"})
               /\ Set(e, [eng[e] EXCEPT !.todo = Tail(@)])
            \/ /\ (live = {} /\ NoFault) \/ Fault("start")
               /\ Set(e, Return(e, eng[e], "failed")) /\ cont' = cont
    /\ Bounds /\ UNCHANGED <<res, late>>

\* down_by_project: a list by the project's label, without spec or handle;
\* networks and volumes are left.
Cleanup(e) == Begin(e, [eng[e] EXCEPT !.op = "sweep", !.pc = "project"])

ListProject(e) ==
    /\ eng[e].pc = "project"
    /\ \/ /\ Set(e, [eng[e] EXCEPT !.pc = "sweep",
                        !.ids = {c.id : c \in {d \in cont : d.proj = ProjOf[e]}}])
          /\ NoFault
       \/ Fault("list") /\ Set(e, Return(e, eng[e], "failed"))
    /\ Bounds /\ UNCHANGED <<cont, res, late>>

-----------------------------------------------------------------------------
(* The processes and the containers.                                       *)

NewEngine(inc, sp) ==
    [pc |-> "idle", op |-> "none", n |-> 0, inc |-> inc, spec |-> sp,
     svcs |-> <<>>, rmvol |-> FALSE, orph |-> FALSE, todo |-> <<>>, ids |-> {},
     sc |-> <<>>, sr |-> <<>>, saved |-> <<>>, ret |-> "none", bad |-> FALSE]

\* The process ends (killed in the middle of an operation, or done), and the
\* next one builds an engine of its own: composeUp and every CLI command do.
FreshEngine(e) ==
    /\ fresh < MaxFresh
    /\ fresh' = fresh + 1
    /\ \E sp \in Specs : Set(e, NewEngine(eng[e].inc + 1, sp))
    /\ UNCHANGED <<cont, res, late, ops, faults, exits>>

\* A container's program ends.
ContainerExits ==
    /\ exits < MaxExits
    /\ exits' = exits + 1
    /\ \E c \in cont : c.st = "running" /\ cont' = Stopped({c})
    /\ UNCHANGED <<res, eng, late, ops, faults, fresh>>

\* A CLI that outlived its timeout finishes: tokio drops the future, and the
\* child is not killed with it.
LateRun ==
    /\ \E l \in late :
          /\ late' = late \ {l}
          /\ cont' = IF ByName(l.name) = {} THEN cont \cup {l} ELSE cont
    /\ UNCHANGED <<res, eng, ops, faults, fresh, exits>>

EngineStep(e) ==
    \/ NextRes(e) \/ MakeRes(e) \/ Service(e) \/ SwapContainer(e) \/ StartOld(e)
    \/ Run(e) \/ UndoStep(e) \/ ListService(e) \/ KillListed(e)
    \/ ListOrphans(e) \/ Sweep(e) \/ RemoveDeclared(e) \/ StopEach(e)
    \/ StartEach(e) \/ ListProject(e)

Call(e) == Up(e) \/ Down(e) \/ Control(e) \/ Cleanup(e)

ComposeNext ==
    \/ \E e \in Engines : EngineStep(e) \/ Call(e) \/ FreshEngine(e)
    \/ ContainerExits \/ LateRun

ComposeInit ==
    /\ cont = {}
    /\ res = {[r |-> r, by |-> 0] : r \in External}
    /\ eng \in [Engines -> {NewEngine(1, sp) : sp \in Specs}]
    /\ late = {}
    /\ ops = 0 /\ faults = 0 /\ fresh = 0 /\ exits = 0

\* Every backend call of CliBackend ends, by its answer or by its timeout.
ComposeFairness == \A e \in Engines : WF_composevars(EngineStep(e))

ComposeSpec == ComposeInit /\ [][ComposeNext]_composevars /\ ComposeFairness

-----------------------------------------------------------------------------
(* Properties.  Those with primes are kept by every step.                  *)

EngineTypes ==
    /\ \A c \in cont : /\ c.st \in {"created", "running", "stopped"}
                       /\ \A d \in cont : d.name = c.name => d = c
    /\ \A x, y \in res : x.r = y.r => x = y
    /\ \A e \in Engines :
          /\ eng[e].n \in 0..ops
          /\ eng[e].pc \in {"res", "mk", "svc", "swap", "start", "run"}
                => eng[e].op = "up" /\ eng[e].ids = {}
          /\ eng[e].pc \in {"mk", "swap", "start", "run", "kill"}
                => eng[e].todo # <<>>

Acts(e) == eng'[e] # eng[e]

StaysUp(c) == \E d \in cont' : d.id = c.id /\ d.name = c.name /\ d.st = "running"

\* up() leaves alone a container that runs with the spec's hash, also when it
\* fails half way and rolls back: only what this up() created, started or
\* found outdated is touched, whatever earlier up()s of the engine did.
SparesRunning ==
    \A e \in Engines : \A c \in cont :
        /\ Acts(e) /\ eng[e].op = "up" /\ eng[e].pc # "idle"
        /\ c.st = "running" /\ c.ver = eng[e].spec.ver
        /\ c.by # eng[e].n
        /\ \A x \in Range(eng[e].sc) : x.id = 0 => x.name # c.name
        => StaysUp(c)

\* A rollback whose removals all succeeded leaves nothing behind that its
\* up() created: no container, network or volume.
UndoClean ==
    \A e \in Engines :
        eng[e].ret = "undone" /\ ~eng[e].bad
           => \A x \in cont \cup res : x.by # eng[e].n

\* A down() that returned Ok, and whose removals all succeeded, has removed
\* every container of the services it was asked for, also those that another
\* process created and crashed on, the networks, the volumes and the orphans
\* as asked.
DownClean ==
    \A e \in Engines :
        eng[e].ret = "downed" /\ ~eng[e].bad
           => /\ \A c \in cont :
                    /\ c.proj = ProjOf[e]
                    /\ eng[e].svcs = <<>> \/ c.svc \in Range(eng[e].svcs)
                       \/ c.svc \notin Services(eng[e].spec)
                    => c.svc \notin Services(eng[e].spec) /\ ~eng[e].orph
              /\ \A x \in res :
                    /\ x.r \notin Range(NetSeq(e))
                    /\ eng[e].rmvol => x.r \notin Range(VolSeq(e))

\* A volume is removed by a down() that was asked to, or by the rollback of
\* the very up() that created it; an external one never.  (Two things break
\* it.  A rollback removes by name: where two engines share a project, also a
\* volume that the other one has removed and created again in the meantime.
\* And where the backend's create is idempotent, an up() whose inspect_volume
\* failed, or that another engine overtook, lists a volume it did not create.)
KeepsVolumes ==
    \A v \in res \ res' :
        v.r.k = "vol" =>
           /\ v.r \notin External
           /\ \E e \in Engines :
                 /\ Acts(e)
                 /\ \/ eng[e].op = "down" /\ eng[e].rmvol
                    \/ eng[e].op = "up" /\ v.by = eng[e].n

\* When up() runs a service, the dependencies it was also asked to start have
\* a container; it runs, unless its program has ended.
StartsInOrder ==
    \A e \in Engines : \A c \in cont' :
        /\ Acts(e) /\ eng[e].pc \in {"run", "start"}
        /\ c.st = "running" /\ \A b \in cont : b.id = c.id => b.st # "running"
        => \A d \in eng[e].spec.deps :
              d[1] = c.svc /\ d[2] \in Range(Target(e))
                 => \E k \in ByName(NameOf(e, d[2])) :
                       k.st = "running" \/ exits > 0

\* The sweep of down() removes a service only when the services that depend on
\* it, and that it was also asked to remove, have no running container left.
StopsInOrder ==
    \A e \in Engines : \A c \in cont \ cont' :
        Acts(e) /\ eng[e].pc = "kill" /\ ~eng[e].bad
           => \A d \in eng[e].spec.deps :
                 d[2] = c.svc /\ d[1] \in Range(Target(e))
                    => \A k \in cont : k.proj = ProjOf[e] /\ k.st = "running"
                                       => k.svc # d[1]

\* An engine never stops or removes a container, or removes a network or a
\* volume, of another project, as long as services have no container_name.
KeepsToProject ==
    \A e \in Engines : Acts(e) =>
        /\ \A c \in cont \ cont' : c.proj = ProjOf[e]
        /\ \A r \in res \ res' : r.r.p = ProjOf[e]

\* Every operation ends, whatever fails on its way.
Ends == \A e \in Engines : eng[e].pc # "idle" ~> eng[e].pc = "idle"

-----------------------------------------------------------------------------
(* What texts of the repository claim and the code does not keep: README    *)
(* section 7 tells how each of them fails.  MCCompose checks the first.      *)

\* The rollback of a failed up() removes volumes that "were just created", by
\* this up() (down(), on why the rollback may remove them unconditionally).
RollsBackOwn ==
    [][\A e \in Engines : \A v \in res \ res' :
          Acts(e) /\ eng[e].op = "up" /\ v.r.k = "vol" => v.by = eng[e].n]_composevars

\* What UndoClean says of a rollback, of every failed up(), also of one that
\* failed before its first service.
NoDetritus ==
    \A e \in Engines :
        eng[e].op = "up" /\ eng[e].ret \in {"undone", "failed"} /\ ~eng[e].bad
           => \A x \in cont \cup res : x.by # eng[e].n

\* A container that existed, stopped, before an up() is not removed by its
\* rollback.
StoppedKept ==
    [][\A e \in Engines : \A c \in cont \ cont' :
          Acts(e) /\ eng[e].op = "up" /\ eng[e].pc = "undo"
             => \/ c.by = eng[e].n
                \/ \E d \in cont' : d.id = c.id]_composevars

\* up() runs no second container of a service that already runs with the
\* spec's hash.
UpIsNoop ==
    [][\A e \in Engines : \A c \in cont' \ cont :
          Acts(e) /\ eng[e].pc = "run"
             => ~\E k \in cont : /\ k.proj = c.proj /\ k.svc = c.svc
                                 /\ k.ver = c.ver /\ k.st = "running"]_composevars
=============================================================================
