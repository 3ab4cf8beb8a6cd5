------------------------------- MODULE GcCycle -------------------------------
(***************************************************************************)
(* The budgeted full mark-sweep cycle of the collector of one thread       *)
(* (gc/cycle.rs), its incremental mark barrier (gc/barrier/mod.rs), and    *)
(* the weak references it clears (weakref.rs, weakref/sliced.rs).          *)
(*                                                                         *)
(* The cycle runs in slices from the mutator's own thread: a Step of the   *)
(* collector below is one slice of one work unit, and the mutator's        *)
(* actions run between slices.  A slice with a larger budget is a sequence *)
(* of such Steps with no mutator action between them.  What the code does  *)
(* inside one slice, without returning to the mutator (the final root      *)
(* remark and the drains before the sweep), is one Step here too.          *)
(*                                                                         *)
(* An object has one strong field; a WeakRef has a weak target instead.    *)
(* Budgeted cycles do not move objects, so an object is its address.       *)
(***************************************************************************)
EXTENDS FiniteSets

CONSTANTS
    Objects,    \* heap addresses
    Refs,       \* the addresses that hold WeakRef objects
    Targets,    \* the addresses a WeakRef may be made for
    Leaves,     \* the addresses whose object has no reference field
    Slots,      \* the mutator's local variables
    Native,     \* the locals that are spill slots of native frames (stack maps), bound without a barrier
    Recent,     \* the addresses in the recent arena blocks that block persistence covers
    Nil

ASSUME GcAssumption ==
    /\ IsFiniteSet(Objects)
    /\ Refs \subseteq Objects /\ Targets \subseteq Objects /\ Leaves \subseteq Objects
    /\ Recent \subseteq Objects
    /\ Native \subseteq Slots
    /\ Nil \notin Objects

VARIABLES
    alive,      \* allocated and not swept
    field,      \* the strong field of each object
    weak,       \* the weak target of each WeakRef
    root,       \* the value of each local
    holders,    \* WEAK_HOLDERS
    phase,      \* GcCyclePhase, with the windows inside AtomicFinalize; "Idle" when no cycle is active
    marked,     \* objects whose GC_FLAG_MARKED is set
    grey,       \* MARK_SEEDS and the worklist: marked, fields not yet traced
    barrier,    \* the incremental mark barrier is installed
    birth,      \* GC_BIRTH_EXTRA_FLAGS: objects are born marked
    todo,       \* what the current phase has still to visit: slots, weak holders or objects
    doomed,     \* ghost: objects that were unreachable when the cycle began and still are
    cleared     \* ghost: objects some WeakRef to which this cycle tombstoned

heap == <<alive, field, weak, root, holders>>
cycle == <<phase, marked, grey, barrier, birth, todo>>
vars == <<heap, cycle, doomed, cleared>>

Maybe(S) == S \ {Nil}

(* What draining the worklist g marks, m being marked already: the least   *)
(* extension of m that has the children of g and of what is added.         *)
Traced(m, g) ==
    LET closed == {S \in SUBSET (Objects \ m) :
                      \A o \in g \cup S : field[o] \in m \cup S \cup {Nil}}
    IN  m \cup {o \in Objects \ m : \A S \in closed : o \in S}

Rooted == Maybe({root[s] : s \in Slots})
Reach == Traced(Rooted, Rooted)

\* A mistaken trace: the target slot of a WeakRef is traced like a field.
WeakChildren(o) == Maybe({field[o], weak[o]}) \ marked

(* The children that tracing o marks; a weak target is not a child         *)
(* (is_weak_target_trace_slot).                                            *)
Children(o) == Maybe({field[o]}) \ marked

(***************************************************************************)
(* The barriers                                                            *)
(***************************************************************************)

Shade(S) ==
    LET new == IF barrier THEN Maybe(S) \ marked ELSE {}
    IN  /\ marked' = marked \cup new
        /\ grey' = grey \cup new

(* gc_birth_extra_flags and gc_note_black_birth, followed by the shading   *)
(* of the values in S that the allocating function stores.                 *)
Born(o, S) ==
    LET new == IF barrier THEN Maybe(S) \ marked ELSE {}
    IN  /\ marked' = marked \cup new \cup (IF birth THEN {o} ELSE {})
        /\ grey' = grey \cup new \cup (IF birth THEN {o} ELSE {})

(* A local bound to a value is shaded unless it is a native spill slot.    *)
Bound(s, o) == IF s \in Native THEN {} ELSE {o}

(***************************************************************************)
(* The mutator                                                             *)
(***************************************************************************)

Ghosts == doomed' = doomed \ Reach' /\ UNCHANGED cleared
Mutates == UNCHANGED <<phase, barrier, birth, todo>> /\ Ghosts

Alloc(s, o) ==
    /\ o \notin alive /\ o \notin Refs
    /\ alive' = alive \cup {o}
    /\ field' = [field EXCEPT ![o] = Nil]
    /\ root' = [root EXCEPT ![s] = o]
    /\ Born(o, {})
    /\ UNCHANGED <<weak, holders>> /\ Mutates

\* A mistaken js_weakref_new: the target is entered in WEAK_HOLDERS.
RegisterTarget(h) == holders \cup {weak'[h]}

Register(h) == holders \cup {h}

js_weakref_new(s, h, t) ==
    /\ h \in Refs \ alive
    /\ root[t] \in Targets
    /\ alive' = alive \cup {h}
    /\ weak' = [weak EXCEPT ![h] = root[t]]
    /\ root' = [root EXCEPT ![s] = h]
    /\ holders' = Register(h)
    /\ Born(h, {root[t]})
    /\ UNCHANGED field /\ Mutates

js_weakref_deref(s, t) ==
    LET h == root[s] IN
    /\ h \in Refs /\ weak[h] # Nil
    /\ root' = [root EXCEPT ![t] = weak[h]]
    /\ Shade({weak[h]})
    /\ UNCHANGED <<alive, field, weak, holders>> /\ Mutates

Load(s, t) ==
    LET o == root[s] IN
    /\ o \in Objects \ Refs
    /\ root' = [root EXCEPT ![t] = field[o]]
    /\ Shade(Bound(t, field[o]))
    /\ UNCHANGED <<alive, field, weak, holders>> /\ Mutates

Store(s, v) ==
    LET o == root[s] IN
    /\ o \in Objects \ (Refs \cup Leaves)
    /\ field' = [field EXCEPT ![o] = v]
    /\ Shade({v})
    /\ UNCHANGED <<alive, weak, root, holders>> /\ Mutates

Forget(s) ==
    /\ root[s] # Nil
    /\ root' = [root EXCEPT ![s] = Nil]
    /\ UNCHANGED <<alive, field, weak, holders, marked, grey>> /\ Mutates

Mutator ==
    \E s \in Slots :
       \/ \E o \in Objects : Alloc(s, o)
       \/ \E h \in Refs, t \in Slots : js_weakref_new(s, h, t)
       \/ \E t \in Slots : js_weakref_deref(s, t) \/ Load(s, t)
       \/ \E t \in Slots : Store(s, root[t])
       \/ Store(s, Nil)
       \/ Forget(s)

(***************************************************************************)
(* The collector                                                           *)
(***************************************************************************)

NewFull ==
    /\ phase = "Idle"
    /\ phase' = "BuildValidPointerSet"
    /\ grey' = {} /\ birth' = TRUE
    /\ doomed' = alive \ Reach /\ cleared' = {}
    /\ UNCHANGED <<heap, marked, barrier, todo>>

StepBuildValidPointerSet ==
    /\ phase = "BuildValidPointerSet"
    /\ phase' = "RootScan"
    /\ barrier' = TRUE
    /\ todo' = Slots
    /\ UNCHANGED <<heap, marked, grey, birth, doomed, cleared>>

StepRootScan ==
    /\ phase = "RootScan"
    /\ \E s \in todo :
         LET new == Maybe({root[s]}) \ marked IN
         /\ marked' = marked \cup new
         /\ grey' = grey \cup new
         /\ todo' = todo \ {s}
    /\ phase' = IF todo' = {} THEN "MarkPropagation" ELSE phase
    /\ UNCHANGED <<heap, barrier, birth, doomed, cleared>>

(* One object of the worklist (drain_trace_worklist_step).                 *)
DrainOne ==
    \E o \in grey :
       /\ marked' = marked \cup Children(o)
       /\ grey' = (grey \ {o}) \cup Children(o)

StepMarkPropagation ==
    /\ phase = "MarkPropagation"
    /\ IF grey = {} THEN UNCHANGED <<marked, grey>> ELSE DrainOne
    /\ phase' = IF grey' = {} THEN "BlockPersistence" ELSE phase
    /\ UNCHANGED <<heap, barrier, birth, todo, doomed, cleared>>

(* What BlockPersistCycleState may force-mark: the unmarked objects of the *)
(* recent blocks that hold a live one.  Their fields are traced with the   *)
(* seeds.                                                                  *)
Persisting == SUBSET ((Recent \cap alive) \ marked)

(* The pass is skipped when it is redundant.  What it marks is live for    *)
(* this cycle whatever its reachability.                                   *)
StepBlockPersistence ==
    /\ phase = "BlockPersistence"
    /\ \E keep \in Persisting :
         /\ marked' = marked \cup keep
         /\ grey' = grey \cup keep
         /\ doomed' = doomed \ (keep \cup Traced({}, keep))
    /\ phase' = "BarrierSeedDrain"
    /\ UNCHANGED <<heap, barrier, birth, todo, cleared>>

\* A mistaken remark: the roots are not scanned again.
NoRemark == Traced(marked, grey)

(* FinalRootRemark: every root again, and everything they lead to.         *)
Remarked == Traced(marked \cup Rooted, grey \cup (Rooted \ marked))

StepBarrierSeedDrain ==
    /\ phase = "BarrierSeedDrain"
    /\ \/ /\ grey # {} /\ DrainOne /\ grey' # {}
          /\ UNCHANGED phase
       \/ /\ \/ grey = {}
             \/ \E o \in grey : grey = {o} /\ Children(o) = {}
          /\ marked' = Remarked
          /\ grey' = {}
          /\ phase' = "RememberedSetRebuild"
    /\ UNCHANGED <<heap, barrier, birth, todo, doomed, cleared>>

\* A mistaken prune: a dead holder stays in WEAK_HOLDERS.
KeepDead(h) == holders

DropDead(h) == holders \ {h}

\* A mistaken decision: a target that no local names is taken for dead.
NotRooted(t) == t \notin Rooted \cup {Nil}

(* weak_target_should_clear.                                               *)
ShouldClear(t) == t \notin marked \cup {Nil}

\* A mistaken pass: the slot keeps its target.
KeepTarget(h) == UNCHANGED <<weak, cleared>>

(* process_weakref_after_mark.                                             *)
ClearTarget(h) ==
    IF ShouldClear(weak[h])
    THEN /\ weak' = [weak EXCEPT ![h] = Nil]
         /\ cleared' = cleared \cup {weak[h]}
    ELSE UNCHANGED <<weak, cleared>>

(* resolve_weak_holder_full: an unmarked holder leaves WEAK_HOLDERS; a     *)
(* marked one loses its unmarked target.                                   *)
Process(h) ==
    \/ /\ h \notin marked
       /\ holders' = DropDead(h)
       /\ UNCHANGED <<weak, cleared>>
    \/ /\ h \in marked
       /\ ClearTarget(h)
       /\ UNCHANGED holders

(* The end of WeakProcessing runs DisableBarrier in the same slice.        *)
LeaveWeakProcessing ==
    /\ phase' = "Sweep"
    /\ marked' = Traced(marked, grey)
    /\ grey' = {}

(* FullWeakProcessingState::step over the holders in todo.                 *)
WeakUnit(left) ==
    IF left = {}
    THEN LeaveWeakProcessing /\ todo' = {} /\ UNCHANGED <<holders, weak, cleared>>
    ELSE \E h \in left :
           /\ Process(h)
           /\ todo' = left \ {h}
           /\ IF left = {h} THEN LeaveWeakProcessing
              ELSE phase' = "WeakProcessing" /\ UNCHANGED <<marked, grey>>

(* The rebuild marks nothing; when it ends, the weak holders are           *)
(* snapshotted and the first is processed, in the same slice.              *)
StepRememberedSetRebuild ==
    /\ phase = "RememberedSetRebuild"
    /\ WeakUnit(holders)
    /\ UNCHANGED <<alive, field, root, barrier, birth, doomed>>

\* A mistaken resume: the holders are snapshotted again by every slice.
Resnapshot == WeakUnit(holders)

ResumeWeak == WeakUnit(todo)

StepWeakProcessing ==
    /\ phase = "WeakProcessing"
    /\ ResumeWeak
    /\ UNCHANGED <<alive, field, root, barrier, birth, doomed>>

\* A mistaken start of the sweep: births stay marked while it runs.
StillBlack == birth

BirthAfterSnapshot == FALSE

(* The first slice: gap drain, barrier and birth flags off, snapshot.      *)
StepSweepBegin ==
    /\ phase = "Sweep"
    /\ phase' = "SweepObjects"
    /\ marked' = Traced(marked, grey)
    /\ grey' = {}
    /\ barrier' = FALSE /\ birth' = BirthAfterSnapshot
    /\ todo' = alive
    /\ UNCHANGED <<heap, doomed, cleared>>

(* A slice of the sweep: a marked object loses its mark, another is freed. *)
StepSweep ==
    /\ phase = "SweepObjects"
    /\ \E o \in todo :
         /\ alive' = IF o \in marked THEN alive ELSE alive \ {o}
         /\ marked' = marked \ {o}
         /\ todo' = todo \ {o}
         /\ field' = IF o \in marked THEN field ELSE [field EXCEPT ![o] = Nil]
         /\ weak' = IF o \in marked THEN weak ELSE [weak EXCEPT ![o] = Nil]
         /\ doomed' = IF o \in marked THEN doomed ELSE doomed \ {o}
         /\ cleared' = IF o \in marked THEN cleared ELSE cleared \ {o}
    /\ UNCHANGED <<root, holders, phase, grey, barrier, birth>>

StepSweepEnd ==
    /\ phase = "SweepObjects" /\ todo = {}
    /\ phase' = "Reclaim"
    /\ UNCHANGED <<heap, marked, grey, barrier, birth, todo, doomed, cleared>>

StepReclaim ==
    /\ phase = "Reclaim"
    /\ phase' = "Idle"
    /\ birth' = FALSE
    /\ UNCHANGED <<heap, marked, grey, barrier, todo, doomed, cleared>>

Collector ==
    \/ StepBuildValidPointerSet \/ StepRootScan
    \/ StepMarkPropagation \/ StepBlockPersistence
    \/ StepBarrierSeedDrain \/ StepRememberedSetRebuild
    \/ StepWeakProcessing
    \/ StepSweepBegin \/ StepSweep \/ StepSweepEnd
    \/ StepReclaim

Init ==
    /\ alive = {} /\ holders = {}
    /\ field = [o \in Objects |-> Nil]
    /\ weak = [o \in Objects |-> Nil]
    /\ root = [s \in Slots |-> Nil]
    /\ phase = "Idle"
    /\ marked = {} /\ grey = {} /\ todo = {}
    /\ barrier = FALSE /\ birth = FALSE
    /\ doomed = {} /\ cleared = {}

Next == Mutator \/ NewFull \/ Collector

Spec == Init /\ [][Next]_vars

(* A cycle that has begun is stepped at every allocation check, safepoint  *)
(* and idle turn.  The mutator need never start one, nor do anything else. *)
FairSpec == Spec /\ WF_vars(Collector)

(***************************************************************************)
(* Properties                                                              *)
(***************************************************************************)

Phases == {"Idle", "BuildValidPointerSet", "RootScan", "MarkPropagation", "BlockPersistence",
           "BarrierSeedDrain", "RememberedSetRebuild", "WeakProcessing", "Sweep",
           "SweepObjects", "Reclaim"}

(* The types of the variables.                                             *)
TypeOK ==
    /\ alive \subseteq Objects
    /\ holders \subseteq Refs
    /\ field \in [Objects -> Objects \cup {Nil}]
    /\ weak \in [Objects -> Objects \cup {Nil}]
    /\ root \in [Slots -> Objects \cup {Nil}]
    /\ phase \in Phases
    /\ marked \subseteq Objects /\ grey \subseteq marked
    /\ barrier \in BOOLEAN /\ birth \in BOOLEAN
    /\ todo \subseteq (Objects \cup Slots)
    /\ doomed \subseteq Objects /\ cleared \subseteq Objects

(* What the mutator can reach is never swept, whatever it did in the       *)
(* windows between the slices: every way it acquires a reference is        *)
(* covered by a barrier, a black birth or the remark (step_atomic_finalize, *)
(* step_sweep).                                                            *)
ReachableIsAllocated == Reach \subseteq alive

(* A WeakRef the mutator can reach refers to an allocated object or is     *)
(* cleared: a target is never swept before weak processing has tombstoned  *)
(* every slot that names it (process_weakref_after_mark).                  *)
NoDanglingWeak ==
    \A h \in Refs \cap Reach : weak[h] \in alive \cup {Nil}

(* WEAK_HOLDERS has every WeakRef the mutator can reach, and once the      *)
(* sweep is over no address that was freed (resolve_weak_holder_full).     *)
HoldersTracked ==
    /\ (Refs \cap Reach) \subseteq holders
    /\ phase \in {"Reclaim", "Idle"} => holders \subseteq alive

(* A target some WeakRef to which was tombstoned is dead: the mutator does *)
(* not get hold of it again (weak_target_should_clear: "was collected").   *)
ClearedIsDead == cleared \cap Reach = {}

(* Between cycles no object carries a mark and the barrier is off: a mark  *)
(* left behind would read as "already traced" to the next cycle            *)
(* (incremental_mark_barrier_disable, new_full).                           *)
NoMarkLeaks == phase = "Idle" => marked = {} /\ grey = {} /\ ~barrier /\ ~birth

(* A cycle frees all that was unreachable when it began, unless the        *)
(* mutator revived it through a WeakRef or block persistence kept it.      *)
GarbageIsSwept == phase \in {"Reclaim", "Idle"} => doomed \cap alive = {}

(* A cycle leaves neither garbage nor marks (step_sweep, step_reclaim).    *)
CycleIsClean == TypeOK /\ NoMarkLeaks /\ GarbageIsSwept

(* A cycle that has begun completes, whatever the mutator does meanwhile   *)
(* (GcCycleState::step).                                                   *)
CycleCompletes == phase # "Idle" ~> phase = "Idle"

==============================================================================
