--------------------------- MODULE GcCycleProofs ---------------------------
(***************************************************************************)
(* Theorems about GcCycle.tla, for any heap, any locals and any number of  *)
(* cycles, and about FinReg.tla.                                           *)
(*                                                                         *)
(* After the final remark only the deref of a WeakRef can bring an         *)
(* unmarked object back, and weak processing has no answer to what such an *)
(* object leads to: a native spill slot may take its field without a       *)
(* barrier, and the field may lead to a WeakRef that was dropped as dead.  *)
(* Either case frees an object that is in use, and the theorems exclude    *)
(* them: Revivable by the shape of the heap, Quietly by what the mutator   *)
(* does.                                                                   *)
(***************************************************************************)
EXTENDS GcCycle, FinReg, FiniteSetTheorems, SequenceTheorems, TLAPS

(* What a deref may revive leads nowhere, or has nobody to hide from. *)
Revivable ==
    \/ Refs = {}
    \/ Targets \subseteq Leaves \ Refs
    \/ Native = {} /\ \E h \in Refs : Refs = {h}

(* The phases between the remark and the first slice of the sweep, and those in
   which the barrier is on. *)
Remarks == {"RememberedSetRebuild", "WeakProcessing", "Sweep"}
Barriers == {"RootScan", "MarkPropagation", "BlockPersistence", "BarrierSeedDrain"} \cup Remarks

(* A deref between the remark and the sweep finds its target marked, or revives an
   object that leads nowhere. *)
Quietly ==
    \A s, t \in Slots :
        js_weakref_deref(s, t) /\ phase \in Remarks =>
            weak[root[s]] \in marked \cup (Leaves \ Refs)

Closed(S) == \A o \in S : field[o] \in S \cup {Nil}

(* The objects the sweep will leave. *)
Kept == IF phase = "SweepObjects" THEN alive \ (todo \ marked) ELSE alive

(* Weak holders that weak processing has still to visit. *)
Pending == IF phase = "RememberedSetRebuild" THEN holders ELSE todo

HeapInv ==
    /\ \A o \in Objects : weak[o] \in Targets \cup {Nil}
    /\ \A o \in Objects \ Refs : weak[o] = Nil
    /\ \A o \in Refs \cup Leaves : field[o] = Nil
    /\ \A o \in Objects \ alive : field[o] = Nil

(* The barrier is on and births are black exactly while marks are collected. *)
FlagInv ==
    /\ barrier <=> phase \in Barriers
    /\ birth <=> phase \in Barriers \cup {"BuildValidPointerSet"}

(* Marked objects are allocated; the sweep, which visits what was allocated at its
   first slice, removes every mark. *)
MarkInv ==
    /\ marked \subseteq alive
    /\ phase \in {"Idle", "Reclaim"} => marked = {}
    /\ phase = "BuildValidPointerSet" => grey = marked
    /\ phase = "SweepObjects" => grey = {} /\ marked \subseteq todo /\ todo \subseteq alive
    /\ phase = "Sweep" => todo = {}
    /\ phase = "RootScan" => todo \subseteq Slots
    /\ phase = "WeakProcessing" => todo \subseteq Refs

(* No object whose fields were traced refers to an unmarked one. *)
TriInv == phase # "SweepObjects" => \A o \in marked \ grey : field[o] \in marked \cup {Nil}

(* What will be left is closed, and has the roots and the weak targets. *)
KeptInv ==
    /\ Rooted \subseteq Kept
    /\ Closed(Kept)
    /\ \A o \in Kept : weak[o] \in Kept \cup {Nil}
    /\ holders \subseteq Kept
    /\ phase \notin Remarks => Kept \cap Refs \subseteq holders

(* From the remark on, marked is what the sweep will leave. *)
RemarkInv ==
    phase \in Remarks =>
        /\ Rooted \subseteq marked
        /\ Closed(marked) \/ (Native = {} /\ Refs \subseteq marked)
        /\ marked \cap Refs \subseteq holders
        /\ holders \ Pending \subseteq marked
        /\ \A h \in marked \ Pending : weak[h] \in marked \cup {Nil}

(* What was unreachable when the cycle began stays unmarked until it is swept. *)
DoomInv ==
    /\ doomed \subseteq alive
    /\ doomed \cap Reach = {}
    /\ \A o \in Objects \ doomed : field[o] \notin doomed
    /\ doomed \cap marked = {}
    /\ phase = "SweepObjects" => doomed \subseteq todo
    /\ phase \in {"Idle", "Reclaim"} => doomed = {}

GcInv == /\ TypeOK /\ HeapInv /\ FlagInv /\ MarkInv
         /\ TriInv /\ KeptInv /\ RemarkInv /\ DoomInv
----------------------------------------------------------------------------
(* Traced for any field function, so that it can be reasoned about before and after a
   step. *)
Least(f, m, g) ==
    LET closed == {S \in SUBSET (Objects \ m) :
                      \A o \in g \cup S : f[o] \in m \cup S \cup {Nil}}
    IN  m \cup {o \in Objects \ m : \A S \in closed : o \in S}

(* A trace ends with the children of all it was to trace. *)
LEMMA LeastClosed ==
    ASSUME NEW f \in [Objects -> Objects \cup {Nil}],
           NEW m \in SUBSET Objects, NEW g \in SUBSET Objects
    PROVE  /\ m \subseteq Least(f, m, g) /\ Least(f, m, g) \subseteq Objects
           /\ \A o \in g \cup (Least(f, m, g) \ m) : f[o] \in Least(f, m, g) \cup {Nil}
  <1> DEFINE closed == {S \in SUBSET (Objects \ m) :
                            \A o \in g \cup S : f[o] \in m \cup S \cup {Nil}}
             T == {o \in Objects \ m : \A S \in closed : o \in S}
  <1>1. Least(f, m, g) = m \cup T
    BY DEF Least
  <1>2. ASSUME NEW o \in g \cup T, f[o] # Nil, f[o] \notin m PROVE f[o] \in T
    <2>1. f[o] \in Objects \ m
      BY <1>2
    <2>2. ASSUME NEW S \in closed PROVE f[o] \in S
      <3>1. o \in g \cup S
        BY <2>2
      <3> QED  BY <1>2, <2>2, <3>1
    <2> QED  BY <2>1, <2>2
  <1> QED  BY <1>1, <1>2

(* A trace marks no more than any set that is closed likewise. *)
LEMMA LeastLeast ==
    ASSUME NEW f, NEW m \in SUBSET Objects, NEW g, NEW X \in SUBSET Objects, m \subseteq X,
           \A o \in g \cup (X \ m) : f[o] \in X \cup {Nil}
    PROVE  Least(f, m, g) \subseteq X
  <1> DEFINE closed == {S \in SUBSET (Objects \ m) :
                            \A o \in g \cup S : f[o] \in m \cup S \cup {Nil}}
  <1>1. X \ m \in closed
    OBVIOUS
  <1> QED  BY <1>1 DEF Least

(* Traced is Least of the heap's fields. *)
LEMMA TracedIsLeast ==
    ASSUME NEW m, NEW g
    PROVE  Traced(m, g) = Least(field, m, g)
  BY DEF Traced, Least

(* So is Reach, before and after a step. *)
LEMMA ReachIsLeast ==
    Reach = Least(field, Rooted, Rooted) /\ Reach' = Least(field', Rooted', Rooted')
  BY DEF Reach, Traced, Least

(* What the mutator can reach: its roots and everything they lead to. *)
LEMMA ReachClosed ==
    ASSUME TypeOK
    PROVE  Rooted \subseteq Reach /\ Reach \subseteq Objects /\ Closed(Reach)
  <1>1. Rooted \in SUBSET Objects
    BY DEF TypeOK, Rooted, Maybe
  <1>2. field \in [Objects -> Objects \cup {Nil}]
    BY DEF TypeOK
  <1> QED  BY <1>1, <1>2, LeastClosed, ReachIsLeast DEF Closed

(* The same after a step. *)
LEMMA ReachClosedNext ==
    ASSUME TypeOK'
    PROVE  /\ Rooted' \subseteq Reach' /\ Reach' \subseteq Objects
           /\ \A o \in Reach' : field'[o] \in Reach' \cup {Nil}
  <1>1. Rooted' \in SUBSET Objects
    BY DEF TypeOK, Rooted, Maybe
  <1>2. field' \in [Objects -> Objects \cup {Nil}]
    BY DEF TypeOK
  <1> QED  BY <1>1, <1>2, LeastClosed, ReachIsLeast

(* A closed set with the roots has all that is reachable. *)
LEMMA ReachLeast ==
    ASSUME NEW X \in SUBSET Objects, Rooted \subseteq X, Closed(X)
    PROVE  Reach \subseteq X
  <1>1. Rooted \in SUBSET Objects
    OBVIOUS
  <1> QED  BY <1>1, LeastLeast, ReachIsLeast DEF Closed

(* The same after a step. *)
LEMMA ReachLeastNext ==
    ASSUME NEW X \in SUBSET Objects, Rooted' \subseteq X,
           \A o \in X : field'[o] \in X \cup {Nil}
    PROVE  Reach' \subseteq X
  <1>1. Rooted' \in SUBSET Objects
    OBVIOUS
  <1> QED  BY <1>1, LeastLeast, ReachIsLeast

(* A value the mutator stores is one of its locals. *)
LEMMA StoredValue ==
    ASSUME NEW t \in Slots
    PROVE  root[t] \in Rooted \cup {Nil}
  BY DEF Rooted, Maybe

(* The end of weak processing, or a slice of it. *)
LEMMA WeakUnitTypes ==
    ASSUME TypeOK, NEW left \in SUBSET Refs, WeakUnit(left)
    PROVE  /\ holders' \subseteq Refs /\ weak' \in [Objects -> Objects \cup {Nil}]
           /\ marked' \subseteq Objects /\ grey' \subseteq marked'
           /\ cleared' \subseteq Objects /\ todo' \subseteq left
           /\ phase' \in {"WeakProcessing", "Sweep"}
  <1>1. Traced(marked, grey) \subseteq Objects
    BY LeastClosed, TracedIsLeast DEF TypeOK
  <1>2. marked' \subseteq Objects /\ grey' \subseteq marked' /\ phase' \in {"WeakProcessing", "Sweep"}
    BY <1>1 DEF WeakUnit, LeaveWeakProcessing, TypeOK
  <1>3. CASE left = {}
    BY <1>2, <1>3 DEF WeakUnit, TypeOK
  <1>4. ASSUME NEW h \in left, Process(h)
        PROVE  /\ holders' \subseteq Refs /\ weak' \in [Objects -> Objects \cup {Nil}]
               /\ cleared' \subseteq Objects
    BY <1>4, GcAssumption DEF Process, DropDead, ClearTarget, ShouldClear, TypeOK
  <1> QED  BY <1>2, <1>3, <1>4 DEF WeakUnit

(* Every step keeps the types. *)
LEMMA TypeStep ==
    ASSUME TypeOK, MarkInv, [Next]_vars
    PROVE  TypeOK'
  <1> USE GcAssumption DEF TypeOK, MarkInv, Phases, Maybe, Rooted, heap
  <1>1. ASSUME NEW s \in Slots, NEW o \in Objects, Alloc(s, o) PROVE TypeOK'
    BY <1>1 DEF Alloc, Born, Mutates, Ghosts
  <1>2. ASSUME NEW s \in Slots, NEW h \in Refs, NEW t \in Slots, js_weakref_new(s, h, t)
        PROVE  TypeOK'
    BY <1>2 DEF js_weakref_new, Born, Register, Mutates, Ghosts
  <1>3. ASSUME NEW s \in Slots, NEW t \in Slots, js_weakref_deref(s, t) PROVE TypeOK'
    BY <1>3 DEF js_weakref_deref, Shade, Mutates, Ghosts
  <1>4. ASSUME NEW s \in Slots, NEW t \in Slots, Load(s, t) PROVE TypeOK'
    BY <1>4 DEF Load, Shade, Bound, Mutates, Ghosts
  <1>5. ASSUME NEW s \in Slots, NEW v \in Rooted \cup {Nil}, Store(s, v) PROVE TypeOK'
    BY <1>5 DEF Store, Shade, Mutates, Ghosts
  <1>6. ASSUME NEW s \in Slots, Forget(s) PROVE TypeOK'
    BY <1>6 DEF Forget, Mutates, Ghosts
  <1>7. CASE NewFull
    BY <1>7 DEF NewFull
  <1>8. CASE StepBuildValidPointerSet
    BY <1>8 DEF StepBuildValidPointerSet
  <1>9. CASE StepRootScan
    BY <1>9 DEF StepRootScan
  <1>10. CASE StepMarkPropagation
    BY <1>10 DEF StepMarkPropagation, DrainOne, Children
  <1>11. CASE StepBlockPersistence
    BY <1>11 DEF StepBlockPersistence, Persisting
  <1>12. CASE StepBarrierSeedDrain
    <2>1. Remarked \subseteq Objects
      BY LeastClosed, TracedIsLeast DEF Remarked
    <2> QED  BY <1>12, <2>1 DEF StepBarrierSeedDrain, DrainOne, Children
  <1>13. CASE StepRememberedSetRebuild
    BY <1>13, WeakUnitTypes DEF StepRememberedSetRebuild
  <1>14. CASE StepWeakProcessing
    BY <1>14, WeakUnitTypes DEF StepWeakProcessing, ResumeWeak
  <1>15. CASE StepSweepBegin
    <2>1. Traced(marked, grey) \subseteq Objects
      BY LeastClosed, TracedIsLeast
    <2> QED  BY <1>15, <2>1 DEF StepSweepBegin, BirthAfterSnapshot
  <1>16. CASE StepSweep
    BY <1>16 DEF StepSweep
  <1>17. CASE StepSweepEnd
    BY <1>17 DEF StepSweepEnd
  <1>18. CASE StepReclaim
    BY <1>18 DEF StepReclaim
  <1>19. CASE UNCHANGED vars
    BY <1>19 DEF vars, heap, cycle
  <1> QED  BY <1>1, <1>2, <1>3, <1>4, <1>5, <1>6, <1>7, <1>8, <1>9, <1>10, <1>11, <1>12, <1>13,
             <1>14, <1>15, <1>16, <1>17, <1>18, <1>19, StoredValue DEF Next, Mutator, Collector

(* What is kept is allocated, and so is what the locals name. *)
LEMMA RootsAlive ==
    ASSUME KeptInv
    PROVE  Kept \subseteq alive /\ \A s \in Slots : root[s] \in Kept \cup {Nil}
  BY DEF KeptInv, Kept, Rooted, Maybe

(* Weak processing clears targets and drops holders, and adds none. *)
LEMMA WeakUnitHeap ==
    ASSUME NEW left, WeakUnit(left), weak \in [Objects -> Objects \cup {Nil}]
    PROVE  holders' \subseteq holders /\ \A o \in Objects : weak'[o] \in {weak[o], Nil}
  BY DEF WeakUnit, Process, ClearTarget, DropDead

(* Only objects with a field that are allocated have one set. *)
LEMMA HeapStep ==
    ASSUME TypeOK, HeapInv, MarkInv, KeptInv, [Next]_vars
    PROVE  HeapInv'
  <1> USE GcAssumption DEF TypeOK, HeapInv, MarkInv, Maybe, Rooted, heap
  <1>1. ASSUME NEW s \in Slots, NEW o \in Objects, Alloc(s, o) PROVE HeapInv'
    BY <1>1 DEF Alloc, Born, Mutates
  <1>2. ASSUME NEW s \in Slots, NEW h \in Refs, NEW t \in Slots, js_weakref_new(s, h, t)
        PROVE  HeapInv'
    BY <1>2 DEF js_weakref_new, Born, Register, Mutates
  <1>3. ASSUME NEW s \in Slots, NEW t \in Slots, js_weakref_deref(s, t) PROVE HeapInv'
    BY <1>3 DEF js_weakref_deref, Shade, Mutates
  <1>4. ASSUME NEW s \in Slots, NEW t \in Slots, Load(s, t) PROVE HeapInv'
    BY <1>4 DEF Load, Shade, Bound, Mutates
  <1>5. ASSUME NEW s \in Slots, NEW v \in Rooted \cup {Nil}, Store(s, v) PROVE HeapInv'
    <2>1. root[s] \in alive
      BY <1>5, RootsAlive DEF Store
    <2> QED  BY <1>5, <2>1 DEF Store
  <1>6. ASSUME NEW s \in Slots, Forget(s) PROVE HeapInv'
    BY <1>6 DEF Forget, Mutates
  <1>7. CASE NewFull
    BY <1>7 DEF NewFull
  <1>8. CASE StepBuildValidPointerSet
    BY <1>8 DEF StepBuildValidPointerSet
  <1>9. CASE StepRootScan
    BY <1>9 DEF StepRootScan
  <1>10. CASE StepMarkPropagation
    BY <1>10 DEF StepMarkPropagation, DrainOne, Children
  <1>11. CASE StepBlockPersistence
    BY <1>11 DEF StepBlockPersistence, Persisting
  <1>12. CASE StepBarrierSeedDrain
    BY <1>12 DEF StepBarrierSeedDrain, DrainOne, Children, Remarked
  <1>13. CASE StepRememberedSetRebuild
    BY <1>13, WeakUnitHeap DEF StepRememberedSetRebuild
  <1>14. CASE StepWeakProcessing
    BY <1>14, WeakUnitHeap DEF StepWeakProcessing, ResumeWeak
  <1>15. CASE StepSweepBegin
    BY <1>15 DEF StepSweepBegin, BirthAfterSnapshot
  <1>16. CASE StepSweep
    BY <1>16 DEF StepSweep
  <1>17. CASE StepSweepEnd
    BY <1>17 DEF StepSweepEnd
  <1>18. CASE StepReclaim
    BY <1>18 DEF StepReclaim
  <1>19. CASE UNCHANGED vars
    BY <1>19 DEF vars, heap, cycle
  <1> QED  BY <1>1, <1>2, <1>3, <1>4, <1>5, <1>6, <1>7, <1>8, <1>9, <1>10, <1>11, <1>12, <1>13,
             <1>14, <1>15, <1>16, <1>17, <1>18, <1>19, StoredValue DEF Next, Mutator, Collector

(* The barrier and the birth flag follow the phase. *)
LEMMA FlagStep ==
    ASSUME TypeOK, FlagInv, MarkInv, [Next]_vars
    PROVE  FlagInv'
  <1> USE DEF FlagInv, Barriers, Remarks, TypeOK, MarkInv
  <1>1. ASSUME NEW s \in Slots, NEW o \in Objects, Alloc(s, o) PROVE FlagInv'
    BY <1>1 DEF Alloc, Born, Mutates
  <1>2. ASSUME NEW s \in Slots, NEW h \in Refs, NEW t \in Slots, js_weakref_new(s, h, t)
        PROVE  FlagInv'
    BY <1>2 DEF js_weakref_new, Born, Register, Mutates
  <1>3. ASSUME NEW s \in Slots, NEW t \in Slots, js_weakref_deref(s, t) PROVE FlagInv'
    BY <1>3 DEF js_weakref_deref, Shade, Mutates
  <1>4. ASSUME NEW s \in Slots, NEW t \in Slots, Load(s, t) PROVE FlagInv'
    BY <1>4 DEF Load, Shade, Bound, Mutates
  <1>5. ASSUME NEW s \in Slots, NEW v \in Rooted \cup {Nil}, Store(s, v) PROVE FlagInv'
    BY <1>5 DEF Store, Shade, Mutates
  <1>6. ASSUME NEW s \in Slots, Forget(s) PROVE FlagInv'
    BY <1>6 DEF Forget, Mutates
  <1>7. CASE NewFull
    BY <1>7 DEF NewFull
  <1>8. CASE StepBuildValidPointerSet
    BY <1>8 DEF StepBuildValidPointerSet
  <1>9. CASE StepRootScan
    BY <1>9 DEF StepRootScan
  <1>10. CASE StepMarkPropagation
    BY <1>10 DEF StepMarkPropagation, DrainOne, Children
  <1>11. CASE StepBlockPersistence
    BY <1>11 DEF StepBlockPersistence, Persisting
  <1>12. CASE StepBarrierSeedDrain
    BY <1>12 DEF StepBarrierSeedDrain, DrainOne, Children, Remarked
  <1>13. CASE StepRememberedSetRebuild
    BY <1>13, WeakUnitTypes DEF StepRememberedSetRebuild
  <1>14. CASE StepWeakProcessing
    BY <1>14, WeakUnitTypes DEF StepWeakProcessing, ResumeWeak
  <1>15. CASE StepSweepBegin
    BY <1>15 DEF StepSweepBegin, BirthAfterSnapshot
  <1>16. CASE StepSweep
    BY <1>16 DEF StepSweep
  <1>17. CASE StepSweepEnd
    BY <1>17 DEF StepSweepEnd
  <1>18. CASE StepReclaim
    BY <1>18 DEF StepReclaim
  <1>19. CASE UNCHANGED vars
    BY <1>19 DEF vars, heap, cycle
  <1> QED  BY <1>1, <1>2, <1>3, <1>4, <1>5, <1>6, <1>7, <1>8, <1>9, <1>10, <1>11, <1>12, <1>13,
             <1>14, <1>15, <1>16, <1>17, <1>18, <1>19, StoredValue DEF Next, Mutator, Collector

(* Before the sweep everything allocated is kept, and a trace stays within it. *)
LEMMA AliveClosed ==
    ASSUME TypeOK, KeptInv, phase # "SweepObjects"
    PROVE  /\ Closed(alive) /\ Rooted \subseteq alive
           /\ \A m, g \in SUBSET alive : Traced(m, g) \subseteq alive
  <1>1. Kept = alive
    BY DEF Kept
  <1>2. Closed(alive) /\ Rooted \subseteq alive /\ alive \in SUBSET Objects
    BY <1>1 DEF KeptInv, TypeOK
  <1>3. ASSUME NEW m \in SUBSET alive, NEW g \in SUBSET alive PROVE Traced(m, g) \subseteq alive
    BY <1>2, LeastLeast, TracedIsLeast DEF Closed
  <1> QED  BY <1>2, <1>3

(* The end of weak processing: what the sweep finds. *)
LEMMA WeakUnitMarks ==
    ASSUME TypeOK, MarkInv, KeptInv, phase \in {"RememberedSetRebuild", "WeakProcessing"},
           NEW left \in SUBSET Refs, WeakUnit(left)
    PROVE  /\ marked' \subseteq alive
           /\ todo' \subseteq Refs /\ phase' \in {"WeakProcessing", "Sweep"}
           /\ phase' = "Sweep" => todo' = {}
  <1>1. Traced(marked, grey) \subseteq alive
    BY AliveClosed DEF MarkInv, TypeOK
  <1>2. CASE left = {}
    BY <1>1, <1>2 DEF WeakUnit, LeaveWeakProcessing
  <1>3. CASE left # {}
    BY <1>1, <1>3 DEF WeakUnit, LeaveWeakProcessing, MarkInv
  <1> QED  BY <1>2, <1>3

(* A mark is on an allocated object, and the sweep takes them all off. *)
LEMMA MarkStep ==
    ASSUME TypeOK, HeapInv, FlagInv, MarkInv, TriInv, KeptInv, [Next]_vars
    PROVE  MarkInv'
  <1> USE GcAssumption, RootsAlive DEF TypeOK, FlagInv, Barriers, Remarks, MarkInv, Maybe, heap
  <1>1. ASSUME NEW s \in Slots, NEW o \in Objects, Alloc(s, o) PROVE MarkInv'
    BY <1>1 DEF Alloc, Born, Mutates
  <1>2. ASSUME NEW s \in Slots, NEW h \in Refs, NEW t \in Slots, js_weakref_new(s, h, t)
        PROVE  MarkInv'
    BY <1>2 DEF js_weakref_new, Born, Register, Mutates
  <1>3. ASSUME NEW s \in Slots, NEW t \in Slots, js_weakref_deref(s, t) PROVE MarkInv'
    <2>1. weak[root[s]] \in alive
      BY <1>3 DEF js_weakref_deref, KeptInv
    <2> QED  BY <1>3, <2>1 DEF js_weakref_deref, Shade, Mutates
  <1>4. ASSUME NEW s \in Slots, NEW t \in Slots, Load(s, t) PROVE MarkInv'
    <2>1. field[root[s]] \in alive \cup {Nil}
      BY <1>4 DEF Load, KeptInv, Closed
    <2> QED  BY <1>4, <2>1 DEF Load, Shade, Bound, Mutates
  <1>5. ASSUME NEW s \in Slots, NEW v \in Rooted \cup {Nil}, Store(s, v) PROVE MarkInv'
    <2>1. v \in alive \cup {Nil}
      BY <1>5 DEF Rooted
    <2> QED  BY <1>5, <2>1 DEF Store, Shade, Mutates
  <1>6. ASSUME NEW s \in Slots, Forget(s) PROVE MarkInv'
    BY <1>6 DEF Forget, Mutates
  <1>7. CASE NewFull
    BY <1>7 DEF NewFull
  <1>8. CASE StepBuildValidPointerSet
    BY <1>8 DEF StepBuildValidPointerSet
  <1>9. CASE StepRootScan
    BY <1>9 DEF StepRootScan
  <1>10. CASE StepMarkPropagation
    <2>1. \A o \in marked : field[o] \in alive \cup {Nil}
      BY <1>10, AliveClosed DEF StepMarkPropagation, Closed
    <2> QED  BY <1>10, <2>1 DEF StepMarkPropagation, DrainOne, Children
  <1>11. CASE StepBlockPersistence
    BY <1>11 DEF StepBlockPersistence, Persisting
  <1>12. CASE StepBarrierSeedDrain
    <2>1. \A o \in marked : field[o] \in alive \cup {Nil}
      BY <1>12, AliveClosed DEF StepBarrierSeedDrain, Closed
    <2>2. Remarked \subseteq alive
      BY <1>12, AliveClosed DEF StepBarrierSeedDrain, Remarked
    <2> QED  BY <1>12, <2>1, <2>2 DEF StepBarrierSeedDrain, DrainOne, Children
  <1>13. CASE StepRememberedSetRebuild
    BY <1>13, WeakUnitMarks DEF StepRememberedSetRebuild
  <1>14. CASE StepWeakProcessing
    BY <1>14, WeakUnitMarks DEF StepWeakProcessing, ResumeWeak
  <1>15. CASE StepSweepBegin
    <2>1. Traced(marked, grey) \subseteq alive
      BY <1>15, AliveClosed DEF StepSweepBegin
    <2> QED  BY <1>15, <2>1 DEF StepSweepBegin, BirthAfterSnapshot
  <1>16. CASE StepSweep
    BY <1>16 DEF StepSweep
  <1>17. CASE StepSweepEnd
    BY <1>17 DEF StepSweepEnd
  <1>18. CASE StepReclaim
    BY <1>18 DEF StepReclaim
  <1>19. CASE UNCHANGED vars
    BY <1>19 DEF vars, heap, cycle
  <1> QED  BY <1>1, <1>2, <1>3, <1>4, <1>5, <1>6, <1>7, <1>8, <1>9, <1>10, <1>11, <1>12, <1>13,
             <1>14, <1>15, <1>16, <1>17, <1>18, <1>19, StoredValue DEF Next, Mutator, Collector

(* Draining the worklist leaves nothing to trace. *)
LEMMA TracedCloses ==
    ASSUME TypeOK, NEW m \in SUBSET Objects, NEW g \in SUBSET m,
           \A o \in m \ g : field[o] \in m \cup {Nil}
    PROVE  m \subseteq Traced(m, g) /\ Closed(Traced(m, g))
  <1>1. field \in [Objects -> Objects \cup {Nil}] /\ g \in SUBSET Objects
    BY DEF TypeOK
  <1> QED  BY <1>1, LeastClosed, TracedIsLeast DEF Closed

(* Weak processing ends with an empty worklist. *)
LEMMA WeakUnitTri ==
    ASSUME TypeOK, TriInv, phase \in {"RememberedSetRebuild", "WeakProcessing"},
           NEW left \in SUBSET Refs, WeakUnit(left)
    PROVE  \A o \in marked' \ grey' : field[o] \in marked' \cup {Nil}
  <1>1. Closed(Traced(marked, grey))
    BY TracedCloses DEF TriInv, TypeOK
  <1>2. CASE marked' = Traced(marked, grey)
    BY <1>1, <1>2 DEF Closed
  <1>3. CASE UNCHANGED <<marked, grey>>
    BY <1>3 DEF TriInv
  <1> QED  BY <1>2, <1>3 DEF WeakUnit, LeaveWeakProcessing

(* The remark marks all that the roots lead to. *)
LEMMA RemarkCloses ==
    ASSUME TypeOK, TriInv, phase = "BarrierSeedDrain"
    PROVE  /\ marked \cup Rooted \subseteq Remarked /\ Remarked \subseteq Objects
           /\ Closed(Remarked)
  <1>1. Rooted \subseteq Objects
    BY DEF Rooted, Maybe, TypeOK
  <1>2. Remarked \subseteq Objects
    <2>1. /\ marked \cup Rooted \in SUBSET Objects /\ grey \cup (Rooted \ marked) \in SUBSET Objects
          /\ field \in [Objects -> Objects \cup {Nil}]
      BY <1>1 DEF TypeOK
    <2> QED  BY <2>1, LeastClosed, TracedIsLeast DEF Remarked
  <1> QED  BY <1>1, <1>2, TracedCloses DEF Remarked, TriInv, TypeOK

(* The insertion barrier, black births and the order of marking keep the
   tricolour invariant. *)
LEMMA TriStep ==
    ASSUME TypeOK, HeapInv, FlagInv, MarkInv, TriInv, KeptInv, [Next]_vars
    PROVE  TriInv'
  <1> USE GcAssumption DEF TypeOK, FlagInv, Barriers, Remarks, MarkInv, TriInv, Maybe, heap
  <1>1. ASSUME NEW s \in Slots, NEW o \in Objects, Alloc(s, o) PROVE TriInv'
    BY <1>1 DEF Alloc, Born, Mutates
  <1>2. ASSUME NEW s \in Slots, NEW h \in Refs, NEW t \in Slots, js_weakref_new(s, h, t)
        PROVE  TriInv'
    BY <1>2 DEF js_weakref_new, Born, Register, Mutates
  <1>3. ASSUME NEW s \in Slots, NEW t \in Slots, js_weakref_deref(s, t) PROVE TriInv'
    BY <1>3 DEF js_weakref_deref, Shade, Mutates
  <1>4. ASSUME NEW s \in Slots, NEW t \in Slots, Load(s, t) PROVE TriInv'
    BY <1>4 DEF Load, Shade, Bound, Mutates
  <1>5. ASSUME NEW s \in Slots, NEW v \in Rooted \cup {Nil}, Store(s, v) PROVE TriInv'
    <2>1. \A o \in Objects : field'[o] = field[o] \/ field'[o] = v
      BY <1>5 DEF Store
    <2>2. UNCHANGED phase /\ marked \subseteq marked' /\ marked' \ grey' \subseteq marked \ grey
      BY <1>5 DEF Store, Shade, Mutates
    <2>3. CASE barrier
      <3>1. v \in marked' \cup {Nil}
        BY <1>5, <2>3 DEF Store, Shade
      <3> QED  BY <2>1, <2>2, <3>1
    <2>4. CASE ~barrier
      BY <2>2, <2>4 DEF Phases
    <2> QED  BY <2>3, <2>4
  <1>6. ASSUME NEW s \in Slots, Forget(s) PROVE TriInv'
    BY <1>6 DEF Forget, Mutates
  <1>7. CASE NewFull
    BY <1>7 DEF NewFull
  <1>8. CASE StepBuildValidPointerSet
    BY <1>8 DEF StepBuildValidPointerSet
  <1>9. CASE StepRootScan
    BY <1>9 DEF StepRootScan
  <1>10. CASE StepMarkPropagation
    BY <1>10 DEF StepMarkPropagation, DrainOne, Children
  <1>11. CASE StepBlockPersistence
    BY <1>11 DEF StepBlockPersistence, Persisting
  <1>12. CASE StepBarrierSeedDrain
    <2>1. CASE marked' = Remarked /\ grey' = {}
      BY <1>12, <2>1, RemarkCloses DEF StepBarrierSeedDrain, Closed
    <2>2. CASE DrainOne
      BY <1>12, <2>2 DEF StepBarrierSeedDrain, DrainOne, Children
    <2> QED  BY <1>12, <2>1, <2>2 DEF StepBarrierSeedDrain
  <1>13. CASE StepRememberedSetRebuild
    BY <1>13, WeakUnitTri DEF StepRememberedSetRebuild
  <1>14. CASE StepWeakProcessing
    BY <1>14, WeakUnitTri DEF StepWeakProcessing, ResumeWeak
  <1>15. CASE StepSweepBegin
    BY <1>15 DEF StepSweepBegin, BirthAfterSnapshot
  <1>16. CASE StepSweep
    BY <1>16 DEF StepSweep
  <1>17. CASE StepSweepEnd
    BY <1>17 DEF StepSweepEnd
  <1>18. CASE StepReclaim
    BY <1>18 DEF StepReclaim
  <1>19. CASE UNCHANGED vars
    BY <1>19 DEF vars, heap, cycle
  <1> QED  BY <1>1, <1>2, <1>3, <1>4, <1>5, <1>6, <1>7, <1>8, <1>9, <1>10, <1>11, <1>12, <1>13,
             <1>14, <1>15, <1>16, <1>17, <1>18, <1>19, StoredValue DEF Next, Mutator, Collector

(* No WeakRef is marked after the remark but those that are born or found marked: a
   trace of what a deref revived meets none. *)
LEMMA NoLateRefs ==
    ASSUME TypeOK, TriInv, RemarkInv, phase \in Remarks
    PROVE  /\ marked \subseteq Traced(marked, grey) /\ Closed(Traced(marked, grey))
           /\ Traced(marked, grey) \cap Refs \subseteq marked
  <1>1. marked \subseteq Traced(marked, grey) /\ Closed(Traced(marked, grey))
    BY TracedCloses DEF TypeOK, TriInv, Remarks
  <1>2. CASE Closed(marked)
    <2>1. Traced(marked, grey) \subseteq marked
      BY <1>2, LeastLeast, TracedIsLeast DEF TypeOK, Closed
    <2> QED  BY <1>1, <2>1
  <1>3. CASE Refs \subseteq marked
    BY <1>1, <1>3
  <1> QED  BY <1>2, <1>3 DEF RemarkInv

(* What the mutator does to the set that is kept. *)
LEMMA MutatorKept ==
    ASSUME TypeOK, FlagInv, MarkInv, UNCHANGED <<phase, todo>>, marked \subseteq marked',
           ~barrier /\ ~birth => UNCHANGED marked,
           NEW new \in SUBSET (Objects \ alive), alive' = alive \cup new
    PROVE  Kept' = Kept \cup new
  <1>1. phase = "SweepObjects" => UNCHANGED marked /\ todo \subseteq alive
    BY DEF FlagInv, MarkInv, Barriers, Remarks
  <1> QED  BY <1>1 DEF Kept

(* What will be left stays closed: the mutator gets hold only of what is in it, and
   the sweep starts from a closed set of marks. *)
LEMMA KeptStep ==
    ASSUME TypeOK, HeapInv, FlagInv, MarkInv, TriInv, KeptInv, RemarkInv, [Next]_vars
    PROVE  KeptInv'
  <1> USE GcAssumption, RootsAlive DEF TypeOK, HeapInv, KeptInv, Closed, Maybe, Rooted, heap
  <1>1. ASSUME NEW s \in Slots, NEW o \in Objects, Alloc(s, o) PROVE KeptInv'
    <2>1. Kept' = Kept \cup {o}
      BY <1>1, MutatorKept DEF Alloc, Born, Mutates
    <2> QED  BY <1>1, <2>1 DEF Alloc, Mutates
  <1>2. ASSUME NEW s \in Slots, NEW h \in Refs, NEW t \in Slots, js_weakref_new(s, h, t)
        PROVE  KeptInv'
    <2>1. Kept' = Kept \cup {h}
      BY <1>2, MutatorKept DEF js_weakref_new, Born, Mutates
    <2> QED  BY <1>2, <2>1 DEF js_weakref_new, Register, Mutates
  <1>3. ASSUME NEW s \in Slots, NEW t \in Slots, js_weakref_deref(s, t) PROVE KeptInv'
    <2>1. Kept' = Kept \cup {}
      BY <1>3, MutatorKept DEF js_weakref_deref, Shade, Mutates
    <2> QED  BY <1>3, <2>1 DEF js_weakref_deref, Mutates
  <1>4. ASSUME NEW s \in Slots, NEW t \in Slots, Load(s, t) PROVE KeptInv'
    <2>1. Kept' = Kept \cup {}
      BY <1>4, MutatorKept DEF Load, Shade, Mutates
    <2> QED  BY <1>4, <2>1 DEF Load, Mutates
  <1>5. ASSUME NEW s \in Slots, NEW v \in Rooted \cup {Nil}, Store(s, v) PROVE KeptInv'
    <2>1. Kept' = Kept \cup {}
      BY <1>5, MutatorKept DEF Store, Shade, Mutates
    <2>2. v \in Kept \cup {Nil}
      BY <1>5
    <2> QED  BY <1>5, <2>1, <2>2 DEF Store, Mutates
  <1>6. ASSUME NEW s \in Slots, Forget(s) PROVE KeptInv'
    <2>1. Kept' = Kept \cup {}
      BY <1>6, MutatorKept DEF Forget, Mutates
    <2> QED  BY <1>6, <2>1 DEF Forget, Mutates
  <1>7. CASE NewFull
    BY <1>7 DEF NewFull, Kept, Remarks
  <1>8. CASE StepBuildValidPointerSet
    BY <1>8 DEF StepBuildValidPointerSet, Kept, Remarks
  <1>9. CASE StepRootScan
    BY <1>9 DEF StepRootScan, Kept, Remarks
  <1>10. CASE StepMarkPropagation
    BY <1>10 DEF StepMarkPropagation, Kept, Remarks
  <1>11. CASE StepBlockPersistence
    BY <1>11 DEF StepBlockPersistence, Kept, Remarks
  <1>12. CASE StepBarrierSeedDrain
    BY <1>12 DEF StepBarrierSeedDrain, Kept, Remarks
  <1>13. CASE StepRememberedSetRebuild
    <2>1. WeakUnit(holders) /\ phase' \in {"WeakProcessing", "Sweep"}
      BY <1>13, WeakUnitTypes DEF StepRememberedSetRebuild
    <2> QED  BY <1>13, <2>1, WeakUnitHeap DEF StepRememberedSetRebuild, Kept, Remarks
  <1>14. CASE StepWeakProcessing
    <2>1. WeakUnit(todo) /\ phase' \in {"WeakProcessing", "Sweep"}
      BY <1>14, WeakUnitTypes DEF StepWeakProcessing, ResumeWeak, MarkInv
    <2> QED  BY <1>14, <2>1, WeakUnitHeap DEF StepWeakProcessing, Kept, Remarks
  <1>15. CASE StepSweepBegin
    <2>1. phase \in Remarks /\ phase = "Sweep" /\ todo = {}
      BY <1>15 DEF StepSweepBegin, Remarks, MarkInv
    <2>2. Traced(marked, grey) \subseteq alive
      BY <2>1, AliveClosed DEF MarkInv
    <2>3. Kept' = Traced(marked, grey)
      BY <1>15, <2>2 DEF StepSweepBegin, Kept
    <2>4. \A o \in Kept' : o \in marked \/ weak[o] = Nil
      BY <2>1, <2>2, <2>3, NoLateRefs
    <2>5. Rooted \subseteq marked /\ marked \cap Refs \subseteq holders /\ holders \subseteq marked
          /\ \A h \in marked : weak[h] \in marked \cup {Nil}
      BY <2>1 DEF RemarkInv, Pending
    <2> QED  BY <1>15, <2>1, <2>3, <2>4, <2>5, NoLateRefs DEF StepSweepBegin, Remarks
  <1>16. CASE StepSweep
    <2>1. Kept' = Kept
      BY <1>16 DEF StepSweep, Kept, MarkInv
    <2>2. \A o \in Kept : field'[o] = field[o] /\ weak'[o] = weak[o]
      BY <1>16 DEF StepSweep, Kept
    <2> QED  BY <1>16, <2>1, <2>2 DEF StepSweep, Remarks
  <1>17. CASE StepSweepEnd
    BY <1>17 DEF StepSweepEnd, Kept, Remarks
  <1>18. CASE StepReclaim
    BY <1>18 DEF StepReclaim, Kept, Remarks
  <1>19. CASE UNCHANGED vars
    BY <1>19 DEF vars, cycle, Kept
  <1> QED  BY <1>1, <1>2, <1>3, <1>4, <1>5, <1>6, <1>7, <1>8, <1>9, <1>10, <1>11, <1>12, <1>13,
             <1>14, <1>15, <1>16, <1>17, <1>18, <1>19, StoredValue DEF Next, Mutator, Collector

(* A step of weak processing keeps what it has established of the holders it has
   visited. *)
LEMMA WeakUnitRemark ==
    ASSUME TypeOK, HeapInv, TriInv, RemarkInv, phase \in {"RememberedSetRebuild", "WeakProcessing"},
           Pending \in SUBSET Refs, WeakUnit(Pending), UNCHANGED <<field, root>>
    PROVE  RemarkInv'
  <1>1. phase \in Remarks /\ phase' \in {"WeakProcessing", "Sweep"} /\ Pending' = todo'
    BY WeakUnitTypes DEF Remarks, Pending
  <1>2. CASE Pending = {}
    <2>1. marked' = Traced(marked, grey) /\ todo' = {} /\ UNCHANGED <<holders, weak>>
      BY <1>2 DEF WeakUnit, LeaveWeakProcessing
    <2>2. \A o \in marked' : o \in marked \/ weak[o] = Nil
      BY <2>1, <1>1, NoLateRefs, LeastClosed, TracedIsLeast DEF HeapInv, TypeOK
    <2> QED  BY <1>1, <1>2, <2>1, <2>2, NoLateRefs DEF RemarkInv, Closed, Rooted, Maybe
  <1>3. ASSUME NEW h \in Pending, Process(h), todo' = Pending \ {h},
               marked' = Traced(marked, grey) \/ UNCHANGED marked
        PROVE  RemarkInv'
    <2>1. marked \subseteq marked' /\ marked' \cap Refs \subseteq marked /\ marked' \subseteq Objects
      BY <1>1, <1>3, NoLateRefs, LeastClosed, TracedIsLeast DEF TypeOK
    <2>2. (Closed(marked) \/ (Native = {} /\ Refs \subseteq marked))'
      BY <1>1, <1>3, <2>1, NoLateRefs DEF RemarkInv, Closed
    <2>3. holders' \subseteq holders /\ holders \ holders' \subseteq {h} \ marked
      BY <1>3 DEF Process, DropDead
    <2>4. h \in holders' => h \in marked
      BY <1>3 DEF Process, DropDead
    <2>5. \A o \in marked : o # h => weak'[o] = weak[o]
      BY <1>3 DEF Process, ClearTarget, TypeOK
    <2>6. h \in marked => weak'[h] \in marked \cup {Nil}
      BY <1>3 DEF Process, ClearTarget, ShouldClear, TypeOK
    <2>7. \A o \in marked' : o \notin marked => weak'[o] = Nil
      BY <1>3, <2>1 DEF Process, ClearTarget, HeapInv, TypeOK
    <2> QED  BY <1>1, <1>3, <2>1, <2>2, <2>3, <2>4, <2>5, <2>6, <2>7 DEF RemarkInv, Rooted, Maybe
  <1> QED  BY <1>2, <1>3 DEF WeakUnit, LeaveWeakProcessing

(* After the remark every reference the mutator acquires is marked, and no marked
   holder that was visited has an unmarked target. *)
LEMMA RemarkStep ==
    ASSUME [Revivable \/ Quietly]_vars,
           TypeOK, HeapInv, FlagInv, MarkInv, TriInv, KeptInv, RemarkInv, [Next]_vars
    PROVE  RemarkInv'
  <1> USE GcAssumption DEF TypeOK, HeapInv, RemarkInv, Closed, Pending, Maybe, Rooted, heap
  <1>1. ASSUME NEW s \in Slots, NEW o \in Objects, Alloc(s, o) PROVE RemarkInv'
    <2> SUFFICES ASSUME phase \in Remarks PROVE RemarkInv'
      BY <1>1 DEF Alloc, Mutates
    <2>1. barrier /\ birth /\ UNCHANGED <<phase, todo>>
      BY <1>1 DEF Alloc, Mutates, FlagInv, Barriers
    <2>2. marked' = marked \cup {o} /\ weak' = weak /\ holders' = holders /\ weak[o] = Nil
      BY <1>1, <2>1 DEF Alloc, Born
    <2>3. Rooted' \subseteq Rooted \cup {o}
      BY <1>1 DEF Alloc
    <2>4. field'[o] = Nil /\ \A x \in marked : field'[x] \in {field[x], Nil}
      BY <1>1 DEF Alloc
    <2> QED  BY <1>1, <2>1, <2>2, <2>3, <2>4 DEF Alloc
  <1>2. ASSUME NEW s \in Slots, NEW h \in Refs, NEW t \in Slots, js_weakref_new(s, h, t)
        PROVE  RemarkInv'
    <2> SUFFICES ASSUME phase \in Remarks PROVE RemarkInv'
      BY <1>2 DEF js_weakref_new, Mutates
    <2>1. barrier /\ birth /\ UNCHANGED <<phase, todo>>
      BY <1>2 DEF js_weakref_new, Mutates, FlagInv, Barriers
    <2>2. root[t] \in marked
      BY <1>2 DEF js_weakref_new
    <2>3. marked' = marked \cup {h} /\ holders' = holders \cup {h}
      BY <1>2, <2>1, <2>2 DEF js_weakref_new, Born, Register
    <2>4. Rooted' \subseteq Rooted \cup {h} /\ UNCHANGED field /\ field[h] = Nil
      BY <1>2 DEF js_weakref_new
    <2>5. weak'[h] \in marked /\ \A x \in marked : x # h => weak'[x] = weak[x]
      BY <1>2, <2>2 DEF js_weakref_new
    <2> QED  BY <2>1, <2>3, <2>4, <2>5
  <1>3. ASSUME NEW s \in Slots, NEW t \in Slots, js_weakref_deref(s, t) PROVE RemarkInv'
    <2> SUFFICES ASSUME phase \in Remarks PROVE RemarkInv'
      BY <1>3 DEF js_weakref_deref, Mutates
    <2>1. barrier /\ birth /\ UNCHANGED <<phase, todo>>
      BY <1>3 DEF js_weakref_deref, Mutates, FlagInv, Barriers
    <2> DEFINE h == root[s]
               a == weak[h]
    <2>2. h \in marked /\ h \in Refs /\ a \in Objects /\ a \in Targets
      BY <1>3 DEF js_weakref_deref
    <2>3. marked' = marked \cup {a} /\ Rooted' \subseteq Rooted \cup {a}
      BY <1>3, <2>1, <2>2 DEF js_weakref_deref, Shade
    <2>4. UNCHANGED <<holders, weak, field>>
      BY <1>3 DEF js_weakref_deref
    <2>5. CASE a \in marked
      BY <2>1, <2>3, <2>4, <2>5
    <2>6. CASE a \notin marked
      <3>1. a \notin Refs /\ (field[a] = Nil \/ (Native = {} /\ Refs \subseteq marked))
        <4>1. Revivable \/ Quietly
          BY <2>3, <2>6 DEF vars, cycle
        <4>2. Revivable => a \notin Refs /\ (a \in Leaves \/ (Native = {} /\ Refs \subseteq marked))
          BY <2>2, <2>6 DEF Revivable
        <4>3. Quietly => a \in Leaves \ Refs
          BY <1>3, <2>6 DEF Quietly, Remarks
        <4> QED  BY <4>1, <4>2, <4>3
      <3>2. weak[a] = Nil
        BY <2>2, <3>1
      <3> QED  BY <2>1, <2>3, <2>4, <3>1, <3>2
    <2> QED  BY <2>5, <2>6
  <1>4. ASSUME NEW s \in Slots, NEW t \in Slots, Load(s, t) PROVE RemarkInv'
    <2> SUFFICES ASSUME phase \in Remarks PROVE RemarkInv'
      BY <1>4 DEF Load, Mutates
    <2>1. barrier /\ birth /\ UNCHANGED <<phase, todo>>
      BY <1>4 DEF Load, Mutates, FlagInv, Barriers
    <2> DEFINE a == field[root[s]]
    <2>2. root[s] \in marked /\ UNCHANGED <<holders, weak, field>> /\ Rooted' \subseteq Rooted \cup Maybe({a})
      BY <1>4 DEF Load
    <2>3. CASE a \in marked \cup {Nil}
      <3>1. UNCHANGED marked
        BY <1>4, <2>3 DEF Load, Shade, Bound
      <3> QED  BY <2>1, <2>2, <2>3, <3>1
    <2>4. CASE a \notin marked \cup {Nil}
      <3>1. Native = {} /\ Refs \subseteq marked
        BY <2>2, <2>4
      <3>2. marked' = marked \cup {a} /\ a \in Objects
        BY <1>4, <2>1, <2>4, <3>1 DEF Load, Shade, Bound
      <3>3. weak[a] = Nil
        BY <2>4, <3>1, <3>2
      <3> QED  BY <2>1, <2>2, <3>1, <3>2, <3>3
    <2> QED  BY <2>3, <2>4
  <1>5. ASSUME NEW s \in Slots, NEW v \in Rooted \cup {Nil}, Store(s, v) PROVE RemarkInv'
    <2> SUFFICES ASSUME phase \in Remarks PROVE RemarkInv'
      BY <1>5 DEF Store, Mutates
    <2>1. barrier /\ birth /\ UNCHANGED <<phase, todo>>
      BY <1>5 DEF Store, Mutates, FlagInv, Barriers
    <2>2. v \in marked \cup {Nil} /\ UNCHANGED <<marked, holders, weak, root>>
      BY <1>5 DEF Store, Shade
    <2>3. \A x \in Objects : field'[x] \in {field[x], v}
      BY <1>5 DEF Store
    <2> QED  BY <2>1, <2>2, <2>3
  <1>6. ASSUME NEW s \in Slots, Forget(s) PROVE RemarkInv'
    <2> SUFFICES ASSUME phase \in Remarks PROVE RemarkInv'
      BY <1>6 DEF Forget, Mutates
    <2>1. barrier /\ birth /\ UNCHANGED <<phase, todo>>
      BY <1>6 DEF Forget, Mutates, FlagInv, Barriers
    <2>2. Rooted' \subseteq Rooted /\ UNCHANGED <<marked, holders, weak, field>>
      BY <1>6 DEF Forget
    <2> QED  BY <2>1, <2>2
  <1>7. CASE NewFull
    BY <1>7 DEF NewFull, Remarks
  <1>8. CASE StepBuildValidPointerSet
    BY <1>8 DEF StepBuildValidPointerSet, Remarks
  <1>9. CASE StepRootScan
    BY <1>9 DEF StepRootScan, Remarks
  <1>10. CASE StepMarkPropagation
    BY <1>10 DEF StepMarkPropagation, Remarks
  <1>11. CASE StepBlockPersistence
    BY <1>11 DEF StepBlockPersistence, Remarks
  <1>12. CASE StepBarrierSeedDrain
    <2> SUFFICES ASSUME phase' \in Remarks PROVE RemarkInv'
      OBVIOUS
    <2>1. marked' = Remarked /\ phase' = "RememberedSetRebuild" /\ phase = "BarrierSeedDrain"
      BY <1>12 DEF StepBarrierSeedDrain, Remarks
    <2>2. Remarked \subseteq alive
      BY <2>1, AliveClosed DEF Remarked, MarkInv
    <2>3. alive \cap Refs \subseteq holders
      BY <2>1 DEF KeptInv, Kept, Remarks
    <2>4. UNCHANGED <<field, weak, root, holders>>
      BY <1>12 DEF StepBarrierSeedDrain
    <2> QED  BY <2>1, <2>2, <2>3, <2>4, RemarkCloses
  <1>13. CASE StepRememberedSetRebuild
    BY <1>13, WeakUnitRemark DEF StepRememberedSetRebuild
  <1>14. CASE StepWeakProcessing
    BY <1>14, WeakUnitRemark DEF StepWeakProcessing, ResumeWeak, MarkInv
  <1>15. CASE StepSweepBegin
    BY <1>15 DEF StepSweepBegin, Remarks
  <1>16. CASE StepSweep
    BY <1>16 DEF StepSweep, Remarks
  <1>17. CASE StepSweepEnd
    BY <1>17 DEF StepSweepEnd, Remarks
  <1>18. CASE StepReclaim
    BY <1>18 DEF StepReclaim, Remarks
  <1>19. CASE UNCHANGED vars
    BY <1>19 DEF vars, cycle
  <1> QED  BY <1>1, <1>2, <1>3, <1>4, <1>5, <1>6, <1>7, <1>8, <1>9, <1>10, <1>11, <1>12, <1>13,
             <1>14, <1>15, <1>16, <1>17, <1>18, <1>19, StoredValue DEF Next, Mutator, Collector

(* The garbage of a cycle is what no step of the mutator reaches: it takes a root or
   a field that leads there. *)
LEMMA DoomMutator ==
    ASSUME TypeOK, TypeOK', DoomInv, doomed' = doomed \ Reach', alive \subseteq alive',
           UNCHANGED <<phase, todo>>, marked' \subseteq marked \cup Reach \cup Reach',
           \A o \in Objects : field'[o] = field[o] \/ o \in Reach'
    PROVE  DoomInv'
  <1>1. \A o \in Reach' : field'[o] \in Reach' \cup {Nil}
    BY ReachClosedNext
  <1>2. Nil \notin doomed
    BY GcAssumption DEF TypeOK
  <1> QED  BY <1>1, <1>2 DEF DoomInv

(* A trace from marked objects and roots meets no garbage. *)
LEMMA TraceSparesDoomed ==
    ASSUME TypeOK, DoomInv, NEW m \in SUBSET (Objects \ doomed), NEW g \in SUBSET (Objects \ doomed)
    PROVE  Traced(m, g) \cap doomed = {}
  <1>1. \A o \in g \cup ((Objects \ doomed) \ m) : field[o] \in (Objects \ doomed) \cup {Nil}
    BY DEF TypeOK, DoomInv
  <1>2. Least(field, m, g) \subseteq Objects \ doomed
    BY <1>1, LeastLeast
  <1> QED  BY <1>2, TracedIsLeast

(* The collector moves no reference. *)
LEMMA ReachUnchanged ==
    ASSUME UNCHANGED <<field, root>>
    PROVE  Reach' = Reach
  BY ReachIsLeast DEF Rooted, Maybe

(* The last drain of weak processing marks no garbage. *)
LEMMA WeakUnitDoom ==
    ASSUME TypeOK, DoomInv, NEW left, WeakUnit(left)
    PROVE  marked' \cap doomed = {}
  <1>1. Traced(marked, grey) \cap doomed = {}
    BY TraceSparesDoomed DEF DoomInv, TypeOK
  <1> QED  BY <1>1 DEF WeakUnit, LeaveWeakProcessing, DoomInv

(* What was unreachable at the start of the cycle is not marked. *)
LEMMA DoomStep ==
    ASSUME TypeOK, HeapInv, FlagInv, MarkInv, TriInv, KeptInv, RemarkInv, TypeOK', DoomInv, [Next]_vars
    PROVE  DoomInv'
  <1> USE GcAssumption DEF TypeOK, DoomInv, Maybe, Rooted, heap
  <1>1. ASSUME NEW s \in Slots, NEW o \in Objects, Alloc(s, o) PROVE DoomInv'
    <2>1. doomed' = doomed \ Reach' /\ UNCHANGED <<phase, todo>> /\ alive \subseteq alive'
      BY <1>1 DEF Alloc, Mutates, Ghosts
    <2>2. Rooted' \subseteq Reach' /\ Rooted \subseteq Reach
      BY ReachClosed, ReachClosedNext
    <2>3. \A x \in Objects : field'[x] = field[x] \/ x \in Reach'
      BY <1>1, <2>2 DEF Alloc
    <2>4. marked' \subseteq marked \cup Reach \cup Reach'
      BY <1>1, <2>2 DEF Alloc, Born
    <2> QED  BY <2>1, <2>3, <2>4, DoomMutator
  <1>2. ASSUME NEW s \in Slots, NEW h \in Refs, NEW t \in Slots, js_weakref_new(s, h, t)
        PROVE  DoomInv'
    <2>1. doomed' = doomed \ Reach' /\ UNCHANGED <<phase, todo>> /\ alive \subseteq alive'
      BY <1>2 DEF js_weakref_new, Mutates, Ghosts
    <2>2. Rooted' \subseteq Reach' /\ Rooted \subseteq Reach
      BY ReachClosed, ReachClosedNext
    <2>3. \A x \in Objects : field'[x] = field[x] \/ x \in Reach'
      BY <1>2 DEF js_weakref_new
    <2>4. marked' \subseteq marked \cup Reach \cup Reach'
      BY <1>2, <2>2 DEF js_weakref_new, Born
    <2> QED  BY <2>1, <2>3, <2>4, DoomMutator
  <1>3. ASSUME NEW s \in Slots, NEW t \in Slots, js_weakref_deref(s, t) PROVE DoomInv'
    <2>1. doomed' = doomed \ Reach' /\ UNCHANGED <<phase, todo>> /\ alive \subseteq alive'
      BY <1>3 DEF js_weakref_deref, Mutates, Ghosts
    <2>2. Rooted' \subseteq Reach' /\ Rooted \subseteq Reach
      BY ReachClosed, ReachClosedNext
    <2>3. \A x \in Objects : field'[x] = field[x] \/ x \in Reach'
      BY <1>3 DEF js_weakref_deref
    <2>4. marked' \subseteq marked \cup Reach \cup Reach'
      BY <1>3, <2>2 DEF js_weakref_deref, Shade
    <2> QED  BY <2>1, <2>3, <2>4, DoomMutator
  <1>4. ASSUME NEW s \in Slots, NEW t \in Slots, Load(s, t) PROVE DoomInv'
    <2>1. doomed' = doomed \ Reach' /\ UNCHANGED <<phase, todo>> /\ alive \subseteq alive'
      BY <1>4 DEF Load, Mutates, Ghosts
    <2>2. Rooted' \subseteq Reach' /\ Rooted \subseteq Reach
      BY ReachClosed, ReachClosedNext
    <2>3. \A x \in Objects : field'[x] = field[x] \/ x \in Reach'
      BY <1>4 DEF Load
    <2>4. marked' \subseteq marked \cup Reach \cup Reach'
      BY <1>4, <2>2 DEF Load, Shade, Bound
    <2> QED  BY <2>1, <2>3, <2>4, DoomMutator
  <1>5. ASSUME NEW s \in Slots, NEW v \in Rooted \cup {Nil}, Store(s, v) PROVE DoomInv'
    <2>1. doomed' = doomed \ Reach' /\ UNCHANGED <<phase, todo>> /\ alive \subseteq alive'
      BY <1>5 DEF Store, Mutates, Ghosts
    <2>2. Rooted' \subseteq Reach' /\ Rooted \subseteq Reach
      BY ReachClosed, ReachClosedNext
    <2>3. \A x \in Objects : field'[x] = field[x] \/ x \in Reach'
      BY <1>5, <2>2 DEF Store
    <2>4. marked' \subseteq marked \cup Reach \cup Reach'
      BY <1>5, <2>2 DEF Store, Shade
    <2> QED  BY <2>1, <2>3, <2>4, DoomMutator
  <1>6. ASSUME NEW s \in Slots, Forget(s) PROVE DoomInv'
    <2>1. doomed' = doomed \ Reach' /\ UNCHANGED <<phase, todo>> /\ alive \subseteq alive'
      BY <1>6 DEF Forget, Mutates, Ghosts
    <2>2. Rooted' \subseteq Reach' /\ Rooted \subseteq Reach
      BY ReachClosed, ReachClosedNext
    <2>3. \A x \in Objects : field'[x] = field[x] \/ x \in Reach'
      BY <1>6 DEF Forget
    <2>4. marked' \subseteq marked \cup Reach \cup Reach'
      BY <1>6, <2>2 DEF Forget
    <2> QED  BY <2>1, <2>3, <2>4, DoomMutator
  <1>7. CASE NewFull
    <2>1. Reach' = Reach /\ Reach \subseteq Objects /\ Closed(Reach)
      BY <1>7, ReachUnchanged, ReachClosed DEF NewFull
    <2> QED  BY <1>7, <2>1 DEF NewFull, Closed, HeapInv, MarkInv
  <1>8. CASE StepBuildValidPointerSet
    <2>1. Reach' = Reach /\ doomed' = doomed
      BY <1>8, ReachUnchanged DEF StepBuildValidPointerSet
    <2> QED  BY <1>8, <2>1 DEF StepBuildValidPointerSet
  <1>9. CASE StepRootScan
    <2>1. Reach' = Reach /\ doomed' = doomed
      BY <1>9, ReachUnchanged DEF StepRootScan
    <2>2. Rooted \subseteq Reach
      BY ReachClosed
    <2>3. marked' \cap doomed = {}
      BY <1>9, <2>2 DEF StepRootScan, MarkInv
    <2> QED  BY <1>9, <2>1, <2>3 DEF StepRootScan
  <1>10. CASE StepMarkPropagation
    <2>1. Reach' = Reach /\ doomed' = doomed
      BY <1>10, ReachUnchanged DEF StepMarkPropagation
    <2>2. marked' \cap doomed = {}
      BY <1>10 DEF StepMarkPropagation, DrainOne, Children
    <2> QED  BY <1>10, <2>1, <2>2 DEF StepMarkPropagation
  <1>11. CASE StepBlockPersistence
    <2>1. PICK keep \in Persisting : /\ marked' = marked \cup keep
                                     /\ doomed' = doomed \ (keep \cup Traced({}, keep))
      BY <1>11 DEF StepBlockPersistence
    <2>2. \A o \in keep \cup Traced({}, keep) : field[o] \in Traced({}, keep) \cup {Nil}
      BY <2>1, LeastClosed, TracedIsLeast DEF Persisting
    <2>3. Reach' = Reach
      BY <1>11, ReachUnchanged DEF StepBlockPersistence
    <2> QED  BY <1>11, <2>1, <2>2, <2>3 DEF StepBlockPersistence
  <1>12. CASE StepBarrierSeedDrain
    <2>1. Reach' = Reach /\ doomed' = doomed
      BY <1>12, ReachUnchanged DEF StepBarrierSeedDrain
    <2>2. Rooted \subseteq Reach /\ Reach \subseteq Objects
      BY ReachClosed
    <2>3. Remarked \cap doomed = {}
      BY <2>2, TraceSparesDoomed DEF Remarked
    <2>4. marked' \cap doomed = {}
      BY <1>12, <2>3 DEF StepBarrierSeedDrain, DrainOne, Children
    <2> QED  BY <1>12, <2>1, <2>4 DEF StepBarrierSeedDrain
  <1>13. CASE StepRememberedSetRebuild
    <2>1. Reach' = Reach /\ doomed' = doomed
      BY <1>13, ReachUnchanged DEF StepRememberedSetRebuild
    <2> QED  BY <1>13, <2>1, WeakUnitDoom, WeakUnitTypes DEF StepRememberedSetRebuild
  <1>14. CASE StepWeakProcessing
    <2>1. Reach' = Reach /\ doomed' = doomed
      BY <1>14, ReachUnchanged DEF StepWeakProcessing
    <2> QED  BY <1>14, <2>1, WeakUnitDoom, WeakUnitTypes DEF StepWeakProcessing, ResumeWeak, MarkInv
  <1>15. CASE StepSweepBegin
    <2>1. Reach' = Reach /\ doomed' = doomed
      BY <1>15, ReachUnchanged DEF StepSweepBegin
    <2>2. Traced(marked, grey) \cap doomed = {}
      BY TraceSparesDoomed
    <2> QED  BY <1>15, <2>1, <2>2 DEF StepSweepBegin
  <1>16. CASE StepSweep
    <2>1. Reach \subseteq Objects /\ Rooted \subseteq Reach /\ Closed(Reach)
      BY ReachClosed
    <2>2. \A x \in Objects : field'[x] \in {field[x], Nil}
      BY <1>16 DEF StepSweep
    <2>3. Rooted' = Rooted
      BY <1>16 DEF StepSweep
    <2>4. Reach' \subseteq Reach
      BY <2>1, <2>2, <2>3, ReachLeastNext DEF Closed
    <2>5. \A x \in Objects : field'[x] # field[x] => field'[x] = Nil /\ x \notin doomed'
      BY <1>16 DEF StepSweep
    <2> QED  BY <1>16, <2>4, <2>5 DEF StepSweep
  <1>17. CASE StepSweepEnd
    <2>1. Reach' = Reach /\ doomed' = doomed
      BY <1>17, ReachUnchanged DEF StepSweepEnd
    <2> QED  BY <1>17, <2>1 DEF StepSweepEnd
  <1>18. CASE StepReclaim
    <2>1. Reach' = Reach /\ doomed' = doomed
      BY <1>18, ReachUnchanged DEF StepReclaim
    <2> QED  BY <1>18, <2>1 DEF StepReclaim
  <1>19. CASE UNCHANGED vars
    <2>1. Reach' = Reach
      BY <1>19, ReachUnchanged DEF vars
    <2> QED  BY <1>19, <2>1 DEF vars, cycle
  <1> QED  BY <1>1, <1>2, <1>3, <1>4, <1>5, <1>6, <1>7, <1>8, <1>9, <1>10, <1>11, <1>12, <1>13,
             <1>14, <1>15, <1>16, <1>17, <1>18, <1>19, StoredValue DEF Next, Mutator, Collector
----------------------------------------------------------------------------
(* Nothing is allocated at the start. *)
LEMMA GcInit == Init => GcInv
  <1> SUFFICES ASSUME Init PROVE GcInv
    OBVIOUS
  <1>1. TypeOK /\ HeapInv /\ FlagInv /\ MarkInv /\ TriInv
    BY GcAssumption DEF Init, TypeOK, Phases, HeapInv, FlagInv, Barriers, Remarks, MarkInv, TriInv
  <1>2. KeptInv /\ RemarkInv
    BY DEF Init, KeptInv, Kept, Closed, Rooted, Maybe, RemarkInv, Remarks
  <1>3. DoomInv
    BY GcAssumption DEF Init, DoomInv
  <1> QED  BY <1>1, <1>2, <1>3 DEF GcInv

(* The invariant of the cycle and of the mutator between its slices. *)
THEOREM GcInvariant == Spec /\ [][Revivable \/ Quietly]_vars => []GcInv
  <1>1. GcInv /\ [Next]_vars /\ [Revivable \/ Quietly]_vars => GcInv'
    <2> SUFFICES ASSUME GcInv, [Next]_vars, [Revivable \/ Quietly]_vars PROVE GcInv'
      OBVIOUS
    <2>1. TypeOK' /\ HeapInv' /\ FlagInv'
      BY TypeStep, HeapStep, FlagStep DEF GcInv
    <2>2. MarkInv' /\ TriInv' /\ KeptInv'
      BY MarkStep, TriStep, KeptStep DEF GcInv
    <2>3. RemarkInv' /\ DoomInv'
      BY <2>1, RemarkStep, DoomStep DEF GcInv
    <2> QED  BY <2>1, <2>2, <2>3 DEF GcInv
  <1> QED  BY <1>1, GcInit, PTL DEF Spec

(* What the locals lead to is in the set that is kept. *)
LEMMA ReachIsKept ==
    ASSUME GcInv
    PROVE  Reach \subseteq Kept /\ Kept \subseteq alive
  <1>1. Kept \subseteq alive /\ Kept \in SUBSET Objects
    BY DEF GcInv, TypeOK, Kept
  <1> QED  BY <1>1, ReachLeast DEF GcInv, KeptInv

(* The kept set has what is reachable. *)
LEMMA InvReach == GcInv => ReachableIsAllocated
  BY ReachIsKept DEF ReachableIsAllocated

(* No slice of step_sweep frees an object the mutator can reach, whatever it did
   between the slices of the cycle. *)
THEOREM NoUseAfterSweep ==
    ASSUME Revivable
    PROVE  Spec => []ReachableIsAllocated
  <1>1. GcInv => ReachableIsAllocated
    BY InvReach
  <1>2. [Revivable \/ Quietly]_vars
    OBVIOUS
  <1> QED  BY <1>1, <1>2, GcInvariant, PTL

(* Marks and garbage are gone with the sweep. *)
LEMMA InvClean == GcInv => CycleIsClean
  <1> SUFFICES ASSUME GcInv PROVE CycleIsClean
    OBVIOUS
  <1>1. NoMarkLeaks
    BY DEF GcInv, TypeOK, MarkInv, FlagInv, Barriers, Remarks, NoMarkLeaks
  <1>2. GarbageIsSwept
    BY DEF GcInv, DoomInv, GarbageIsSwept
  <1> QED  BY <1>1, <1>2 DEF GcInv, CycleIsClean

(* A cycle ends without marks, without its barrier, and without any object that was
   garbage when it began. *)
THEOREM CyclesAreClean ==
    ASSUME Revivable
    PROVE  Spec => []CycleIsClean
  <1>1. GcInv => CycleIsClean
    BY InvClean
  <1>2. [Revivable \/ Quietly]_vars
    OBVIOUS
  <1> QED  BY <1>1, <1>2, GcInvariant, PTL

(* Holders and weak targets are kept with what refers to them. *)
LEMMA InvWeak == GcInv => HoldersTracked /\ NoDanglingWeak
  <1> SUFFICES ASSUME GcInv PROVE HoldersTracked /\ NoDanglingWeak
    OBVIOUS
  <1>1. Reach \subseteq Kept /\ Kept \subseteq alive
    BY ReachIsKept
  <1>2. Refs \cap Reach \subseteq holders
    <2>1. CASE phase \in Remarks
      <3>1. Rooted \subseteq marked /\ marked \cap Refs \subseteq holders
        BY <2>1 DEF GcInv, RemarkInv
      <3>2. Reach \cap Refs \subseteq marked
        <4>1. marked \subseteq Traced(marked, grey) /\ Closed(Traced(marked, grey))
              /\ Traced(marked, grey) \cap Refs \subseteq marked
          BY <2>1, NoLateRefs DEF GcInv
        <4>2. Traced(marked, grey) \in SUBSET Objects
          BY LeastClosed, TracedIsLeast DEF GcInv, TypeOK
        <4> QED  BY <3>1, <4>1, <4>2, ReachLeast
      <3> QED  BY <3>1, <3>2
    <2>2. CASE phase \notin Remarks
      BY <1>1, <2>2 DEF GcInv, KeptInv
    <2> QED  BY <2>1, <2>2
  <1>3. phase \in {"Reclaim", "Idle"} => holders \subseteq alive
    BY <1>1 DEF GcInv, KeptInv
  <1>4. NoDanglingWeak
    BY <1>1 DEF GcInv, KeptInv, NoDanglingWeak
  <1> QED  BY <1>2, <1>3, <1>4 DEF HoldersTracked

(* A WeakRef in use is in WEAK_HOLDERS, which has no freed address once a sweep is
   over, and refers to an allocated object or to none: weak processing has
   tombstoned every slot that names a target before it is swept. *)
THEOREM WeakSlotsAreSound ==
    ASSUME Revivable
    PROVE  Spec => [](HoldersTracked /\ NoDanglingWeak)
  <1>1. GcInv => HoldersTracked /\ NoDanglingWeak
    BY InvWeak
  <1>2. [Revivable \/ Quietly]_vars
    OBVIOUS
  <1> QED  BY <1>1, <1>2, GcInvariant, PTL

(* For any heap: as long as no deref after the remark revives an object that has a
   field or is a WeakRef, the collector frees nothing that is in use, and weak slots
   are sound. *)
THEOREM SoundUnlessRevived ==
    Spec /\ [][Quietly]_vars =>
        [](ReachableIsAllocated /\ CycleIsClean /\ HoldersTracked /\ NoDanglingWeak)
  <1>1. [Quietly]_vars => [Revivable \/ Quietly]_vars
    OBVIOUS
  <1>2. GcInv => ReachableIsAllocated /\ CycleIsClean /\ HoldersTracked /\ NoDanglingWeak
    BY InvReach, InvClean, InvWeak
  <1> QED  BY <1>1, <1>2, GcInvariant, PTL

----------------------------------------------------------------------------
(* There is at most one WeakRef, of a heap in which nothing revived is lost. *)
Lone == Revivable /\ \A g, h \in Refs : g = h

(* A deref between the remark and the sweep finds its target marked. *)
Firmly ==
    \A s, t \in Slots :
        js_weakref_deref(s, t) /\ phase \in Remarks => weak[root[s]] \in marked

(* A target that was tombstoned is unmarked and waits for the sweep.  As long as one
   is there, the marks lead to no unmarked object, and the WeakRef that lost it, if
   it is the only one, does not lead to one either. *)
ClearInv ==
    /\ phase \notin Remarks \cup {"SweepObjects"} => cleared = {}
    /\ cleared \subseteq alive \ marked
    /\ phase = "SweepObjects" => cleared \subseteq todo
    /\ phase \in Remarks =>
         /\ \/ Closed(marked)
            \/ cleared = {} /\ \A h \in Refs : h \in marked /\ weak[h] \in marked
         /\ Lone /\ cleared # {} => \A h \in Refs : weak[h] \in marked \cup {Nil}

(* Before the remark nothing is tombstoned, and during the sweep nothing is marked. *)
LEMMA ClearOutside ==
    ASSUME FlagInv, ClearInv, phase \notin Remarks, UNCHANGED <<phase, todo, cleared>>,
           alive \subseteq alive', ~barrier /\ ~birth => UNCHANGED marked
    PROVE  ClearInv'
  <1>1. CASE phase = "SweepObjects"
    <2>1. UNCHANGED marked
      BY <1>1 DEF FlagInv, Barriers, Remarks
    <2> QED  BY <1>1, <2>1 DEF ClearInv, Remarks
  <1>2. CASE phase # "SweepObjects"
    BY <1>2 DEF ClearInv
  <1> QED  BY <1>1, <1>2

(* A slice of weak processing tombstones only where the marks are closed. *)
LEMMA WeakUnitClear ==
    ASSUME TypeOK, MarkInv, TriInv, KeptInv, RemarkInv, ClearInv,
           phase \in {"RememberedSetRebuild", "WeakProcessing"},
           Pending \in SUBSET Refs, WeakUnit(Pending), UNCHANGED <<alive, field>>
    PROVE  ClearInv'
  <1>1. phase \in Remarks /\ phase' \in Remarks /\ phase' # "SweepObjects"
    BY WeakUnitTypes DEF Remarks
  <1>2. marked' = Traced(marked, grey) \/ UNCHANGED marked
    BY DEF WeakUnit, LeaveWeakProcessing
  <1>3. marked \subseteq marked' /\ (Closed(marked) => UNCHANGED marked)
    <2>1. Closed(marked) => Traced(marked, grey) \subseteq marked
      BY LeastLeast, TracedIsLeast DEF TypeOK, Closed
    <2> QED  BY <1>1, <1>2, <2>1, NoLateRefs
  <1>4. CASE UNCHANGED <<weak, cleared>>
    BY <1>1, <1>3, <1>4 DEF ClearInv, Closed
  <1>5. ASSUME NEW h \in Pending, h \in marked, ShouldClear(weak[h]),
               weak' = [weak EXCEPT ![h] = Nil], cleared' = cleared \cup {weak[h]}
        PROVE  ClearInv'
    <2>1. weak[h] \notin marked /\ weak[h] \in alive /\ h \in Refs /\ h \in Objects
      <3>1. Kept = alive
        BY DEF Kept
      <3> QED  BY <1>5, <3>1, GcAssumption DEF ShouldClear, KeptInv, MarkInv, TypeOK
    <2>2. Closed(marked) /\ UNCHANGED marked
      BY <1>1, <1>3, <2>1 DEF ClearInv
    <2>3. Lone => \A g \in Refs : weak'[g] = Nil
      BY <1>5, <2>1, GcAssumption DEF Lone, TypeOK
    <2> QED  BY <1>1, <1>5, <2>1, <2>2, <2>3 DEF ClearInv, Closed
  <1> QED  BY <1>4, <1>5 DEF WeakUnit, Process, ClearTarget

(* A tombstoned target is not marked again, so that the sweep frees it. *)
LEMMA ClearStep ==
    ASSUME [Lone \/ Firmly]_vars, GcInv, ClearInv, [Next]_vars
    PROVE  ClearInv'
  <1> USE GcAssumption DEF GcInv, TypeOK, HeapInv, Closed, Maybe, Rooted, heap
  <1>0. phase \in Remarks => barrier /\ birth /\ Rooted \subseteq marked /\ marked \subseteq alive
    BY DEF FlagInv, Barriers, RemarkInv, MarkInv
  <1>1. ASSUME NEW s \in Slots, NEW o \in Objects, Alloc(s, o) PROVE ClearInv'
    <2>1. UNCHANGED <<phase, todo, cleared, weak>> /\ alive' = alive \cup {o} /\ o \notin alive
      BY <1>1 DEF Alloc, Mutates, Ghosts
    <2>2. CASE phase \in Remarks
      <3>1. marked' = marked \cup {o} /\ field'[o] = Nil
            /\ \A x \in marked : field'[x] \in {field[x], Nil}
        BY <1>0, <1>1, <2>2 DEF Alloc, Born
      <3> QED  BY <1>0, <2>1, <2>2, <3>1 DEF ClearInv, Remarks
    <2>3. CASE phase \notin Remarks
      <3>1. ~barrier /\ ~birth => UNCHANGED marked
        BY <1>1 DEF Alloc, Born
      <3> QED  BY <2>1, <2>3, <3>1, ClearOutside
    <2> QED  BY <2>2, <2>3
  <1>2. ASSUME NEW s \in Slots, NEW h \in Refs, NEW t \in Slots, js_weakref_new(s, h, t)
        PROVE  ClearInv'
    <2>1. UNCHANGED <<phase, todo, cleared, field>> /\ alive' = alive \cup {h} /\ h \notin alive
      BY <1>2 DEF js_weakref_new, Mutates, Ghosts
    <2>2. CASE phase \in Remarks
      <3>1. root[t] \in marked
        BY <1>0, <1>2, <2>2 DEF js_weakref_new
      <3>2. marked' = marked \cup {h} /\ weak' = [weak EXCEPT ![h] = root[t]] /\ field[h] = Nil
        BY <1>0, <1>2, <2>2, <3>1 DEF js_weakref_new, Born
      <3>3. h \notin marked /\ h \notin cleared
        BY <1>0, <2>1, <2>2 DEF ClearInv
      <3> QED  BY <2>1, <2>2, <3>1, <3>2, <3>3 DEF ClearInv, Remarks
    <2>3. CASE phase \notin Remarks
      <3>1. ~barrier /\ ~birth => UNCHANGED marked
        BY <1>2 DEF js_weakref_new, Born
      <3> QED  BY <2>1, <2>3, <3>1, ClearOutside
    <2> QED  BY <2>2, <2>3
  <1>3. ASSUME NEW s \in Slots, NEW t \in Slots, js_weakref_deref(s, t) PROVE ClearInv'
    <2>1. UNCHANGED <<phase, todo, cleared, field, alive, weak>>
      BY <1>3 DEF js_weakref_deref, Mutates, Ghosts
    <2> DEFINE h == root[s]
               a == weak[h]
    <2>2. CASE phase \in Remarks
      <3>1. h \in marked /\ h \in Refs /\ a \in Objects
        BY <1>0, <1>3, <2>2 DEF js_weakref_deref
      <3>2. marked' = marked \cup {a} /\ marked \subseteq marked'
        BY <1>0, <1>3, <2>2, <3>1 DEF js_weakref_deref, Shade
      <3>3. CASE a \in marked
        BY <2>1, <3>2, <3>3 DEF ClearInv
      <3>4. CASE a \notin marked
        <4>1. Lone
          <5>1. Lone \/ Firmly
            BY <3>2, <3>4 DEF vars, cycle
          <5>2. ~Firmly
            BY <1>3, <2>2, <3>4 DEF Firmly
          <5> QED  BY <5>1, <5>2
        <4>2. cleared = {}
          BY <2>2, <3>1, <3>4, <4>1 DEF ClearInv
        <4>3. \A g \in Refs : g \in marked' /\ weak[g] \in marked'
          BY <3>1, <3>2, <4>1 DEF Lone
        <4> QED  BY <2>1, <4>2, <4>3 DEF ClearInv
      <3> QED  BY <3>3, <3>4
    <2>3. CASE phase \notin Remarks
      <3>1. ~barrier /\ ~birth => UNCHANGED marked
        BY <1>3 DEF js_weakref_deref, Shade
      <3> QED  BY <2>1, <2>3, <3>1, ClearOutside
    <2> QED  BY <2>2, <2>3
  <1>4. ASSUME NEW s \in Slots, NEW t \in Slots, Load(s, t) PROVE ClearInv'
    <2>1. UNCHANGED <<phase, todo, cleared, field, alive, weak>>
      BY <1>4 DEF Load, Mutates, Ghosts
    <2>2. CASE phase \in Remarks
      <3>1. root[s] \in marked /\ marked \subseteq marked'
        BY <1>0, <1>4, <2>2 DEF Load, Shade
      <3>2. Closed(marked) => UNCHANGED marked
        BY <1>4, <3>1 DEF Load, Shade, Bound
      <3> QED  BY <2>1, <2>2, <3>1, <3>2 DEF ClearInv
    <2>3. CASE phase \notin Remarks
      <3>1. ~barrier /\ ~birth => UNCHANGED marked
        BY <1>4 DEF Load, Shade
      <3> QED  BY <2>1, <2>3, <3>1, ClearOutside
    <2> QED  BY <2>2, <2>3
  <1>5. ASSUME NEW s \in Slots, NEW v \in Rooted \cup {Nil}, Store(s, v) PROVE ClearInv'
    <2>1. UNCHANGED <<phase, todo, cleared, alive, weak>>
      BY <1>5 DEF Store, Mutates, Ghosts
    <2>2. CASE phase \in Remarks
      <3>1. v \in marked \cup {Nil} /\ UNCHANGED marked
        BY <1>0, <1>5, <2>2 DEF Store, Shade
      <3>2. \A x \in Objects : field'[x] \in {field[x], v}
        BY <1>5 DEF Store
      <3> QED  BY <2>1, <3>1, <3>2 DEF ClearInv
    <2>3. CASE phase \notin Remarks
      <3>1. ~barrier /\ ~birth => UNCHANGED marked
        BY <1>5 DEF Store, Shade
      <3> QED  BY <2>1, <2>3, <3>1, ClearOutside
    <2> QED  BY <2>2, <2>3
  <1>6. ASSUME NEW s \in Slots, Forget(s) PROVE ClearInv'
    BY <1>6 DEF Forget, Mutates, Ghosts, ClearInv
  <1>7. CASE NewFull
    BY <1>7 DEF NewFull, ClearInv, Remarks
  <1>8. CASE StepBuildValidPointerSet
    BY <1>8 DEF StepBuildValidPointerSet, ClearInv, Remarks
  <1>9. CASE StepRootScan
    BY <1>9 DEF StepRootScan, ClearInv, Remarks
  <1>10. CASE StepMarkPropagation
    BY <1>10 DEF StepMarkPropagation, ClearInv, Remarks
  <1>11. CASE StepBlockPersistence
    BY <1>11 DEF StepBlockPersistence, ClearInv, Remarks
  <1>12. CASE StepBarrierSeedDrain
    <2>1. cleared = {} /\ cleared' = {} /\ phase = "BarrierSeedDrain" /\ UNCHANGED field
      BY <1>12 DEF StepBarrierSeedDrain, ClearInv, Remarks
    <2>2. phase' \in Remarks => marked' = Remarked
      BY <1>12 DEF StepBarrierSeedDrain, Remarks
    <2>3. phase' \in {"BarrierSeedDrain", "RememberedSetRebuild"}
      BY <1>12 DEF StepBarrierSeedDrain
    <2> QED  BY <2>1, <2>2, <2>3, RemarkCloses DEF ClearInv
  <1>13. CASE StepRememberedSetRebuild
    BY <1>13, WeakUnitClear DEF StepRememberedSetRebuild, Pending
  <1>14. CASE StepWeakProcessing
    BY <1>14, WeakUnitClear DEF StepWeakProcessing, ResumeWeak, Pending, MarkInv
  <1>15. CASE StepSweepBegin
    <2>1. phase \in Remarks /\ phase' = "SweepObjects" /\ todo' = alive /\ UNCHANGED <<alive, cleared>>
      BY <1>15 DEF StepSweepBegin, Remarks
    <2>2. Closed(marked) => marked' \subseteq marked
      BY <1>15, LeastLeast, TracedIsLeast DEF StepSweepBegin
    <2> QED  BY <2>1, <2>2 DEF ClearInv, Remarks
  <1>16. CASE StepSweep
    BY <1>16 DEF StepSweep, ClearInv, Remarks
  <1>17. CASE StepSweepEnd
    BY <1>17 DEF StepSweepEnd, ClearInv, Remarks
  <1>18. CASE StepReclaim
    BY <1>18 DEF StepReclaim, ClearInv, Remarks
  <1>19. CASE UNCHANGED vars
    BY <1>19 DEF vars, cycle, ClearInv
  <1> QED  BY <1>1, <1>2, <1>3, <1>4, <1>5, <1>6, <1>7, <1>8, <1>9, <1>10, <1>11, <1>12, <1>13,
             <1>14, <1>15, <1>16, <1>17, <1>18, <1>19, StoredValue DEF Next, Mutator, Collector

(* Where the marks are closed, nothing unmarked is reachable. *)
LEMMA InvCleared == GcInv /\ ClearInv => ClearedIsDead
  <1> SUFFICES ASSUME GcInv, ClearInv PROVE ClearedIsDead
    OBVIOUS
  <1>1. CASE phase \in Remarks
    <2>1. Closed(marked) => Reach \subseteq marked
      BY <1>1, ReachLeast DEF GcInv, RemarkInv, TypeOK
    <2> QED  BY <1>1, <2>1 DEF ClearInv, ClearedIsDead
  <1>2. CASE phase = "SweepObjects"
    <2>1. cleared \cap Kept = {}
      BY <1>2 DEF ClearInv, Kept
    <2> QED  BY <2>1, ReachIsKept DEF ClearedIsDead
  <1>3. CASE phase \notin Remarks \cup {"SweepObjects"}
    BY <1>3 DEF ClearInv, ClearedIsDead
  <1> QED  BY <1>1, <1>2, <1>3

(* What was tombstoned is as good as gone, for any heap in which no deref after the
   remark finds an unmarked target: weak_target_should_clear decides for good. *)
THEOREM ClearedUnlessRevived == Spec /\ [][Lone \/ Firmly]_vars => []ClearedIsDead
  <1>1. [Lone \/ Firmly]_vars => [Revivable \/ Quietly]_vars
    BY DEF Lone, Firmly, Quietly
  <1>2. Init => ClearInv
    BY DEF Init, ClearInv, Remarks
  <1>3. GcInv /\ ClearInv /\ [Next]_vars /\ [Lone \/ Firmly]_vars => ClearInv'
    BY ClearStep
  <1> QED  BY <1>1, <1>2, <1>3, InvCleared, GcInvariant, PTL DEF Spec

(* Of a heap with one WeakRef that is so whatever the mutator does: deref either
   comes first and keeps the target, or finds the slot empty. *)
THEOREM ClearedStayDead ==
    ASSUME Lone
    PROVE  Spec => []ClearedIsDead
  <1>1. [Lone \/ Firmly]_vars
    OBVIOUS
  <1> QED  BY <1>1, ClearedUnlessRevived, PTL

-----------------------------------------------------------------------------
(***************************************************************************)
(* FinReg.tla, for any number of records, tokens and restarts.             *)
(***************************************************************************)
(* No element is there twice. *)
Distinct(s) == \A m, n \in 1 .. Len(s) : s[m] = s[n] => m = n

(* Vec::retain leaves elements of the array, each once if it was there once: the
   positions that are kept are numbered by what they are greater than. *)
LEMMA SelectLemma ==
    ASSUME NEW E, NEW q \in Seq(E), NEW K \in SUBSET (1 .. Len(q))
    PROVE  /\ Select(q, K) \in Seq(E)
           /\ \A k \in 1 .. Len(Select(q, K)) : \E n \in K : Select(q, K)[k] = q[n]
           /\ Distinct(q) => Distinct(Select(q, K))
  <1> DEFINE under(n) == {m \in K : m < n}
             place == [n \in K |-> 1 + Cardinality(under(n))]
             c == Cardinality(K)
             nth(k) == CHOOSE n \in K : 1 + Cardinality({m \in K : m < n}) = k
             z == Select(q, K)
  <1>1. IsFiniteSet(K) /\ c \in Nat /\ K \subseteq Nat
    <2>1. IsFiniteSet(1 .. Len(q))
      BY FS_Interval
    <2>2. IsFiniteSet(K)
      BY <2>1, FS_Subset
    <2> QED  BY <2>2, FS_CardinalityType
  <1>2. ASSUME NEW n \in K
        PROVE  IsFiniteSet(under(n)) /\ Cardinality(under(n)) \in Nat /\ Cardinality(under(n)) < c
    <2>1. under(n) \in SUBSET K /\ n \notin under(n)
      BY <1>1
    <2> HIDE DEF under
    <2>2. IsFiniteSet(under(n)) /\ Cardinality(under(n)) <= c /\ (c = Cardinality(under(n)) => K = under(n))
      BY <1>1, <2>1, FS_Subset
    <2>3. Cardinality(under(n)) \in Nat
      BY <2>2, FS_CardinalityType
    <2> QED  BY <1>1, <2>1, <2>2, <2>3
  <1>3. ASSUME NEW m \in K, NEW n \in K, m < n PROVE place[m] < place[n]
    <2>1. under(m) \subseteq under(n) /\ m \in under(n) /\ m \notin under(m)
      <3>1. m \in Nat /\ n \in Nat /\ \A k \in K : k \in Nat
        BY <1>1
      <3>2. \A k \in K : k < m => k < n
        BY <1>3, <3>1
      <3>3. ~(m < m)
        BY <3>1
      <3> QED  BY <1>3, <3>2, <3>3
    <2> HIDE DEF under
    <2>2. /\ Cardinality(under(m)) <= Cardinality(under(n))
          /\ (Cardinality(under(n)) = Cardinality(under(m)) => under(n) = under(m))
      BY <2>1, <1>2, FS_Subset
    <2> QED  BY <1>2, <2>1, <2>2
  <1>4. place \in [K -> 1 .. c]
    <2> HIDE DEF under, c
    <2>1. \A n \in K : 1 + Cardinality(under(n)) \in 1 .. c
      BY <1>1, <1>2
    <2> QED  BY <2>1
  <1>5. c = Cardinality(K) /\ \A n \in K : place[n] = 1 + Cardinality({m \in K : m < n})
    OBVIOUS
  <1> HIDE DEF place
  <1>6. \A m, n \in K : place[m] = place[n] => m = n
    <2> SUFFICES ASSUME NEW m \in K, NEW n \in K, m < n \/ n < m PROVE place[m] # place[n]
      BY <1>1
    <2>1. place[m] \in Nat /\ place[n] \in Nat
      BY <1>1, <1>4
    <2> QED  BY <1>3, <2>1
  <1>7. \A k \in 1 .. c : \E n \in K : place[n] = k
    <2>1. place \in Injection(K, 1 .. c)
      BY <1>4, <1>6 DEF Injection, IsInjective
    <2>2. IsFiniteSet(1 .. c) /\ Cardinality(1 .. c) = c
      BY <1>1, FS_Interval
    <2>3. place \in Surjection(K, 1 .. c)
      BY <1>1, <2>1, <2>2, FS_Injection
    <2> QED  BY <2>3 DEF Surjection
  <1>8. \A k \in 1 .. c : nth(k) \in K /\ place[nth(k)] = k
    <2> TAKE k \in 1 .. c
    <2>1. \E n \in K : 1 + Cardinality({m \in K : m < n}) = k
      BY <1>5, <1>7
    <2>2. nth(k) \in K /\ 1 + Cardinality({m \in K : m < nth(k)}) = k
      BY <2>1
    <2> HIDE DEF nth
    <2> QED  BY <1>5, <2>2
  <1>9. z = [k \in 1 .. Cardinality(K) |-> q[nth(k)]]
    BY Zenon DEF Select, Arrange
  <1> HIDE DEF z, nth, c
  <1>10. \A k \in 1 .. c : q[nth(k)] \in E
    BY <1>8, ElementOfSeq
  <1>11. z \in Seq(E) /\ Len(z) = c /\ \A k \in 1 .. c : z[k] = q[nth(k)]
    BY <1>1, <1>5, <1>9, <1>10
  <1>12. Distinct(q) => Distinct(z)
    <2> SUFFICES ASSUME Distinct(q), NEW k \in 1 .. c, NEW l \in 1 .. c, q[nth(k)] = q[nth(l)] PROVE k = l
      BY <1>11 DEF Distinct
    <2>1. nth(k) = nth(l)
      BY <1>8 DEF Distinct
    <2> QED  BY <1>8, <2>1
  <1> QED  BY <1>8, <1>11, <1>12 DEF z

RegistryTypes ==
    /\ entries \in Seq(Records) /\ jobs \in Seq(Records)
    /\ target \in [Records -> {"strong", "weak", "undefined"}]
    /\ white \in SUBSET Records
    /\ cursor \in [len : Nat, next : Nat \ {0}, restarts : Nat]
    /\ delivered \in [Records -> Nat]

(* A record is registered once and has at most one job, which took its target; a
   registered record has not been delivered. *)
JobInv ==
    /\ Distinct(entries) /\ Distinct(jobs)
    /\ \A n \in 1 .. Len(jobs) : target[jobs[n]] = "undefined" /\ delivered[jobs[n]] = 0
    /\ \A n \in 1 .. Len(entries) : delivered[entries[n]] = 0
    /\ \A r \in Records : delivered[r] <= 1

(* No record before position k names an object the sweep will free. *)
Scanned(k) ==
    \A n \in 1 .. Len(entries) : n < k /\ target[entries[n]] = "weak" => entries[n] \notin white

(* While the entries word is the cursor's, the array has only grown, and what the
   cursor has passed was tombstoned or has been revived. *)
ScanInv ==
    /\ \A r \in white : target[r] # "strong"
    /\ scanning /\ ~moved => cursor.len <= Len(entries) /\ Scanned(cursor.next)
    /\ dangling = {}

RegistryInv == RegistryTypes /\ JobInv /\ ScanInv

LEMMA RegistryInit ==
    FinInit => RegistryInv
  <1> SUFFICES ASSUME FinInit PROVE RegistryInv
    OBVIOUS
  <1>1. RegistryTypes
    BY DEF FinInit, NoCursor, RegistryTypes
  <1>2. JobInv
    BY DEF FinInit, JobInv, Distinct
  <1>3. ScanInv
    BY DEF FinInit, ScanInv
  <1> QED  BY <1>1, <1>2, <1>3 DEF RegistryInv

LEMMA RegisterStep ==
    ASSUME RegistryInv, NEW r \in Records, js_finreg_register(r)
    PROVE  RegistryInv'
  <1> USE DEF RegistryInv
  <1>1. /\ entries' = Append(entries, r) /\ target' = [target EXCEPT ![r] = "strong"]
        /\ white' = white \ {r} /\ delivered' = [delivered EXCEPT ![r] = 0]
        /\ moved' \in {moved, TRUE} /\ scanning' = scanning /\ cursor' = cursor
        /\ jobs' = jobs /\ dangling' = dangling
    BY DEF js_finreg_register
  <1>2. \A n \in 1 .. Len(entries) : entries[n] # r
    BY DEF js_finreg_register, Registered, Range, RegistryTypes
  <1>3. \A n \in 1 .. Len(jobs) : jobs[n] # r
    BY DEF js_finreg_register, Registered, Range, RegistryTypes
  <1>4. RegistryTypes'
    BY <1>1 DEF RegistryTypes
  <1>5. /\ Len(entries') = Len(entries) + 1 /\ entries'[Len(entries) + 1] = r
        /\ \A n \in 1 .. Len(entries) : entries'[n] = entries[n]
    BY <1>1 DEF RegistryTypes
  <1>6. \A n \in 1 .. Len(entries) : entries[n] \in Records
    BY DEF RegistryTypes
  <1>7. \A n \in 1 .. Len(jobs) : jobs[n] \in Records
    BY DEF RegistryTypes
  <1>8. \A n \in 1 .. Len(entries') : n \in 1 .. Len(entries) \/ n = Len(entries) + 1
    BY <1>5 DEF RegistryTypes
  <1>9. \A q \in Records \ {r} : target'[q] = target[q] /\ delivered'[q] = delivered[q]
    BY <1>1 DEF RegistryTypes
  <1>10. target'[r] = "strong" /\ delivered'[r] = 0
    BY <1>1 DEF RegistryTypes
  <1>11. JobInv'
    <2>1. Distinct(entries')
      BY <1>2, <1>5, <1>8 DEF JobInv, Distinct
    <2>2. \A n \in 1 .. Len(jobs') : target'[jobs'[n]] = "undefined" /\ delivered'[jobs'[n]] = 0
      BY <1>1, <1>3, <1>7, <1>9 DEF JobInv
    <2>3. \A n \in 1 .. Len(entries') : delivered'[entries'[n]] = 0
      BY <1>2, <1>5, <1>6, <1>8, <1>9, <1>10 DEF JobInv
    <2>4. \A q \in Records : delivered'[q] <= 1
      BY <1>9, <1>10 DEF JobInv
    <2> QED  BY <1>1, <2>1, <2>2, <2>3, <2>4 DEF JobInv
  <1>12. ScanInv'
    <2>1. \A q \in white' : target'[q] # "strong"
      BY <1>1, <1>9 DEF ScanInv, RegistryTypes
    <2>2. ASSUME scanning', ~moved' PROVE cursor'.len <= Len(entries') /\ Scanned(cursor.next)'
      <3>1. cursor.len <= Len(entries) /\ Scanned(cursor.next) /\ cursor.len \in Nat
        BY <1>1, <2>2 DEF ScanInv, RegistryTypes
      <3>2. cursor'.len <= Len(entries')
        BY <1>1, <1>5, <3>1 DEF RegistryTypes
      <3>3. ASSUME NEW n \in 1 .. Len(entries'), n < cursor.next, target'[entries'[n]] = "weak"
            PROVE  entries'[n] \notin white'
        <4>1. n \in 1 .. Len(entries)
          BY <1>5, <1>8, <1>10, <3>3
        <4> QED  BY <1>1, <1>2, <1>5, <1>6, <1>9, <3>1, <3>3, <4>1 DEF Scanned
      <3> QED  BY <1>1, <3>2, <3>3 DEF Scanned
    <2> QED  BY <1>1, <2>1, <2>2 DEF ScanInv
  <1> QED  BY <1>4, <1>11, <1>12

(* Records leave the array: its word changes, so the cursor knows. *)
LEMMA ShrinkStep ==
    ASSUME RegistryInv, NEW K \in SUBSET (1 .. Len(entries)), entries' = Select(entries, K), moved' = TRUE,
           target' = target, white' = white, scanning' = scanning, cursor' = cursor, dangling' = dangling
    PROVE  /\ entries' \in Seq(Records) /\ Distinct(entries') /\ ScanInv'
           /\ \A n \in 1 .. Len(entries') : \E k \in K : entries'[n] = entries[k]
  <1>0. entries \in Seq(Records) /\ Distinct(entries)
    BY DEF RegistryInv, RegistryTypes, JobInv
  <1>1. /\ entries' \in Seq(Records) /\ Distinct(entries')
        /\ \A n \in 1 .. Len(entries') : \E k \in K : entries'[n] = entries[k]
    BY <1>0, SelectLemma
  <1> QED  BY <1>1 DEF RegistryInv, ScanInv

LEMMA UnregisterStep ==
    ASSUME RegistryInv, NEW t \in Tokens, js_finreg_unregister(t)
    PROVE  RegistryInv'
  <1> DEFINE K == {n \in DOMAIN entries : ~(Token[entries[n]] = t)}
  <1>1. /\ entries' = Select(entries, K) /\ moved' = TRUE
        /\ target' = target /\ white' = white /\ scanning' = scanning /\ cursor' = cursor
        /\ jobs' = jobs /\ delivered' = delivered /\ dangling' = dangling
    BY DEF js_finreg_unregister, Without
  <1>2. K \in SUBSET (1 .. Len(entries))
    BY DEF RegistryInv, RegistryTypes
  <1> HIDE DEF K
  <1>3. /\ entries' \in Seq(Records) /\ Distinct(entries') /\ ScanInv'
        /\ \A n \in 1 .. Len(entries') : \E k \in K : entries'[n] = entries[k]
    BY <1>1, <1>2, ShrinkStep
  <1>4. RegistryTypes'
    BY <1>1, <1>3 DEF RegistryInv, RegistryTypes
  <1>5. \A n \in 1 .. Len(entries') : delivered'[entries'[n]] = 0
    BY <1>1, <1>2, <1>3 DEF RegistryInv, JobInv
  <1>6. JobInv'
    BY <1>1, <1>3, <1>5 DEF RegistryInv, JobInv
  <1> QED  BY <1>3, <1>4, <1>6 DEF RegistryInv

LEMMA DeliverStep ==
    ASSUME RegistryInv, Deliver
    PROVE  RegistryInv'
  <1>1. PICK r : r = Head(jobs)
    OBVIOUS
  <1> DEFINE K == {n \in DOMAIN entries : ~(entries[n] = r)}
  <1>2. /\ entries' = Select(entries, K) /\ moved' = TRUE /\ jobs # <<>> /\ jobs' = Tail(jobs)
        /\ delivered' = [delivered EXCEPT ![r] = @ + 1]
        /\ target' = target /\ white' = white /\ scanning' = scanning /\ cursor' = cursor
        /\ dangling' = dangling
    BY <1>1 DEF Deliver, RemoveRecord, Without
  <1>3. K \in SUBSET (1 .. Len(entries)) /\ \A n \in K : entries[n] # r /\ entries[n] \in Records
    BY DEF RegistryInv, RegistryTypes
  <1> HIDE DEF K
  <1>4. /\ entries' \in Seq(Records) /\ Distinct(entries') /\ ScanInv'
        /\ \A n \in 1 .. Len(entries') : \E k \in K : entries'[n] = entries[k]
    BY <1>2, <1>3, ShrinkStep
  <1>5. /\ r \in Records /\ r = jobs[1] /\ Len(jobs) \in Nat \ {0} /\ Len(jobs') = Len(jobs) - 1
        /\ jobs' \in Seq(Records) /\ \A n \in 1 .. Len(jobs') : jobs'[n] = jobs[n + 1]
    BY <1>1, <1>2 DEF RegistryInv, RegistryTypes
  <1>6. /\ target[r] = "undefined" /\ delivered[r] = 0 /\ delivered'[r] = 1
        /\ \A q \in Records \ {r} : delivered'[q] = delivered[q]
        /\ delivered' \in [Records -> Nat]
    BY <1>2, <1>5 DEF RegistryInv, RegistryTypes, JobInv
  <1>7. \A n \in 1 .. Len(jobs') : n + 1 \in 1 .. Len(jobs) /\ jobs'[n] # r /\ jobs'[n] \in Records
    <2> TAKE n \in 1 .. Len(jobs')
    <2>1. n + 1 \in 1 .. Len(jobs) /\ 1 \in 1 .. Len(jobs) /\ n + 1 # 1
      BY <1>5
    <2>2. jobs[n + 1] # jobs[1]
      BY <2>1 DEF RegistryInv, JobInv, Distinct
    <2> QED  BY <1>5, <2>1, <2>2
  <1>8. Distinct(jobs')
    <2> SUFFICES ASSUME NEW m \in 1 .. Len(jobs'), NEW n \in 1 .. Len(jobs'), jobs'[m] = jobs'[n] PROVE m = n
      BY DEF Distinct
    <2>1. m + 1 = n + 1
      BY <1>5, <1>7 DEF RegistryInv, JobInv, Distinct
    <2> QED  BY <1>5, <2>1
  <1>9. JobInv'
    <2>1. \A n \in 1 .. Len(jobs') : target'[jobs'[n]] = "undefined" /\ delivered'[jobs'[n]] = 0
      BY <1>2, <1>5, <1>6, <1>7 DEF RegistryInv, JobInv
    <2>2. \A n \in 1 .. Len(entries') : delivered'[entries'[n]] = 0
      <3> TAKE n \in 1 .. Len(entries')
      <3>1. PICK k \in K : entries'[n] = entries[k]
        BY <1>4
      <3>2. entries[k] \in Records \ {r} /\ k \in 1 .. Len(entries)
        BY <1>3
      <3>3. delivered[entries[k]] = 0
        BY <3>2 DEF RegistryInv, JobInv
      <3> QED  BY <1>6, <3>1, <3>2, <3>3
    <2>3. \A q \in Records : delivered'[q] <= 1
      BY <1>6 DEF RegistryInv, JobInv
    <2> QED  BY <1>4, <1>8, <2>1, <2>2, <2>3 DEF JobInv
  <1>10. RegistryTypes'
    BY <1>2, <1>4, <1>5, <1>6 DEF RegistryInv, RegistryTypes
  <1> QED  BY <1>4, <1>9, <1>10 DEF RegistryInv

(* The records rs are visited: whose target is white and not yet taken gets a job. *)
LEMMA ProcessStep ==
    ASSUME RegistryInv, NEW rs \in Seq(Records), Distinct(rs), ProcessRange(rs),
           \A n \in 1 .. Len(rs) : delivered[rs[n]] = 0, delivered' = delivered, entries' = entries
    PROVE  /\ jobs' \in Seq(Records) /\ target' \in [Records -> {"strong", "weak", "undefined"}]
           /\ JobInv'
           /\ \A r \in Records : target'[r] \in {target[r], "undefined"}
           /\ \A n \in 1 .. Len(rs) : rs[n] \in white => target'[rs[n]] # "weak"
  <1> DEFINE K == {n \in DOMAIN rs : Collected(rs[n])}
  <1>1. PICK s : s = Select(rs, K)
    OBVIOUS
  <1>2. K \in SUBSET (1 .. Len(rs)) /\ \A n \in K : rs[n] \in white /\ target[rs[n]] # "undefined"
    BY DEF Collected
  <1>3. /\ jobs' = jobs \o s
        /\ target' = [r \in Records |-> IF r \in Range(rs) /\ Collected(r) THEN "undefined" ELSE target[r]]
    BY <1>1 DEF ProcessRange
  <1>4. \A n \in K : n \in 1 .. Len(rs) /\ rs[n] \in Range(rs) /\ Collected(rs[n]) /\ rs[n] \in Records
    BY DEF Range
  <1> HIDE DEF K
  <1>5. /\ s \in Seq(Records) /\ Distinct(s)
        /\ \A k \in 1 .. Len(s) : \E n \in K : s[k] = rs[n]
    <2>1. K \in SUBSET (1 .. Len(rs))
      BY <1>2
    <2> HIDE <1>1
    <2>2. /\ Select(rs, K) \in Seq(Records) /\ Distinct(Select(rs, K))
          /\ \A k \in 1 .. Len(Select(rs, K)) : \E n \in K : Select(rs, K)[k] = rs[n]
      BY <2>1, SelectLemma
    <2> QED  BY <1>1, <2>2
  <1>6. /\ jobs \in Seq(Records) /\ target \in [Records -> {"strong", "weak", "undefined"}]
        /\ \A n \in 1 .. Len(jobs) : jobs[n] \in Records
    BY DEF RegistryInv, RegistryTypes
  <1>7. target' \in [Records -> {"strong", "weak", "undefined"}]
    BY <1>3, <1>6
  <1>8. \A r \in Records : target'[r] \in {target[r], "undefined"}
    BY <1>3, <1>6
  <1>9. \A n \in 1 .. Len(rs) : rs[n] \in white => target'[rs[n]] # "weak"
    <2> TAKE n \in 1 .. Len(rs)
    <2>1. rs[n] \in Range(rs) /\ rs[n] \in Records
      BY DEF Range
    <2> QED  BY <1>3, <1>6, <2>1 DEF Collected
  <1>10. /\ jobs' \in Seq(Records) /\ Len(jobs') = Len(jobs) + Len(s)
         /\ \A n \in 1 .. Len(jobs) : jobs'[n] = jobs[n]
         /\ \A n \in 1 .. Len(s) : jobs'[Len(jobs) + n] = s[n]
    BY <1>3, <1>5, <1>6
  <1>11. ASSUME NEW n \in 1 .. Len(jobs')
         PROVE  \/ n \in 1 .. Len(jobs) /\ jobs'[n] = jobs[n]
                \/ n - Len(jobs) \in 1 .. Len(s) /\ jobs'[n] = s[n - Len(jobs)]
    <2>1. CASE n <= Len(jobs)
      BY <1>6, <1>10, <2>1
    <2>2. CASE n > Len(jobs)
      <3>1. n - Len(jobs) \in 1 .. Len(s) /\ Len(jobs) + (n - Len(jobs)) = n
        BY <1>5, <1>6, <1>10, <2>2
      <3> QED  BY <1>10, <3>1
    <2> QED  BY <1>6, <1>10, <2>1, <2>2
  <1>12. \A k \in 1 .. Len(s) : /\ s[k] \in Records /\ target[s[k]] # "undefined"
                                /\ target'[s[k]] = "undefined" /\ delivered[s[k]] = 0
    <2> TAKE k \in 1 .. Len(s)
    <2>1. PICK n \in K : s[k] = rs[n]
      BY <1>5
    <2> QED  BY <1>2, <1>3, <1>4, <2>1
  <1>13. \A n \in 1 .. Len(jobs) : target[jobs[n]] = "undefined" /\ target'[jobs[n]] = "undefined" /\ delivered[jobs[n]] = 0
    BY <1>6, <1>8 DEF RegistryInv, JobInv
  <1>14. Distinct(jobs')
    <2> SUFFICES ASSUME NEW m \in 1 .. Len(jobs'), NEW n \in 1 .. Len(jobs'), jobs'[m] = jobs'[n] PROVE m = n
      BY DEF Distinct
    <2>1. CASE m \in 1 .. Len(jobs) /\ jobs'[m] = jobs[m] /\ n \in 1 .. Len(jobs) /\ jobs'[n] = jobs[n]
      BY <2>1 DEF RegistryInv, JobInv, Distinct
    <2>2. CASE /\ m - Len(jobs) \in 1 .. Len(s) /\ jobs'[m] = s[m - Len(jobs)]
               /\ n - Len(jobs) \in 1 .. Len(s) /\ jobs'[n] = s[n - Len(jobs)]
      <3>1. m - Len(jobs) = n - Len(jobs)
        BY <1>5, <2>2 DEF Distinct
      <3> QED  BY <1>6, <1>10, <3>1
    <2>3. CASE /\ m \in 1 .. Len(jobs) /\ jobs'[m] = jobs[m]
               /\ n - Len(jobs) \in 1 .. Len(s) /\ jobs'[n] = s[n - Len(jobs)]
      BY <1>12, <1>13, <2>3
    <2>4. CASE /\ n \in 1 .. Len(jobs) /\ jobs'[n] = jobs[n]
               /\ m - Len(jobs) \in 1 .. Len(s) /\ jobs'[m] = s[m - Len(jobs)]
      BY <1>12, <1>13, <2>4
    <2> QED  BY <1>11, <2>1, <2>2, <2>3, <2>4
  <1>15. \A n \in 1 .. Len(jobs') : target'[jobs'[n]] = "undefined" /\ delivered'[jobs'[n]] = 0
    BY <1>11, <1>12, <1>13
  <1>16. JobInv'
    BY <1>14, <1>15 DEF RegistryInv, JobInv
  <1> QED  BY <1>7, <1>8, <1>9, <1>10, <1>16

(* The end of a scan that has passed every record. *)
LEMMA EndStep ==
    ASSUME RegistryInv, EndScan, jobs' \in Seq(Records), entries' = entries, delivered' = delivered,
           target' \in [Records -> {"strong", "weak", "undefined"}], JobInv',
           \A n \in 1 .. Len(entries) : entries[n] \in white => target'[entries[n]] # "weak"
    PROVE  RegistryInv'
  <1>1. /\ scanning' = FALSE /\ cursor' = NoCursor /\ white' = {}
        /\ dangling' = dangling \cup {r \in Registered \cap white : target'[r] = "weak"}
    BY DEF EndScan
  <1>2. ASSUME NEW r \in Registered \cap white PROVE target'[r] # "weak"
    <2>1. PICK n \in 1 .. Len(entries) : r = entries[n]
      BY <1>2 DEF Registered, Range, RegistryInv, RegistryTypes
    <2> QED  BY <1>2, <2>1
  <1>3. dangling' = {}
    BY <1>1, <1>2 DEF RegistryInv, ScanInv
  <1>4. RegistryTypes'
    BY <1>1 DEF RegistryInv, RegistryTypes, NoCursor
  <1>5. ScanInv'
    BY <1>1, <1>3 DEF ScanInv
  <1> QED  BY <1>4, <1>5 DEF RegistryInv

LEMMA AtomicFinishStep ==
    ASSUME RegistryInv, AtomicFinish
    PROVE  RegistryInv'
  <1>1. ProcessRange(entries) /\ EndScan /\ entries' = entries /\ delivered' = delivered
    BY DEF AtomicFinish
  <1>2. /\ entries \in Seq(Records) /\ Distinct(entries)
        /\ \A n \in 1 .. Len(entries) : delivered[entries[n]] = 0
    BY DEF RegistryInv, RegistryTypes, JobInv
  <1>3. /\ jobs' \in Seq(Records) /\ target' \in [Records -> {"strong", "weak", "undefined"}]
        /\ JobInv'
        /\ \A n \in 1 .. Len(entries) : entries[n] \in white => target'[entries[n]] # "weak"
    BY <1>1, <1>2, ProcessStep
  <1> QED  BY <1>1, <1>3, EndStep

LEMMA AdvanceStep ==
    ASSUME RegistryInv, Advance
    PROVE  RegistryInv'
  <1>1. PICK cur : cur = IF SameIdentity THEN cursor ELSE Restarted
    OBVIOUS
  <1>2. PICK rs : rs = IF cur.next <= cur.len THEN SubSeq(entries, cur.next, cur.next) ELSE <<>>
    OBVIOUS
  <1>3. /\ scanning /\ ProcessRange(rs) /\ entries' = entries /\ delivered' = delivered
        /\ cur.next >= cur.len => EndScan
        /\ ~(cur.next >= cur.len) => /\ cursor' = [cur EXCEPT !.next = @ + 1] /\ moved' = FALSE
                                     /\ white' = white /\ dangling' = dangling /\ scanning' = scanning
    BY <1>1, <1>2 DEF Advance
  <1>4. entries \in Seq(Records) /\ Len(entries) \in Nat /\ \A n \in 1 .. Len(entries) : entries[n] \in Records
    BY DEF RegistryInv, RegistryTypes
  <1>5. /\ cur \in [len : Nat, next : Nat \ {0}, restarts : Nat] /\ cur.len = Len(entries)
        /\ Scanned(cur.next)
    <2>1. CASE SameIdentity
      BY <1>1, <1>3, <2>1 DEF SameIdentity, RegistryInv, RegistryTypes, ScanInv
    <2>2. CASE ~SameIdentity
      <3>1. cur = [len |-> Len(entries), next |-> 1, restarts |-> cursor.restarts + 1] /\ cursor.restarts \in Nat
        BY <1>1, <2>2 DEF Restarted, RegistryInv, RegistryTypes
      <3> QED  BY <1>4, <3>1 DEF Scanned
    <2> QED  BY <2>1, <2>2
  <1>6. /\ rs \in Seq(Records) /\ Distinct(rs)
        /\ \A n \in 1 .. Len(rs) : delivered[rs[n]] = 0
        /\ cur.next <= Len(entries) => Len(rs) = 1 /\ rs[1] = entries[cur.next]
    <2>0. cur.next \in Nat \ {0}
      BY <1>5
    <2>1. CASE cur.next <= Len(entries)
      <3>1. cur.next \in 1 .. Len(entries) /\ rs = SubSeq(entries, cur.next, cur.next)
        BY <1>2, <1>4, <1>5, <2>0, <2>1
      <3>2. rs \in Seq(Records) /\ Len(rs) = 1 /\ rs[1] = entries[cur.next]
        <4>1. PICK k : k = cur.next
          OBVIOUS
        <4>2. k \in 1 .. Len(entries) /\ k \in Nat /\ rs = SubSeq(entries, k, k)
          BY <2>0, <3>1, <4>1
        <4>3. \A i \in k .. k : entries[i] \in Records
          BY <1>4, <4>2
        <4>4. /\ rs \in Seq(Records) /\ Len(rs) = IF k <= k THEN k - k + 1 ELSE 0
              /\ \A i \in 1 .. k - k + 1 : rs[i] = entries[k + i - 1]
          BY <4>2, <4>3, SubSeqProperties
        <4>5. k - k + 1 = 1 /\ k <= k /\ k + 1 - 1 = k /\ 1 \in 1 .. 1
          BY <4>2
        <4> QED  BY <4>1, <4>4, <4>5
      <3>3. delivered[entries[cur.next]] = 0
        BY <3>1 DEF RegistryInv, JobInv
      <3> QED  BY <3>2, <3>3 DEF Distinct
    <2>2. CASE ~(cur.next <= Len(entries))
      BY <1>2, <1>5, <2>2 DEF Distinct
    <2> QED  BY <2>1, <2>2
  <1>7. /\ jobs' \in Seq(Records) /\ target' \in [Records -> {"strong", "weak", "undefined"}]
        /\ JobInv'
        /\ \A r \in Records : target'[r] \in {target[r], "undefined"}
        /\ \A n \in 1 .. Len(rs) : rs[n] \in white => target'[rs[n]] # "weak"
    BY <1>3, <1>6, ProcessStep
  <1>8. ASSUME NEW n \in 1 .. Len(entries), n < cur.next + 1, entries[n] \in white
        PROVE  target'[entries[n]] # "weak"
    <2>1. CASE n < cur.next
      <3>1. target[entries[n]] # "weak"
        BY <1>5, <1>8, <2>1 DEF Scanned
      <3> QED  BY <1>4, <1>7, <3>1
    <2>2. CASE n = cur.next
      BY <1>4, <1>6, <1>7, <1>8, <2>2
    <2>3. n \in Nat /\ cur.next \in Nat
      BY <1>4, <1>5
    <2> QED  BY <1>8, <2>1, <2>2, <2>3
  <1>9. CASE cur.next >= cur.len
    <2>1. \A n \in 1 .. Len(entries) : n < cur.next + 1
      BY <1>4, <1>5, <1>9
    <2>2. \A n \in 1 .. Len(entries) : entries[n] \in white => target'[entries[n]] # "weak"
      BY <1>8, <2>1
    <2> QED  BY <1>3, <1>7, <1>9, <2>2, EndStep
  <1>10. CASE ~(cur.next >= cur.len)
    <2>1. /\ cursor' \in [len : Nat, next : Nat \ {0}, restarts : Nat]
          /\ cursor'.len = Len(entries) /\ cursor'.next = cur.next + 1
      BY <1>3, <1>5, <1>10
    <2>2. RegistryTypes'
      BY <1>3, <1>7, <1>10, <2>1 DEF RegistryInv, RegistryTypes
    <2>3. Scanned(cursor.next)'
      BY <1>3, <1>8, <1>10, <2>1 DEF Scanned
    <2>4. \A r \in white' : target'[r] # "strong"
      BY <1>3, <1>7, <1>10 DEF RegistryInv, RegistryTypes, ScanInv
    <2>5. ScanInv'
      BY <1>3, <1>4, <1>10, <2>1, <2>3, <2>4 DEF RegistryInv, ScanInv
    <2> QED  BY <1>7, <2>2, <2>5 DEF RegistryInv
  <1> QED  BY <1>9, <1>10

LEMMA RegistryNext ==
    ASSUME RegistryInv, [FinNext]_(finvars)
    PROVE  RegistryInv'
  <1>1. ASSUME NEW r \in Records, DropTarget(r) \/ Revive(r)
        PROVE  RegistryInv'
    <2>1. /\ entries' = entries /\ scanning' = scanning /\ cursor' = cursor /\ moved' = moved
          /\ jobs' = jobs /\ delivered' = delivered /\ dangling' = dangling
          /\ white' \subseteq white /\ target[r] # "undefined"
          /\ \/ target' = [target EXCEPT ![r] = "weak"] /\ target[r] = "strong"
             \/ target' = [target EXCEPT ![r] = "strong"] /\ r \notin white'
      BY <1>1 DEF DropTarget, Revive
    <2>2. RegistryTypes'
      BY <2>1 DEF RegistryInv, RegistryTypes
    <2>3. r \notin white' /\ \A q \in Records \ {r} : target'[q] = target[q]
      BY <2>1 DEF RegistryInv, RegistryTypes, ScanInv
    <2>4. \A n \in 1 .. Len(jobs) : jobs[n] \in Records \ {r}
      BY <2>1 DEF RegistryInv, RegistryTypes, JobInv
    <2>5. JobInv'
      BY <2>1, <2>3, <2>4 DEF RegistryInv, JobInv
    <2>6. \A n \in 1 .. Len(entries) : entries[n] \in Records
      BY DEF RegistryInv, RegistryTypes
    <2>7. Scanned(cursor.next) => Scanned(cursor.next)'
      BY <2>1, <2>3, <2>6 DEF Scanned
    <2>8. \A q \in white' : target'[q] # "strong"
      BY <2>1, <2>3 DEF RegistryInv, RegistryTypes, ScanInv
    <2>9. ScanInv'
      BY <2>1, <2>7, <2>8 DEF RegistryInv, ScanInv
    <2> QED  BY <2>2, <2>5, <2>9 DEF RegistryInv
  <1>2. CASE BeginScan
    <2>1. /\ white' = {r \in Registered : target[r] = "weak"}
          /\ cursor' = [len |-> Len(entries), next |-> 1, restarts |-> 0]
          /\ entries' = entries /\ target' = target /\ jobs' = jobs
          /\ delivered' = delivered /\ dangling' = dangling
      BY <1>2 DEF BeginScan
    <2>2. Registered \subseteq Records /\ Len(entries) \in Nat
      BY DEF Registered, Range, RegistryInv, RegistryTypes
    <2>3. RegistryTypes'
      BY <2>1, <2>2 DEF RegistryInv, RegistryTypes
    <2>4. JobInv'
      BY <2>1 DEF RegistryInv, JobInv
    <2>5. ScanInv'
      BY <2>1, <2>2 DEF RegistryInv, ScanInv, Scanned
    <2> QED  BY <2>3, <2>4, <2>5 DEF RegistryInv
  <1>3. CASE UNCHANGED finvars
    <2>1. /\ entries' = entries /\ scanning' = scanning /\ cursor' = cursor /\ moved' = moved
          /\ jobs' = jobs /\ delivered' = delivered /\ dangling' = dangling
          /\ white' = white /\ target' = target
      BY <1>3 DEF finvars
    <2> QED  BY <2>1 DEF RegistryInv, RegistryTypes, JobInv, ScanInv, Scanned
  <1> QED  BY <1>1, <1>2, <1>3, RegisterStep, UnregisterStep, DeliverStep, AdvanceStep, AtomicFinishStep
           DEF FinNext, Program

(* The inductive invariant of the registry: what its cursor has passed, what its jobs
   have taken, while register, unregister and delivery change the array. *)
THEOREM RegistryInvariant ==
    FinSpec => []RegistryInv
  <1> QED  BY RegistryInit, RegistryNext, PTL DEF FinSpec

(* However the array changes between two slices of the scan (advance_registry) and how
   often it restarts, no registered record keeps a target that is swept, and no
   registration has a second cleanup call. *)
THEOREM RecordsSound ==
    FinSpec => []RecordsAreSound
  <1>1. ASSUME RegistryInv PROVE RecordsAreSound
    <2>1. NoDanglingRecord
      BY <1>1 DEF NoDanglingRecord, RegistryInv, ScanInv
    <2>2. ASSUME NEW r \in Records
          PROVE  delivered[r] + Cardinality({i \in DOMAIN jobs : jobs[i] = r}) <= 1
      <3>1. DOMAIN jobs = 1 .. Len(jobs) /\ delivered[r] \in Nat /\ delivered[r] <= 1
        BY <1>1 DEF RegistryInv, RegistryTypes, JobInv
      <3>2. CASE \E i \in 1 .. Len(jobs) : jobs[i] = r
        <4>1. PICK i \in 1 .. Len(jobs) : jobs[i] = r
          BY <3>2
        <4>2. {k \in DOMAIN jobs : jobs[k] = r} = {i}
          BY <1>1, <3>1, <4>1 DEF RegistryInv, JobInv, Distinct
        <4>3. delivered[r] = 0
          BY <1>1, <4>1 DEF RegistryInv, JobInv
        <4>4. Cardinality({i}) = 1
          BY FS_Singleton
        <4>5. Cardinality({k \in DOMAIN jobs : jobs[k] = r}) = 1
          BY <4>2, <4>4
        <4> QED  BY <4>3, <4>5
      <3>3. CASE ~\E i \in 1 .. Len(jobs) : jobs[i] = r
        <4>1. {k \in DOMAIN jobs : jobs[k] = r} = {}
          BY <3>1, <3>3
        <4>2. Cardinality({}) = 0
          BY FS_EmptySet
        <4>3. Cardinality({k \in DOMAIN jobs : jobs[k] = r}) = 0
          BY <4>1, <4>2
        <4> QED  BY <3>1, <4>3
      <3> QED  BY <3>2, <3>3
    <2> QED  BY <2>1, <2>2 DEF RecordsAreSound, AtMostOnce
  <1> QED  BY <1>1, RegistryInvariant, PTL
============================================================================
