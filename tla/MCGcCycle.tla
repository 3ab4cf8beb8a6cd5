----------------------------- MODULE MCGcCycle -----------------------------
(***************************************************************************)
(* GcCycle.tla and FinReg.tla for TLC.  A behaviour is one of              *)
(*   N  objects without WeakRefs, one of two locals a native spill slot,   *)
(*   C  a WeakRef to an object that leads to others, block persistence,    *)
(*   P  two WeakRefs to one object,                                        *)
(*   F  one FinalizationRegistry.                                          *)
(***************************************************************************)
EXTENDS GcCycle, FinReg, TLC

CONSTANTS a, b, c, w, x, s1, s2, r1, r2, r3, t1, t2

VARIABLES setup

N == INSTANCE GcCycle WITH Objects <- {a, b, c}, Refs <- {}, Targets <- {},
                           Leaves <- {c}, Native <- {s1}, Recent <- {}
C == INSTANCE GcCycle WITH Objects <- {a, b, w}, Refs <- {w}, Targets <- {a},
                           Leaves <- {}, Native <- {}, Recent <- {b}
P == INSTANCE GcCycle WITH Objects <- {a, w, x}, Refs <- {w, x}, Targets <- {a},
                           Leaves <- {a}, Native <- {s1}, Recent <- {a}

(* The first two records share a token. *)
TokenOf == (r1 :> t1) @@ (r2 :> t1) @@ (r3 :> t2)

ASSUME N!GcAssumption /\ C!GcAssumption /\ P!GcAssumption

mcvars == <<vars, finvars, setup>>

MCInit == Init /\ FinInit /\ setup \in {"N", "C", "P", "F"}

(* A step of the collector's setups, or of the registry's. *)
Gc(n, ch, p) == /\ \/ setup = "N" /\ n
                   \/ setup = "C" /\ ch
                   \/ setup = "P" /\ p
                /\ UNCHANGED <<setup, finvars>>
Reg(step) == setup = "F" /\ step /\ UNCHANGED <<setup, vars>>

MCNext == Gc(N!Next, C!Next, P!Next) \/ Reg(FinNext)

MCSpec == /\ MCInit /\ [][MCNext]_mcvars
          /\ WF_mcvars(Gc(N!Collector, C!Collector, P!Collector))
          /\ WF_mcvars(Reg(Advance \/ AtomicFinish))
          /\ WF_mcvars(Reg(Deliver))

(* WeakRefs: every holder is tracked, no reachable slot dangles, and a     *)
(* target that was tombstoned is not seen again, if no second WeakRef      *)
(* names it (process_weakref_after_mark).                                  *)
WeakIsSound ==
    /\ HoldersTracked /\ NoDanglingWeak
    /\ setup # "P" => ClearedIsDead

(* Cycles complete, the sliced scan ends however often it is restarted,    *)
(* and the records of collected targets leave.                             *)
CollectionEnds == CycleCompletes /\ ScanEnds /\ DeadRecordLeaves
=============================================================================
