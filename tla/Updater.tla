------------------------------ MODULE Updater ------------------------------
(***************************************************************************)
(* The auto-updater of desktop programs: packages/perry-updater/src/       *)
(* index.ts over the primitives of crates/perry-updater (desktop.rs,       *)
(* core.rs).  Every file system call is a step, so that a crash may fall   *)
(* between any two and any of them may fail.                               *)
(*                                                                         *)
(* The program runs in one instance; only a relaunch overlaps two          *)
(* processes, the old one on its way out.  A file is the version in it.    *)
(* write_sentinel and the staging of a download replace a file by a        *)
(* rename, so they are one step.  A version that is not Good crashes       *)
(* before its health check, after initUpdater, which is the first thing    *)
(* main does.  The sentinel's state is always "armed": nothing writes      *)
(* "installing".                                                           *)
(***************************************************************************)
EXTENDS Naturals

CONSTANTS MaxVersion,   \* versions are 0..MaxVersion; a higher one is newer
          Good,         \* the versions that work
          Procs,        \* slots for processes
          Threshold,    \* crashLoopThreshold
          Eager,        \* the program installs updates while an earlier one's sentinel is armed
          MaxInstalls,  \* bound on installations begun
          MaxPowerLoss, \* bound on crashes that are no fault of the version
          MaxFailures,  \* bound on failing system calls; ProvenKept is stated for 1
          None

Versions == 0..MaxVersion

(* SentinelPayload: generation, restartCount, currentVersion. *)
Sentinels == [generation : 1..MaxInstalls, restartCount : 0..Threshold, from : Versions]

(* Threshold 1 would roll back at the first boot of every new version. *)
ASSUME UpdaterAssumption ==
    /\ MaxVersion \in Nat /\ MaxInstalls \in Nat /\ MaxPowerLoss \in Nat /\ MaxFailures \in Nat
    /\ Good \subseteq Versions /\ 0 \in Good /\ Eager \in BOOLEAN
    /\ Threshold \in Nat /\ Threshold > 1 /\ None \notin Nat \cup Sentinels

VARIABLES
    target, prev, staged, broken,   \* <exe>, <exe>.prev, <exe>.staged, <exe>.broken
    sentinel,     \* the sentinel file
    upc,          \* where each process is
    exe,          \* the version each process runs
    lifecycle,    \* capturedSentinel of the active lifecycle
    installs, losses, failures,     \* the bounds' counters
    proven        \* versions cleared as healthy or that installed an update (history)

files == <<target, prev, staged, broken>>
counters == <<installs, losses, failures>>
vars == <<files, sentinel, upc, exe, lifecycle, counters, proven>>

Running == {"run", "arm", "clean", "save", "swap", "undo", "unarm", "relaunch", "exit"}
RollingBack == {"rollback", "aside", "restore", "putBack", "tidy", "disarm"}

TypeOK ==
    /\ {target, prev, staged, broken} \subseteq Versions \cup {None}
    /\ sentinel \in Sentinels \cup {None}
    /\ upc \in [Procs -> {"off", "boot"} \cup Running \cup RollingBack]
    /\ exe \in [Procs -> Versions]
    /\ lifecycle \in [Procs -> Sentinels \cup {None}]
    /\ installs \in 0..MaxInstalls /\ losses \in 0..MaxPowerLoss /\ failures \in 0..MaxFailures
    /\ proven \subseteq Versions

(* Version 0 was installed by hand and works. *)
Init ==
    /\ target = 0 /\ prev = None /\ staged = None /\ broken = None
    /\ sentinel = None
    /\ upc = [p \in Procs |-> "off"]
    /\ exe = [p \in Procs |-> 0]
    /\ lifecycle = [p \in Procs |-> None]
    /\ installs = 0 /\ losses = 0 /\ failures = 0
    /\ proven = {0}
----------------------------------------------------------------------------
At(p, label) == upc[p] = label
Goto(p, label) == upc' = [upc EXCEPT ![p] = label]

(* A system call fails. *)
Fails == failures < MaxFailures /\ failures' = failures + 1

(* A process is gone, and what it had in memory. *)
Die(gone) == /\ upc' = [p \in Procs |-> IF p \in gone THEN "off" ELSE upc[p]]
             /\ lifecycle' = [p \in Procs |-> IF p \in gone THEN None ELSE lifecycle[p]]

(* The launcher or the user starts the program. *)
Launch(p) ==
    /\ \A q \in Procs : upc[q] \in {"off", "exit"}
    /\ At(p, "off") /\ target # None
    /\ Goto(p, "boot")
    /\ exe' = [exe EXCEPT ![p] = target]
    /\ UNCHANGED <<files, sentinel, lifecycle, counters, proven>>

(* Mutant: the count is never compared with the threshold. *)
CrashLoopIgnored == FALSE

(* initUpdater at a boot that counts as one restart too many. *)
CrashLoop == sentinel # None /\ sentinel.restartCount + 1 >= Threshold

(* Mutant: the bumped count is not persisted. *)
BootUncounted(p) ==
    /\ At(p, "boot") /\ ~CrashLoop
    /\ Goto(p, "run")
    /\ lifecycle' = [lifecycle EXCEPT ![p] = sentinel]
    /\ UNCHANGED <<files, sentinel, exe, counters, proven>>

(* initUpdater: persist the bumped count and arm the health timer and the exit
   hook, or throw if the sentinel cannot be written. *)
Boot(p) ==
    /\ At(p, "boot") /\ ~CrashLoop
    /\ Goto(p, "run")
    /\ \/ /\ sentinel = None
          /\ lifecycle' = [lifecycle EXCEPT ![p] = None]
          /\ UNCHANGED <<sentinel, failures>>
       \/ /\ sentinel # None
          /\ sentinel' = [sentinel EXCEPT !.restartCount = @ + 1]
          /\ lifecycle' = [lifecycle EXCEPT ![p] = sentinel']
          /\ UNCHANGED failures
       \/ /\ sentinel # None /\ Fails
          /\ lifecycle' = [lifecycle EXCEPT ![p] = None]
          /\ UNCHANGED sentinel
    /\ UNCHANGED <<files, exe, installs, losses, proven>>

BootRollBack(p) ==
    /\ At(p, "boot") /\ CrashLoop
    /\ lifecycle' = [lifecycle EXCEPT ![p] = None]
    /\ Goto(p, "rollback")
    /\ UNCHANGED <<files, sentinel, exe, counters, proven>>

(* clearSentinelIfCurrentOrThrow: compare and delete, unless the delete fails. *)
ClearIfCurrent(expected) ==
    \/ /\ sentinel' = IF sentinel = expected THEN None ELSE sentinel
       /\ UNCHANGED failures
    \/ /\ sentinel # None /\ sentinel = expected /\ Fails
       /\ UNCHANGED sentinel

(* clearLifecycleQuietly or markHealthy: the version has proved itself.  A failed
   clear keeps the lifecycle. *)
Healthy(p) ==
    /\ lifecycle[p] # None /\ ClearIfCurrent(lifecycle[p])
    /\ lifecycle' = [lifecycle EXCEPT ![p] = IF failures' = failures THEN None ELSE @]
    /\ proven' = IF sentinel' # sentinel THEN proven \cup {exe[p]} ELSE proven

(* The health timer. *)
HealthCheck(p) ==
    /\ At(p, "run") /\ exe[p] \in Good
    /\ Healthy(p)
    /\ UNCHANGED <<files, upc, exe, installs, losses>>

(* Mutant: no exit hook. *)
ExitUnhooked(p) ==
    /\ At(p, "run") /\ exe[p] \in Good
    /\ Goto(p, "off")
    /\ UNCHANGED <<files, sentinel, exe, lifecycle, counters, proven>>

(* A graceful exit and its hook. *)
Exit(p) ==
    /\ At(p, "run") /\ exe[p] \in Good
    /\ Goto(p, "off")
    /\ \/ Healthy(p)
       \/ lifecycle[p] = None /\ UNCHANGED <<sentinel, lifecycle, proven, failures>>
    /\ UNCHANGED <<files, exe, installs, losses>>

(* A version that does not work crashes. *)
CrashBroken(p) ==
    /\ At(p, "run") /\ exe[p] \notin Good
    /\ Die({p})
    /\ UNCHANGED <<files, sentinel, exe, counters, proven>>

(* The machine or the process dies at any point. *)
PowerLoss ==
    /\ losses < MaxPowerLoss
    /\ \E p \in Procs : upc[p] # "off"
    /\ losses' = losses + 1
    /\ Die(Procs)
    /\ UNCHANGED <<files, sentinel, exe, installs, failures, proven>>
----------------------------------------------------------------------------
(* Installing an update. *)

(* checkForUpdate and download: a newer version, verified, in the staged file. *)
Download(p) ==
    /\ At(p, "run") /\ exe[p] \in Good
    /\ Eager \/ sentinel = None
    /\ installs < MaxInstalls
    /\ \E v \in Versions : v > exe[p] /\ staged' = v
    /\ Goto(p, "arm")
    /\ proven' = proven \cup {exe[p]}
    /\ UNCHANGED <<target, prev, broken, sentinel, exe, lifecycle, counters>>

(* applyAndRelaunch: forget the active lifecycle and write the sentinel. *)
Arm(p) ==
    /\ At(p, "arm")
    /\ lifecycle' = [lifecycle EXCEPT ![p] = None]
    /\ \/ /\ Fails
          /\ Goto(p, "run")
          /\ UNCHANGED <<sentinel, installs>>
       \/ /\ installs' = installs + 1
          /\ sentinel' = [generation |-> installs + 1, restartCount |-> 0, from |-> exe[p]]
          /\ Goto(p, "clean")
          /\ UNCHANGED failures
    /\ UNCHANGED <<files, exe, losses, proven>>

(* perry_updater_install: remove a stale backup; an error is ignored. *)
CleanPrev(p) ==
    /\ At(p, "clean")
    /\ \/ prev' = None /\ UNCHANGED failures
       \/ prev # None /\ Fails /\ UNCHANGED prev
    /\ Goto(p, "save")
    /\ UNCHANGED <<target, staged, broken, sentinel, exe, lifecycle, installs, losses, proven>>

(* Mutant: the target is removed, not kept as the backup. *)
SaveTargetRemoves(p) ==
    /\ At(p, "save")
    /\ target' = None
    /\ Goto(p, "swap")
    /\ UNCHANGED <<prev, staged, broken, sentinel, exe, lifecycle, counters, proven>>

(* perry_updater_install, 1: rename the target to the backup. *)
SaveTarget(p) ==
    /\ At(p, "save")
    /\ \/ /\ target # None
          /\ prev' = target /\ target' = None
          /\ Goto(p, "swap") /\ UNCHANGED failures
       \/ target = None /\ Goto(p, "swap") /\ UNCHANGED <<prev, target, failures>>
       \/ target # None /\ Fails /\ Goto(p, "unarm") /\ UNCHANGED <<prev, target>>
    /\ UNCHANGED <<staged, broken, sentinel, exe, lifecycle, installs, losses, proven>>

(* 2: rename the staged file to the target. *)
Swap(p) ==
    /\ At(p, "swap")
    /\ \/ /\ staged # None
          /\ target' = staged /\ staged' = None
          /\ Goto(p, "relaunch") /\ UNCHANGED failures
       \/ Fails /\ Goto(p, "undo") /\ UNCHANGED <<target, staged>>
    /\ UNCHANGED <<prev, broken, sentinel, exe, lifecycle, installs, losses, proven>>

(* Put the backup back; an error is ignored. *)
UndoSave(p) ==
    /\ At(p, "undo")
    /\ \/ prev # None /\ target' = prev /\ prev' = None /\ UNCHANGED failures
       \/ /\ IF prev # None THEN Fails ELSE UNCHANGED failures
          /\ UNCHANGED <<target, prev>>
    /\ Goto(p, "unarm")
    /\ UNCHANGED <<staged, broken, sentinel, exe, lifecycle, installs, losses, proven>>

(* After a failed installation: clear the sentinel just written, and throw. *)
Unarm(p) ==
    /\ At(p, "unarm")
    /\ ClearIfCurrent([generation |-> installs, restartCount |-> 0, from |-> exe[p]])
    /\ Goto(p, "run")
    /\ UNCHANGED <<files, exe, lifecycle, installs, losses, proven>>

(* perry_updater_relaunch: start the target in a process of its own; if it cannot
   be started this one goes on, the installation stands. *)
Relaunch(p) ==
    /\ At(p, "relaunch")
    /\ \/ \E q \in Procs :
            /\ At(q, "off")
            /\ upc' = [upc EXCEPT ![p] = "exit", ![q] = "boot"]
            /\ exe' = [exe EXCEPT ![q] = target]
            /\ UNCHANGED failures
       \/ Fails /\ Goto(p, "run") /\ UNCHANGED exe
    /\ UNCHANGED <<files, sentinel, lifecycle, installs, losses, proven>>

(* process.exit(0) of the old process; its exit hook finds no active lifecycle. *)
ExitOld(p) ==
    /\ At(p, "exit")
    /\ Goto(p, "off")
    /\ UNCHANGED <<files, sentinel, exe, lifecycle, counters, proven>>
----------------------------------------------------------------------------
(* perform_rollback_with, and what initUpdater does with its answer. *)

(* No backup: the sentinel stays and initUpdater throws. *)
NoBackup(p) ==
    /\ At(p, "rollback") /\ prev = None
    /\ Goto(p, "run")
    /\ UNCHANGED <<files, sentinel, exe, lifecycle, counters, proven>>

(* Remove an older broken version; an error is ignored. *)
DropBroken(p) ==
    /\ At(p, "rollback") /\ prev # None
    /\ \/ broken' = None /\ UNCHANGED failures
       \/ broken # None /\ Fails /\ UNCHANGED broken
    /\ Goto(p, "aside")
    /\ UNCHANGED <<target, prev, staged, sentinel, exe, lifecycle, installs, losses, proven>>

(* Move the target out of the way; an error is ignored. *)
MoveAside(p) ==
    /\ At(p, "aside")
    /\ \/ target # None /\ broken' = target /\ target' = None /\ UNCHANGED failures
       \/ target = None /\ UNCHANGED <<target, broken, failures>>
       \/ target # None /\ Fails /\ UNCHANGED <<target, broken>>
    /\ Goto(p, "restore")
    /\ UNCHANGED <<prev, staged, sentinel, exe, lifecycle, installs, losses, proven>>

(* Rename the backup to the target. *)
Restore(p) ==
    /\ At(p, "restore")
    /\ \/ target' = prev /\ prev' = None /\ Goto(p, "tidy") /\ UNCHANGED failures
       \/ Fails /\ Goto(p, "putBack") /\ UNCHANGED <<target, prev>>
    /\ UNCHANGED <<staged, broken, sentinel, exe, lifecycle, installs, losses, proven>>

(* Restore failed: put the broken version back and throw. *)
PutBack(p) ==
    /\ At(p, "putBack")
    /\ \/ broken # None /\ target' = broken /\ broken' = None /\ UNCHANGED failures
       \/ broken = None /\ UNCHANGED <<target, broken, failures>>
       \/ broken # None /\ Fails /\ UNCHANGED <<target, broken>>
    /\ Goto(p, "run")
    /\ UNCHANGED <<prev, staged, sentinel, exe, lifecycle, installs, losses, proven>>

(* The rollback succeeded: remove the broken version; an error is ignored. *)
Tidy(p) ==
    /\ At(p, "tidy")
    /\ \/ broken' = None /\ UNCHANGED failures
       \/ broken # None /\ Fails /\ UNCHANGED broken
    /\ Goto(p, "disarm")
    /\ UNCHANGED <<target, prev, staged, sentinel, exe, lifecycle, installs, losses, proven>>

(* Clear the sentinel and exit, or throw. *)
Disarm(p) ==
    /\ At(p, "disarm")
    /\ ClearIfCurrent(sentinel)
    /\ Goto(p, IF failures' = failures THEN "off" ELSE "run")
    /\ UNCHANGED <<files, exe, lifecycle, installs, losses, proven>>
----------------------------------------------------------------------------
Install(p) == \/ Arm(p) \/ CleanPrev(p) \/ SaveTarget(p) \/ Swap(p) \/ UndoSave(p)
              \/ Unarm(p) \/ Relaunch(p) \/ ExitOld(p)

RollBack(p) == \/ NoBackup(p) \/ DropBroken(p) \/ MoveAside(p) \/ Restore(p)
               \/ PutBack(p) \/ Tidy(p) \/ Disarm(p)

(* What goes on by itself once the program is launched. *)
Step(p) == \/ Launch(p) \/ Boot(p) \/ BootRollBack(p) \/ HealthCheck(p) \/ CrashBroken(p)
           \/ Install(p) \/ RollBack(p)

(* No process and nothing to launch: somebody has to rename the backup by hand. *)
Stranded == (\A p \in Procs : upc[p] = "off") /\ target = None /\ UNCHANGED vars

Next == (\E p \in Procs : Step(p) \/ Exit(p) \/ Download(p)) \/ PowerLoss \/ Stranded

(* The launcher starts the program again, processes run, timers fire. *)
Fairness == \A p \in Procs : WF_vars(Step(p))

Spec == Init /\ [][Next]_vars /\ Fairness
----------------------------------------------------------------------------
(* Wherever the program crashes, and if at most one call fails, a version that has
   proved itself is on the disk: install and rollback move it and delete only what is
   superseded.  (Two failures: UpdaterProofs, Backed.) *)
ProvenKept == proven \cap {target, prev, broken} # {}

(* Closing and reopening a working program is not taken for a crash loop: as long
   as nothing fails it is not rolled back. *)
NoNeedlessRollback ==
    failures = 0 /\ losses = 0 => \A p \in Procs : At(p, "restore") => broken \notin Good

(* Both, whichever call of perry_updater_install or perform_rollback_with fails. *)
UpdateIsSafe == TypeOK /\ ProvenKept /\ NoNeedlessRollback

(* Crash-loop rollback: a broken version at the target gives way to a working
   one, or a working one still runs (its relaunch failed). *)
CrashLoopEnds ==
    (target \in Versions \ Good) ~>
        (target \in Good \/ \E p \in Procs : At(p, "run") /\ exe[p] \in Good)

-----------------------------------------------------------------------------
(* What texts of the repository claim and the code does not keep: no run     *)
(* checks these, README section 7 tells how each of them fails.              *)

(* index.ts:493: "Arm the sentinel BEFORE we touch the binary. If the install
   crashes partway, the next boot will see the sentinel": there is a next boot. *)
NextBootExists == (\A p \in Procs : upc[p] = "off") => target # None

(* overview.md:42: "the wrapper restores the previous version", the one that
   installed the update. *)
RestoresPrevious == \A p \in Procs : At(p, "tidy") => target = sentinel.from
============================================================================
