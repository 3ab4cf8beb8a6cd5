--------------------------- MODULE ProcessesProofs ---------------------------
(***************************************************************************)
(* Theorems about the three parts that work with other processes.  Of      *)
(* Updater.tla: for any versions, processes, threshold and number of       *)
(* installations, failing calls and power losses.  Of Cluster.tla (second  *)
(* part): for any finite set of workers, any connections, listens, buffer, *)
(* slow answers and deaths.  Of Compose.tla (third part): for any engines, *)
(* projects, specs, faults and bounds; each theorem names what it excludes *)
(* (NoLate, Apart, a failing inspect where create is idempotent, no        *)
(* container_name, Alone), which the code does not.                        *)
(*                                                                         *)
(* The hypothesis ~Eager excludes programs that install while an earlier   *)
(* update's sentinel is armed, for which ProvenKept fails.  It also fails  *)
(* after two failing calls of one installation: the rename of the staged   *)
(* file and the one that puts the backup back.  Then the process runs on   *)
(* without a target, and its next installation begins by removing the      *)
(* backup.  Backed excludes that, and one failing call cannot cause it.    *)
(***************************************************************************)
EXTENDS Updater, Cluster, Compose, FiniteSetTheorems, SequenceTheorems, WellFoundedInduction, TLAPS

(* perry_updater_install starts with its target in place. *)
Backed == \A p \in Procs : At(p, "clean") => target # None

Active(p) == upc[p] \notin {"off", "exit"}

(* The program runs in one instance; a relaunch leaves only an exiting one. *)
OneActive == \A p, q \in Procs : Active(p) /\ Active(q) => p = q

(* Which image a process runs, as long as it may act on that knowledge. *)
ImageInv ==
    \A p \in Procs :
        /\ upc[p] \in {"boot", "rollback", "aside"} => exe[p] = target
        /\ upc[p] \in {"run", "arm"} /\ lifecycle[p] # None => exe[p] = target
        /\ At(p, "relaunch") => target # None
        /\ upc[p] \notin {"off", "boot", "run", "arm"} => lifecycle[p] = None

(* Where the sentinel is written, and where it must still be there. *)
SentinelInv ==
    \A p \in Procs :
        /\ At(p, "arm") => sentinel = None /\ installs < MaxInstalls
        /\ upc[p] \in {"clean", "save", "swap", "undo", "relaunch"} =>
               sentinel # None /\ sentinel.restartCount = 0
        /\ upc[p] \in {"rollback", "aside", "restore", "putBack"} => sentinel # None

BaseInv == TypeOK /\ OneActive /\ ImageInv /\ SentinelInv

(* The backup has proved itself, and so has the target unless a sentinel is armed;
   each program counter says which of the two is relied on. *)
KeepInv ==
    /\ prev \in proven \cup {None}
    /\ target \in proven \/ prev \in proven
    /\ sentinel = None => target \in proven \cup {None}
    /\ \A p \in Procs :
         /\ upc[p] \in {"arm", "clean", "save", "unarm"} => target \in proven \cup {None}
         /\ upc[p] \in {"tidy", "disarm"} => target \in proven
         /\ upc[p] \in {"swap", "undo"} => target = None
         /\ upc[p] \in {"aside", "restore", "putBack"} => prev # None

(* One failing call leaves the target in place or the step that repairs it to do. *)
FailInv ==
    \A p \in Procs : failures <= 1 =>
        /\ upc[p] \notin {"off", "exit", "swap", "undo", "restore", "putBack"} => target # None
        /\ upc[p] \in {"undo", "putBack"} => failures = 1
        /\ upc[p] \in {"restore", "putBack"} => target # None \/ broken # None

Calm == failures = 0 /\ losses = 0

(* While nothing fails, a counted restart is that of a version that crashes, or
   its process is there to clear the count. *)
CalmInv ==
    Calm =>
        /\ sentinel # None =>
             \/ sentinel.restartCount = 0
             \/ target \notin Good
             \/ \E p \in Procs : At(p, "run") /\ lifecycle[p] = sentinel
             \/ \E p \in Procs : upc[p] \in {"tidy", "disarm"}
        /\ \A p \in Procs : upc[p] \in {"rollback", "aside"} => target \notin Good
        /\ \A p \in Procs : At(p, "restore") => broken \notin Good
        /\ \A p \in Procs : ~At(p, "putBack")

(* What is proved of every step. *)
AllInv == BaseInv /\ CalmInv /\ (failures <= 1 => KeepInv /\ FailInv)
----------------------------------------------------------------------------
(* An absent file is no version. *)
LEMMA NoneIsNoVersion == None \notin Versions /\ None \notin Good
  <1>1. None \notin Nat /\ Good \subseteq Versions /\ MaxVersion \in Nat
    BY UpdaterAssumption, Zenon
  <1>2. Versions \subseteq Nat
    BY <1>1 DEF Versions
  <1> QED  BY <1>1, <1>2, Zenon

(* A health check or an exit hook leaves the variables it writes well typed. *)
LEMMA HealthyType ==
    ASSUME TypeOK, NEW p \in Procs, Healthy(p)
    PROVE  /\ sentinel' \in Sentinels \cup {None}
           /\ lifecycle' \in [Procs -> Sentinels \cup {None}]
           /\ failures' \in 0..MaxFailures /\ proven' \subseteq Versions
  <1>1. sentinel' \in Sentinels \cup {None} /\ failures' \in 0..MaxFailures
    BY UpdaterAssumption DEF TypeOK, Healthy, ClearIfCurrent, Fails
  <1>2. lifecycle' \in [Procs -> Sentinels \cup {None}]
    BY DEF TypeOK, Healthy
  <1>3. proven' \subseteq Versions
    BY DEF TypeOK, Healthy
  <1> QED  BY <1>1, <1>2, <1>3

(* Every step leaves the files, the sentinel and the processes well typed; the count
   of restarts stays below the threshold because Boot compares it first. *)
LEMMA TypeStep ==
    ASSUME BaseInv, [Next]_vars
    PROVE  TypeOK'
  <1> USE UpdaterAssumption DEF BaseInv, TypeOK, ImageInv, SentinelInv, Sentinels, Versions,
                               Running, RollingBack, At, Goto, files, counters
  <1>1. ASSUME NEW p \in Procs, Launch(p) PROVE TypeOK'
    BY <1>1 DEF Launch
  <1>2. ASSUME NEW p \in Procs, Boot(p) PROVE TypeOK'
    BY <1>2 DEF Boot, CrashLoop, Fails
  <1>3. ASSUME NEW p \in Procs, BootRollBack(p) PROVE TypeOK'
    BY <1>3 DEF BootRollBack, CrashLoop
  <1>4. ASSUME NEW p \in Procs, HealthCheck(p) PROVE TypeOK'
    BY <1>4, HealthyType DEF HealthCheck
  <1>5. ASSUME NEW p \in Procs, CrashBroken(p) PROVE TypeOK'
    BY <1>5 DEF CrashBroken, Die
  <1>6. ASSUME NEW p \in Procs, Exit(p) PROVE TypeOK'
    <2>1. CASE Healthy(p)
      BY <1>6, <2>1, HealthyType DEF Exit
    <2>2. CASE UNCHANGED <<sentinel, lifecycle, proven, failures>>
      BY <1>6, <2>2 DEF Exit
    <2> QED  BY <1>6, <2>1, <2>2 DEF Exit
  <1>7. ASSUME NEW p \in Procs, Download(p) PROVE TypeOK'
    BY <1>7 DEF Download
  <1>8. ASSUME NEW p \in Procs, Arm(p) PROVE TypeOK'
    BY <1>8 DEF Arm, Fails, Sentinels
  <1>9. ASSUME NEW p \in Procs, CleanPrev(p) PROVE TypeOK'
    BY <1>9 DEF CleanPrev, Fails
  <1>10. ASSUME NEW p \in Procs, SaveTarget(p) PROVE TypeOK'
    BY <1>10 DEF SaveTarget, Fails
  <1>11. ASSUME NEW p \in Procs, Swap(p) PROVE TypeOK'
    BY <1>11 DEF Swap, Fails
  <1>12. ASSUME NEW p \in Procs, UndoSave(p) PROVE TypeOK'
    BY <1>12 DEF UndoSave, Fails
  <1>13. ASSUME NEW p \in Procs, Unarm(p) PROVE TypeOK'
    BY <1>13 DEF Unarm, ClearIfCurrent, Fails
  <1>14. ASSUME NEW p \in Procs, Relaunch(p) PROVE TypeOK'
    BY <1>14 DEF Relaunch, Fails
  <1>15. ASSUME NEW p \in Procs, ExitOld(p) PROVE TypeOK'
    BY <1>15 DEF ExitOld
  <1>16. ASSUME NEW p \in Procs, NoBackup(p) PROVE TypeOK'
    BY <1>16 DEF NoBackup
  <1>17. ASSUME NEW p \in Procs, DropBroken(p) PROVE TypeOK'
    BY <1>17 DEF DropBroken, Fails
  <1>18. ASSUME NEW p \in Procs, MoveAside(p) PROVE TypeOK'
    BY <1>18 DEF MoveAside, Fails
  <1>19. ASSUME NEW p \in Procs, Restore(p) PROVE TypeOK'
    BY <1>19 DEF Restore, Fails
  <1>20. ASSUME NEW p \in Procs, PutBack(p) PROVE TypeOK'
    BY <1>20 DEF PutBack, Fails
  <1>21. ASSUME NEW p \in Procs, Tidy(p) PROVE TypeOK'
    BY <1>21 DEF Tidy, Fails
  <1>22. ASSUME NEW p \in Procs, Disarm(p) PROVE TypeOK'
    BY <1>22 DEF Disarm, ClearIfCurrent, Fails
  <1>23. CASE PowerLoss
    BY <1>23 DEF PowerLoss, Die
  <1>24. CASE Stranded
    BY <1>24 DEF Stranded, vars
  <1>25. CASE UNCHANGED vars
    BY <1>25 DEF vars
  <1> QED  BY <1>1, <1>2, <1>3, <1>4, <1>5, <1>6, <1>7, <1>8, <1>9, <1>10, <1>11, <1>12, <1>13,
             <1>14, <1>15, <1>16, <1>17, <1>18, <1>19, <1>20, <1>21, <1>22, <1>23, <1>24, <1>25
             DEF Next, Step, Install, RollBack

(* No step starts a second instance beside one that is not exiting. *)
LEMMA OneStep ==
    ASSUME BaseInv, [Next]_vars
    PROVE  OneActive'
  <1> USE DEF BaseInv, TypeOK, OneActive, Active, At, Goto
  <1>1. ASSUME NEW p \in Procs, Launch(p) PROVE OneActive'
    BY <1>1 DEF Launch
  <1>2. ASSUME NEW p \in Procs, Boot(p) PROVE OneActive'
    BY <1>2 DEF Boot, CrashLoop, Fails
  <1>3. ASSUME NEW p \in Procs, BootRollBack(p) PROVE OneActive'
    BY <1>3 DEF BootRollBack, CrashLoop
  <1>4. ASSUME NEW p \in Procs, HealthCheck(p) PROVE OneActive'
    BY <1>4 DEF HealthCheck, Healthy, ClearIfCurrent, Fails
  <1>5. ASSUME NEW p \in Procs, CrashBroken(p) PROVE OneActive'
    BY <1>5 DEF CrashBroken, Die
  <1>6. ASSUME NEW p \in Procs, Exit(p) PROVE OneActive'
    BY <1>6 DEF Exit, Healthy, ClearIfCurrent, Fails
  <1>7. ASSUME NEW p \in Procs, Download(p) PROVE OneActive'
    BY <1>7 DEF Download
  <1>8. ASSUME NEW p \in Procs, Arm(p) PROVE OneActive'
    BY <1>8 DEF Arm, Fails, Sentinels
  <1>9. ASSUME NEW p \in Procs, CleanPrev(p) PROVE OneActive'
    BY <1>9 DEF CleanPrev, Fails
  <1>10. ASSUME NEW p \in Procs, SaveTarget(p) PROVE OneActive'
    BY <1>10 DEF SaveTarget, Fails
  <1>11. ASSUME NEW p \in Procs, Swap(p) PROVE OneActive'
    BY <1>11 DEF Swap, Fails
  <1>12. ASSUME NEW p \in Procs, UndoSave(p) PROVE OneActive'
    BY <1>12 DEF UndoSave, Fails
  <1>13. ASSUME NEW p \in Procs, Unarm(p) PROVE OneActive'
    BY <1>13 DEF Unarm, ClearIfCurrent, Fails
  <1>14. ASSUME NEW p \in Procs, Relaunch(p) PROVE OneActive'
    BY <1>14 DEF Relaunch, Fails
  <1>15. ASSUME NEW p \in Procs, ExitOld(p) PROVE OneActive'
    BY <1>15 DEF ExitOld
  <1>16. ASSUME NEW p \in Procs, NoBackup(p) PROVE OneActive'
    BY <1>16 DEF NoBackup
  <1>17. ASSUME NEW p \in Procs, DropBroken(p) PROVE OneActive'
    BY <1>17 DEF DropBroken, Fails
  <1>18. ASSUME NEW p \in Procs, MoveAside(p) PROVE OneActive'
    BY <1>18 DEF MoveAside, Fails
  <1>19. ASSUME NEW p \in Procs, Restore(p) PROVE OneActive'
    BY <1>19 DEF Restore, Fails
  <1>20. ASSUME NEW p \in Procs, PutBack(p) PROVE OneActive'
    BY <1>20 DEF PutBack, Fails
  <1>21. ASSUME NEW p \in Procs, Tidy(p) PROVE OneActive'
    BY <1>21 DEF Tidy, Fails
  <1>22. ASSUME NEW p \in Procs, Disarm(p) PROVE OneActive'
    BY <1>22 DEF Disarm, ClearIfCurrent, Fails
  <1>23. CASE PowerLoss
    BY <1>23 DEF PowerLoss, Die
  <1>24. CASE Stranded
    BY <1>24 DEF Stranded, vars
  <1>25. CASE UNCHANGED vars
    BY <1>25 DEF vars
  <1> QED  BY <1>1, <1>2, <1>3, <1>4, <1>5, <1>6, <1>7, <1>8, <1>9, <1>10, <1>11, <1>12, <1>13,
             <1>14, <1>15, <1>16, <1>17, <1>18, <1>19, <1>20, <1>21, <1>22, <1>23, <1>24, <1>25
             DEF Next, Step, Install, RollBack

(* A process that holds a lifecycle, or rolls back, runs the image at the target. *)
LEMMA ImageStep ==
    ASSUME BaseInv, [Next]_vars
    PROVE  ImageInv'
  <1> USE UpdaterAssumption DEF BaseInv, TypeOK, OneActive, Active, ImageInv, Versions, At, Goto,
                               files, counters
  <1>1. ASSUME NEW p \in Procs, Launch(p) PROVE ImageInv'
    BY <1>1 DEF Launch
  <1>2. ASSUME NEW p \in Procs, Boot(p) PROVE ImageInv'
    BY <1>2 DEF Boot, CrashLoop, Fails
  <1>3. ASSUME NEW p \in Procs, BootRollBack(p) PROVE ImageInv'
    BY <1>3 DEF BootRollBack, CrashLoop
  <1>4. ASSUME NEW p \in Procs, HealthCheck(p) PROVE ImageInv'
    BY <1>4 DEF HealthCheck, Healthy, ClearIfCurrent, Fails
  <1>5. ASSUME NEW p \in Procs, CrashBroken(p) PROVE ImageInv'
    BY <1>5 DEF CrashBroken, Die
  <1>6. ASSUME NEW p \in Procs, Exit(p) PROVE ImageInv'
    BY <1>6 DEF Exit, Healthy, ClearIfCurrent, Fails
  <1>7. ASSUME NEW p \in Procs, Download(p) PROVE ImageInv'
    BY <1>7 DEF Download
  <1>8. ASSUME NEW p \in Procs, Arm(p) PROVE ImageInv'
    BY <1>8 DEF Arm, Fails, Sentinels
  <1>9. ASSUME NEW p \in Procs, CleanPrev(p) PROVE ImageInv'
    BY <1>9 DEF CleanPrev, Fails
  <1>10. ASSUME NEW p \in Procs, SaveTarget(p) PROVE ImageInv'
    BY <1>10 DEF SaveTarget, Fails
  <1>11. ASSUME NEW p \in Procs, Swap(p) PROVE ImageInv'
    BY <1>11 DEF Swap, Fails
  <1>12. ASSUME NEW p \in Procs, UndoSave(p) PROVE ImageInv'
    BY <1>12 DEF UndoSave, Fails
  <1>13. ASSUME NEW p \in Procs, Unarm(p) PROVE ImageInv'
    BY <1>13 DEF Unarm, ClearIfCurrent, Fails
  <1>14. ASSUME NEW p \in Procs, Relaunch(p) PROVE ImageInv'
    BY <1>14 DEF Relaunch, Fails
  <1>15. ASSUME NEW p \in Procs, ExitOld(p) PROVE ImageInv'
    BY <1>15 DEF ExitOld
  <1>16. ASSUME NEW p \in Procs, NoBackup(p) PROVE ImageInv'
    BY <1>16 DEF NoBackup
  <1>17. ASSUME NEW p \in Procs, DropBroken(p) PROVE ImageInv'
    BY <1>17 DEF DropBroken, Fails
  <1>18. ASSUME NEW p \in Procs, MoveAside(p) PROVE ImageInv'
    BY <1>18 DEF MoveAside, Fails
  <1>19. ASSUME NEW p \in Procs, Restore(p) PROVE ImageInv'
    BY <1>19 DEF Restore, Fails
  <1>20. ASSUME NEW p \in Procs, PutBack(p) PROVE ImageInv'
    BY <1>20 DEF PutBack, Fails
  <1>21. ASSUME NEW p \in Procs, Tidy(p) PROVE ImageInv'
    BY <1>21 DEF Tidy, Fails
  <1>22. ASSUME NEW p \in Procs, Disarm(p) PROVE ImageInv'
    BY <1>22 DEF Disarm, ClearIfCurrent, Fails
  <1>23. CASE PowerLoss
    BY <1>23 DEF PowerLoss, Die
  <1>24. CASE Stranded
    BY <1>24 DEF Stranded, vars
  <1>25. CASE UNCHANGED vars
    BY <1>25 DEF vars
  <1> QED  BY <1>1, <1>2, <1>3, <1>4, <1>5, <1>6, <1>7, <1>8, <1>9, <1>10, <1>11, <1>12, <1>13,
             <1>14, <1>15, <1>16, <1>17, <1>18, <1>19, <1>20, <1>21, <1>22, <1>23, <1>24, <1>25
             DEF Next, Step, Install, RollBack

(* The sentinel is written before the first rename of an installation and stays
   until its last; a program that waits for the health check finds none to replace. *)
LEMMA SentinelStep ==
    ASSUME ~Eager, BaseInv, [Next]_vars
    PROVE  SentinelInv'
  <1> USE UpdaterAssumption DEF BaseInv, TypeOK, OneActive, Active, SentinelInv, ImageInv,
                               Sentinels, At, Goto, files, counters
  <1>1. ASSUME NEW p \in Procs, Launch(p) PROVE SentinelInv'
    BY <1>1 DEF Launch
  <1>2. ASSUME NEW p \in Procs, Boot(p) PROVE SentinelInv'
    BY <1>2 DEF Boot, CrashLoop, Fails
  <1>3. ASSUME NEW p \in Procs, BootRollBack(p) PROVE SentinelInv'
    BY <1>3 DEF BootRollBack, CrashLoop
  <1>4. ASSUME NEW p \in Procs, HealthCheck(p) PROVE SentinelInv'
    BY <1>4 DEF HealthCheck, Healthy, ClearIfCurrent, Fails
  <1>5. ASSUME NEW p \in Procs, CrashBroken(p) PROVE SentinelInv'
    BY <1>5 DEF CrashBroken, Die
  <1>6. ASSUME NEW p \in Procs, Exit(p) PROVE SentinelInv'
    BY <1>6 DEF Exit, Healthy, ClearIfCurrent, Fails
  <1>7. ASSUME NEW p \in Procs, Download(p) PROVE SentinelInv'
    BY <1>7 DEF Download
  <1>8. ASSUME NEW p \in Procs, Arm(p) PROVE SentinelInv'
    BY <1>8 DEF Arm, Fails, Sentinels
  <1>9. ASSUME NEW p \in Procs, CleanPrev(p) PROVE SentinelInv'
    BY <1>9 DEF CleanPrev, Fails
  <1>10. ASSUME NEW p \in Procs, SaveTarget(p) PROVE SentinelInv'
    BY <1>10 DEF SaveTarget, Fails
  <1>11. ASSUME NEW p \in Procs, Swap(p) PROVE SentinelInv'
    BY <1>11 DEF Swap, Fails
  <1>12. ASSUME NEW p \in Procs, UndoSave(p) PROVE SentinelInv'
    BY <1>12 DEF UndoSave, Fails
  <1>13. ASSUME NEW p \in Procs, Unarm(p) PROVE SentinelInv'
    BY <1>13 DEF Unarm, ClearIfCurrent, Fails
  <1>14. ASSUME NEW p \in Procs, Relaunch(p) PROVE SentinelInv'
    BY <1>14 DEF Relaunch, Fails
  <1>15. ASSUME NEW p \in Procs, ExitOld(p) PROVE SentinelInv'
    BY <1>15 DEF ExitOld
  <1>16. ASSUME NEW p \in Procs, NoBackup(p) PROVE SentinelInv'
    BY <1>16 DEF NoBackup
  <1>17. ASSUME NEW p \in Procs, DropBroken(p) PROVE SentinelInv'
    BY <1>17 DEF DropBroken, Fails
  <1>18. ASSUME NEW p \in Procs, MoveAside(p) PROVE SentinelInv'
    BY <1>18 DEF MoveAside, Fails
  <1>19. ASSUME NEW p \in Procs, Restore(p) PROVE SentinelInv'
    BY <1>19 DEF Restore, Fails
  <1>20. ASSUME NEW p \in Procs, PutBack(p) PROVE SentinelInv'
    BY <1>20 DEF PutBack, Fails
  <1>21. ASSUME NEW p \in Procs, Tidy(p) PROVE SentinelInv'
    BY <1>21 DEF Tidy, Fails
  <1>22. ASSUME NEW p \in Procs, Disarm(p) PROVE SentinelInv'
    BY <1>22 DEF Disarm, ClearIfCurrent, Fails
  <1>23. CASE PowerLoss
    BY <1>23 DEF PowerLoss, Die
  <1>24. CASE Stranded
    BY <1>24 DEF Stranded, vars
  <1>25. CASE UNCHANGED vars
    BY <1>25 DEF vars
  <1> QED  BY <1>1, <1>2, <1>3, <1>4, <1>5, <1>6, <1>7, <1>8, <1>9, <1>10, <1>11, <1>12, <1>13,
             <1>14, <1>15, <1>16, <1>17, <1>18, <1>19, <1>20, <1>21, <1>22, <1>23, <1>24, <1>25
             DEF Next, Step, Install, RollBack

(* The parts that do not depend on what fails. *)
LEMMA BaseStep ==
    ASSUME ~Eager, BaseInv, [Next]_vars
    PROVE  BaseInv'
  BY TypeStep, OneStep, ImageStep, SentinelStep DEF BaseInv

(* Failing calls are counted and never forgotten. *)
LEMMA FailuresGrow ==
    ASSUME BaseInv, [Next]_vars
    PROVE  failures' >= failures
  <1> USE DEF BaseInv, TypeOK, counters
  <1>1. ASSUME NEW p \in Procs, Launch(p) PROVE failures' >= failures
    BY <1>1 DEF Launch
  <1>2. ASSUME NEW p \in Procs, Boot(p) PROVE failures' >= failures
    BY <1>2 DEF Boot, CrashLoop, Fails
  <1>3. ASSUME NEW p \in Procs, BootRollBack(p) PROVE failures' >= failures
    BY <1>3 DEF BootRollBack, CrashLoop
  <1>4. ASSUME NEW p \in Procs, HealthCheck(p) PROVE failures' >= failures
    BY <1>4 DEF HealthCheck, Healthy, ClearIfCurrent, Fails
  <1>5. ASSUME NEW p \in Procs, CrashBroken(p) PROVE failures' >= failures
    BY <1>5 DEF CrashBroken, Die
  <1>6. ASSUME NEW p \in Procs, Exit(p) PROVE failures' >= failures
    BY <1>6 DEF Exit, Healthy, ClearIfCurrent, Fails
  <1>7. ASSUME NEW p \in Procs, Download(p) PROVE failures' >= failures
    BY <1>7 DEF Download
  <1>8. ASSUME NEW p \in Procs, Arm(p) PROVE failures' >= failures
    BY <1>8 DEF Arm, Fails, Sentinels
  <1>9. ASSUME NEW p \in Procs, CleanPrev(p) PROVE failures' >= failures
    BY <1>9 DEF CleanPrev, Fails
  <1>10. ASSUME NEW p \in Procs, SaveTarget(p) PROVE failures' >= failures
    BY <1>10 DEF SaveTarget, Fails
  <1>11. ASSUME NEW p \in Procs, Swap(p) PROVE failures' >= failures
    BY <1>11 DEF Swap, Fails
  <1>12. ASSUME NEW p \in Procs, UndoSave(p) PROVE failures' >= failures
    BY <1>12 DEF UndoSave, Fails
  <1>13. ASSUME NEW p \in Procs, Unarm(p) PROVE failures' >= failures
    BY <1>13 DEF Unarm, ClearIfCurrent, Fails
  <1>14. ASSUME NEW p \in Procs, Relaunch(p) PROVE failures' >= failures
    BY <1>14 DEF Relaunch, Fails
  <1>15. ASSUME NEW p \in Procs, ExitOld(p) PROVE failures' >= failures
    BY <1>15 DEF ExitOld
  <1>16. ASSUME NEW p \in Procs, NoBackup(p) PROVE failures' >= failures
    BY <1>16 DEF NoBackup
  <1>17. ASSUME NEW p \in Procs, DropBroken(p) PROVE failures' >= failures
    BY <1>17 DEF DropBroken, Fails
  <1>18. ASSUME NEW p \in Procs, MoveAside(p) PROVE failures' >= failures
    BY <1>18 DEF MoveAside, Fails
  <1>19. ASSUME NEW p \in Procs, Restore(p) PROVE failures' >= failures
    BY <1>19 DEF Restore, Fails
  <1>20. ASSUME NEW p \in Procs, PutBack(p) PROVE failures' >= failures
    BY <1>20 DEF PutBack, Fails
  <1>21. ASSUME NEW p \in Procs, Tidy(p) PROVE failures' >= failures
    BY <1>21 DEF Tidy, Fails
  <1>22. ASSUME NEW p \in Procs, Disarm(p) PROVE failures' >= failures
    BY <1>22 DEF Disarm, ClearIfCurrent, Fails
  <1>23. CASE PowerLoss
    BY <1>23 DEF PowerLoss, Die
  <1>24. CASE Stranded
    BY <1>24 DEF Stranded, vars
  <1>25. CASE UNCHANGED vars
    BY <1>25 DEF vars
  <1> QED  BY <1>1, <1>2, <1>3, <1>4, <1>5, <1>6, <1>7, <1>8, <1>9, <1>10, <1>11, <1>12, <1>13,
             <1>14, <1>15, <1>16, <1>17, <1>18, <1>19, <1>20, <1>21, <1>22, <1>23, <1>24, <1>25
             DEF Next, Step, Install, RollBack

(* Whatever fails, a step that begins with the target in place when it removes the
   backup keeps a version that has proved itself. *)
LEMMA KeepStep ==
    ASSUME ~Eager, Backed, BaseInv, KeepInv, [Next]_vars
    PROVE  KeepInv'
  <1> USE UpdaterAssumption DEF BaseInv, TypeOK, OneActive, Active, ImageInv, SentinelInv, KeepInv,
                               Backed, Versions, At, Goto, files, counters
  <1>1. ASSUME NEW p \in Procs, Launch(p) PROVE KeepInv'
    BY <1>1 DEF Launch
  <1>2. ASSUME NEW p \in Procs, Boot(p) PROVE KeepInv'
    <2>1. UNCHANGED <<target, prev, proven>>
      BY <1>2 DEF Boot
    <2>2. sentinel' = None => sentinel = None
      BY <1>2 DEF Boot, CrashLoop, Sentinels
    <2>3. upc[p] = "boot" /\ upc' = [upc EXCEPT ![p] = "run"]
      BY <1>2 DEF Boot
    <2> QED  BY <2>1, <2>2, <2>3
  <1>3. ASSUME NEW p \in Procs, BootRollBack(p) PROVE KeepInv'
    BY <1>3 DEF BootRollBack, CrashLoop
  <1>4. ASSUME NEW p \in Procs, HealthCheck(p) PROVE KeepInv'
    BY <1>4 DEF HealthCheck, Healthy, ClearIfCurrent, Fails
  <1>5. ASSUME NEW p \in Procs, CrashBroken(p) PROVE KeepInv'
    BY <1>5 DEF CrashBroken, Die
  <1>6. ASSUME NEW p \in Procs, Exit(p) PROVE KeepInv'
    BY <1>6 DEF Exit, Healthy, ClearIfCurrent, Fails
  <1>7. ASSUME NEW p \in Procs, Download(p) PROVE KeepInv'
    BY <1>7 DEF Download
  <1>8. ASSUME NEW p \in Procs, Arm(p) PROVE KeepInv'
    BY <1>8 DEF Arm, Fails, Sentinels
  <1>9. ASSUME NEW p \in Procs, CleanPrev(p) PROVE KeepInv'
    BY <1>9 DEF CleanPrev, Fails
  <1>10. ASSUME NEW p \in Procs, SaveTarget(p) PROVE KeepInv'
    BY <1>10 DEF SaveTarget, Fails
  <1>11. ASSUME NEW p \in Procs, Swap(p) PROVE KeepInv'
    BY <1>11 DEF Swap, Fails
  <1>12. ASSUME NEW p \in Procs, UndoSave(p) PROVE KeepInv'
    BY <1>12 DEF UndoSave, Fails
  <1>13. ASSUME NEW p \in Procs, Unarm(p) PROVE KeepInv'
    BY <1>13 DEF Unarm, ClearIfCurrent, Fails
  <1>14. ASSUME NEW p \in Procs, Relaunch(p) PROVE KeepInv'
    BY <1>14 DEF Relaunch, Fails
  <1>15. ASSUME NEW p \in Procs, ExitOld(p) PROVE KeepInv'
    BY <1>15 DEF ExitOld
  <1>16. ASSUME NEW p \in Procs, NoBackup(p) PROVE KeepInv'
    BY <1>16 DEF NoBackup
  <1>17. ASSUME NEW p \in Procs, DropBroken(p) PROVE KeepInv'
    BY <1>17 DEF DropBroken, Fails
  <1>18. ASSUME NEW p \in Procs, MoveAside(p) PROVE KeepInv'
    BY <1>18 DEF MoveAside, Fails
  <1>19. ASSUME NEW p \in Procs, Restore(p) PROVE KeepInv'
    BY <1>19 DEF Restore, Fails
  <1>20. ASSUME NEW p \in Procs, PutBack(p) PROVE KeepInv'
    BY <1>20 DEF PutBack, Fails
  <1>21. ASSUME NEW p \in Procs, Tidy(p) PROVE KeepInv'
    BY <1>21 DEF Tidy, Fails
  <1>22. ASSUME NEW p \in Procs, Disarm(p) PROVE KeepInv'
    BY <1>22 DEF Disarm, ClearIfCurrent, Fails
  <1>23. CASE PowerLoss
    BY <1>23 DEF PowerLoss, Die
  <1>24. CASE Stranded
    BY <1>24 DEF Stranded, vars
  <1>25. CASE UNCHANGED vars
    BY <1>25 DEF vars
  <1> QED  BY <1>1, <1>2, <1>3, <1>4, <1>5, <1>6, <1>7, <1>8, <1>9, <1>10, <1>11, <1>12, <1>13,
             <1>14, <1>15, <1>16, <1>17, <1>18, <1>19, <1>20, <1>21, <1>22, <1>23, <1>24, <1>25
             DEF Next, Step, Install, RollBack

(* One failing call does not leave a process running without a target. *)
LEMMA FailStep ==
    ASSUME BaseInv, KeepInv, FailInv, [Next]_vars
    PROVE  FailInv'
  <1> USE UpdaterAssumption DEF BaseInv, TypeOK, OneActive, Active, ImageInv, KeepInv, FailInv,
                               Versions, At, Goto, files, counters
  <1>1. ASSUME NEW p \in Procs, Launch(p) PROVE FailInv'
    BY <1>1 DEF Launch
  <1>2. ASSUME NEW p \in Procs, Boot(p) PROVE FailInv'
    BY <1>2 DEF Boot, CrashLoop, Fails
  <1>3. ASSUME NEW p \in Procs, BootRollBack(p) PROVE FailInv'
    BY <1>3 DEF BootRollBack, CrashLoop
  <1>4. ASSUME NEW p \in Procs, HealthCheck(p) PROVE FailInv'
    BY <1>4 DEF HealthCheck, Healthy, ClearIfCurrent, Fails
  <1>5. ASSUME NEW p \in Procs, CrashBroken(p) PROVE FailInv'
    BY <1>5 DEF CrashBroken, Die
  <1>6. ASSUME NEW p \in Procs, Exit(p) PROVE FailInv'
    BY <1>6 DEF Exit, Healthy, ClearIfCurrent, Fails
  <1>7. ASSUME NEW p \in Procs, Download(p) PROVE FailInv'
    BY <1>7 DEF Download
  <1>8. ASSUME NEW p \in Procs, Arm(p) PROVE FailInv'
    BY <1>8 DEF Arm, Fails, Sentinels
  <1>9. ASSUME NEW p \in Procs, CleanPrev(p) PROVE FailInv'
    BY <1>9 DEF CleanPrev, Fails
  <1>10. ASSUME NEW p \in Procs, SaveTarget(p) PROVE FailInv'
    BY <1>10 DEF SaveTarget, Fails
  <1>11. ASSUME NEW p \in Procs, Swap(p) PROVE FailInv'
    BY <1>11 DEF Swap, Fails
  <1>12. ASSUME NEW p \in Procs, UndoSave(p) PROVE FailInv'
    BY <1>12 DEF UndoSave, Fails
  <1>13. ASSUME NEW p \in Procs, Unarm(p) PROVE FailInv'
    BY <1>13 DEF Unarm, ClearIfCurrent, Fails
  <1>14. ASSUME NEW p \in Procs, Relaunch(p) PROVE FailInv'
    BY <1>14 DEF Relaunch, Fails
  <1>15. ASSUME NEW p \in Procs, ExitOld(p) PROVE FailInv'
    BY <1>15 DEF ExitOld
  <1>16. ASSUME NEW p \in Procs, NoBackup(p) PROVE FailInv'
    BY <1>16 DEF NoBackup
  <1>17. ASSUME NEW p \in Procs, DropBroken(p) PROVE FailInv'
    BY <1>17 DEF DropBroken, Fails
  <1>18. ASSUME NEW p \in Procs, MoveAside(p) PROVE FailInv'
    BY <1>18 DEF MoveAside, Fails
  <1>19. ASSUME NEW p \in Procs, Restore(p) PROVE FailInv'
    BY <1>19 DEF Restore, Fails
  <1>20. ASSUME NEW p \in Procs, PutBack(p) PROVE FailInv'
    BY <1>20 DEF PutBack, Fails
  <1>21. ASSUME NEW p \in Procs, Tidy(p) PROVE FailInv'
    BY <1>21 DEF Tidy, Fails
  <1>22. ASSUME NEW p \in Procs, Disarm(p) PROVE FailInv'
    BY <1>22 DEF Disarm, ClearIfCurrent, Fails
  <1>23. CASE PowerLoss
    BY <1>23 DEF PowerLoss, Die
  <1>24. CASE Stranded
    BY <1>24 DEF Stranded, vars
  <1>25. CASE UNCHANGED vars
    BY <1>25 DEF vars
  <1> QED  BY <1>1, <1>2, <1>3, <1>4, <1>5, <1>6, <1>7, <1>8, <1>9, <1>10, <1>11, <1>12, <1>13,
             <1>14, <1>15, <1>16, <1>17, <1>18, <1>19, <1>20, <1>21, <1>22, <1>23, <1>24, <1>25
             DEF Next, Step, Install, RollBack

(* While nothing fails, the exit hook of a working version clears what its boot
   counted, so that a count of restarts is that of crashes. *)
LEMMA CalmStep ==
    ASSUME ~Eager, BaseInv, CalmInv, [Next]_vars
    PROVE  CalmInv'
  <1> USE UpdaterAssumption DEF BaseInv, TypeOK, OneActive, Active, ImageInv, SentinelInv, CalmInv,
                               Calm, Sentinels, Versions, At, Goto, files, counters
  <1>1. ASSUME NEW p \in Procs, Launch(p) PROVE CalmInv'
    BY <1>1 DEF Launch
  <1>2. ASSUME NEW p \in Procs, Boot(p) PROVE CalmInv'
    BY <1>2 DEF Boot, CrashLoop, Fails
  <1>3. ASSUME NEW p \in Procs, BootRollBack(p) PROVE CalmInv'
    BY <1>3 DEF BootRollBack, CrashLoop
  <1>4. ASSUME NEW p \in Procs, HealthCheck(p) PROVE CalmInv'
    BY <1>4 DEF HealthCheck, Healthy, ClearIfCurrent, Fails
  <1>5. ASSUME NEW p \in Procs, CrashBroken(p) PROVE CalmInv'
    BY <1>5 DEF CrashBroken, Die
  <1>6. ASSUME NEW p \in Procs, Exit(p) PROVE CalmInv'
    BY <1>6 DEF Exit, Healthy, ClearIfCurrent, Fails
  <1>7. ASSUME NEW p \in Procs, Download(p) PROVE CalmInv'
    BY <1>7 DEF Download
  <1>8. ASSUME NEW p \in Procs, Arm(p) PROVE CalmInv'
    BY <1>8 DEF Arm, Fails, Sentinels
  <1>9. ASSUME NEW p \in Procs, CleanPrev(p) PROVE CalmInv'
    BY <1>9 DEF CleanPrev, Fails
  <1>10. ASSUME NEW p \in Procs, SaveTarget(p) PROVE CalmInv'
    BY <1>10 DEF SaveTarget, Fails
  <1>11. ASSUME NEW p \in Procs, Swap(p) PROVE CalmInv'
    BY <1>11 DEF Swap, Fails
  <1>12. ASSUME NEW p \in Procs, UndoSave(p) PROVE CalmInv'
    BY <1>12 DEF UndoSave, Fails
  <1>13. ASSUME NEW p \in Procs, Unarm(p) PROVE CalmInv'
    BY <1>13 DEF Unarm, ClearIfCurrent, Fails
  <1>14. ASSUME NEW p \in Procs, Relaunch(p) PROVE CalmInv'
    BY <1>14 DEF Relaunch, Fails
  <1>15. ASSUME NEW p \in Procs, ExitOld(p) PROVE CalmInv'
    BY <1>15 DEF ExitOld
  <1>16. ASSUME NEW p \in Procs, NoBackup(p) PROVE CalmInv'
    BY <1>16 DEF NoBackup
  <1>17. ASSUME NEW p \in Procs, DropBroken(p) PROVE CalmInv'
    BY <1>17 DEF DropBroken, Fails
  <1>18. ASSUME NEW p \in Procs, MoveAside(p) PROVE CalmInv'
    <2>1. upc[p] = "aside" /\ upc' = [upc EXCEPT ![p] = "restore"] /\ UNCHANGED <<sentinel, losses>>
      BY <1>18 DEF MoveAside
    <2>2. target \in Versions
      BY <2>1
    <2>3. CASE broken' = target /\ target' = None /\ UNCHANGED failures
      <3>1. ASSUME NEW q \in Procs
            PROVE  upc'[q] = IF q = p THEN "restore" ELSE upc[q]
        BY <2>1
      <3>2. ASSUME NEW q \in Procs, q # p PROVE upc[q] \in {"off", "exit"}
        BY <2>1, <3>2
      <3>3. target' \notin Good /\ (Calm' => broken' \notin Good)
        BY <2>1, <2>3, NoneIsNoVersion
      <3> QED  BY <3>1, <3>2, <3>3
    <2>4. CASE Fails
      BY <2>4 DEF Fails
    <2> QED  BY <1>18, <2>2, <2>3, <2>4, NoneIsNoVersion DEF MoveAside
  <1>19. ASSUME NEW p \in Procs, Restore(p) PROVE CalmInv'
    BY <1>19 DEF Restore, Fails
  <1>20. ASSUME NEW p \in Procs, PutBack(p) PROVE CalmInv'
    BY <1>20 DEF PutBack, Fails
  <1>21. ASSUME NEW p \in Procs, Tidy(p) PROVE CalmInv'
    BY <1>21 DEF Tidy, Fails
  <1>22. ASSUME NEW p \in Procs, Disarm(p) PROVE CalmInv'
    BY <1>22 DEF Disarm, ClearIfCurrent, Fails
  <1>23. CASE PowerLoss
    BY <1>23 DEF PowerLoss, Die
  <1>24. CASE Stranded
    BY <1>24 DEF Stranded, vars
  <1>25. CASE UNCHANGED vars
    BY <1>25 DEF vars
  <1> QED  BY <1>1, <1>2, <1>3, <1>4, <1>5, <1>6, <1>7, <1>8, <1>9, <1>10, <1>11, <1>12, <1>13,
             <1>14, <1>15, <1>16, <1>17, <1>18, <1>19, <1>20, <1>21, <1>22, <1>23, <1>24, <1>25
             DEF Next, Step, Install, RollBack
----------------------------------------------------------------------------
(* Version 0, installed by hand, counts as proved. *)
LEMMA InitInv == Init => AllInv /\ KeepInv
  <1>1. Init => TypeOK
    BY UpdaterAssumption DEF Init, TypeOK, Versions
  <1>2. Init => OneActive /\ ImageInv /\ SentinelInv /\ CalmInv /\ FailInv
    BY DEF Init, OneActive, Active, ImageInv, SentinelInv, CalmInv, FailInv, At
  <1>3. Init => KeepInv
    BY DEF Init, KeepInv
  <1> QED  BY <1>1, <1>2, <1>3 DEF AllInv, BaseInv

(* The invariant, and that one failing call does not take the target away. *)
THEOREM UpdaterInvariant ==
    ASSUME ~Eager
    PROVE  Spec => []AllInv
  <1>1. AllInv /\ [Next]_vars => AllInv'
    <2> SUFFICES ASSUME AllInv, [Next]_vars PROVE AllInv'
      OBVIOUS
    <2>1. BaseInv' /\ CalmInv'
      BY BaseStep, CalmStep DEF AllInv
    <2>2. failures' <= 1 => failures <= 1
      BY <2>1, FailuresGrow DEF AllInv, BaseInv, TypeOK
    <2>3. ASSUME failures <= 1 PROVE KeepInv' /\ FailInv'
      <3>1. Backed
        BY <2>3 DEF AllInv, FailInv, Backed, At
      <3> QED  BY <2>3, <3>1, KeepStep, FailStep DEF AllInv
    <2> QED  BY <2>1, <2>2, <2>3 DEF AllInv
  <1> QED  BY <1>1, InitInv, PTL DEF Spec

(* A version that has proved itself stays on the disk and a working program is not
   rolled back, wherever the power fails and whichever call of
   perry_updater_install or perform_rollback_with fails, if only one does. *)
THEOREM UpdaterIsSafe ==
    ASSUME ~Eager, MaxFailures <= 1
    PROVE  Spec => []UpdateIsSafe
  <1>1. AllInv => UpdateIsSafe
    <2> SUFFICES ASSUME AllInv PROVE UpdateIsSafe
      OBVIOUS
    <2>1. failures <= 1
      BY UpdaterAssumption DEF AllInv, BaseInv, TypeOK
    <2>2. ProvenKept
      BY <2>1 DEF AllInv, KeepInv, ProvenKept
    <2>3. NoNeedlessRollback
      BY DEF AllInv, CalmInv, Calm, NoNeedlessRollback
    <2> QED  BY <2>2, <2>3 DEF UpdateIsSafe, AllInv, BaseInv
  <1> QED  BY <1>1, UpdaterInvariant, PTL

(* With any number of failing calls the version is kept as long as no installation
   begins without a target: perry_updater_install loses it in no other way, and
   perform_rollback_with in none. *)
THEOREM KeptWhileBacked ==
    ASSUME ~Eager
    PROVE  Spec /\ []Backed => []ProvenKept
  <1>1. BaseInv /\ KeepInv /\ Backed /\ [Next]_vars => (BaseInv /\ KeepInv)'
    BY BaseStep, KeepStep
  <1>2. Init => BaseInv /\ KeepInv
    BY InitInv DEF AllInv
  <1>3. KeepInv => ProvenKept
    BY DEF KeepInv, ProvenKept
  <1> QED  BY <1>1, <1>2, <1>3, PTL DEF Spec

(* Closing and reopening a working version is never taken for a crash loop while
   nothing fails, for any threshold above one and any number of updates. *)
THEOREM RollbackIsNeeded ==
    ASSUME ~Eager
    PROVE  Spec => []NoNeedlessRollback
  <1>1. AllInv => NoNeedlessRollback
    BY DEF AllInv, CalmInv, Calm, NoNeedlessRollback
  <1> QED  BY <1>1, UpdaterInvariant, PTL

-----------------------------------------------------------------------------
(* The cluster. *)

Kids   == [map : BOOLEAN, spawned : BOOLEAN, connected : BOOLEAN, send : BOOLEAN,
           exited : BOOLEAN, exitEmitted : BOOLEAN, marked : BOOLEAN]
Events == {"query", "closed", "exited"} \X Workers
Imms   == {"left", "disconnect", "exit"} \X Workers
Bridges == [pc : {"none", "check", "send", "parked", "ended"}, fd : 0 .. MaxConns]
Seen   == {"disconnect", "exit", "worker disconnect", "worker exit"}

(* The types of all the state. *)
PrimaryTypes ==
  /\ proc \in [Workers -> {"none", "live", "dead"}] /\ kid \in [Workers -> Kids]
  /\ readerP \in [Workers -> BOOLEAN] /\ reaped \in [Workers -> BOOLEAN]
  /\ evq \in Seq(Events) /\ batch \in Seq(Events)
  /\ pump \in {"idle", "drain", "yes", "no", "finish"} /\ fin \in SUBSET Workers
  /\ imm \in Seq(Imms)
  /\ log \in [Workers -> Seq(Seen)]
  /\ bound \in BOOLEAN /\ rot \in Seq(Workers) /\ idx \in Nat /\ next \in 1 .. MaxConns + 1
  /\ since \in [Workers -> Nat]
  /\ pump \in {"yes", "no"} => batch # <<>>

BridgeTypes(b) ==
  b \in [Servers -> Bridges] /\ \A s \in Servers : b[s].pc = "send" => b[s].fd \in Conns
WorkerTypes ==
  /\ down \in [Workers -> Seq(Frames)] /\ up \in [Workers -> Nat] /\ shut \in [Workers -> BOOLEAN]
  /\ lis \in [Workers -> {"idle", "asking"}] /\ query \in [Workers -> {"none", "pending", "yes", "no"}]
  /\ gen \in [Workers -> Nat] /\ left \in [Workers -> BOOLEAN]
  /\ inbox \in [Workers -> Seq(Conns)] /\ closed \in [Workers -> BOOLEAN]
  /\ srv \in [Servers -> {"none", "own", "open", "closing", "closed"}]
  /\ buf \in [Servers -> Seq(Conns)] /\ \A s \in Servers : Len(buf[s]) <= BufCap
  /\ BridgeTypes(bridge)
  /\ served \in SUBSET Conns /\ gone \in SUBSET Conns /\ leaked \in [Workers -> SUBSET Conns]
  /\ slow \in Nat /\ kills \in Nat

(* What a process that was never forked has not. *)
UnforkedInv ==
  \A w \in Workers : proc[w] = "none" =>
     /\ ~kid[w].map /\ ~kid[w].marked /\ ~kid[w].exitEmitted /\ w \notin fin
     /\ \A i \in 1 .. Len(imm) : imm[i][2] # w
     /\ \A i \in 1 .. Len(rot) : rot[i] # w

(* The rotation: how often a worker was passed over, and how far its turn is away. *)
Ahead(i) == IF i > idx THEN i - 1 - idx ELSE i - 1 - idx + Len(rot)
RotationInv ==
  /\ \A i, j \in 1 .. Len(rot) : rot[i] = rot[j] => i = j
  /\ IF rot = <<>> THEN idx = 0 ELSE idx < Len(rot)
  /\ \A i \in 1 .. Len(rot) : Sendable(rot[i]) => since[rot[i]] + Ahead(i) < Len(rot)

(* The events of a worker: seen by the program, or in an immediate. *)
Once(s, e) == \A i, j \in 1 .. Len(s) : s[i] = e /\ s[j] = e => i = j
In(s, e) == \E i \in 1 .. Len(s) : s[i] = e
Before(s, d, e) == \A i \in 1 .. Len(s) : s[i] = e => \E j \in 1 .. i - 1 : s[j] = d

Told(w) ==
  /\ Once(log[w], "disconnect") /\ Once(log[w], "exit")
  /\ Once(imm, <<"disconnect", w>>) /\ Once(imm, <<"exit", w>>)
  /\ ~(In(log[w], "disconnect") /\ In(imm, <<"disconnect", w>>))
  /\ ~(In(log[w], "exit") /\ In(imm, <<"exit", w>>))
  /\ kid[w].marked <=> In(log[w], "disconnect") \/ In(imm, <<"disconnect", w>>)
  /\ In(log[w], "exit") \/ In(imm, <<"exit", w>>) => kid[w].exitEmitted
  /\ Before(log[w], "disconnect", "exit")
  /\ In(log[w], "disconnect") \/ Before(imm, <<"disconnect", w>>, <<"exit", w>>)
EventInv == \A w \in Workers : Told(w)

(* A server that does not listen yet has nothing. *)
FreshInv ==
  \A s \in Servers : s[2] > gen[s[1]] \/ (s[2] = gen[s[1]] /\ lis[s[1]] = "asking") =>
     bridge[s].pc = "none"

(* Where connections are: one place has each that was accepted, and has it once. *)
Holders == ({"down", "inbox", "leaked"} \X Workers) \cup ({"buf", "bridge"} \X Servers)
             \cup ({"served", "gone"} \X {0})
Has(p, c) ==
  CASE p[1] = "down" -> In(down[p[2]], Fd(c))
    [] p[1] = "inbox" -> In(inbox[p[2]], c)
    [] p[1] = "leaked" -> c \in leaked[p[2]]
    [] p[1] = "buf" -> In(buf[p[2]], c)
    [] p[1] = "bridge" -> bridge[p[2]].pc = "send" /\ bridge[p[2]].fd = c
    [] p[1] = "served" -> c \in served
    [] OTHER -> c \in gone
Held(p) == {c \in Conns : Has(p, c)}
Split(g, n) ==
  /\ \A p \in Holders : g[p] \subseteq 1 .. n - 1
  /\ \A c \in 1 .. n - 1 : \E p \in Holders : c \in g[p]
  /\ \A p, q \in Holders : \A c \in g[p] : c \in g[q] => p = q
NoTwice ==
  /\ \A w \in Workers : \A c \in Conns : Once(down[w], Fd(c)) /\ Once(inbox[w], c)
  /\ \A s \in Servers : \A c \in Conns : Once(buf[s], c)
OwnerInv == Split([p \in Holders |-> Held(p)], next) /\ NoTwice

ClusterInv ==
  /\ PrimaryTypes /\ WorkerTypes /\ UnforkedInv /\ RotationInv /\ EventInv /\ FreshInv /\ OwnerInv

-----------------------------------------------------------------------------
(* What the steps do to the records of the children. *)
LEMMA KidTypes ==
    ASSUME NEW kd \in [Workers -> Kids], NEW w \in Workers
    PROVE  /\ [kd EXCEPT ![w].connected = FALSE, ![w].send = FALSE, ![w].marked = TRUE] \in [Workers -> Kids]
           /\ [kd EXCEPT ![w].send = FALSE, ![w].connected = FALSE] \in [Workers -> Kids]
           /\ [kd EXCEPT ![w].exitEmitted = TRUE, ![w].marked = TRUE] \in [Workers -> Kids]
           /\ [kd EXCEPT ![w].marked = TRUE] \in [Workers -> Kids]
           /\ [kd EXCEPT ![w].map = FALSE] \in [Workers -> Kids]
           /\ [kd EXCEPT ![w].exited = @ \/ kd[w].map] \in [Workers -> Kids]
           /\ [kd EXCEPT ![w] = NewKid] \in [Workers -> Kids]
  <1>1. \A k2 \in Kids : [kd EXCEPT ![w] = k2] \in [Workers -> Kids]
    OBVIOUS
  <1>2. kd[w] \in Kids
    OBVIOUS
  <1>3. [kd[w] EXCEPT !.connected = FALSE, !.send = FALSE, !.marked = TRUE] \in Kids
    BY <1>2, Zenon DEF Kids
  <1>4. [kd[w] EXCEPT !.send = FALSE, !.connected = FALSE] \in Kids
    BY <1>2, Zenon DEF Kids
  <1>5. [kd[w] EXCEPT !.exitEmitted = TRUE, !.marked = TRUE] \in Kids
    BY <1>2, Zenon DEF Kids
  <1>6. [kd EXCEPT ![w].connected = FALSE, ![w].send = FALSE, ![w].marked = TRUE]
          = [kd EXCEPT ![w] = [kd[w] EXCEPT !.connected = FALSE, !.send = FALSE, !.marked = TRUE]]
    BY Zenon
  <1>7. [kd EXCEPT ![w].send = FALSE, ![w].connected = FALSE]
          = [kd EXCEPT ![w] = [kd[w] EXCEPT !.send = FALSE, !.connected = FALSE]]
    BY Zenon
  <1>8. [kd EXCEPT ![w].exitEmitted = TRUE, ![w].marked = TRUE]
          = [kd EXCEPT ![w] = [kd[w] EXCEPT !.exitEmitted = TRUE, !.marked = TRUE]]
    BY Zenon
  <1>9. /\ [kd EXCEPT ![w].marked = TRUE] \in [Workers -> Kids]
        /\ [kd EXCEPT ![w].map = FALSE] \in [Workers -> Kids]
        /\ [kd EXCEPT ![w].exited = @ \/ kd[w].map] \in [Workers -> Kids]
    BY Zenon DEF Kids
  <1>10. NewKid \in Kids
    BY DEF Kids, NewKid
  <1> QED  BY <1>1, <1>3, <1>4, <1>5, <1>6, <1>7, <1>8, <1>9, <1>10, Zenon

(* The state of the primary begins with its types. *)
LEMMA PrimaryTypesInit == ClusterInit => PrimaryTypes
  <1> SUFFICES ASSUME ClusterInit PROVE PrimaryTypes
    OBVIOUS
  <1>1. NoKid \in Kids
    BY DEF Kids, NewKid, NoKid
  <1>2. kid \in [Workers -> Kids] /\ proc \in [Workers -> {"none", "live", "dead"}]
    BY <1>1 DEF ClusterInit
  <1>3. log \in [Workers -> Seq(Seen)] /\ since \in [Workers -> Nat]
    BY DEF ClusterInit
  <1>4. evq \in Seq(Events) /\ batch \in Seq(Events) /\ imm \in Seq(Imms) /\ rot \in Seq(Workers)
    BY DEF ClusterInit
  <1>5. readerP \in [Workers -> BOOLEAN] /\ reaped \in [Workers -> BOOLEAN] /\ bound \in BOOLEAN
    BY DEF ClusterInit
  <1>6. next \in 1 .. MaxConns + 1 /\ idx \in Nat /\ fin \in SUBSET Workers
    BY ClusterAssumption DEF ClusterInit
  <1>7. pump = "idle"
    BY DEF ClusterInit
  <1> QED  BY <1>2, <1>3, <1>4, <1>5, <1>6, <1>7 DEF PrimaryTypes

(* The state of the workers begins with its types. *)
LEMMA WorkerTypesInit == ClusterInit => WorkerTypes
  <1> SUFFICES ASSUME ClusterInit PROVE WorkerTypes
    OBVIOUS
  <1> USE ClusterAssumption DEF ClusterInit
  <1>1. BridgeTypes(bridge)
    BY DEF Idle, Bridges, BridgeTypes
  <1>2. buf \in [Servers -> Seq(Conns)] /\ \A s \in Servers : Len(buf[s]) <= BufCap
    OBVIOUS
  <1> QED  BY <1>1, <1>2 DEF WorkerTypes

(* The immediates a step adds. *)
LEMMA MarkType ==
    ASSUME NEW i \in Seq(Imms), NEW w \in Workers
    PROVE  Mark(i, w) \in Seq(Imms) /\ Append(i, <<"left", w>>) \in Seq(Imms)
           /\ Append(i, <<"exit", w>>) \in Seq(Imms)
  <1>1. <<"left", w>> \in Imms /\ <<"exit", w>> \in Imms /\ <<"disconnect", w>> \in Imms
    BY DEF Imms
  <1> QED  BY <1>1, AppendProperties DEF Mark

(* The history of a worker after one more event. *)
LEMMA LogType ==
    ASSUME PrimaryTypes, NEW w \in Workers, NEW e \in Seen
    PROVE  [log EXCEPT ![w] = Append(@, e)] \in [Workers -> Seq(Seen)]
  <1>1. Append(log[w], e) \in Seq(Seen)
    BY AppendProperties DEF PrimaryTypes
  <1> QED  BY <1>1 DEF PrimaryTypes

(* The queue of the child reactor after one more event. *)
LEMMA EventType ==
    ASSUME PrimaryTypes, NEW w \in Workers, NEW e \in {"query", "closed", "exited"}
    PROVE  Append(evq, <<e, w>>) \in Seq(Events)
  <1>1. <<e, w>> \in Events
    BY DEF Events
  <1> QED  BY <1>1, AppendProperties DEF PrimaryTypes

(* The event that is pumped, and those behind it. *)
LEMMA BatchType ==
    ASSUME PrimaryTypes, batch # <<>>
    PROVE  /\ Head(batch)[2] \in Workers /\ Head(batch)[1] \in {"query", "closed", "exited"}
           /\ Tail(batch) \in Seq(Events)
  <1>1. Head(batch) \in Events /\ Tail(batch) \in Seq(Events)
    BY HeadTailProperties DEF PrimaryTypes
  <1> QED  BY <1>1 DEF Events

(* An event of the batch, of worker w. *)
PumpsEvent(w) ==
  /\ pump = "drain" /\ batch # <<>> /\ Head(batch)[2] = w /\ Tail(batch) \in Seq(Events)
  /\ \/ PumpQuery(w) /\ batch' = (IF kid[w].map THEN batch ELSE Tail(batch))
     \/ PumpClosed(w) /\ batch' = Tail(batch)
     \/ PumpExited(w) /\ batch' = Tail(batch)

(* cp_reactor_pump handles the event of one worker. *)
LEMMA PumpEventLemma ==
    ASSUME PrimaryTypes, PumpEvent
    PROVE  \E w \in Workers : PumpsEvent(w)
  <1>1. batch # <<>> /\ pump = "drain"
    BY DEF PumpEvent
  <1>2. PICK w \in Workers : w = Head(batch)[2]
    BY <1>1, BatchType
  <1> QED  BY <1>1, <1>2, BatchType DEF PumpEvent, PumpsEvent

(* The immediate that runs, and those behind it. *)
LEMMA ImmType ==
    ASSUME PrimaryTypes, imm # <<>>
    PROVE  /\ Head(imm)[2] \in Workers /\ Head(imm)[1] \in {"left", "disconnect", "exit"}
           /\ Head(imm) = <<Head(imm)[1], Head(imm)[2]>>
           /\ Tail(imm) \in Seq(Imms)
  <1>1. Head(imm) \in Imms /\ Tail(imm) \in Seq(Imms)
    BY HeadTailProperties DEF PrimaryTypes
  <1> QED  BY <1>1 DEF Imms

(* The immediate of event e of worker w. *)
Emits(e, w) ==
  /\ pump = "idle" /\ imm # <<>> /\ Head(imm) = <<e, w>> /\ Tail(imm) \in Seq(Imms)
  /\ \/ /\ e = "left" /\ log' = [log EXCEPT ![w] = Append(@, "worker disconnect")]
        /\ kid' = [kid EXCEPT ![w].marked = TRUE] /\ imm' = Mark(Tail(imm), w)
     \/ e # "left" /\ log' = [log EXCEPT ![w] = Append(@, e)] /\ imm' = Tail(imm) /\ kid' = kid

(* An immediate tells of one event of one worker. *)
LEMMA ImmediateLemma ==
    ASSUME PrimaryTypes, Immediate
    PROVE  \E w \in Workers, e \in {"left", "disconnect", "exit"} : Emits(e, w)
  <1>1. imm # <<>>
    BY DEF Immediate
  <1>2. PICK w \in Workers : w = Head(imm)[2]
    BY <1>1, ImmType
  <1>3. PICK e \in {"left", "disconnect", "exit"} : e = Head(imm)[1]
    BY <1>1, ImmType
  <1> QED  BY <1>1, <1>2, <1>3, ImmType DEF Immediate, Emits

(* What is behind the k-th moves up, after it was taken out. *)
LEMMA RemoveAtLemma ==
    ASSUME NEW r \in Seq(Workers), NEW k \in 1 .. Len(r)
    PROVE  /\ SubSeq(r, 1, k - 1) \o SubSeq(r, k + 1, Len(r)) \in Seq(Workers)
           /\ Len(SubSeq(r, 1, k - 1) \o SubSeq(r, k + 1, Len(r))) = Len(r) - 1
           /\ \A i \in 1 .. Len(r) - 1 : (SubSeq(r, 1, k - 1) \o SubSeq(r, k + 1, Len(r)))[i]
                                           = IF i < k THEN r[i] ELSE r[i + 1]
  <1> DEFINE a == SubSeq(r, 1, k - 1)
             b == SubSeq(r, k + 1, Len(r))
             z == a \o b
  <1>1. a \in Seq(Workers) /\ Len(a) = k - 1 /\ \A i \in 1 .. k - 1 : a[i] = r[i]
    BY SubSeqProperties
  <1>2. b \in Seq(Workers) /\ Len(b) = Len(r) - k /\ \A i \in 1 .. Len(r) - k : b[i] = r[k + i]
    BY SubSeqProperties
  <1> HIDE DEF a, b
  <1>3. /\ z \in Seq(Workers) /\ Len(z) = Len(a) + Len(b)
        /\ \A i \in 1 .. Len(a) + Len(b) : z[i] = IF i <= Len(a) THEN a[i] ELSE b[i - Len(a)]
    BY <1>1, <1>2, ConcatProperties, Zenon
  <1> HIDE DEF z
  <1>4. Len(z) = Len(r) - 1 /\ \A i \in 1 .. Len(r) - 1 : z[i] = IF i < k THEN r[i] ELSE r[i + 1]
    <2>0. Len(r) \in Nat /\ k \in Nat /\ k \in 1 .. Len(r)
      OBVIOUS
    <2>1. Len(a) + Len(b) = Len(r) - 1
      BY <1>1, <1>2, <2>0
    <2>2. ASSUME NEW i \in 1 .. Len(r) - 1, i < k PROVE z[i] = r[i]
      <3>1. i \in 1 .. k - 1 /\ i <= Len(a) /\ i \in 1 .. Len(a) + Len(b)
        BY <1>1, <2>0, <2>1, <2>2
      <3> QED  BY <1>1, <1>3, <3>1
    <2>3. ASSUME NEW i \in 1 .. Len(r) - 1, i >= k PROVE z[i] = r[i + 1]
      <3>1. /\ i - Len(a) \in 1 .. Len(r) - k /\ ~(i <= Len(a)) /\ k + (i - Len(a)) = i + 1
            /\ i \in 1 .. Len(a) + Len(b)
        BY <1>1, <2>0, <2>1, <2>3
      <3>2. z[i] = b[i - Len(a)]
        BY <1>3, <3>1
      <3>3. b[i - Len(a)] = r[k + (i - Len(a))]
        BY <1>2, <3>1
      <3> QED  BY <3>1, <3>2, <3>3
    <2> QED  BY <1>3, <2>0, <2>1, <2>2, <2>3
  <1> QED  BY <1>3, <1>4, Zenon DEF z, a, b

(* RemoveFirst, on a rotation where every worker is once. *)
LEMMA RemoveLemma ==
    ASSUME NEW r \in Seq(Workers), NEW w \in Workers, NEW k \in 1 .. Len(r), r[k] = w,
           \A i, j \in 1 .. Len(r) : r[i] = r[j] => i = j
    PROVE  /\ RemoveFirst(r, w) \in Seq(Workers) /\ Len(RemoveFirst(r, w)) = Len(r) - 1
           /\ \A i \in 1 .. Len(r) - 1 : RemoveFirst(r, w)[i] = IF i < k THEN r[i] ELSE r[i + 1]
  <1> DEFINE I == {i \in 1 .. Len(r) : r[i] = w}
  <1>1. I = {k}
    OBVIOUS
  <1>2. Min(I) = k
    <2>1. \E x \in I : \A y \in I : x <= y
      BY <1>1
    <2> QED  BY <1>1, <2>1 DEF Min
  <1>3. SelectInSeq(r, LAMBDA v : v = w) = k
    BY <1>1, <1>2, Zenon DEF SelectInSeq
  <1>4. RemoveFirst(r, w) = SubSeq(r, 1, k - 1) \o SubSeq(r, k + 1, Len(r))
    <2>1. \E i \in 1 .. Len(r) : r[i] = w
      OBVIOUS
    <2> QED  BY <1>3, <2>1, Zenon DEF RemoveFirst, RemoveAt
  <1>5. k \in 1 .. Len(r) /\ r \in Seq(Workers)
    OBVIOUS
  <1>6. PICK z : z = SubSeq(r, 1, k - 1) \o SubSeq(r, k + 1, Len(r))
    OBVIOUS
  <1>7. z \in Seq(Workers) /\ Len(z) = Len(r) - 1 /\ \A i \in 1 .. Len(r) - 1 : z[i] = IF i < k THEN r[i] ELSE r[i + 1]
    BY <1>5, <1>6, RemoveAtLemma, Zenon
  <1>8. RemoveFirst(r, w) = z
    BY <1>4, <1>6, Zenon
  <1> QED  BY <1>7, <1>8, Zenon

(* RemoveFirst, for a worker that is not in the rotation. *)
LEMMA RemoveNone ==
    ASSUME NEW r \in Seq(Workers), NEW w \in Workers, w \notin Range(r)
    PROVE  RemoveFirst(r, w) = r
  <1>1. ~\E i \in 1 .. Len(r) : r[i] = w
    BY DEF Range
  <1> QED  BY <1>1, Zenon DEF RemoveFirst

(* The least of a set of numbers. *)
LEMMA MinLemma ==
    ASSUME NEW T \in SUBSET Nat, T # {}
    PROVE  Min(T) \in T /\ \A y \in T : Min(T) <= y
  <1>1. PICK x \in T : \A y \in T : ~(<<y, x>> \in OpToRel(<, Nat))
    BY WFMin, NatLessThanWellFounded
  <1>2. ASSUME NEW y \in T PROVE x <= y
    <2>1. x \in Nat /\ y \in Nat
      OBVIOUS
    <2>2. ~(y < x)
      <3>1. OpToRel(<, Nat) = {z \in Nat \X Nat : z[1] < z[2]}
        BY Zenon DEF OpToRel
      <3>2. ~(<<y, x>> \in {z \in Nat \X Nat : z[1] < z[2]})
        BY <1>1, <3>1, Zenon
      <3> QED  BY <2>1, <3>2, Zenon
    <2> QED  BY <2>1, <2>2
  <1> QED  BY <1>1, <1>2 DEF Min

(* The rotation after primary_remove_worker. *)
LEMMA RemoveWorkerType ==
    ASSUME PrimaryTypes, RotationInv, NEW w \in Workers, RemoveWorker(w)
    PROVE  rot' \in Seq(Workers) /\ since' \in [Workers -> Nat] /\ idx' \in Nat
  <1>1. RemoveFirst(rot, w) \in Seq(Workers)
    <2>1. CASE w \in Range(rot)
      <3>1. PICK k \in 1 .. Len(rot) : rot[k] = w
        BY <2>1 DEF PrimaryTypes, Range
      <3> QED  BY <3>1, RemoveLemma DEF PrimaryTypes, RotationInv
    <2> QED  BY <2>1, RemoveNone DEF PrimaryTypes
  <1> QED  BY <1>1 DEF PrimaryTypes, RemoveWorker

(* The place behind the last is the first. *)
LEMMA ModLemma ==
    ASSUME NEW n \in Nat \ {0}, NEW a \in Nat, a < n + n
    PROVE  a % n = IF a < n THEN a ELSE a - n
  OBVIOUS

(* dispatch_fd_round_robin takes the worker of the rotation that is least far ahead. *)
LEMMA AcceptLemma ==
    ASSUME PrimaryTypes, RotationInv, Accept
    PROVE  /\ next \in Conns /\ next' = next + 1 /\ UNCHANGED <<bound, rot>>
           /\ \/ gone' = gone \cup {next} /\ UNCHANGED <<down, idx, since>>
              \/ \E k \in 1 .. Len(rot) :
                   /\ Sendable(rot[k]) /\ gone' = gone
                   /\ down' = [down EXCEPT ![rot[k]] = Append(@, Fd(next))]
                   /\ idx' = IF k = Len(rot) THEN 0 ELSE k
                   /\ since' = [v \in Workers |-> IF v \in Range(rot) \ {rot[k]} THEN since[v] + 1 ELSE 0]
                   /\ \A j \in 1 .. Len(rot) : Sendable(rot[j]) => Ahead(k) <= Ahead(j)
  <1> DEFINE n == Len(rot)
             at(o) == (idx + o) % n
             takes == {o \in 0 .. n - 1 : Sendable(rot[at(o) + 1])}
             m == Min(takes)
             k == at(m) + 1
  <1>1. next \in Conns /\ next' = next + 1 /\ UNCHANGED <<bound, rot>>
    BY ClusterAssumption DEF Accept, PrimaryTypes, Conns
  <1>2. CASE takes = {}
    <2>1. gone' = gone \cup {next} /\ UNCHANGED <<down, idx, since>>
      BY <1>2, Zenon DEF Accept
    <2> QED  BY <1>1, <2>1
  <1>3. CASE takes # {}
    <2>1. n \in Nat \ {0} /\ idx \in Nat /\ idx < n
      <3>1. n \in Nat /\ n # 0
        BY <1>3 DEF PrimaryTypes
      <3> QED  BY <3>1 DEF PrimaryTypes, RotationInv
    <2>2. m \in takes /\ \A o \in takes : m <= o
      <3>1. takes \in SUBSET Nat
        OBVIOUS
      <3> HIDE DEF takes
      <3> QED  BY <1>3, <3>1, MinLemma
    <2>3. \A o \in 0 .. n - 1 : at(o) = IF idx + o < n THEN idx + o ELSE (idx + o) - n
      <3> SUFFICES ASSUME NEW o \in 0 .. n - 1 PROVE at(o) = IF idx + o < n THEN idx + o ELSE (idx + o) - n
        OBVIOUS
      <3> DEFINE a == idx + o
      <3>1. a \in Nat /\ a < n + n
        BY <2>1
      <3>2. a % n = IF a < n THEN a ELSE a - n
        <4> HIDE DEF a, n
        <4> QED  BY <2>1, <3>1, ModLemma
      <3> QED  BY <3>2, Zenon
    <2>4. m \in 0 .. n - 1 /\ Sendable(rot[k])
      BY <2>2
    <2>5. k \in 1 .. n /\ Ahead(k) = m
      <3>1. k = 1 + (IF idx + m < n THEN idx + m ELSE (idx + m) - n)
        <4> HIDE DEF m
        <4>1. at(m) = IF idx + m < n THEN idx + m ELSE (idx + m) - n
          <5> HIDE DEF at, n
          <5> QED  BY <2>3, <2>4
        <4>2. at(m) \in Int /\ k = at(m) + 1
          BY <2>1, <2>4, <4>1
        <4> HIDE DEF at, k
        <4> QED  BY <4>1, <4>2
      <3> HIDE DEF m, k, at
      <3> QED  BY <2>1, <2>4, <3>1 DEF Ahead
    <2>6. NextIndex(at(m)) = IF k = n THEN 0 ELSE k
      <3>1. k \in Nat /\ k < n + n /\ k - n = IF k = n THEN 0 ELSE k - n
        BY <2>1, <2>5
      <3>2. k % n = IF k < n THEN k ELSE k - n
        <4> HIDE DEF k, n
        <4> QED  BY <2>1, <3>1, ModLemma
      <3> QED  BY <2>1, <2>5, <3>1, <3>2 DEF NextIndex
    <2>7. ASSUME NEW j \in 1 .. n, Sendable(rot[j]) PROVE m <= Ahead(j)
      <3>1. Ahead(j) \in 0 .. n - 1 /\ (IF idx + Ahead(j) < n THEN idx + Ahead(j) ELSE (idx + Ahead(j)) - n) = j - 1
        BY <2>1 DEF Ahead
      <3>2. at(Ahead(j)) + 1 = j
        <4> HIDE DEF at, n
        <4>1. at(Ahead(j)) = j - 1
          BY <2>3, <3>1
        <4> QED  BY <4>1
      <3>3. Ahead(j) \in takes
        BY <2>7, <3>1, <3>2
      <3> QED  BY <2>2, <3>3
    <2>8. /\ down' = [down EXCEPT ![rot[k]] = Append(@, Fd(next))] /\ idx' = NextIndex(at(m))
          /\ since' = [v \in Workers |-> IF v \in Range(rot) \ {rot[k]} THEN since[v] + 1 ELSE 0]
          /\ gone' = gone
      BY <1>3, Zenon DEF Accept
    <2> HIDE DEF m, k, at, takes
    <2> QED  BY <1>1, <2>4, <2>5, <2>6, <2>7, <2>8
  <1> QED  BY <1>2, <1>3

(* The variables of the primary, and of the worker, in groups an action leaves alone. *)
primaryvars == <<proc, reactor, key>>
workervars  == <<wire, listens, serving, bounds>>

(* Every step keeps the types of the primary's state. *)
LEMMA PrimaryTypesStep == PrimaryTypes /\ RotationInv /\ ClusterNext => PrimaryTypes'
  <1> SUFFICES ASSUME PrimaryTypes, RotationInv, ClusterNext PROVE PrimaryTypes'
    OBVIOUS
  <1> USE ClusterAssumption
  <1>0. kid \in [Workers -> Kids] /\ log \in [Workers -> Seq(Seen)] /\ imm \in Seq(Imms) /\ rot \in Seq(Workers)
    BY DEF PrimaryTypes
  <1>1. CASE PumpSpawn
    BY <1>1 DEF PrimaryTypes, PumpSpawn, Kids, key
  <1>2. CASE PumpStart
    BY <1>2 DEF PrimaryTypes, PumpStart, key
  <1>3. CASE PumpEvent
    <2>1. PICK w \in Workers : PumpsEvent(w)
      BY <1>3, PumpEventLemma
    <2>2. CASE PumpQuery(w) /\ batch' = (IF kid[w].map THEN batch ELSE Tail(batch))
      <3>1. Append(rot, w) \in Seq(Workers)
        BY AppendProperties DEF PrimaryTypes
      <3>2. batch' \in Seq(Events) /\ (pump' \in {"yes", "no"} => batch' # <<>>)
        BY <2>1, <2>2 DEF PrimaryTypes, PumpQuery, PumpsEvent
      <3>3. /\ bound' \in BOOLEAN /\ rot' \in Seq(Workers) /\ idx' \in Nat /\ since' \in [Workers -> Nat]
            /\ pump' \in {"idle", "drain", "yes", "no", "finish"}
        <4>1. /\ bound' \in {bound, TRUE} /\ rot' \in {rot, Append(rot, w)} /\ idx' = idx
              /\ since' \in {since, [since EXCEPT ![w] = 0]} /\ pump' \in {pump, "yes", "no"}
          BY <2>2 DEF PumpQuery
        <4>2. [since EXCEPT ![w] = 0] \in [Workers -> Nat]
          BY DEF PrimaryTypes
        <4> QED  BY <3>1, <4>1, <4>2 DEF PrimaryTypes
      <3> QED  BY <1>3, <2>2, <3>2, <3>3 DEF PrimaryTypes, PumpEvent, PumpQuery
    <2>3. CASE PumpClosed(w) /\ batch' = Tail(batch)
      <3>0. /\ imm' \in {imm, Mark(imm, w)} /\ log' \in {log, [log EXCEPT ![w] = Append(@, "worker disconnect")]}
            /\ kid' \in {kid, [kid EXCEPT ![w].connected = FALSE, ![w].send = FALSE, ![w].marked = TRUE]}
        BY <2>3 DEF PumpClosed
      <3>1. imm' \in Seq(Imms)
        <4>1. Mark(imm, w) \in Seq(Imms)
          BY <1>0, MarkType
        <4> QED  BY <1>0, <3>0, <4>1
      <3>2. log' \in [Workers -> Seq(Seen)]
        <4>1. "worker disconnect" \in Seen
          BY DEF Seen
        <4>2. [log EXCEPT ![w] = Append(@, "worker disconnect")] \in [Workers -> Seq(Seen)]
          BY <4>1, LogType
        <4> QED  BY <1>0, <3>0, <4>2, Zenon
      <3>3. kid' \in [Workers -> Kids]
        <4>1. [kid EXCEPT ![w].connected = FALSE, ![w].send = FALSE, ![w].marked = TRUE] \in [Workers -> Kids]
          BY <1>0, KidTypes, Zenon
        <4> QED  BY <1>0, <3>0, <4>1, Zenon
      <3> QED  BY <1>3, <2>1, <2>3, <3>1, <3>2, <3>3 DEF PrimaryTypes, PumpEvent, PumpClosed, key, PumpsEvent
    <2>4. CASE PumpExited(w) /\ batch' = Tail(batch)
      <3>1. kid' \in [Workers -> Kids]
        BY <2>4, KidTypes DEF PrimaryTypes, PumpExited
      <3> QED  BY <1>3, <2>1, <2>4, <3>1 DEF PrimaryTypes, PumpEvent, PumpExited, key, PumpsEvent
    <2> QED  BY <2>1, <2>2, <2>3, <2>4 DEF PumpsEvent
  <1>4. CASE PumpReply
    BY <1>4 DEF PrimaryTypes, PumpReply, key
  <1>5. CASE PumpCollect
    BY <1>5 DEF PrimaryTypes, PumpCollect, key
  <1>6. CASE PumpDone
    BY <1>6 DEF PrimaryTypes, PumpDone, key
  <1>7. CASE Immediate
    <2>1. PICK w \in Workers, e \in {"left", "disconnect", "exit"} : Emits(e, w)
      BY <1>7, ImmediateLemma
    <2>2. imm' \in Seq(Imms)
      BY <2>1, MarkType DEF Emits
    <2>3. log' \in [Workers -> Seq(Seen)]
      <3>1. "worker disconnect" \in Seen /\ (e # "left" => e \in Seen)
        BY DEF Seen
      <3>2. \E f \in Seen : log' = [log EXCEPT ![w] = Append(@, f)]
        BY <2>1, <3>1 DEF Emits
      <3> QED  BY <3>2, LogType
    <2>4. kid' \in [Workers -> Kids]
      <3>1. kid' \in {kid, [kid EXCEPT ![w].marked = TRUE]}
        BY <2>1 DEF Emits
      <3>2. [kid EXCEPT ![w].marked = TRUE] \in [Workers -> Kids]
        BY <1>0, KidTypes, Zenon
      <3> QED  BY <1>0, <3>1, <3>2, Zenon
    <2> QED  BY <1>7, <2>2, <2>3, <2>4 DEF PrimaryTypes, Immediate, key
  <1>8. ASSUME NEW w \in Workers, PumpExit(w) PROVE PrimaryTypes'
    <2>1. imm' \in Seq(Imms)
      BY <1>8, MarkType DEF PrimaryTypes, PumpExit, ExitImmediates
    <2>2. log' \in [Workers -> Seq(Seen)]
      BY <1>8, LogType DEF PrimaryTypes, PumpExit, Seen
    <2>3. kid' \in [Workers -> Kids]
      BY <1>8, KidTypes DEF PrimaryTypes, PumpExit
    <2>4. rot' \in Seq(Workers) /\ since' \in [Workers -> Nat] /\ idx' \in Nat
      BY <1>8, RemoveWorkerType DEF PrimaryTypes, PumpExit
    <2> QED  BY <1>8, <2>1, <2>2, <2>3, <2>4 DEF PrimaryTypes, PumpExit, RemoveWorker
  <1>9. ASSUME NEW w \in Workers, PumpClose(w) PROVE PrimaryTypes'
    BY <1>9 DEF PrimaryTypes, PumpClose, Kids, key
  <1>10. CASE Accept
    <2>1. idx' \in Nat /\ since' \in [Workers -> Nat] /\ next' \in 1 .. MaxConns + 1
      <3>1. Len(rot) \in Nat
        BY DEF PrimaryTypes
      <3>2. next' = next + 1 /\ next \in Conns
        BY <1>10, AcceptLemma
      <3>3. (idx' = idx /\ since' = since) \/ \E k \in 1 .. Len(rot) :
              /\ idx' = IF k = Len(rot) THEN 0 ELSE k
              /\ since' = [v \in Workers |-> IF v \in Range(rot) \ {rot[k]} THEN since[v] + 1 ELSE 0]
        BY <1>10, AcceptLemma
      <3>4. idx \in Nat /\ since \in [Workers -> Nat] /\ MaxConns \in Nat
        BY DEF PrimaryTypes
      <3> QED  BY <3>1, <3>2, <3>3, <3>4 DEF Conns
    <2> QED  BY <1>10, <2>1, AcceptLemma DEF PrimaryTypes, Accept, reactor
  <1>11. ASSUME NEW w \in Workers, Fork(w) PROVE PrimaryTypes'
    BY <1>11 DEF PrimaryTypes, Fork, NewKid, Kids, key
  <1>12. ASSUME NEW w \in Workers, Disconnect(w) PROVE PrimaryTypes'
    <2>1. imm' \in Seq(Imms)
      BY <1>12, MarkType DEF PrimaryTypes, Disconnect
    <2>2. kid' \in [Workers -> Kids]
      BY <1>12, KidTypes DEF PrimaryTypes, Disconnect
    <2> QED  BY <1>12, <2>1, <2>2 DEF PrimaryTypes, Disconnect, key
  <1>13. ASSUME NEW w \in Workers, ReaderP(w) PROVE PrimaryTypes'
    <2>1. evq' \in Seq(Events)
      BY <1>13, EventType DEF ReaderP
    <2> QED  BY <1>13, <2>1 DEF PrimaryTypes, ReaderP, key
  <1>14. ASSUME NEW w \in Workers, Waiter(w) PROVE PrimaryTypes'
    <2>1. evq' \in Seq(Events)
      BY <1>14, EventType DEF Waiter
    <2> QED  BY <1>14, <2>1 DEF PrimaryTypes, Waiter, key
  <1>15. ASSUME NEW w \in Workers, Quit(w) \/ WorkerDies(w) PROVE PrimaryTypes'
    BY <1>15 DEF PrimaryTypes, Quit, WorkerDies, End, reactor, key
  <1>16. CASE UNCHANGED primaryvars
    BY <1>16 DEF PrimaryTypes, primaryvars, reactor, key
  <1>17. ASSUME NEW w \in Workers, Listen(w) \/ SelfDisconnect(w) \/ Answer(w) \/ Timeout(w) \/ ReaderW(w) \/ ReaderWEnd(w)
         PROVE UNCHANGED primaryvars
    BY <1>17 DEF Listen, SelfDisconnect, Answer, Timeout, ReaderW, ReaderWEnd, primaryvars
  <1>18. ASSUME NEW s \in Servers, Server(s) \/ ServerClose(s) PROVE UNCHANGED primaryvars
    BY <1>18 DEF Server, BridgeRecv, BridgeSend, Serve, LoopEnd, ServerClose, primaryvars
  <1> QED
    BY <1>1, <1>2, <1>3, <1>4, <1>5, <1>6, <1>7, <1>8, <1>9, <1>10, <1>11, <1>12, <1>13, <1>14, <1>15, <1>16,
       <1>17, <1>18 DEF ClusterNext, Primary, Worker
-----------------------------------------------------------------------------
(* The frames of a channel. *)
LEMMA FrameType ==
    /\ \A c \in Conns : Fd(c) \in Frames
    /\ \A b \in BOOLEAN : Reply(b) \in Frames
    /\ \A f \in Frames : f.type \in {"fd", "reply"} /\ (f.type = "fd" => f.val \in Conns)
  BY DEF Fd, Reply, Frames

(* A server is a listen() of a worker. *)
LEMMA ServerType ==
    ASSUME NEW s \in Servers
    PROVE  s[1] \in Workers /\ s[2] \in 1 .. MaxListens /\ s = <<s[1], s[2]>>
  BY DEF Servers

(* What a bridge thread may become. *)
LEMMA BridgeType ==
    ASSUME NEW b, BridgeTypes(b), NEW s \in Servers
    PROVE  /\ \A pc \in {"check", "parked", "ended"} : BridgeTypes([b EXCEPT ![s].pc = pc])
           /\ \A pc \in {"check", "ended"} : BridgeTypes([b EXCEPT ![s] = [pc |-> pc, fd |-> 0]])
           /\ \A fd \in Conns : BridgeTypes([b EXCEPT ![s] = [pc |-> "send", fd |-> fd]])
  <1> USE ClusterAssumption
  <1>1. ASSUME NEW pc \in {"check", "parked", "ended"} PROVE BridgeTypes([b EXCEPT ![s].pc = pc])
    BY DEF BridgeTypes, Bridges
  <1>2. ASSUME NEW pc \in {"check", "ended"} PROVE BridgeTypes([b EXCEPT ![s] = [pc |-> pc, fd |-> 0]])
    BY DEF BridgeTypes, Bridges
  <1>3. ASSUME NEW fd \in Conns PROVE BridgeTypes([b EXCEPT ![s] = [pc |-> "send", fd |-> fd]])
    BY DEF BridgeTypes, Bridges, Conns
  <1> QED  BY <1>1, <1>2, <1>3

(* fd_cv.notify_all keeps the types of the bridge threads. *)
LEMMA NotifyType ==
    ASSUME WorkerTypes, NEW w \in Workers, Notify(w)
    PROVE  BridgeTypes(bridge')
  BY DEF WorkerTypes, Bridges, BridgeTypes, Notify

(* The state after the end of a process. *)
LEMMA EndType ==
    ASSUME WorkerTypes, NEW w \in Workers, End(w)
    PROVE  /\ down' \in [Workers -> Seq(Frames)] /\ inbox' \in [Workers -> Seq(Conns)]
           /\ leaked' \in [Workers -> SUBSET Conns] /\ gone' \in SUBSET Conns
           /\ buf' \in [Servers -> Seq(Conns)] /\ \A s \in Servers : Len(buf'[s]) <= BufCap
           /\ BridgeTypes(bridge')
           /\ srv' \in [Servers -> {"none", "own", "open", "closing", "closed"}]
  <1> USE ClusterAssumption
  <1>1. /\ down' \in [Workers -> Seq(Frames)] /\ inbox' \in [Workers -> Seq(Conns)]
        /\ leaked' \in [Workers -> SUBSET Conns]
    BY DEF WorkerTypes, End
  <1>2. BridgeTypes(bridge')
    BY DEF WorkerTypes, End, Bridges, Idle, BridgeTypes
  <1>3. buf' \in [Servers -> Seq(Conns)] /\ \A s \in Servers : Len(buf'[s]) <= BufCap
    BY DEF WorkerTypes, End
  <1>4. srv' \in [Servers -> {"none", "own", "open", "closing", "closed"}]
    BY DEF WorkerTypes, End
  <1>5. gone' \in SUBSET Conns
    <2>1. Fds(down[w]) \subseteq Conns
      <3>1. \A j \in DOMAIN down[w] : down[w][j] \in Frames
        BY DEF WorkerTypes
      <3> QED  BY <3>1, FrameType DEF Fds
    <2>2. Range(inbox[w]) \subseteq Conns /\ leaked[w] \subseteq Conns /\ \A s \in Servers : Range(buf[s]) \subseteq Conns
      BY DEF WorkerTypes, Range
    <2>3. \A s \in Servers : bridge[s].pc = "send" => bridge[s].fd \in Conns
      BY DEF WorkerTypes, BridgeTypes
    <2>4. gone \subseteq Conns
      BY DEF WorkerTypes
    <2> DEFINE bufs == UNION {Range(buf[t]) : t \in {u \in Servers : u[1] = w}}
               sends == {bridge[t].fd : t \in {u \in {v \in Servers : v[1] = w} : bridge[u].pc = "send"}}
               mine == Fds(down[w]) \cup Range(inbox[w]) \cup leaked[w] \cup bufs \cup sends
    <2>5. mine \subseteq Conns
      <3>1. bufs \subseteq Conns
        BY <2>2
      <3>2. sends \subseteq Conns
        BY <2>3
      <3> HIDE DEF bufs, sends
      <3> QED  BY <2>1, <2>2, <3>1, <3>2
    <2>6. gone' = gone \cup mine
      BY Zenon DEF End
    <2> HIDE DEF mine
    <2> QED  BY <2>4, <2>5, <2>6
  <1> QED  BY <1>1, <1>2, <1>3, <1>4, <1>5

(* Every step keeps the types of the workers' state. *)
LEMMA WorkerTypesStep == PrimaryTypes /\ RotationInv /\ WorkerTypes /\ ClusterNext => WorkerTypes'
  <1> SUFFICES ASSUME PrimaryTypes, RotationInv, WorkerTypes, ClusterNext PROVE WorkerTypes'
    OBVIOUS
  <1> USE ClusterAssumption
  <1>1. CASE PumpReply
    <2>1. Reply(pump = "yes") \in Frames
      BY FrameType
    <2>2. down' \in [Workers -> Seq(Frames)]
      <3>1. PICK w \in Workers : w = Head(batch)[2]
        BY <1>1, BatchType DEF PumpReply, PrimaryTypes
      <3>2. Append(down[w], Reply(pump = "yes")) \in Seq(Frames)
        BY <2>1, AppendProperties DEF WorkerTypes
      <3>3. down' = down \/ down' = [down EXCEPT ![w] = Append(down[w], Reply(pump = "yes"))]
        BY <1>1, <3>1 DEF PumpReply
      <3> QED  BY <3>2, <3>3 DEF WorkerTypes
    <2> QED  BY <1>1, <2>2 DEF WorkerTypes, PumpReply, listens, serving, bounds
  <1>2. CASE Accept
    <2>1. next \in Conns
      BY <1>2, AcceptLemma
    <2>2. gone' \in SUBSET Conns
      <3>1. gone' \in {gone, gone \cup {next}}
        BY <1>2, AcceptLemma
      <3> QED  BY <2>1, <3>1 DEF WorkerTypes
    <2>3. down' \in [Workers -> Seq(Frames)]
      <3>1. down' = down \/ \E k \in 1 .. Len(rot) : down' = [down EXCEPT ![rot[k]] = Append(@, Fd(next))]
        BY <1>2, AcceptLemma
      <3>2. ASSUME NEW w \in Workers PROVE Append(down[w], Fd(next)) \in Seq(Frames)
        <4>1. Fd(next) \in Frames
          BY <2>1, FrameType
        <4> QED  BY <4>1, AppendProperties DEF WorkerTypes
      <3>3. \A k \in 1 .. Len(rot) : rot[k] \in Workers
        BY DEF PrimaryTypes
      <3>4. ASSUME NEW k \in 1 .. Len(rot), down' = [down EXCEPT ![rot[k]] = Append(@, Fd(next))]
            PROVE  down' \in [Workers -> Seq(Frames)]
        <4>1. PICK w \in Workers : w = rot[k]
          BY <3>3
        <4>2. down' = [down EXCEPT ![w] = Append(down[w], Fd(next))]
          BY <3>4, <4>1
        <4> QED  BY <3>2, <4>2 DEF WorkerTypes
      <3> QED  BY <3>1, <3>4 DEF WorkerTypes
    <2> QED  BY <1>2, <2>2, <2>3 DEF WorkerTypes, Accept, listens, bounds
  <1>3. ASSUME NEW w \in Workers, Disconnect(w) \/ ReaderP(w) \/ SelfDisconnect(w) PROVE WorkerTypes'
    <2>1. CASE Disconnect(w)
      BY <2>1 DEF WorkerTypes, Disconnect, listens, serving, bounds
    <2>2. CASE ReaderP(w)
      <3>1. up' \in [Workers -> Nat]
        <4>1. up' = up \/ (up[w] > 0 /\ up' = [up EXCEPT ![w] = up[w] - 1])
          BY <2>2 DEF ReaderP
        <4>2. up \in [Workers -> Nat] /\ up[w] \in Nat
          BY DEF WorkerTypes
        <4> QED  BY <4>1, <4>2
      <3> QED  BY <2>2, <3>1 DEF WorkerTypes, ReaderP, listens, serving, bounds
    <2>3. CASE SelfDisconnect(w)
      BY <2>3 DEF WorkerTypes, SelfDisconnect, serving, bounds
    <2> QED  BY <1>3, <2>1, <2>2, <2>3
  <1>4. ASSUME NEW w \in Workers, Listen(w) PROVE WorkerTypes'
    <2>1. gen' \in [Workers -> Nat] /\ up' \in [Workers -> Nat]
      <3>1. gen' = [gen EXCEPT ![w] = gen[w] + 1] /\ (up' = up \/ up' = [up EXCEPT ![w] = up[w] + 1])
        BY <1>4 DEF Listen
      <3>2. gen \in [Workers -> Nat] /\ up \in [Workers -> Nat] /\ gen[w] + 1 \in Nat /\ up[w] + 1 \in Nat
        BY DEF WorkerTypes
      <3> QED  BY <3>1, <3>2
    <2>2. lis' \in [Workers -> {"idle", "asking"}] /\ query' \in [Workers -> {"none", "pending", "yes", "no"}]
      BY <1>4 DEF WorkerTypes, Listen
    <2>3. srv' \in [Servers -> {"none", "own", "open", "closing", "closed"}]
      BY <1>4 DEF WorkerTypes, Listen
    <2> QED  BY <1>4, <2>1, <2>2, <2>3 DEF WorkerTypes, Listen, bounds
  <1>5. ASSUME NEW w \in Workers, Answer(w) PROVE WorkerTypes'
    <2>1. lis' \in [Workers -> {"idle", "asking"}] /\ query' \in [Workers -> {"none", "pending", "yes", "no"}]
      BY <1>5 DEF WorkerTypes, Answer
    <2>2. srv' \in [Servers -> {"none", "own", "open", "closing", "closed"}]
      BY <1>5 DEF WorkerTypes, Answer
    <2>3. BridgeTypes(bridge')
      <3>1. PICK s : s = <<w, gen[w]>>
        OBVIOUS
      <3>2. bridge' = [bridge EXCEPT ![s].pc = IF query[w] = "yes" THEN "check" ELSE @]
        BY <1>5, <3>1 DEF Answer
      <3>3. CASE query[w] = "yes" /\ s \in Servers
        <4>1. bridge' = [bridge EXCEPT ![s].pc = "check"]
          BY <3>2, <3>3
        <4> QED  BY <3>3, <4>1, BridgeType DEF WorkerTypes
      <3>4. CASE ~(query[w] = "yes" /\ s \in Servers)
        <4>1. bridge' = bridge
          BY <3>2, <3>4 DEF WorkerTypes, BridgeTypes, Bridges
        <4> QED  BY <4>1 DEF WorkerTypes
      <3> QED  BY <3>3, <3>4
    <2> QED  BY <1>5, <2>1, <2>2, <2>3 DEF WorkerTypes, Answer, wire, bounds
  <1>6. ASSUME NEW w \in Workers, Timeout(w) PROVE WorkerTypes'
    <2>1. lis' \in [Workers -> {"idle", "asking"}] /\ query' \in [Workers -> {"none", "pending", "yes", "no"}]
      BY <1>6 DEF WorkerTypes, Timeout
    <2>2. srv' \in [Servers -> {"none", "own", "open", "closing", "closed"}]
      BY <1>6 DEF WorkerTypes, Timeout
    <2>3. slow' \in Nat
      BY <1>6 DEF WorkerTypes, Timeout
    <2> QED  BY <1>6, <2>1, <2>2, <2>3 DEF WorkerTypes, Timeout, wire
  <1>7. ASSUME NEW w \in Workers, ReaderW(w) PROVE WorkerTypes'
    <2>1. Head(down[w]) \in Frames /\ Tail(down[w]) \in Seq(Frames)
      BY <1>7, HeadTailProperties DEF WorkerTypes, ReaderW
    <2>2. down' \in [Workers -> Seq(Frames)]
      BY <1>7, <2>1 DEF WorkerTypes, ReaderW
    <2>3. CASE Head(down[w]).type = "fd"
      <3>1. Append(inbox[w], Head(down[w]).val) \in Seq(Conns)
        BY <2>1, <2>3, FrameType, AppendProperties DEF WorkerTypes
      <3>2. inbox' = [inbox EXCEPT ![w] = Append(inbox[w], Head(down[w]).val)] /\ Notify(w) /\ query' = query
        BY <1>7, <2>3 DEF ReaderW, Route
      <3>3. inbox' \in [Workers -> Seq(Conns)]
        BY <3>1, <3>2 DEF WorkerTypes
      <3>4. BridgeTypes(bridge')
        BY <3>2, NotifyType
      <3> QED  BY <1>7, <2>2, <3>2, <3>3, <3>4 DEF WorkerTypes, ReaderW, bounds
    <2>4. CASE Head(down[w]).type # "fd"
      <3>1. query' \in [Workers -> {"none", "pending", "yes", "no"}] /\ UNCHANGED <<inbox, bridge>>
        BY <1>7, <2>4 DEF ReaderW, Route, WorkerTypes
      <3> QED  BY <1>7, <2>2, <3>1 DEF WorkerTypes, ReaderW, bounds
    <2> QED  BY <2>3, <2>4
  <1>8. ASSUME NEW w \in Workers, ReaderWEnd(w) PROVE WorkerTypes'
    <2>1. BridgeTypes(bridge')
      BY <1>8, NotifyType DEF ReaderWEnd, Drain
    <2>2. Range(inbox[w]) \in SUBSET Conns
      BY DEF WorkerTypes, Range
    <2> QED  BY <1>8, <2>1, <2>2 DEF WorkerTypes, ReaderWEnd, Drain, wire, listens, bounds
  <1>9. ASSUME NEW w \in Workers, Quit(w) \/ WorkerDies(w) PROVE WorkerTypes'
    <2>1. End(w) /\ kills' \in Nat
      BY <1>9 DEF Quit, WorkerDies, WorkerTypes
    <2> QED  BY <2>1, EndType DEF WorkerTypes, End
  <1>10. ASSUME NEW s \in Servers, BridgeRecv(s) PROVE WorkerTypes'
    <2>1. PICK w \in Workers : w = s[1]
      BY ServerType
    <2>2. CASE inbox[w] # <<>>
      <3>1. Head(inbox[w]) \in Conns /\ Tail(inbox[w]) \in Seq(Conns)
        BY <2>2, HeadTailProperties DEF WorkerTypes
      <3>2. BridgeTypes(bridge')
        <4>2. bridge' = [bridge EXCEPT ![s] = [pc |-> "send", fd |-> Head(inbox[w])]]
          BY <1>10, <2>1, <2>2 DEF BridgeRecv
        <4> QED  BY <3>1, <4>2, BridgeType DEF WorkerTypes
      <3>3. inbox' \in [Workers -> Seq(Conns)]
        BY <1>10, <2>1, <2>2, <3>1 DEF BridgeRecv, WorkerTypes
      <3> QED  BY <1>10, <3>2, <3>3 DEF WorkerTypes, BridgeRecv, wire, listens, bounds
    <2>3. CASE inbox[w] = <<>>
      <3>1. BridgeTypes(bridge') /\ inbox' = inbox
        <4>1. inbox' = inbox /\ bridge' = [bridge EXCEPT ![s].pc = IF closed[w] THEN "ended" ELSE "parked"]
          BY <1>10, <2>1, <2>3 DEF BridgeRecv
        <4> QED  BY <4>1, BridgeType DEF WorkerTypes
      <3> QED  BY <1>10, <3>1 DEF WorkerTypes, BridgeRecv, wire, listens, bounds
    <2> QED  BY <2>2, <2>3
  <1>11. ASSUME NEW s \in Servers, BridgeSend(s) PROVE WorkerTypes'
    <2>1. PICK w \in Workers : w = s[1]
      BY ServerType
    <2>2. bridge[s].fd \in Conns
      BY <1>11 DEF WorkerTypes, BridgeSend, BridgeTypes
    <2>3. CASE /\ Len(buf[s]) < BufCap /\ buf' = [buf EXCEPT ![s] = Append(@, bridge[s].fd)]
               /\ bridge' = [bridge EXCEPT ![s] = [pc |-> "check", fd |-> 0]] /\ leaked' = leaked
      <3>1. Append(buf[s], bridge[s].fd) \in Seq(Conns) /\ Len(Append(buf[s], bridge[s].fd)) = Len(buf[s]) + 1
        BY <2>2, AppendProperties DEF WorkerTypes
      <3>2. buf' \in [Servers -> Seq(Conns)] /\ \A t \in Servers : Len(buf'[t]) <= BufCap
        BY <2>3, <3>1 DEF WorkerTypes
      <3>3. BridgeTypes(bridge')
        BY <2>3, BridgeType DEF WorkerTypes
      <3> QED  BY <1>11, <2>3, <3>2, <3>3 DEF WorkerTypes, BridgeSend, wire, listens, bounds
    <2>4. CASE /\ leaked' = [leaked EXCEPT ![w] = @ \cup {bridge[s].fd}]
               /\ bridge' = [bridge EXCEPT ![s] = [pc |-> "ended", fd |-> 0]] /\ buf' = buf
      <3>1. BridgeTypes(bridge')
        BY <2>4, BridgeType DEF WorkerTypes
      <3>2. leaked' \in [Workers -> SUBSET Conns]
        BY <2>2, <2>4 DEF WorkerTypes
      <3> QED  BY <1>11, <2>4, <3>1, <3>2 DEF WorkerTypes, BridgeSend, wire, listens, bounds
    <2> QED  BY <1>11, <2>1, <2>3, <2>4 DEF BridgeSend
  <1>12. ASSUME NEW s \in Servers, Serve(s) PROVE WorkerTypes'
    <2>1. Head(buf[s]) \in Conns /\ Tail(buf[s]) \in Seq(Conns) /\ Len(Tail(buf[s])) = Len(buf[s]) - 1
      BY <1>12, HeadTailProperties DEF WorkerTypes, Serve
    <2>2. buf' \in [Servers -> Seq(Conns)] /\ \A t \in Servers : Len(buf'[t]) <= BufCap
      BY <1>12, <2>1 DEF WorkerTypes, Serve
    <2> QED  BY <1>12, <2>1, <2>2 DEF WorkerTypes, Serve, wire, listens, bounds
  <1>13. ASSUME NEW s \in Servers, LoopEnd(s) PROVE WorkerTypes'
    <2>1. Range(buf[s]) \in SUBSET Conns /\ s[1] \in Workers
      BY ServerType DEF WorkerTypes, Range
    <2>2. buf' \in [Servers -> Seq(Conns)] /\ \A t \in Servers : Len(buf'[t]) <= BufCap
      BY <1>13 DEF WorkerTypes, LoopEnd
    <2>3. leaked' \in [Workers -> SUBSET Conns]
      BY <1>13, <2>1 DEF WorkerTypes, LoopEnd
    <2> QED  BY <1>13, <2>2, <2>3 DEF WorkerTypes, LoopEnd, wire, listens, bounds
  <1>14. ASSUME NEW s \in Servers, ServerClose(s) PROVE WorkerTypes'
    BY <1>14 DEF WorkerTypes, ServerClose, wire, listens, bounds
  <1>15. CASE UNCHANGED workervars
    BY <1>15 DEF WorkerTypes, workervars, wire, listens, serving, bounds
  <1>16. CASE PumpSpawn \/ PumpStart \/ PumpCollect \/ PumpDone \/ Immediate
    BY <1>15, <1>16 DEF workervars, PumpSpawn, PumpStart, PumpCollect, PumpDone, Immediate
  <1>17. CASE PumpEvent
    <2>1. down' = down
      BY <1>17, PumpEventLemma DEF PumpsEvent, PumpQuery, PumpClosed, PumpExited
    <2> QED  BY <1>15, <1>17, <2>1 DEF workervars, wire, PumpEvent
  <1>18. ASSUME NEW w \in Workers, PumpExit(w) \/ PumpClose(w) \/ Fork(w) \/ Waiter(w) PROVE WorkerTypes'
    BY <1>15, <1>18 DEF workervars, PumpExit, PumpClose, Fork, Waiter
  <1> QED
    BY <1>1, <1>2, <1>3, <1>4, <1>5, <1>6, <1>7, <1>8, <1>9, <1>10, <1>11, <1>12, <1>13, <1>14, <1>16, <1>17, <1>18
       DEF ClusterNext, Primary, Worker, Server

-----------------------------------------------------------------------------
(* Sequences that grow at the end and shrink at the front. *)
LEMMA AppendLemma ==
    ASSUME NEW S, NEW s \in Seq(S), NEW x \in S, NEW d, NEW e
    PROVE  /\ In(Append(s, x), e) <=> In(s, e) \/ x = e
           /\ Once(s, e) /\ (x = e => ~In(s, e)) => Once(Append(s, x), e)
           /\ Before(s, d, e) /\ (x = e => In(s, d)) => Before(Append(s, x), d, e)
  <1> DEFINE n == Len(s)
             t == Append(s, x)
  <1>1. n \in Nat /\ Len(t) = n + 1 /\ t[n + 1] = x /\ \A i \in 1 .. n : t[i] = s[i]
    BY AppendProperties
  <1> HIDE DEF n, t
  <1>2. In(t, e) <=> In(s, e) \/ x = e
    <2>1. ASSUME NEW i \in 1 .. n + 1, t[i] = e PROVE In(s, e) \/ x = e
      BY <1>1, <2>1 DEF In, n
    <2>2. ASSUME NEW i \in 1 .. n, s[i] = e PROVE In(t, e)
      BY <1>1, <2>2 DEF In
    <2>3. ASSUME x = e PROVE In(t, e)
      BY <1>1, <2>3 DEF In
    <2> QED  BY <1>1, <2>1, <2>2, <2>3 DEF In, n
  <1>3. ASSUME Once(s, e), x = e => ~In(s, e) PROVE Once(t, e)
    <2> SUFFICES ASSUME NEW i \in 1 .. n + 1, NEW j \in 1 .. n + 1, t[i] = e, t[j] = e PROVE i = j
      BY <1>1 DEF Once
    <2>1. \A k \in 1 .. n : t[k] = e => ~(x = e) /\ s[k] = e
      BY <1>1, <1>3 DEF In, n
    <2>2. i \in 1 .. n \/ i = n + 1
      BY <1>1
    <2>3. j \in 1 .. n \/ j = n + 1
      BY <1>1
    <2> QED  BY <1>1, <1>3, <2>1, <2>2, <2>3 DEF Once, n
  <1>4. ASSUME Before(s, d, e), x = e => In(s, d) PROVE Before(t, d, e)
    <2> SUFFICES ASSUME NEW i \in 1 .. n + 1, t[i] = e PROVE \E j \in 1 .. i - 1 : t[j] = d
      BY <1>1 DEF Before
    <2>1. CASE i \in 1 .. n
      <3>1. PICK j \in 1 .. i - 1 : s[j] = d
        BY <1>1, <1>4, <2>1 DEF Before, n
      <3>2. j \in 1 .. n
        BY <1>1, <2>1
      <3> QED  BY <1>1, <3>1, <3>2
    <2>2. CASE i = n + 1
      <3>1. PICK j \in 1 .. n : s[j] = d
        BY <1>1, <1>4, <2>2 DEF In, n
      <3>2. j \in 1 .. i - 1
        BY <1>1, <2>2
      <3> QED  BY <1>1, <3>1, <3>2
    <2> QED  BY <1>1, <2>1, <2>2
  <1> QED  BY <1>2, <1>3, <1>4 DEF t

(* What is said of a sequence, after its first entry was taken. *)
LEMMA TailLemma ==
    ASSUME NEW S, NEW s \in Seq(S), s # <<>>, NEW d, NEW e
    PROVE  /\ In(s, e) <=> In(Tail(s), e) \/ Head(s) = e
           /\ Once(s, e) => Once(Tail(s), e)
           /\ Once(s, e) /\ Head(s) = e => ~In(Tail(s), e)
           /\ Before(s, d, e) => Head(s) # e
           /\ Before(s, d, e) /\ Head(s) # d => Before(Tail(s), d, e)
  <1> DEFINE n == Len(s)
             t == Tail(s)
  <1>1. n \in Nat /\ n > 0 /\ Len(t) = n - 1 /\ Head(s) = s[1] /\ \A i \in 1 .. n - 1 : t[i] = s[i + 1]
    BY HeadTailProperties
  <1> HIDE DEF n, t
  <1>2. In(s, e) <=> In(t, e) \/ Head(s) = e
    <2>1. ASSUME NEW i \in 1 .. n, s[i] = e PROVE In(t, e) \/ Head(s) = e
      <3>1. CASE i = 1
        BY <1>1, <2>1, <3>1
      <3>2. CASE i # 1
        <4>1. i - 1 \in 1 .. n - 1 /\ (i - 1) + 1 = i
          BY <1>1, <3>2
        <4> QED  BY <1>1, <2>1, <4>1 DEF In
      <3> QED  BY <3>1, <3>2
    <2>2. ASSUME NEW i \in 1 .. n - 1, t[i] = e PROVE In(s, e)
      <3>1. i + 1 \in 1 .. n
        BY <1>1
      <3> QED  BY <1>1, <2>2, <3>1 DEF In, n
    <2>3. ASSUME Head(s) = e PROVE In(s, e)
      <3>1. 1 \in 1 .. n
        BY <1>1
      <3> QED  BY <1>1, <2>3, <3>1 DEF In, n
    <2> QED  BY <1>1, <2>1, <2>2, <2>3 DEF In, n
  <1>3. ASSUME Once(s, e) PROVE Once(t, e) /\ (Head(s) = e => ~In(t, e))
    <2>1. \A i \in 1 .. n - 1 : i + 1 \in 1 .. n /\ i + 1 # 1
      BY <1>1
    <2>2. 1 \in 1 .. n
      BY <1>1
    <2>3. ASSUME NEW i \in 1 .. n - 1, NEW j \in 1 .. n - 1, t[i] = e, t[j] = e PROVE i = j
      <3>1. i + 1 = j + 1
        BY <1>1, <1>3, <2>1, <2>3 DEF Once, n
      <3> QED  BY <1>1, <3>1
    <2>4. ASSUME Head(s) = e, NEW i \in 1 .. n - 1, t[i] = e PROVE FALSE
      BY <1>1, <1>3, <2>1, <2>2, <2>4 DEF Once, n
    <2> QED  BY <1>1, <2>3, <2>4 DEF Once, In
  <1>4. ASSUME Before(s, d, e) PROVE Head(s) # e
    <2>1. 1 \in 1 .. n /\ ~\E j \in 1 .. 1 - 1 : s[j] = d
      BY <1>1
    <2> QED  BY <1>1, <1>4, <2>1 DEF Before, n
  <1>5. ASSUME Before(s, d, e), Head(s) # d PROVE Before(t, d, e)
    <2> SUFFICES ASSUME NEW i \in 1 .. n - 1, t[i] = e PROVE \E j \in 1 .. i - 1 : t[j] = d
      BY <1>1 DEF Before
    <2>1. i + 1 \in 1 .. n /\ s[i + 1] = e
      BY <1>1
    <2>2. PICK j \in 1 .. (i + 1) - 1 : s[j] = d
      BY <1>5, <2>1 DEF Before, n
    <2>3. j # 1
      BY <1>1, <1>5, <2>2
    <2>4. j - 1 \in 1 .. i - 1 /\ j - 1 \in 1 .. n - 1 /\ (j - 1) + 1 = j
      BY <1>1, <2>2, <2>3
    <2> QED  BY <1>1, <2>2, <2>4
  <1> QED  BY <1>2, <1>3, <1>4, <1>5 DEF t

(* What t says of the events d and e, s does. *)
Same(s, t, d, e) ==
  /\ In(t, d) <=> In(s, d)
  /\ In(t, e) <=> In(s, e)
  /\ Once(s, d) => Once(t, d)
  /\ Once(s, e) => Once(t, e)
  /\ Before(s, d, e) => Before(t, d, e)

(* The changes of a sequence that do not concern the events d and e. *)
LEMMA SameLemma ==
    ASSUME NEW S, NEW s \in Seq(S), NEW d, NEW e
    PROVE  /\ Same(s, s, d, e)
           /\ \A x \in S : x # d /\ x # e => Same(s, Append(s, x), d, e)
           /\ s # <<>> /\ Head(s) # d /\ Head(s) # e => Same(s, Tail(s), d, e)
  <1>1. Same(s, s, d, e)
    BY DEF Same
  <1>2. ASSUME NEW x \in S, x # d, x # e PROVE Same(s, Append(s, x), d, e)
    <2>1. (In(Append(s, x), d) <=> In(s, d)) /\ (In(Append(s, x), e) <=> In(s, e))
      BY <1>2, AppendLemma
    <2>2. (Once(s, d) => Once(Append(s, x), d)) /\ (Once(s, e) => Once(Append(s, x), e))
      BY <1>2, AppendLemma
    <2>3. Before(s, d, e) => Before(Append(s, x), d, e)
      BY <1>2, AppendLemma
    <2> QED  BY <2>1, <2>2, <2>3 DEF Same
  <1>3. ASSUME s # <<>>, Head(s) # d, Head(s) # e PROVE Same(s, Tail(s), d, e)
    <2>1. (In(Tail(s), d) <=> In(s, d)) /\ (In(Tail(s), e) <=> In(s, e))
      BY <1>3, TailLemma
    <2>2. (Once(s, d) => Once(Tail(s), d)) /\ (Once(s, e) => Once(Tail(s), e))
      BY <1>3, TailLemma
    <2>3. Before(s, d, e) => Before(Tail(s), d, e)
      BY <1>3, TailLemma
    <2> QED  BY <2>1, <2>2, <2>3 DEF Same
  <1> QED  BY <1>1, <1>2, <1>3

(* A step that does not concern the events of worker w. *)
LEMMA ToldSame ==
    ASSUME NEW w \in Workers, Told(w), Same(log[w], log'[w], "disconnect", "exit"),
           Same(imm, imm', <<"disconnect", w>>, <<"exit", w>>),
           kid'[w].marked <=> kid[w].marked, kid'[w].exitEmitted <=> kid[w].exitEmitted
    PROVE  Told(w)'
  BY DEF Told, Same

(* The queue of immediates after mark_worker_disconnected. *)
LEMMA MarkLemma ==
    ASSUME NEW w \in Workers, Told(w), NEW i \in Seq(Imms), Same(imm, i, <<"disconnect", w>>, <<"exit", w>>)
    PROVE  LET m == Mark(i, w)
           IN  /\ Once(m, <<"disconnect", w>>) /\ Once(m, <<"exit", w>>)
               /\ ~(In(log[w], "disconnect") /\ In(m, <<"disconnect", w>>))
               /\ In(log[w], "disconnect") \/ In(m, <<"disconnect", w>>)
               /\ In(m, <<"exit", w>>) <=> In(imm, <<"exit", w>>)
               /\ In(log[w], "disconnect") \/ Before(m, <<"disconnect", w>>, <<"exit", w>>)
  <1>1. CASE kid[w].marked
    BY <1>1 DEF Mark, Told, Same
  <1>2. CASE ~kid[w].marked
    <2> DEFINE m == Append(i, <<"disconnect", w>>)
    <2>1. Mark(i, w) = m
      BY <1>2 DEF Mark
    <2>2. ~In(log[w], "disconnect") /\ ~In(i, <<"disconnect", w>>) /\ Once(i, <<"disconnect", w>>) /\ Once(i, <<"exit", w>>)
      BY <1>2 DEF Told, Same
    <2>3. <<"disconnect", w>> \in Imms /\ <<"disconnect", w>> # <<"exit", w>>
      BY DEF Imms
    <2>4. In(m, <<"disconnect", w>>) /\ Once(m, <<"disconnect", w>>)
      BY <2>2, <2>3, AppendLemma
    <2>5. Once(m, <<"exit", w>>) /\ (In(m, <<"exit", w>>) <=> In(i, <<"exit", w>>))
      BY <2>2, <2>3, AppendLemma
    <2>6. Before(i, <<"disconnect", w>>, <<"exit", w>>)
      BY <2>2 DEF Told, Same
    <2>7. Before(m, <<"disconnect", w>>, <<"exit", w>>)
      BY <2>3, <2>6, AppendLemma
    <2> HIDE DEF m
    <2> QED  BY <2>1, <2>2, <2>4, <2>5, <2>7 DEF Same
  <1> QED  BY <1>1, <1>2

(* A worker that is marked now, and whose channel's end the program was told of. *)
LEMMA ToldMarked ==
    ASSUME NEW w \in Workers, Told(w), NEW i \in Seq(Imms), Same(imm, i, <<"disconnect", w>>, <<"exit", w>>),
           imm' = Mark(i, w), Same(log[w], log'[w], "disconnect", "exit"),
           kid'[w].marked, kid'[w].exitEmitted <=> kid[w].exitEmitted
    PROVE  Told(w)'
  <1> DEFINE m == Mark(i, w)
  <1>1. /\ Once(m, <<"disconnect", w>>) /\ Once(m, <<"exit", w>>)
        /\ ~(In(log[w], "disconnect") /\ In(m, <<"disconnect", w>>))
        /\ In(log[w], "disconnect") \/ In(m, <<"disconnect", w>>)
        /\ In(m, <<"exit", w>>) <=> In(imm, <<"exit", w>>)
        /\ In(log[w], "disconnect") \/ Before(m, <<"disconnect", w>>, <<"exit", w>>)
    BY MarkLemma, Zenon
  <1>2. imm' = m
    OBVIOUS
  <1> HIDE DEF m
  <1> QED  BY <1>1, <1>2 DEF Told, Same

(* The others are not concerned by an event of worker w. *)
LEMMA OthersLemma ==
    ASSUME NEW w \in Workers, NEW v \in Workers, v # w, NEW i \in Seq(Imms)
    PROVE  /\ Same(i, Mark(i, w), <<"disconnect", v>>, <<"exit", v>>)
           /\ Same(i, Append(Mark(i, w), <<"exit", w>>), <<"disconnect", v>>, <<"exit", v>>)
           /\ Same(i, Append(i, <<"left", w>>), <<"disconnect", v>>, <<"exit", v>>)
           /\ i # <<>> /\ Head(i)[2] = w => Same(i, Tail(i), <<"disconnect", v>>, <<"exit", v>>)
  <1>0. <<"disconnect", w>> \in Imms /\ <<"exit", w>> \in Imms /\ <<"left", w>> \in Imms
    BY DEF Imms
  <1>1. Same(i, Mark(i, w), <<"disconnect", v>>, <<"exit", v>>) /\ Mark(i, w) \in Seq(Imms)
    <2>1. Same(i, Append(i, <<"disconnect", w>>), <<"disconnect", v>>, <<"exit", v>>)
      BY <1>0, SameLemma
    <2>2. Same(i, i, <<"disconnect", v>>, <<"exit", v>>)
      BY SameLemma
    <2> QED  BY <2>1, <2>2, MarkType DEF Mark
  <1>2. Same(Mark(i, w), Append(Mark(i, w), <<"exit", w>>), <<"disconnect", v>>, <<"exit", v>>)
    BY <1>0, <1>1, SameLemma
  <1>3. Same(i, Append(i, <<"left", w>>), <<"disconnect", v>>, <<"exit", v>>)
    BY <1>0, SameLemma
  <1>4. ASSUME i # <<>>, Head(i)[2] = w PROVE Same(i, Tail(i), <<"disconnect", v>>, <<"exit", v>>)
    <2>1. Head(i) # <<"disconnect", v>> /\ Head(i) # <<"exit", v>>
      BY <1>4
    <2> QED  BY <1>4, <2>1, SameLemma
  <1> QED  BY <1>1, <1>2, <1>3, <1>4 DEF Same

-----------------------------------------------------------------------------
(* No immediate of worker v. *)
Silent(s, v) == \A i \in 1 .. Len(s) : s[i][2] # v

(* The immediates of another worker. *)
LEMMA SilentLemma ==
    ASSUME NEW s \in Seq(Imms), NEW v \in Workers, NEW w \in Workers, v # w, Silent(s, v)
    PROVE  /\ \A e \in {"left", "disconnect", "exit"} : Silent(Append(s, <<e, w>>), v)
           /\ Silent(Mark(s, w), v) /\ Silent(Append(Mark(s, w), <<"exit", w>>), v)
           /\ s # <<>> => Silent(Tail(s), v) /\ Head(s)[2] # v
  <1>1. ASSUME NEW t \in Seq(Imms), Silent(t, v), NEW e \in {"left", "disconnect", "exit"}
        PROVE  Append(t, <<e, w>>) \in Seq(Imms) /\ Silent(Append(t, <<e, w>>), v)
    <2>1. <<e, w>> \in Imms /\ <<e, w>>[2] # v
      BY DEF Imms
    <2>2. PICK a : a = Append(t, <<e, w>>)
      OBVIOUS
    <2>3. a \in Seq(Imms) /\ Len(a) = Len(t) + 1 /\ a[Len(t) + 1] = <<e, w>> /\ \A i \in 1 .. Len(t) : a[i] = t[i]
      BY <2>1, <2>2, AppendProperties
    <2>4. Len(t) \in Nat
      OBVIOUS
    <2> QED  BY <1>1, <2>1, <2>2, <2>3, <2>4 DEF Silent
  <1>2. Silent(Mark(s, w), v) /\ Mark(s, w) \in Seq(Imms)
    BY <1>1 DEF Mark
  <1>3. ASSUME s # <<>> PROVE Silent(Tail(s), v) /\ Head(s)[2] # v
    <2>1. PICK a : a = Tail(s)
      OBVIOUS
    <2>2. Len(s) \in Nat /\ Len(s) > 0 /\ Len(a) = Len(s) - 1 /\ Head(s) = s[1] /\ \A i \in 1 .. Len(s) - 1 : a[i] = s[i + 1]
      BY <1>3, <2>1, HeadTailProperties
    <2> QED  BY <2>1, <2>2 DEF Silent
  <1> QED  BY <1>1, <1>2, <1>3

(* What worker v that was never forked has not. *)
Unknown(v) ==
  /\ ~kid[v].map /\ ~kid[v].marked /\ ~kid[v].exitEmitted /\ v \notin fin
  /\ Silent(imm, v)
  /\ \A i \in 1 .. Len(rot) : rot[i] # v

(* A step that leaves the reactor and the rotation alone. *)
LEMMA UnknownSame ==
    ASSUME NEW v \in Workers, Unknown(v), UNCHANGED <<kid, fin, imm, rot>> PROVE Unknown(v)'
  BY DEF Unknown, Silent

(* Every step keeps a worker that was not forked unknown. *)
LEMMA UnforkedStep == PrimaryTypes /\ RotationInv /\ UnforkedInv /\ ClusterNext => UnforkedInv'
  <1> SUFFICES ASSUME PrimaryTypes, RotationInv, UnforkedInv, ClusterNext, NEW v \in Workers, proc'[v] = "none"
               PROVE  Unknown(v)'
    BY DEF UnforkedInv, Unknown, Silent
  <1>0. proc \in [Workers -> {"none", "live", "dead"}] /\ kid \in [Workers -> Kids] /\ imm \in Seq(Imms) /\ rot \in Seq(Workers)
        /\ Len(rot) \in Nat
    BY DEF PrimaryTypes
  <1>n. ASSUME proc[v] = "none" PROVE Unknown(v)
    BY <1>n DEF UnforkedInv, Unknown, Silent
  <1>1. CASE PumpSpawn
    <2>1. Unknown(v) /\ UNCHANGED <<fin, imm, rot>> /\ kid'[v] = [kid[v] EXCEPT !.spawned = @ \/ v \in Unspawned]
      BY <1>1, <1>n DEF PumpSpawn, key
    <2>2. kid[v] \in Kids
      BY <1>0
    <2>3. kid'[v].map = kid[v].map /\ kid'[v].marked = kid[v].marked /\ kid'[v].exitEmitted = kid[v].exitEmitted
      BY <2>1, <2>2 DEF Kids
    <2> QED  BY <2>1, <2>3 DEF Unknown, Silent
  <1>2. CASE PumpStart \/ PumpReply \/ PumpDone
    <2>1. Unknown(v) /\ UNCHANGED <<kid, fin, imm, rot>>
      BY <1>2, <1>n DEF PumpStart, PumpReply, PumpDone, key
    <2> QED  BY <2>1, UnknownSame
  <1>3. CASE PumpEvent
    <2>1. PICK w \in Workers : PumpsEvent(w)
      BY <1>3, PumpEventLemma
    <2>2. Unknown(v) /\ fin' = fin
      BY <1>3, <1>n DEF PumpEvent
    <2>3. CASE PumpQuery(w)
      <3>1. UNCHANGED <<kid, imm>> /\ (rot' = rot \/ (rot' = Append(rot, w) /\ kid[w].map))
        BY <2>3 DEF PumpQuery
      <3>2. ASSUME rot' = Append(rot, w), w # v PROVE \A i \in 1 .. Len(rot') : rot'[i] # v
        <4>1. Len(rot') = Len(rot) + 1 /\ rot'[Len(rot) + 1] = w /\ \A i \in 1 .. Len(rot) : rot'[i] = rot[i]
          BY <1>0, <3>2, AppendProperties
        <4> QED  BY <1>0, <2>2, <3>2, <4>1 DEF Unknown
      <3>3. kid[w].map => w # v
        BY <2>2 DEF Unknown
      <3> QED  BY <2>2, <3>1, <3>2, <3>3 DEF Unknown, Silent
    <2>4. CASE PumpClosed(w)
      <3>1. rot' = rot
        BY <2>4 DEF PumpClosed, key
      <3>2. UNCHANGED <<kid, imm>> \/ ( /\ kid[w].map /\ imm' = Mark(imm, w)
              /\ kid' = [kid EXCEPT ![w].connected = FALSE, ![w].send = FALSE, ![w].marked = TRUE])
        BY <2>4 DEF PumpClosed
      <3>3. kid[w].map => w # v
        BY <2>2 DEF Unknown
      <3>4. CASE kid[w].map /\ imm' = Mark(imm, w)
              /\ kid' = [kid EXCEPT ![w].connected = FALSE, ![w].send = FALSE, ![w].marked = TRUE]
        <4>1. kid'[v] = kid[v]
          BY <1>0, <3>3, <3>4
        <4>2. Silent(imm', v)
          BY <1>0, <2>2, <3>3, <3>4, SilentLemma DEF Unknown
        <4> QED  BY <2>2, <3>1, <4>1, <4>2 DEF Unknown, Silent
      <3> QED  BY <2>2, <3>1, <3>2, <3>4, UnknownSame
    <2>5. CASE PumpExited(w)
      <3>1. UNCHANGED <<rot, imm>> /\ kid' = [kid EXCEPT ![w].exited = @ \/ kid[w].map]
        BY <2>5 DEF PumpExited, key
      <3>2. kid[w] \in Kids /\ kid[v] \in Kids
        BY <1>0
      <3>3. kid'[v].map = kid[v].map /\ kid'[v].marked = kid[v].marked /\ kid'[v].exitEmitted = kid[v].exitEmitted
        BY <1>0, <3>1, <3>2 DEF Kids
      <3> QED  BY <2>2, <3>1, <3>3 DEF Unknown, Silent
    <2> QED  BY <2>1, <2>3, <2>4, <2>5 DEF PumpsEvent
  <1>4. CASE PumpCollect
    BY <1>4, <1>n DEF PumpCollect, Unknown, Silent, key
  <1>5. CASE Immediate
    <2>1. PICK w \in Workers, e \in {"left", "disconnect", "exit"} : Emits(e, w)
      BY <1>5, ImmediateLemma
    <2>2. Unknown(v) /\ UNCHANGED <<fin, rot>>
      BY <1>5, <1>n DEF Immediate, key
    <2>3. imm # <<>> /\ Head(imm)[2] = w /\ Tail(imm) \in Seq(Imms)
      <3>1. imm # <<>> /\ Head(imm) = <<e, w>> /\ Tail(imm) \in Seq(Imms)
        BY <2>1 DEF Emits
      <3> QED  BY <3>1
    <2>4. w # v
      <3>1. Head(imm) = imm[1] /\ 1 \in 1 .. Len(imm)
        BY <1>0, <2>3
      <3> QED  BY <2>2, <2>3, <3>1 DEF Unknown, Silent
    <2>5. Silent(Tail(imm), v)
      BY <1>0, <2>2, <2>3, <2>4, SilentLemma DEF Unknown
    <2>6. Silent(Mark(Tail(imm), w), v)
      BY <2>3, <2>4, <2>5, SilentLemma
    <2>7. imm' \in {Tail(imm), Mark(Tail(imm), w)} /\ kid' \in {kid, [kid EXCEPT ![w].marked = TRUE]}
      BY <2>1 DEF Emits
    <2>8. kid'[v] = kid[v]
      BY <1>0, <2>4, <2>7
    <2>9. Silent(imm', v)
      BY <2>5, <2>6, <2>7
    <2> QED  BY <2>2, <2>8, <2>9 DEF Unknown, Silent
  <1>6. ASSUME NEW w \in Workers, PumpExit(w) PROVE Unknown(v)'
    <2>1. Unknown(v) /\ w \in fin /\ fin' = fin \ {w} /\ imm' = Append(Mark(imm, w), <<"exit", w>>)
          /\ kid' = [kid EXCEPT ![w].exitEmitted = TRUE, ![w].marked = TRUE] /\ RemoveWorker(w)
      BY <1>6, <1>n DEF PumpExit, ExitImmediates
    <2>2. w # v
      BY <2>1 DEF Unknown
    <2>3. kid'[v] = kid[v]
      BY <1>0, <2>1, <2>2
    <2>4. Silent(imm', v)
      BY <1>0, <2>1, <2>2, SilentLemma DEF Unknown
    <2>5. \A i \in 1 .. Len(rot') : rot'[i] # v
      <3>1. CASE w \in Range(rot)
        <4>1. PICK k \in 1 .. Len(rot) : rot[k] = w
          BY <1>0, <3>1 DEF Range
        <4>2. Len(rot') = Len(rot) - 1 /\ \A i \in 1 .. Len(rot) - 1 : rot'[i] = IF i < k THEN rot[i] ELSE rot[i + 1]
          BY <1>0, <2>1, <4>1, RemoveLemma DEF RemoveWorker, RotationInv
        <4>3. \A i \in 1 .. Len(rot) : rot[i] # v
          BY <2>1 DEF Unknown
        <4>4. \A i \in 1 .. Len(rot) - 1 : rot[i] # v /\ rot[i + 1] # v
          BY <1>0, <4>3
        <4> QED  BY <4>2, <4>4
      <3>2. CASE w \notin Range(rot)
        BY <1>0, <2>1, <3>2, RemoveNone DEF RemoveWorker, Unknown
      <3> QED  BY <3>1, <3>2
    <2> QED  BY <2>1, <2>3, <2>4, <2>5 DEF Unknown, Silent
  <1>7. ASSUME NEW w \in Workers, PumpClose(w) PROVE Unknown(v)'
    <2>1. Unknown(v) /\ w \in fin /\ fin' = fin \ {w} /\ UNCHANGED <<imm, rot>> /\ kid' = [kid EXCEPT ![w].map = FALSE]
      BY <1>7, <1>n DEF PumpClose, key
    <2>2. w # v
      BY <2>1 DEF Unknown
    <2>3. kid'[v] = kid[v]
      BY <1>0, <2>1, <2>2
    <2> QED  BY <2>1, <2>3 DEF Unknown, Silent
  <1>8. CASE Accept
    <2>1. Unknown(v) /\ UNCHANGED <<kid, fin, imm, rot>>
      BY <1>8, <1>n DEF Accept, reactor
    <2> QED  BY <2>1, UnknownSame
  <1>9. ASSUME NEW w \in Workers, Fork(w) PROVE Unknown(v)'
    <2>1. w # v /\ proc[v] = "none" /\ kid' = [kid EXCEPT ![w] = NewKid] /\ UNCHANGED <<fin, imm, rot>>
      BY <1>0, <1>9 DEF Fork, key
    <2>2. kid'[v] = kid[v]
      BY <1>0, <2>1
    <2> QED  BY <1>n, <2>1, <2>2 DEF Unknown, Silent
  <1>10. ASSUME NEW w \in Workers, Disconnect(w) PROVE Unknown(v)'
    <2>1. Unknown(v) /\ kid[w].map /\ imm' = Append(imm, <<"left", w>>) /\ UNCHANGED <<fin, rot>>
          /\ kid' = [kid EXCEPT ![w].send = FALSE, ![w].connected = FALSE]
      BY <1>10, <1>n DEF Disconnect, key
    <2>2. w # v
      BY <2>1 DEF Unknown
    <2>3. kid'[v] = kid[v]
      BY <1>0, <2>1, <2>2
    <2>4. Silent(imm', v)
      BY <1>0, <2>1, <2>2, SilentLemma DEF Unknown
    <2> QED  BY <2>1, <2>3, <2>4 DEF Unknown, Silent
  <1>11. ASSUME NEW w \in Workers, ReaderP(w) \/ Waiter(w) PROVE Unknown(v)'
    <2>1. Unknown(v) /\ UNCHANGED <<kid, fin, imm, rot>>
      BY <1>11, <1>n DEF ReaderP, Waiter, key
    <2> QED  BY <2>1, UnknownSame
  <1>12. ASSUME NEW w \in Workers, Quit(w) \/ WorkerDies(w) PROVE Unknown(v)'
    <2>1. proc' = [proc EXCEPT ![w] = "dead"] /\ UNCHANGED <<kid, fin, imm, rot>>
      BY <1>12 DEF Quit, WorkerDies, End, reactor, key
    <2>2. proc[v] = "none"
      BY <1>0, <2>1
    <2> QED  BY <1>n, <2>1, <2>2, UnknownSame
  <1>13. CASE UNCHANGED primaryvars
    <2>1. Unknown(v) /\ UNCHANGED <<kid, fin, imm, rot>>
      BY <1>13, <1>n DEF primaryvars, reactor, key
    <2> QED  BY <2>1, UnknownSame
  <1>17. ASSUME NEW w \in Workers, Listen(w) \/ SelfDisconnect(w) \/ Answer(w) \/ Timeout(w) \/ ReaderW(w) \/ ReaderWEnd(w)
         PROVE UNCHANGED primaryvars
    BY <1>17 DEF Listen, SelfDisconnect, Answer, Timeout, ReaderW, ReaderWEnd, primaryvars
  <1>18. ASSUME NEW s \in Servers, Server(s) \/ ServerClose(s) PROVE UNCHANGED primaryvars
    BY <1>18 DEF Server, BridgeRecv, BridgeSend, Serve, LoopEnd, ServerClose, primaryvars
  <1> QED
    BY <1>1, <1>2, <1>3, <1>4, <1>5, <1>6, <1>7, <1>8, <1>9, <1>10, <1>11, <1>12, <1>13, <1>17, <1>18
    DEF ClusterNext, Primary, Worker

-----------------------------------------------------------------------------
(* Two changes that keep what is said of the events, one after the other. *)
LEMMA SameTwice ==
    ASSUME NEW r, NEW s, NEW t, NEW d, NEW e, Same(r, s, d, e), Same(s, t, d, e)
    PROVE  Same(r, t, d, e)
  BY DEF Same

(* What a step tells the program of worker w itself does not concern the events *)
(* of the cluster. *)
LEMMA WorkerLog ==
    ASSUME PrimaryTypes, NEW w \in Workers, NEW v \in Workers, NEW e \in {"worker disconnect", "worker exit"},
           log' = [log EXCEPT ![w] = Append(@, e)]
    PROVE  Same(log[v], log'[v], "disconnect", "exit")
  <1>1. log[v] \in Seq(Seen) /\ log[w] \in Seq(Seen) /\ e \in Seen /\ e # "disconnect" /\ e # "exit"
    BY DEF PrimaryTypes, Seen
  <1>2. log'[v] = IF v = w THEN Append(log[v], e) ELSE log[v]
    BY DEF PrimaryTypes
  <1> QED  BY <1>1, <1>2, SameLemma

(* The fields the events are about, at a change of the others. *)
LEMMA KidFields ==
    ASSUME PrimaryTypes, NEW w \in Workers, NEW v \in Workers
    PROVE  /\ kid' = [kid EXCEPT ![w].connected = FALSE, ![w].send = FALSE, ![w].marked = TRUE]
                => kid'[v].marked = (kid[v].marked \/ v = w) /\ kid'[v].exitEmitted = kid[v].exitEmitted
           /\ kid' = [kid EXCEPT ![w].marked = TRUE]
                => kid'[v].marked = (kid[v].marked \/ v = w) /\ kid'[v].exitEmitted = kid[v].exitEmitted
           /\ kid' = [kid EXCEPT ![w].exitEmitted = TRUE, ![w].marked = TRUE]
                => kid'[v].marked = (kid[v].marked \/ v = w) /\ kid'[v].exitEmitted = (kid[v].exitEmitted \/ v = w)
           /\ ( \/ kid' = [kid EXCEPT ![w].exited = @ \/ kid[w].map]
                \/ kid' = [kid EXCEPT ![w].map = FALSE]
                \/ kid' = [kid EXCEPT ![w].send = FALSE, ![w].connected = FALSE] )
                => kid'[v].marked = kid[v].marked /\ kid'[v].exitEmitted = kid[v].exitEmitted
  <1>1. kid \in [Workers -> Kids] /\ kid[w] \in Kids /\ kid[v] \in Kids
    BY DEF PrimaryTypes
  <1>2. CASE v # w
    BY <1>1, <1>2 DEF Kids
  <1>3. CASE v = w
    <2>1. ASSUME kid' = [kid EXCEPT ![w].connected = FALSE, ![w].send = FALSE, ![w].marked = TRUE]
          PROVE  kid'[v].marked = TRUE /\ kid'[v].exitEmitted = kid[v].exitEmitted
      BY <1>1, <1>3, <2>1 DEF Kids
    <2>2. ASSUME kid' = [kid EXCEPT ![w].marked = TRUE]
          PROVE  kid'[v].marked = TRUE /\ kid'[v].exitEmitted = kid[v].exitEmitted
      BY <1>1, <1>3, <2>2 DEF Kids
    <2>3. ASSUME kid' = [kid EXCEPT ![w].exitEmitted = TRUE, ![w].marked = TRUE]
          PROVE  kid'[v].marked = TRUE /\ kid'[v].exitEmitted = TRUE
      BY <1>1, <1>3, <2>3 DEF Kids
    <2>4. ASSUME \/ kid' = [kid EXCEPT ![w].exited = @ \/ kid[w].map]
                 \/ kid' = [kid EXCEPT ![w].map = FALSE]
                 \/ kid' = [kid EXCEPT ![w].send = FALSE, ![w].connected = FALSE]
          PROVE  kid'[v].marked = kid[v].marked /\ kid'[v].exitEmitted = kid[v].exitEmitted
      BY <1>1, <1>3, <2>4 DEF Kids
    <2>5. (kid[v].marked \/ v = w) = TRUE /\ (kid[v].exitEmitted \/ v = w) = TRUE
      BY <1>3
    <2> QED  BY <2>1, <2>2, <2>3, <2>4, <2>5, Zenon
  <1> QED  BY <1>2, <1>3

(* Every step keeps what is said of the events: mark_worker_disconnected queues one
   disconnect, and cluster_internal_exit one exit behind it. *)
LEMMA EventStep == PrimaryTypes /\ UnforkedInv /\ EventInv /\ ClusterNext => EventInv'
  <1> SUFFICES ASSUME PrimaryTypes, UnforkedInv, EventInv, ClusterNext, NEW v \in Workers PROVE Told(v)'
    BY DEF EventInv
  <1>0. Told(v) /\ imm \in Seq(Imms) /\ log \in [Workers -> Seq(Seen)] /\ kid \in [Workers -> Kids] /\ log[v] \in Seq(Seen)
    BY DEF EventInv, PrimaryTypes
  <1>s. Same(log[v], log[v], "disconnect", "exit") /\ Same(imm, imm, <<"disconnect", v>>, <<"exit", v>>)
    BY DEF Same
  <1>1. CASE PumpSpawn
    <2>1. UNCHANGED <<imm, log>> /\ kid'[v] = [kid[v] EXCEPT !.spawned = @ \/ v \in Unspawned]
      BY <1>1 DEF PumpSpawn
    <2>2. kid[v] \in Kids
      BY <1>0
    <2>3. kid'[v].marked = kid[v].marked /\ kid'[v].exitEmitted = kid[v].exitEmitted
      BY <2>1, <2>2 DEF Kids
    <2> QED  BY <1>0, <1>s, <2>1, <2>3, ToldSame
  <1>2. CASE UNCHANGED <<kid, imm, log>>
    BY <1>0, <1>2 DEF Told
  <1>3. CASE PumpEvent
    <2>1. PICK w \in Workers : PumpsEvent(w)
      BY <1>3, PumpEventLemma
    <2>2. CASE PumpQuery(w)
      BY <1>2, <2>2 DEF PumpQuery
    <2>3. CASE /\ imm' = Mark(imm, w) /\ log' = [log EXCEPT ![w] = Append(@, "worker disconnect")]
               /\ kid' = [kid EXCEPT ![w].connected = FALSE, ![w].send = FALSE, ![w].marked = TRUE]
      <3>1. Same(log[v], log'[v], "disconnect", "exit")
        BY <2>3, WorkerLog
      <3>2. kid'[v].marked = (kid[v].marked \/ v = w) /\ kid'[v].exitEmitted = kid[v].exitEmitted
        BY <2>3, KidFields
      <3>3. CASE v = w
        BY <1>0, <1>s, <2>3, <3>1, <3>2, <3>3, ToldMarked
      <3>4. CASE v # w
        <4>1. Same(imm, imm', <<"disconnect", v>>, <<"exit", v>>)
          BY <1>0, <2>3, <3>4, OthersLemma
        <4> QED  BY <1>0, <3>1, <3>2, <3>4, <4>1, ToldSame
      <3> QED  BY <3>3, <3>4
    <2>4. CASE PumpExited(w)
      <3>1. UNCHANGED <<imm, log>> /\ kid' = [kid EXCEPT ![w].exited = @ \/ kid[w].map]
        BY <2>4 DEF PumpExited
      <3>2. kid'[v].marked = kid[v].marked /\ kid'[v].exitEmitted = kid[v].exitEmitted
        BY <3>1, KidFields
      <3> QED  BY <1>0, <1>s, <3>1, <3>2, ToldSame
    <2>5. CASE PumpClosed(w)
      BY <1>2, <2>3, <2>5 DEF PumpClosed
    <2> QED  BY <2>1, <2>2, <2>4, <2>5 DEF PumpsEvent
  <1>5. CASE Immediate
    <2>1. PICK w \in Workers, e \in {"left", "disconnect", "exit"} : Emits(e, w)
      BY <1>5, ImmediateLemma
    <2>2. imm # <<>> /\ Head(imm) = <<e, w>> /\ Tail(imm) \in Seq(Imms)
      BY <2>1 DEF Emits
    <2>3. ASSUME v # w PROVE Same(imm, Tail(imm), <<"disconnect", v>>, <<"exit", v>>)
      <3>1. Head(imm)[2] = w
        BY <2>2
      <3> QED  BY <1>0, <2>2, <2>3, <3>1, OthersLemma
    <2>4. CASE e = "left"
      <3>1. /\ log' = [log EXCEPT ![w] = Append(@, "worker disconnect")]
            /\ kid' = [kid EXCEPT ![w].marked = TRUE] /\ imm' = Mark(Tail(imm), w)
        BY <2>1, <2>4 DEF Emits
      <3>2. Same(log[v], log'[v], "disconnect", "exit")
        BY <3>1, WorkerLog
      <3>3. kid'[v].marked = (kid[v].marked \/ v = w) /\ kid'[v].exitEmitted = kid[v].exitEmitted
        BY <3>1, KidFields
      <3>4. CASE v = w
        <4>1. Head(imm) # <<"disconnect", v>> /\ Head(imm) # <<"exit", v>>
          BY <2>2, <2>4
        <4>2. Same(imm, Tail(imm), <<"disconnect", v>>, <<"exit", v>>)
          BY <1>0, <2>2, <4>1, SameLemma
        <4> QED  BY <1>0, <2>2, <3>1, <3>2, <3>3, <3>4, <4>2, ToldMarked
      <3>5. CASE v # w
        <4>1. Same(Tail(imm), imm', <<"disconnect", v>>, <<"exit", v>>)
          BY <2>2, <3>1, <3>5, OthersLemma
        <4>2. Same(imm, imm', <<"disconnect", v>>, <<"exit", v>>)
          BY <2>3, <3>5, <4>1, SameTwice
        <4> QED  BY <1>0, <3>2, <3>3, <3>5, <4>2, ToldSame
      <3> QED  BY <3>4, <3>5
    <2>5. CASE e # "left"
      <3>1. log' = [log EXCEPT ![w] = Append(@, e)] /\ imm' = Tail(imm) /\ kid' = kid
        BY <2>1, <2>5 DEF Emits
      <3>2. CASE v # w
        <4>1. log'[v] = log[v]
          BY <1>0, <3>1, <3>2
        <4> QED  BY <1>0, <1>s, <2>3, <3>1, <3>2, <4>1, ToldSame
      <3>3. CASE v = w
        <4>1. log'[v] = Append(log[v], e) /\ e \in Seen
          BY <1>0, <2>5, <3>1, <3>3 DEF Seen
        <4> DEFINE D == <<"disconnect", v>>
                   E == <<"exit", v>>
                   l == Append(log[v], e)
                   t == Tail(imm)
        <4>2. D # E
          OBVIOUS
        <4>3. /\ In(imm, D) <=> In(t, D) \/ Head(imm) = D
              /\ In(imm, E) <=> In(t, E) \/ Head(imm) = E
              /\ Once(imm, D) => Once(t, D)
              /\ Once(imm, E) => Once(t, E)
              /\ Once(imm, D) /\ Head(imm) = D => ~In(t, D)
              /\ Once(imm, E) /\ Head(imm) = E => ~In(t, E)
              /\ Before(imm, D, E) => Head(imm) # E
              /\ Before(imm, D, E) /\ Head(imm) # D => Before(t, D, E)
          BY <1>0, <2>2, TailLemma
        <4>4. /\ In(l, "disconnect") <=> In(log[v], "disconnect") \/ e = "disconnect"
              /\ In(l, "exit") <=> In(log[v], "exit") \/ e = "exit"
              /\ Once(log[v], "disconnect") /\ (e = "disconnect" => ~In(log[v], "disconnect")) => Once(l, "disconnect")
              /\ Once(log[v], "exit") /\ (e = "exit" => ~In(log[v], "exit")) => Once(l, "exit")
              /\ Before(log[v], "disconnect", "exit") /\ (e = "exit" => In(log[v], "disconnect"))
                   => Before(l, "disconnect", "exit")
          BY <1>0, <4>1, AppendLemma
        <4>5. Head(imm) = IF e = "disconnect" THEN D ELSE E
          BY <2>2, <2>5, <3>3
        <4>6. e \in {"disconnect", "exit"}
          BY <2>5
        <4>7. imm' = t /\ log'[v] = l /\ kid' = kid
          BY <3>1, <4>1
        <4> HIDE DEF D, E, l, t
        <4>8. /\ Once(log[v], "disconnect") /\ Once(log[v], "exit") /\ Once(imm, D) /\ Once(imm, E)
              /\ ~(In(log[v], "disconnect") /\ In(imm, D)) /\ ~(In(log[v], "exit") /\ In(imm, E))
              /\ kid[v].marked <=> In(log[v], "disconnect") \/ In(imm, D)
              /\ In(log[v], "exit") \/ In(imm, E) => kid[v].exitEmitted
              /\ Before(log[v], "disconnect", "exit")
              /\ In(log[v], "disconnect") \/ Before(imm, D, E)
          BY <1>0 DEF Told, D, E
        <4>9. /\ Once(l, "disconnect") /\ Once(l, "exit") /\ Once(t, D) /\ Once(t, E)
              /\ ~(In(l, "disconnect") /\ In(t, D)) /\ ~(In(l, "exit") /\ In(t, E))
              /\ kid[v].marked <=> In(l, "disconnect") \/ In(t, D)
              /\ In(l, "exit") \/ In(t, E) => kid[v].exitEmitted
              /\ Before(l, "disconnect", "exit")
              /\ In(l, "disconnect") \/ Before(t, D, E)
          BY <4>2, <4>3, <4>4, <4>5, <4>6, <4>8
        <4> QED  BY <4>7, <4>9 DEF Told, D, E
      <3> QED  BY <3>2, <3>3
    <2> QED  BY <2>4, <2>5
  <1>6. ASSUME NEW w \in Workers, PumpExit(w) PROVE Told(v)'
    <2>1. /\ ~kid[w].exitEmitted /\ imm' = Append(Mark(imm, w), <<"exit", w>>)
          /\ log' = [log EXCEPT ![w] = Append(@, "worker exit")]
          /\ kid' = [kid EXCEPT ![w].exitEmitted = TRUE, ![w].marked = TRUE]
      BY <1>6 DEF PumpExit, ExitImmediates
    <2>2. Same(log[v], log'[v], "disconnect", "exit")
      BY <2>1, WorkerLog
    <2>3. kid'[v].marked = (kid[v].marked \/ v = w) /\ kid'[v].exitEmitted = (kid[v].exitEmitted \/ v = w)
      BY <2>1, KidFields
    <2>4. CASE v # w
      <3>1. Same(imm, imm', <<"disconnect", v>>, <<"exit", v>>)
        BY <1>0, <2>1, <2>4, OthersLemma
      <3> QED  BY <1>0, <2>2, <2>3, <2>4, <3>1, ToldSame
    <2>5. CASE v = w
      <3> DEFINE D == <<"disconnect", v>>
                 E == <<"exit", v>>
                 m == Mark(imm, v)
                 a == Append(m, E)
      <3>1. m \in Seq(Imms) /\ E \in Imms /\ D # E
        BY <1>0, MarkType DEF Imms
      <3>2. /\ Once(m, D) /\ Once(m, E) /\ ~(In(log[v], "disconnect") /\ In(m, D))
            /\ In(log[v], "disconnect") \/ In(m, D)
            /\ In(m, E) <=> In(imm, E)
            /\ In(log[v], "disconnect") \/ Before(m, D, E)
        BY <1>0, <1>s, MarkLemma, Zenon
      <3>3. imm' = a
        BY <2>1, <2>5
      <3> HIDE DEF D, E, m
      <3>4. /\ In(a, D) <=> In(m, D) \/ E = D
            /\ In(a, E)
            /\ Once(m, D) /\ (E = D => ~In(m, D)) => Once(a, D)
            /\ Once(m, E) /\ ~In(m, E) => Once(a, E)
            /\ Before(m, D, E) /\ In(m, D) => Before(a, D, E)
        BY <3>1, AppendLemma
      <3> HIDE DEF a
      <3>5. ~In(log[v], "exit") /\ ~In(imm, E)
        BY <1>0, <2>1, <2>5 DEF Told, E
      <3>6. kid'[v].marked /\ kid'[v].exitEmitted
        BY <2>3, <2>5
      <3>7. /\ Once(a, D) /\ Once(a, E) /\ ~(In(log[v], "disconnect") /\ In(a, D))
            /\ In(log[v], "disconnect") \/ In(a, D)
            /\ In(log[v], "disconnect") \/ Before(a, D, E)
        BY <3>1, <3>2, <3>4, <3>5
      <3>8. /\ Once(log[v], "disconnect") /\ Once(log[v], "exit") /\ Before(log[v], "disconnect", "exit")
        BY <1>0 DEF Told
      <3> QED  BY <2>2, <3>3, <3>5, <3>6, <3>7, <3>8 DEF Told, Same, D, E
    <2> QED  BY <2>4, <2>5
  <1>7. ASSUME NEW w \in Workers, PumpClose(w) PROVE Told(v)'
    <2>1. UNCHANGED <<imm, log>> /\ kid' = [kid EXCEPT ![w].map = FALSE]
      BY <1>7 DEF PumpClose
    <2>2. kid'[v].marked = kid[v].marked /\ kid'[v].exitEmitted = kid[v].exitEmitted
      BY <2>1, KidFields
    <2> QED  BY <1>0, <1>s, <2>1, <2>2, ToldSame
  <1>8. ASSUME NEW w \in Workers, Fork(w) PROVE Told(v)'
    <2>1. proc[w] = "none" /\ UNCHANGED <<imm, log>> /\ kid' = [kid EXCEPT ![w] = NewKid]
      BY <1>8 DEF Fork
    <2>2. ~kid[w].marked /\ ~kid[w].exitEmitted
      BY <2>1 DEF UnforkedInv
    <2>3. ~NewKid.marked /\ ~NewKid.exitEmitted
      BY DEF NewKid
    <2>4. kid'[v] = IF v = w THEN NewKid ELSE kid[v]
      BY <1>0, <2>1
    <2>5. (kid'[v].marked <=> kid[v].marked) /\ (kid'[v].exitEmitted <=> kid[v].exitEmitted)
      BY <2>2, <2>3, <2>4
    <2> QED  BY <1>0, <1>s, <2>1, <2>5, ToldSame
  <1>9. ASSUME NEW w \in Workers, Disconnect(w) PROVE Told(v)'
    <2>1. /\ log' = log /\ imm' = Append(imm, <<"left", w>>)
          /\ kid' = [kid EXCEPT ![w].send = FALSE, ![w].connected = FALSE]
      BY <1>9 DEF Disconnect
    <2>2. kid'[v].marked = kid[v].marked /\ kid'[v].exitEmitted = kid[v].exitEmitted
      BY <2>1, KidFields
    <2>3. <<"left", w>> \in Imms /\ <<"left", w>> # <<"disconnect", v>> /\ <<"left", w>> # <<"exit", v>>
      BY DEF Imms
    <2>4. Same(imm, imm', <<"disconnect", v>>, <<"exit", v>>)
      BY <1>0, <2>1, <2>3, SameLemma
    <2> QED  BY <1>0, <1>s, <2>1, <2>2, <2>4, ToldSame
  <1>10. CASE PumpStart \/ PumpReply \/ PumpCollect \/ PumpDone \/ Accept
    BY <1>2, <1>10 DEF PumpStart, PumpReply, PumpCollect, PumpDone, Accept, reactor
  <1>11. ASSUME NEW w \in Workers, ReaderP(w) \/ Waiter(w) \/ Listen(w) \/ SelfDisconnect(w) \/ WorkerDies(w) \/ Worker(w)
         PROVE Told(v)'
    BY <1>2, <1>11 DEF ReaderP, Waiter, Listen, SelfDisconnect, WorkerDies, End, Worker, Answer, Timeout, ReaderW, ReaderWEnd,
                       Quit, reactor
  <1>12. ASSUME NEW s \in Servers, Server(s) \/ ServerClose(s) PROVE Told(v)'
    BY <1>2, <1>12 DEF Server, BridgeRecv, BridgeSend, Serve, LoopEnd, ServerClose, reactor
  <1> QED
    BY <1>1, <1>3, <1>5, <1>6, <1>7, <1>8, <1>9, <1>10, <1>11, <1>12 DEF ClusterNext, Primary

-----------------------------------------------------------------------------
(* No step opens the channel of a worker again. *)
LEMMA SendableLess ==
    ASSUME PrimaryTypes, WorkerTypes, ClusterNext, NEW v \in Workers, proc[v] # "none", Sendable(v)'
    PROVE  Sendable(v)
  <1>0. /\ kid'[v].map /\ kid'[v].send /\ proc'[v] = "live" /\ ~shut'[v]
        /\ kid \in [Workers -> Kids] /\ proc \in [Workers -> {"none", "live", "dead"}] /\ shut \in [Workers -> BOOLEAN]
        /\ kid[v] \in Kids
    BY DEF Sendable, PrimaryTypes, WorkerTypes
  <1>1. CASE UNCHANGED <<kid, proc, shut>>
    BY <1>0, <1>1 DEF Sendable
  <1>2. CASE PumpSpawn
    <2>1. UNCHANGED <<proc, shut>> /\ kid'[v] = [kid[v] EXCEPT !.spawned = @ \/ v \in Unspawned]
      BY <1>2 DEF PumpSpawn, wire
    <2>2. kid'[v].map = kid[v].map /\ kid'[v].send = kid[v].send
      BY <1>0, <2>1 DEF Kids
    <2> QED  BY <1>0, <2>1, <2>2 DEF Sendable
  <1>3. ASSUME NEW w \in Workers, UNCHANGED <<proc, shut>>,
               \/ kid' = [kid EXCEPT ![w].connected = FALSE, ![w].send = FALSE, ![w].marked = TRUE]
               \/ kid' = [kid EXCEPT ![w].exited = @ \/ kid[w].map]
               \/ kid' = [kid EXCEPT ![w].marked = TRUE]
               \/ kid' = [kid EXCEPT ![w].exitEmitted = TRUE, ![w].marked = TRUE]
               \/ kid' = [kid EXCEPT ![w].map = FALSE]
               \/ kid' = kid
        PROVE  Sendable(v)
    <2>1. CASE v = w
      <3>1. kid[v].map /\ kid[v].send
        BY <1>0, <1>3, <2>1 DEF Kids
      <3> QED  BY <1>0, <1>3, <3>1 DEF Sendable
    <2>2. CASE v # w
      <3>1. kid'[v] = kid[v]
        BY <1>0, <1>3, <2>2
      <3> QED  BY <1>0, <1>3, <3>1 DEF Sendable
    <2> QED  BY <2>1, <2>2
  <1>4. CASE PumpEvent
    <2>1. PICK w \in Workers : PumpsEvent(w)
      BY <1>4, PumpEventLemma
    <2>2. UNCHANGED <<proc, shut>>
      BY <1>4 DEF PumpEvent
    <2> QED  BY <1>3, <2>1, <2>2 DEF PumpsEvent, PumpQuery, PumpClosed, PumpExited
  <1>5. CASE Immediate
    <2>1. PICK w \in Workers, e \in {"left", "disconnect", "exit"} : Emits(e, w)
      BY <1>5, ImmediateLemma
    <2>2. UNCHANGED <<proc, shut>>
      BY <1>5 DEF Immediate, wire
    <2> QED  BY <1>3, <2>1, <2>2 DEF Emits
  <1>6. ASSUME NEW w \in Workers, PumpExit(w) \/ PumpClose(w) PROVE Sendable(v)
    BY <1>3, <1>6 DEF PumpExit, PumpClose, wire
  <1>7. ASSUME NEW w \in Workers, Fork(w) PROVE Sendable(v)
    <2>1. proc[w] = "none" /\ kid' = [kid EXCEPT ![w] = NewKid] /\ proc' = [proc EXCEPT ![w] = "live"] /\ shut' = shut
      BY <1>7 DEF Fork, wire
    <2>2. kid'[v] = kid[v] /\ proc'[v] = proc[v]
      BY <1>0, <2>1
    <2> QED  BY <1>0, <2>1, <2>2 DEF Sendable
  <1>8. ASSUME NEW w \in Workers, Disconnect(w) \/ SelfDisconnect(w) PROVE Sendable(v)
    <2>1. /\ shut' = [shut EXCEPT ![w] = TRUE] /\ proc' = proc
          /\ kid' = kid \/ kid' = [kid EXCEPT ![w].send = FALSE, ![w].connected = FALSE]
      BY <1>8 DEF Disconnect, SelfDisconnect, reactor
    <2>2. v # w
      BY <1>0, <2>1
    <2>3. kid'[v] = kid[v] /\ shut'[v] = shut[v]
      BY <1>0, <2>1, <2>2
    <2> QED  BY <1>0, <2>1, <2>3 DEF Sendable
  <1>9. ASSUME NEW w \in Workers, Quit(w) \/ WorkerDies(w) PROVE Sendable(v)
    <2>1. proc' = [proc EXCEPT ![w] = "dead"] /\ UNCHANGED <<kid, shut>>
      BY <1>9 DEF Quit, WorkerDies, End, reactor
    <2>2. proc[v] = "live"
      BY <1>0, <2>1
    <2> QED  BY <1>0, <2>1, <2>2 DEF Sendable
  <1>10. CASE PumpStart \/ PumpReply \/ PumpCollect \/ PumpDone \/ Accept
    BY <1>1, <1>10 DEF PumpStart, PumpReply, PumpCollect, PumpDone, Accept, reactor, wire
  <1>11. ASSUME NEW w \in Workers,
                ReaderP(w) \/ Waiter(w) \/ Listen(w) \/ Answer(w) \/ Timeout(w) \/ ReaderW(w) \/ ReaderWEnd(w)
         PROVE Sendable(v)
    BY <1>1, <1>11 DEF ReaderP, Waiter, Listen, Answer, Timeout, ReaderW, ReaderWEnd, reactor, wire
  <1>12. ASSUME NEW s \in Servers, Server(s) \/ ServerClose(s) PROVE Sendable(v)
    BY <1>1, <1>12 DEF Server, BridgeRecv, BridgeSend, Serve, LoopEnd, ServerClose, reactor, wire
  <1> QED
    BY <1>2, <1>4, <1>5, <1>6, <1>7, <1>8, <1>9, <1>10, <1>11, <1>12 DEF ClusterNext, Primary, Worker

(* A worker that joins takes its place at the end, with nobody served since. *)
LEMMA JoinLemma ==
    ASSUME PrimaryTypes, RotationInv, NEW w \in Workers, w \notin Range(rot), rot' = Append(rot, w), idx' = idx,
           since' = [since EXCEPT ![w] = 0], NEW T, T = {v \in Workers : Sendable(v)'},
           \A i \in 1 .. Len(rot) : rot[i] \in T => Sendable(rot[i])
    PROVE  RotationInv'
  <1> DEFINE n == Len(rot)
  <1>1. /\ rot \in Seq(Workers) /\ idx \in Nat /\ since \in [Workers -> Nat]
        /\ \A i \in 1 .. n : rot[i] \in Workers /\ rot[i] # w
    BY DEF PrimaryTypes, Range
  <1>2. /\ n \in Nat /\ rot' \in Seq(Workers) /\ Len(rot') = n + 1 /\ rot'[n + 1] = w /\ rot' # <<>>
        /\ \A i \in 1 .. n : rot'[i] = rot[i]
    BY <1>1, AppendProperties
  <1>3. idx <= n
    BY <1>1, <1>2 DEF RotationInv
  <1>4. ASSUME NEW i \in 1 .. n + 1, NEW j \in 1 .. n + 1, rot'[i] = rot'[j] PROVE i = j
    <2>1. (i \in 1 .. n \/ i = n + 1) /\ (j \in 1 .. n \/ j = n + 1)
      BY <1>2
    <2> QED  BY <1>1, <1>2, <1>4, <2>1 DEF RotationInv
  <1>5. ASSUME NEW i \in 1 .. n + 1, rot'[i] \in T
        PROVE  since'[rot'[i]] + (IF i > idx THEN i - 1 - idx ELSE i - 1 - idx + (n + 1)) < n + 1
    <2>1. CASE i \in 1 .. n
      <3>1. rot'[i] = rot[i] /\ since'[rot[i]] = since[rot[i]] /\ since[rot[i]] \in Nat
        BY <1>1, <1>2, <2>1
      <3>2. Sendable(rot[i])
        BY <1>5, <2>1, <3>1
      <3>3. since[rot[i]] + (IF i > idx THEN i - 1 - idx ELSE i - 1 - idx + n) < n
        BY <2>1, <3>2 DEF RotationInv, Ahead
      <3>4. PICK c \in Nat : c = since[rot[i]]
        BY <3>1
      <3> HIDE DEF n
      <3>5. c + (IF i > idx THEN i - 1 - idx ELSE i - 1 - idx + (n + 1)) < n + 1
        BY <1>1, <1>2, <2>1, <3>3, <3>4
      <3> QED  BY <3>1, <3>4, <3>5
    <2>2. CASE i = n + 1
      <3>1. since'[rot'[i]] = 0
        BY <1>1, <1>2, <2>2
      <3> HIDE DEF n
      <3> QED  BY <1>1, <1>2, <1>3, <2>2, <3>1
    <2> QED  BY <1>2, <2>1, <2>2
  <1>6. idx < n + 1
    BY <1>1, <1>2, <1>3
  <1> DEFINE A(i) == IF i > idx' THEN i - 1 - idx' ELSE i - 1 - idx' + Len(rot')
  <1>7. ASSUME NEW i \in 1 .. Len(rot'), NEW v \in Workers, v = rot'[i], Sendable(v)'
        PROVE  since'[v] + A(i) < Len(rot')
    <2>1. i \in 1 .. n + 1 /\ rot'[i] \in T
      BY <1>2, <1>7
    <2> QED  BY <1>2, <1>5, <1>7, <2>1
  <1>8. \A i \in 1 .. Len(rot') : rot'[i] \in Workers
    BY <1>2
  <1>9. \A i \in 1 .. Len(rot') : Sendable(rot[i])' => since'[rot'[i]] + A(i) < Len(rot')
    BY <1>7, <1>8 DEF Sendable
  <1> QED  BY <1>2, <1>4, <1>6, <1>9 DEF RotationInv, Ahead

(* The rotation after a step, worker by worker. *)
LEMMA RotationPrime ==
    ASSUME rot' \in Seq(Workers), \A i, j \in 1 .. Len(rot') : rot'[i] = rot'[j] => i = j,
           IF rot' = <<>> THEN idx' = 0 ELSE idx' < Len(rot'),
           \A i \in 1 .. Len(rot') : \A v \in Workers : v = rot'[i] /\ Sendable(v)' =>
              since'[v] + (IF i > idx' THEN i - 1 - idx' ELSE i - 1 - idx' + Len(rot')) < Len(rot')
    PROVE  RotationInv'
  <1>1. \A i \in 1 .. Len(rot') : rot'[i] \in Workers
    OBVIOUS
  <1>2. \A i \in 1 .. Len(rot') : Sendable(rot[i])' =>
           since'[rot'[i]] + (IF i > idx' THEN i - 1 - idx' ELSE i - 1 - idx' + Len(rot')) < Len(rot')
    BY <1>1 DEF Sendable
  <1> QED  BY <1>2 DEF RotationInv, Ahead

(* How far away a turn is. *)
LEMMA TurnBound ==
    ASSUME NEW n \in Nat, NEW i \in 1 .. n - 1, NEW x \in Nat, x < n - 1
    PROVE  0 + (IF i > x THEN i - 1 - x ELSE i - 1 - x + (n - 1)) < n - 1
  OBVIOUS

(* primary_remove_worker: the rotation starts anew. *)
LEMMA LeaveLemma ==
    ASSUME PrimaryTypes, RotationInv, NEW w \in Workers, w \in Range(rot), RemoveWorker(w)
    PROVE  RotationInv'
  <1> DEFINE n == Len(rot)
  <1>0. rot \in Seq(Workers) /\ n \in Nat /\ idx \in Nat
    BY DEF PrimaryTypes
  <1>1. PICK k \in 1 .. n : rot[k] = w
    BY <1>0 DEF Range
  <1>2. /\ rot' \in Seq(Workers) /\ Len(rot') = n - 1
        /\ \A i \in 1 .. n - 1 : rot'[i] = IF i < k THEN rot[i] ELSE rot[i + 1]
    BY <1>0, <1>1, RemoveLemma DEF RemoveWorker, RotationInv
  <1>3. /\ idx' = IF idx >= (IF rot' = <<>> THEN 1 ELSE Len(rot')) THEN 0 ELSE idx
        /\ since' = [v \in Workers |-> 0]
    BY DEF RemoveWorker
  <1>4. ASSUME NEW i \in 1 .. n - 1, NEW j \in 1 .. n - 1, rot'[i] = rot'[j] PROVE i = j
    <2>1. \A a, b \in 1 .. n : rot[a] = rot[b] => a = b
      BY DEF RotationInv
    <2>2. i \in 1 .. n /\ i + 1 \in 1 .. n /\ j \in 1 .. n /\ j + 1 \in 1 .. n
      BY <1>0
    <2>3. i = j \/ i + 1 = j + 1 \/ (i < k /\ ~(j < k) /\ i = j + 1) \/ (j < k /\ ~(i < k) /\ i + 1 = j)
      BY <1>2, <1>4, <2>1, <2>2
    <2> QED  BY <1>0, <2>2, <2>3
  <1>5. rot' = <<>> <=> n - 1 = 0
    BY <1>2
  <1> HIDE DEF n
  <1>6. IF rot' = <<>> THEN idx' = 0 ELSE idx' < Len(rot')
    BY <1>0, <1>1, <1>2, <1>3, <1>5
  <1>7. ASSUME NEW i \in 1 .. n - 1, NEW v \in Workers
        PROVE  since'[v] + (IF i > idx' THEN i - 1 - idx' ELSE i - 1 - idx' + Len(rot')) < Len(rot')
    <2>1. since'[v] = 0 /\ idx' \in Nat /\ idx' < n - 1
      BY <1>0, <1>1, <1>2, <1>3, <1>5, <1>6
    <2>2. PICK x \in Nat : x = idx' /\ x < n - 1
      BY <2>1
    <2>3. 0 + (IF i > x THEN i - 1 - x ELSE i - 1 - x + (n - 1)) < n - 1
      BY <1>0, <2>2, TurnBound
    <2> QED  BY <1>2, <2>1, <2>2, <2>3
  <1> QED  BY <1>2, <1>4, <1>6, <1>7, RotationPrime

(* dispatch_fd_round_robin: who was passed over is nearer to its turn. *)
LEMMA TurnLemma ==
    ASSUME PrimaryTypes, RotationInv, NEW k \in 1 .. Len(rot), rot' = rot, idx' = IF k = Len(rot) THEN 0 ELSE k,
           since' = [v \in Workers |-> IF v \in Range(rot) \ {rot[k]} THEN since[v] + 1 ELSE 0],
           \A j \in 1 .. Len(rot) : Sendable(rot[j]) => Ahead(k) <= Ahead(j),
           UNCHANGED <<kid, proc, shut>>
    PROVE  RotationInv'
  <1> DEFINE n == Len(rot)
             A(i) == IF i > idx' THEN i - 1 - idx' ELSE i - 1 - idx' + n
  <1>0. rot \in Seq(Workers) /\ n \in Nat /\ idx \in Nat /\ since \in [Workers -> Nat] /\ k \in 1 .. n
    BY DEF PrimaryTypes
  <1>1. rot # <<>> /\ idx < n
    BY <1>0 DEF RotationInv
  <1>2. ASSUME NEW i \in 1 .. n, NEW v \in Workers, v = rot[i], Sendable(v)' PROVE since'[v] + A(i) < n
    <2>1. Sendable(rot[i])
      BY <1>2 DEF Sendable
    <2>2. since[v] + Ahead(i) < n /\ Ahead(k) <= Ahead(i)
      BY <1>2, <2>1 DEF RotationInv
    <2>3. CASE i = k
      <3>1. since'[v] = 0
        BY <1>2, <2>3
      <3>2. A(i) = n - 1
        <4> HIDE DEF n
        <4> QED  BY <1>0, <2>3 DEF n
      <3> QED  BY <1>0, <3>1, <3>2
    <2>4. CASE i # k
      <3>1. v # rot[k] /\ v \in Range(rot)
        BY <1>0, <1>2, <2>4 DEF RotationInv, Range
      <3>2. since'[v] = since[v] + 1
        BY <3>1
      <3>3. PICK c \in Nat : c = since[v]
        BY <1>0
      <3>4. A(i) + 1 + Ahead(k) = Ahead(i)
        <4>1. Ahead(k) = (IF k > idx THEN k - 1 - idx ELSE k - 1 - idx + n) /\ Ahead(i) = IF i > idx THEN i - 1 - idx ELSE i - 1 - idx + n
          BY DEF Ahead
        <4>2. idx' = IF k = n THEN 0 ELSE k
          OBVIOUS
        <4> HIDE DEF n
        <4> QED  BY <1>0, <1>1, <1>2, <2>2, <2>4, <4>1, <4>2
      <3>5. Ahead(k) \in Nat /\ Ahead(i) \in Nat
        <4> HIDE DEF n
        <4> QED  BY <1>0, <1>1 DEF Ahead, n
      <3>6. A(i) \in Int
        <4> HIDE DEF n
        <4> QED  BY <1>0 DEF n
      <3> HIDE DEF A, n
      <3> QED  BY <1>0, <2>2, <3>2, <3>3, <3>4, <3>5, <3>6
    <2> QED  BY <2>3, <2>4
  <1>3. idx' < n
    BY <1>0
  <1>4. \A i, j \in 1 .. n : rot[i] = rot[j] => i = j
    BY DEF RotationInv
  <1>5. rot' \in Seq(Workers) /\ Len(rot') = n /\ rot' # <<>>
    BY <1>0, <1>1
  <1> QED  BY <1>2, <1>3, <1>4, <1>5, RotationPrime

(* Every step keeps what is said of the rotation. *)
LEMMA RotationStep == PrimaryTypes /\ WorkerTypes /\ UnforkedInv /\ RotationInv /\ ClusterNext => RotationInv'
  <1> SUFFICES ASSUME PrimaryTypes, WorkerTypes, UnforkedInv, RotationInv, ClusterNext PROVE RotationInv'
    OBVIOUS
  <1>0. rot \in Seq(Workers) /\ \A i \in 1 .. Len(rot) : rot[i] \in Workers /\ proc[rot[i]] # "none"
    BY DEF PrimaryTypes, UnforkedInv
  <1>1. CASE UNCHANGED <<rot, idx, since>>
    <2>1. ASSUME NEW i \in 1 .. Len(rot), NEW v \in Workers, v = rot[i], Sendable(v)' PROVE since[v] + Ahead(i) < Len(rot)
      <3>1. Sendable(v)
        BY <1>0, <2>1, SendableLess
      <3> QED  BY <2>1, <3>1 DEF RotationInv
    <2>2. /\ \A i, j \in 1 .. Len(rot) : rot[i] = rot[j] => i = j
          /\ IF rot = <<>> THEN idx = 0 ELSE idx < Len(rot)
      BY DEF RotationInv
    <2> QED  BY <1>0, <1>1, <2>1, <2>2, RotationPrime DEF Ahead
  <1>2. CASE PumpEvent
    <2>1. PICK w \in Workers : PumpsEvent(w)
      BY <1>2, PumpEventLemma
    <2>2. CASE PumpQuery(w)
      <3>1. UNCHANGED <<rot, idx, since>> \/ ( /\ w \notin Range(rot) /\ rot' = Append(rot, w) /\ idx' = idx
                                             /\ since' = [since EXCEPT ![w] = 0])
        BY <2>2 DEF PumpQuery
      <3>2. PICK T : T = {v \in Workers : Sendable(v)'}
        OBVIOUS
      <3>3. \A v \in T : v \in Workers /\ (proc[v] # "none" => Sendable(v))
        BY <3>2, SendableLess
      <3>4. \A i \in 1 .. Len(rot) : rot[i] \in T => Sendable(rot[i])
        BY <1>0, <3>3
      <3> QED  BY <1>1, <3>1, <3>2, <3>4, JoinLemma
    <2>3. CASE PumpClosed(w) \/ PumpExited(w)
      BY <1>1, <2>3 DEF PumpClosed, PumpExited, key
    <2> QED  BY <2>1, <2>2, <2>3 DEF PumpsEvent
  <1>3. ASSUME NEW w \in Workers, PumpExit(w) PROVE RotationInv'
    <2>1. RemoveWorker(w)
      BY <1>3 DEF PumpExit
    <2>2. CASE w \in Range(rot)
      BY <2>1, <2>2, LeaveLemma
    <2>3. CASE w \notin Range(rot)
      BY <1>0, <1>1, <2>1, <2>3, RemoveNone DEF RemoveWorker
    <2> QED  BY <2>2, <2>3
  <1>4. CASE Accept
    <2>1. UNCHANGED <<kid, proc, shut>>
      BY <1>4 DEF Accept, reactor
    <2>2. CASE UNCHANGED <<rot, idx, since>>
      BY <1>1, <2>2
    <2>3. CASE ~UNCHANGED <<rot, idx, since>>
      <3>1. rot' = rot
        BY <1>4, AcceptLemma
      <3>2. PICK k \in 1 .. Len(rot) :
                   /\ idx' = IF k = Len(rot) THEN 0 ELSE k
                   /\ since' = [v \in Workers |-> IF v \in Range(rot) \ {rot[k]} THEN since[v] + 1 ELSE 0]
                   /\ \A j \in 1 .. Len(rot) : Sendable(rot[j]) => Ahead(k) <= Ahead(j)
        BY <1>4, <2>3, <3>1, AcceptLemma
      <3> QED  BY <2>1, <3>1, <3>2, TurnLemma
    <2> QED  BY <2>2, <2>3
  <1>5. CASE PumpSpawn \/ PumpStart \/ PumpReply \/ PumpCollect \/ PumpDone \/ Immediate
    BY <1>1, <1>5 DEF PumpSpawn, PumpStart, PumpReply, PumpCollect, PumpDone, Immediate, key
  <1>6. ASSUME NEW w \in Workers, PumpClose(w) \/ Fork(w) \/ Disconnect(w) \/ ReaderP(w) \/ Waiter(w)
        PROVE  RotationInv'
    BY <1>1, <1>6 DEF PumpClose, Fork, Disconnect, ReaderP, Waiter, key
  <1>7. ASSUME NEW w \in Workers, Listen(w) \/ SelfDisconnect(w) \/ WorkerDies(w) \/ Worker(w)
        PROVE  RotationInv'
    BY <1>1, <1>7 DEF Listen, SelfDisconnect, WorkerDies, End, Worker, Answer, Timeout, ReaderW, ReaderWEnd, Quit, key
  <1>8. ASSUME NEW s \in Servers, Server(s) \/ ServerClose(s) PROVE RotationInv'
    BY <1>1, <1>8 DEF Server, BridgeRecv, BridgeSend, Serve, LoopEnd, ServerClose, key
  <1> QED
    BY <1>2, <1>3, <1>4, <1>5, <1>6, <1>7, <1>8 DEF ClusterNext, Primary

-----------------------------------------------------------------------------
(* Server s of its worker does not listen yet. *)
Fresh(s) == s[2] > gen[s[1]] \/ (s[2] = gen[s[1]] /\ lis[s[1]] = "asking")

(* Every step keeps a server that does not listen yet without a bridge. *)
LEMMA FreshStep == WorkerTypes /\ FreshInv /\ ClusterNext => FreshInv'
  <1> SUFFICES ASSUME WorkerTypes, FreshInv, ClusterNext, NEW s \in Servers, Fresh(s)' PROVE bridge'[s].pc = "none"
    BY DEF FreshInv, Fresh
  <1>0. /\ s[1] \in Workers /\ s[2] \in Nat /\ s = <<s[1], s[2]>> /\ bridge \in [Servers -> Bridges]
        /\ gen \in [Workers -> Nat] /\ lis \in [Workers -> {"idle", "asking"}]
        /\ gen[s[1]] \in Nat
    BY ServerType DEF WorkerTypes, BridgeTypes
  <1>f. Fresh(s) => bridge[s].pc = "none"
    BY DEF FreshInv, Fresh
  <1>1. CASE UNCHANGED <<gen, lis, bridge>>
    <2>1. Fresh(s)
      BY <1>1 DEF Fresh
    <2> QED  BY <1>1, <1>f, <2>1
  <1>2. ASSUME NEW w \in Workers, Listen(w) PROVE bridge'[s].pc = "none"
    <2>1. gen' = [gen EXCEPT ![w] = @ + 1] /\ bridge' = bridge /\ lis' \in {lis, [lis EXCEPT ![w] = "asking"]}
      BY <1>2 DEF Listen
    <2>2. CASE s[1] = w
      <3>1. gen'[s[1]] = gen[s[1]] + 1
        BY <1>0, <2>1, <2>2
      <3>2. s[2] >= gen'[s[1]]
        BY <1>0, <3>1 DEF Fresh
      <3>3. s[2] > gen[s[1]]
        BY <1>0, <3>1, <3>2
      <3> QED  BY <1>f, <2>1, <3>3 DEF Fresh
    <2>3. CASE s[1] # w
      <3>1. gen'[s[1]] = gen[s[1]] /\ lis'[s[1]] = lis[s[1]]
        BY <1>0, <2>1, <2>3
      <3> QED  BY <1>f, <2>1, <3>1 DEF Fresh
    <2> QED  BY <2>2, <2>3
  <1>3. ASSUME NEW w \in Workers, Answer(w) PROVE bridge'[s].pc = "none"
    <2>1. PICK t : t = <<w, gen[w]>>
      OBVIOUS
    <2>2. /\ gen' = gen /\ lis' = [lis EXCEPT ![w] = "idle"]
          /\ bridge' = [bridge EXCEPT ![t].pc = IF query[w] = "yes" THEN "check" ELSE @]
      BY <1>3, <2>1 DEF Answer
    <2>3. lis'[s[1]] = (IF s[1] = w THEN "idle" ELSE lis[s[1]])
      BY <1>0, <2>2
    <2>4. s # t
      <3>1. CASE s[1] = w
        <4>1. s[2] > gen[w]
          BY <2>2, <2>3, <3>1 DEF Fresh
        <4>2. t[2] = gen[w] /\ gen[w] \in Nat
          BY <1>0, <2>1, <3>1
        <4> QED  BY <1>0, <4>1, <4>2
      <3>2. CASE s[1] # w
        BY <2>1, <3>2
      <3> QED  BY <3>1, <3>2
    <2>5. bridge'[s] = bridge[s]
      BY <1>0, <2>2, <2>4
    <2>6. Fresh(s)
      BY <2>2, <2>3 DEF Fresh
    <2> QED  BY <1>f, <2>5, <2>6
  <1>4. ASSUME NEW w \in Workers, Timeout(w) PROVE bridge'[s].pc = "none"
    <2>1. gen' = gen /\ lis' = [lis EXCEPT ![w] = "idle"] /\ bridge' = bridge
      BY <1>4 DEF Timeout
    <2>2. lis'[s[1]] = (IF s[1] = w THEN "idle" ELSE lis[s[1]])
      BY <1>0, <2>1
    <2> QED  BY <1>f, <2>1, <2>2 DEF Fresh
  <1>5. ASSUME NEW w \in Workers, End(w) PROVE bridge'[s].pc = "none"
    <2>1. gen' = gen /\ lis' = [lis EXCEPT ![w] = "idle"]
      BY <1>5 DEF End
    <2>2. bridge'[s] = IF s[1] = w THEN Idle ELSE bridge[s]
      BY <1>5 DEF End
    <2>3. lis'[s[1]] = (IF s[1] = w THEN "idle" ELSE lis[s[1]])
      BY <1>0, <2>1
    <2> QED  BY <1>f, <2>1, <2>2, <2>3 DEF Fresh, Idle
  <1>6. ASSUME NEW w \in Workers, ReaderW(w) \/ ReaderWEnd(w) PROVE bridge'[s].pc = "none"
    <2>1. UNCHANGED <<gen, lis>> /\ (bridge' = bridge \/ Notify(w))
      BY <1>6 DEF ReaderW, Route, ReaderWEnd, Drain, listens
    <2>2. Fresh(s)
      BY <2>1 DEF Fresh
    <2> QED  BY <1>f, <2>1, <2>2 DEF Notify
  <1>7. ASSUME NEW t \in Servers, BridgeRecv(t) \/ BridgeSend(t) PROVE bridge'[s].pc = "none"
    <2>1. UNCHANGED <<gen, lis>> /\ bridge[t].pc # "none"
      BY <1>7 DEF BridgeRecv, BridgeSend, listens
    <2>2. Fresh(s)
      BY <2>1 DEF Fresh
    <2>3. s # t
      BY <1>f, <2>1, <2>2
    <2>4. bridge'[s] = bridge[s]
      BY <1>0, <1>7, <2>3 DEF BridgeRecv, BridgeSend
    <2> QED  BY <1>f, <2>2, <2>4
  <1>8. CASE Primary
    <2>1. CASE PumpSpawn \/ PumpStart \/ PumpReply \/ PumpCollect \/ PumpDone \/ Immediate \/ PumpEvent
      BY <1>1, <2>1 DEF PumpSpawn, PumpStart, PumpEvent, PumpReply, PumpCollect, PumpDone, Immediate, listens, serving
    <2>2. ASSUME NEW w \in Workers, PumpExit(w) \/ PumpClose(w) PROVE bridge'[s].pc = "none"
      BY <1>1, <2>2 DEF PumpExit, PumpClose, listens, serving
    <2> QED  BY <1>8, <2>1, <2>2 DEF Primary
  <1>9. CASE Accept
    BY <1>1, <1>9 DEF Accept, listens
  <1>10. ASSUME NEW w \in Workers, Fork(w) \/ Disconnect(w) \/ ReaderP(w) \/ Waiter(w) \/ SelfDisconnect(w)
         PROVE bridge'[s].pc = "none"
    BY <1>1, <1>10 DEF Fork, Disconnect, ReaderP, Waiter, SelfDisconnect, listens, serving
  <1>11. ASSUME NEW t \in Servers, Serve(t) \/ LoopEnd(t) \/ ServerClose(t) PROVE bridge'[s].pc = "none"
    BY <1>1, <1>11 DEF Serve, LoopEnd, ServerClose, listens
  <1> QED
    BY <1>2, <1>3, <1>4, <1>5, <1>6, <1>7, <1>8, <1>9, <1>10, <1>11
    DEF ClusterNext, Worker, Server, Quit, WorkerDies

-----------------------------------------------------------------------------
(* Connections change hands. *)
LEMMA MoveLemma ==
    ASSUME NEW g, NEW h, NEW n, Split(g, n), NEW D, NEW a \in Holders, a \notin D,
           \A p \in Holders : p \notin D /\ p # a => h[p] = g[p],
           \A p \in Holders : p \in D => h[p] \subseteq g[p],
           \A c : c \in h[a] <=> c \in g[a] \/ \E p \in Holders : p \in D /\ c \in g[p] /\ c \notin h[p]
    PROVE  Split(h, n)
  <1>1. \A p \in Holders : p # a => h[p] \subseteq g[p]
    OBVIOUS
  <1>2. \A p \in Holders : h[p] \subseteq 1 .. n - 1
    BY <1>1 DEF Split
  <1>3. ASSUME NEW c \in 1 .. n - 1 PROVE \E p \in Holders : c \in h[p]
    <2>1. PICK p \in Holders : c \in g[p]
      BY DEF Split
    <2> QED  BY <2>1
  <1>4. ASSUME NEW q \in Holders, q # a, NEW c, c \in h[a], c \in h[q] PROVE FALSE
    <2>1. c \in g[q]
      BY <1>1, <1>4
    <2>2. c \notin g[a]
      BY <1>4, <2>1 DEF Split
    <2>3. PICK p \in Holders : p \in D /\ c \in g[p] /\ c \notin h[p]
      BY <1>4, <2>2
    <2>4. p = q
      BY <2>1, <2>3 DEF Split
    <2> QED  BY <1>4, <2>3, <2>4
  <1>5. ASSUME NEW p \in Holders, NEW q \in Holders, NEW c \in h[p], c \in h[q] PROVE p = q
    <2>1. CASE p = a \/ q = a
      BY <1>4, <1>5, <2>1
    <2>2. CASE p # a /\ q # a
      BY <1>1, <1>5, <2>2 DEF Split
    <2> QED  BY <2>1, <2>2
  <1> QED  BY <1>2, <1>3, <1>5 DEF Split

(* The connections X go from place b to place a. *)
LEMMA MoveOne ==
    ASSUME NEW g, NEW h, NEW n, Split(g, n), NEW a \in Holders, NEW b \in Holders, a # b, NEW X,
           \A p \in Holders : p # b /\ p # a => h[p] = g[p],
           X \subseteq g[b], h[b] = g[b] \ X, h[a] = g[a] \cup X
    PROVE  Split(h, n)
  <1>0. PICK D : D = {b}
    OBVIOUS
  <1>1. \A c : c \in h[a] <=> c \in g[a] \/ \E p \in Holders : p \in D /\ c \in g[p] /\ c \notin h[p]
    BY <1>0
  <1>2. a \notin D /\ \A p \in Holders : p \in D => h[p] \subseteq g[p]
    BY <1>0
  <1>3. \A p \in Holders : p \notin D /\ p # a => h[p] = g[p]
    BY <1>0
  <1> QED  BY <1>1, <1>2, <1>3, MoveLemma, Zenon

(* A connection is accepted. *)
LEMMA ArriveLemma ==
    ASSUME NEW g, NEW h, NEW n \in Nat \ {0}, Split(g, n), NEW a \in Holders,
           \A p \in Holders : p # a => h[p] = g[p], h[a] = g[a] \cup {n}
    PROVE  Split(h, n + 1)
  <1>1. (n + 1) - 1 = n /\ 1 .. n = (1 .. n - 1) \cup {n} /\ n \notin 1 .. n - 1
    OBVIOUS
  <1>2. PICK N : N = 1 .. n - 1
    OBVIOUS
  <1>3. /\ \A p \in Holders : g[p] \subseteq N
        /\ \A c \in N : \E p \in Holders : c \in g[p]
        /\ \A p, q \in Holders : \A c \in g[p] : c \in g[q] => p = q
    BY <1>2 DEF Split
  <1>4. /\ \A p \in Holders : h[p] \subseteq N \cup {n}
        /\ \A c \in N \cup {n} : \E p \in Holders : c \in h[p]
    BY <1>3
  <1>5. ASSUME NEW p \in Holders, NEW q \in Holders, NEW c \in h[p], c \in h[q] PROVE p = q
    <2>1. CASE c = n
      BY <1>1, <1>2, <1>3, <1>5, <2>1
    <2>2. CASE c # n
      BY <1>3, <1>5, <2>2
    <2> QED  BY <2>1, <2>2
  <1>6. 1 .. (n + 1) - 1 = N \cup {n}
    BY <1>1, <1>2
  <1> QED  BY <1>4, <1>5, <1>6 DEF Split

(* The queues of connections, and of frames with connections. *)
LEMMA QueueLemma ==
    ASSUME NEW s \in Seq(Conns), \A c \in Conns : Once(s, c)
    PROVE  /\ Range(s) = {c \in Conns : In(s, c)}
           /\ \A x \in Conns : ~In(s, x) =>
                \A c \in Conns : Once(Append(s, x), c) /\ (In(Append(s, x), c) <=> In(s, c) \/ c = x)
           /\ s # <<>> => /\ Head(s) \in Conns /\ In(s, Head(s))
                          /\ \A c \in Conns : Once(Tail(s), c) /\ (In(Tail(s), c) <=> In(s, c) /\ c # Head(s))
  <1>1. Range(s) = {c \in Conns : In(s, c)}
    BY DEF Range, In
  <1>2. ASSUME NEW x \in Conns, ~In(s, x), NEW c \in Conns
        PROVE  Once(Append(s, x), c) /\ (In(Append(s, x), c) <=> In(s, c) \/ c = x)
    BY <1>2, AppendLemma
  <1>3. ASSUME s # <<>>, NEW c \in Conns PROVE Once(Tail(s), c) /\ (In(Tail(s), c) <=> In(s, c) /\ c # Head(s))
    BY <1>3, TailLemma
  <1>4. ASSUME s # <<>> PROVE Head(s) \in Conns /\ In(s, Head(s))
    BY <1>4, TailLemma, HeadTailProperties
  <1> QED  BY <1>1, <1>2, <1>3, <1>4

(* The connections among the frames of a channel. *)
LEMMA FrameLemma ==
    ASSUME NEW s \in Seq(Frames), \A c \in Conns : Once(s, Fd(c))
    PROVE  /\ Fds(s) = {c \in Conns : In(s, Fd(c))}
           /\ \A x \in Conns : ~In(s, Fd(x)) =>
                \A c \in Conns : Once(Append(s, Fd(x)), Fd(c)) /\ (In(Append(s, Fd(x)), Fd(c)) <=> In(s, Fd(c)) \/ c = x)
           /\ \A b \in BOOLEAN : \A c \in Conns :
                Once(Append(s, Reply(b)), Fd(c)) /\ (In(Append(s, Reply(b)), Fd(c)) <=> In(s, Fd(c)))
           /\ s # <<>> /\ Head(s).type = "fd" =>
                /\ Head(s).val \in Conns /\ In(s, Fd(Head(s).val))
                /\ \A c \in Conns : Once(Tail(s), Fd(c)) /\ (In(Tail(s), Fd(c)) <=> In(s, Fd(c)) /\ c # Head(s).val)
           /\ s # <<>> /\ Head(s).type # "fd" =>
                \A c \in Conns : Once(Tail(s), Fd(c)) /\ (In(Tail(s), Fd(c)) <=> In(s, Fd(c)))
  <1>0. /\ \A c \in Conns : Fd(c) \in Frames /\ Fd(c).type = "fd" /\ Fd(c).val = c
        /\ \A b \in BOOLEAN : Reply(b) \in Frames /\ Reply(b).type # "fd"
        /\ \A f \in Frames : f.type = "fd" => f.val \in Conns /\ f = Fd(f.val)
    BY DEF Fd, Reply, Frames
  <1>1. Fds(s) = {c \in Conns : In(s, Fd(c))}
    <2>1. \A i \in 1 .. Len(s) : s[i] \in Frames /\ DOMAIN s = 1 .. Len(s)
      OBVIOUS
    <2>2. DOMAIN s = 1 .. Len(s)
      OBVIOUS
    <2>3. ASSUME NEW c \in Fds(s) PROVE c \in Conns /\ In(s, Fd(c))
      <3>1. PICK i \in 1 .. Len(s) : s[i].type = "fd" /\ c = s[i].val
        BY <2>2, <2>3 DEF Fds
      <3> QED  BY <1>0, <2>1, <3>1 DEF In
    <2>4. ASSUME NEW c \in Conns, In(s, Fd(c)) PROVE c \in Fds(s)
      <3>1. PICK i \in 1 .. Len(s) : s[i] = Fd(c)
        BY <2>4 DEF In
      <3> QED  BY <1>0, <2>2, <3>1 DEF Fds
    <2> QED  BY <2>3, <2>4
  <1>2. ASSUME NEW x \in Conns, ~In(s, Fd(x)), NEW c \in Conns
        PROVE  Once(Append(s, Fd(x)), Fd(c)) /\ (In(Append(s, Fd(x)), Fd(c)) <=> In(s, Fd(c)) \/ c = x)
    <2>1. Fd(x) \in Frames /\ (Fd(x) = Fd(c) <=> x = c)
      BY <1>0
    <2> QED  BY <1>2, <2>1, AppendLemma
  <1>3. ASSUME NEW b \in BOOLEAN, NEW c \in Conns
        PROVE  Once(Append(s, Reply(b)), Fd(c)) /\ (In(Append(s, Reply(b)), Fd(c)) <=> In(s, Fd(c)))
    <2>1. Reply(b) \in Frames /\ Reply(b) # Fd(c)
      BY <1>0
    <2> QED  BY <2>1, AppendLemma
  <1>4. ASSUME s # <<>> PROVE Head(s) \in Frames /\ In(s, Head(s))
    BY <1>4, TailLemma, HeadTailProperties
  <1>5. ASSUME s # <<>>, NEW c \in Conns
        PROVE  Once(Tail(s), Fd(c)) /\ (In(Tail(s), Fd(c)) <=> In(s, Fd(c)) /\ Fd(c) # Head(s))
    BY <1>5, TailLemma
  <1>6. ASSUME s # <<>>, Head(s).type = "fd"
        PROVE  /\ Head(s).val \in Conns /\ In(s, Fd(Head(s).val)) /\ \A c \in Conns : Fd(c) = Head(s) <=> c = Head(s).val
    BY <1>0, <1>4, <1>6
  <1>7. ASSUME s # <<>>, Head(s).type # "fd", NEW c \in Conns PROVE Fd(c) # Head(s)
    BY <1>0, <1>7
  <1>8. ASSUME s # <<>>, Head(s).type = "fd"
        PROVE  /\ Head(s).val \in Conns /\ In(s, Fd(Head(s).val))
               /\ \A c \in Conns : Once(Tail(s), Fd(c)) /\ (In(Tail(s), Fd(c)) <=> In(s, Fd(c)) /\ c # Head(s).val)
    BY <1>5, <1>6, <1>8
  <1>9. ASSUME s # <<>>, Head(s).type # "fd"
        PROVE  \A c \in Conns : Once(Tail(s), Fd(c)) /\ (In(Tail(s), Fd(c)) <=> In(s, Fd(c)))
    BY <1>5, <1>7, <1>9
  <1> QED  BY <1>1, <1>2, <1>3, <1>8, <1>9

-----------------------------------------------------------------------------
(* The places. *)
LEMMA HolderType ==
    /\ \A w \in Workers : <<"down", w>> \in Holders /\ <<"inbox", w>> \in Holders /\ <<"leaked", w>> \in Holders
    /\ \A s \in Servers : <<"buf", s>> \in Holders /\ <<"bridge", s>> \in Holders
    /\ <<"served", 0>> \in Holders /\ <<"gone", 0>> \in Holders
    /\ \A p \in Holders :
          /\ p = <<p[1], p[2]>> /\ p[1] \in {"down", "inbox", "leaked", "buf", "bridge", "served", "gone"}
          /\ p[1] \in {"down", "inbox", "leaked"} => p[2] \in Workers
          /\ p[1] \in {"buf", "bridge"} => p[2] \in Servers
          /\ p[1] \in {"served", "gone"} => p[2] = 0
  BY DEF Holders

(* What a place has. *)
LEMMA HeldAt ==
    /\ \A w \in Workers : /\ Held(<<"down", w>>) = {c \in Conns : In(down[w], Fd(c))}
                          /\ Held(<<"inbox", w>>) = {c \in Conns : In(inbox[w], c)}
                          /\ Held(<<"leaked", w>>) = {c \in Conns : c \in leaked[w]}
    /\ \A s \in Servers : /\ Held(<<"buf", s>>) = {c \in Conns : In(buf[s], c)}
                          /\ Held(<<"bridge", s>>) = {c \in Conns : bridge[s].pc = "send" /\ bridge[s].fd = c}
    /\ Held(<<"served", 0>>) = {c \in Conns : c \in served}
    /\ Held(<<"gone", 0>>) = {c \in Conns : c \in gone}
  BY DEF Held, Has

(* What a place has after a step. *)
LEMMA HeldAfter ==
    /\ \A w \in Workers : /\ Held(<<"down", w>>)' = {c \in Conns : In(down'[w], Fd(c))}
                          /\ Held(<<"inbox", w>>)' = {c \in Conns : In(inbox'[w], c)}
                          /\ Held(<<"leaked", w>>)' = {c \in Conns : c \in leaked'[w]}
    /\ \A s \in Servers : /\ Held(<<"buf", s>>)' = {c \in Conns : In(buf'[s], c)}
                          /\ Held(<<"bridge", s>>)' = {c \in Conns : bridge'[s].pc = "send" /\ bridge'[s].fd = c}
    /\ Held(<<"served", 0>>)' = {c \in Conns : c \in served'}
    /\ Held(<<"gone", 0>>)' = {c \in Conns : c \in gone'}
  BY DEF Held, Has

(* A place nothing is put in or taken from. *)
LEMMA HeldSame ==
    ASSUME NEW p \in Holders,
           p[1] = "down" => down'[p[2]] = down[p[2]],
           p[1] = "inbox" => inbox'[p[2]] = inbox[p[2]],
           p[1] = "leaked" => leaked'[p[2]] = leaked[p[2]],
           p[1] = "buf" => buf'[p[2]] = buf[p[2]],
           p[1] = "bridge" => \/ bridge'[p[2]] = bridge[p[2]]
                              \/ bridge[p[2]].pc # "send" /\ bridge'[p[2]].pc # "send",
           p[1] = "served" => served' = served,
           p[1] = "gone" => gone' = gone
    PROVE  Held(p)' = Held(p)
  <1>1. p[1] \in {"down", "inbox", "leaked", "buf", "bridge", "served", "gone"}
    BY HolderType
  <1>2. \A c \in Conns : Has(p, c)' <=> Has(p, c)
    BY <1>1 DEF Has
  <1> QED  BY <1>2 DEF Held

(* The invariant, as a fact about the two functions from places to connections. *)
LEMMA OwnerFacts ==
    ASSUME OwnerInv
    PROVE  \E g, h : /\ \A p \in Holders : g[p] = Held(p) /\ h[p] = Held(p)'
                     /\ Split(g, next)
                     /\ (Split(h, next') /\ NoTwice' => OwnerInv')
  <1>1. PICK g : g = [p \in Holders |-> Held(p)]
    OBVIOUS
  <1>2. PICK h : h = [p \in Holders |-> Held(p)']
    OBVIOUS
  <1>3. Split(g, next)
    BY <1>1 DEF OwnerInv
  <1>4. Split(h, next') /\ NoTwice' => OwnerInv'
    BY <1>2 DEF OwnerInv, Split
  <1>5. \A p \in Holders : g[p] = Held(p) /\ h[p] = Held(p)'
    BY <1>1, <1>2
  <1> QED  BY <1>3, <1>4, <1>5

(* No connection is in two places. *)
LEMMA Disjoint ==
    ASSUME OwnerInv, NEW p \in Holders, NEW q \in Holders, p # q, NEW c \in Held(p)
    PROVE  c \notin Held(q)
  BY DEF OwnerInv, Split

(* The steps that move no connection. *)
LEMMA OwnerSame ==
    ASSUME OwnerInv, next' = next, NoTwice', \A p \in Holders : Held(p)' = Held(p)
    PROVE  OwnerInv'
  <1>1. PICK g, h : /\ \A p \in Holders : g[p] = Held(p) /\ h[p] = Held(p)'
                    /\ Split(g, next) /\ (Split(h, next') /\ NoTwice' => OwnerInv')
    BY OwnerFacts
  <1>2. \A p \in Holders : h[p] = g[p]
    BY <1>1
  <1>3. Split(h, next)
    BY <1>1, <1>2 DEF Split
  <1> QED  BY <1>1, <1>3

(* The steps that move the connections X from place b to place a. *)
LEMMA OwnerMove ==
    ASSUME OwnerInv, next' = next, NoTwice', NEW a \in Holders, NEW b \in Holders, a # b, NEW X,
           \A p \in Holders : p # b /\ p # a => Held(p)' = Held(p),
           X \subseteq Held(b), Held(b)' = Held(b) \ X, Held(a)' = Held(a) \cup X
    PROVE  OwnerInv'
  <1>1. PICK g, h : /\ \A p \in Holders : g[p] = Held(p) /\ h[p] = Held(p)'
                    /\ Split(g, next) /\ (Split(h, next') /\ NoTwice' => OwnerInv')
    BY OwnerFacts
  <1>2. \A p \in Holders : p # b /\ p # a => h[p] = g[p]
    BY <1>1
  <1>3. X \subseteq g[b] /\ h[b] = g[b] \ X /\ h[a] = g[a] \cup X
    BY <1>1
  <1>4. Split(h, next)
    <2>1. PICK n : n = next
      OBVIOUS
    <2>2. Split(g, n)
      BY <1>1, <2>1
    <2>3. Split(h, n)
      BY ONLY <1>2, <1>3, <2>2, MoveOne, a \in Holders, b \in Holders, a # b
    <2> QED  BY <2>1, <2>3
  <1> QED  BY <1>1, <1>4

(* What the queues are, and have once. *)
LEMMA QueueTypes ==
    ASSUME WorkerTypes, OwnerInv
    PROVE  /\ \A w \in Workers : /\ down[w] \in Seq(Frames) /\ inbox[w] \in Seq(Conns)
                                 /\ \A c \in Conns : Once(down[w], Fd(c)) /\ Once(inbox[w], c)
           /\ \A s \in Servers : buf[s] \in Seq(Conns) /\ \A c \in Conns : Once(buf[s], c)
  BY DEF WorkerTypes, OwnerInv, NoTwice

(* fd_cv.notify_all moves no connection. *)
LEMMA NotifySame ==
    ASSUME WorkerTypes, NEW w \in Workers, Notify(w), NEW s \in Servers
    PROVE  bridge'[s] = bridge[s] \/ (bridge[s].pc # "send" /\ bridge'[s].pc # "send")
  BY DEF Notify, WorkerTypes, BridgeTypes, Bridges

(* worker_recv_loop hands a connection from the channel to the inbox. *)
LEMMA OwnerReaderW ==
    ASSUME WorkerTypes, OwnerInv, NEW w \in Workers, ReaderW(w)
    PROVE  OwnerInv'
  <1> DEFINE d == Head(down[w])
  <1>0. /\ down \in [Workers -> Seq(Frames)] /\ inbox \in [Workers -> Seq(Conns)] /\ down[w] \in Seq(Frames)
        /\ inbox[w] \in Seq(Conns) /\ down[w] # <<>> /\ down' = [down EXCEPT ![w] = Tail(@)]
        /\ UNCHANGED <<next, leaked, buf, served, gone>>
    BY DEF WorkerTypes, ReaderW, key
  <1>1. down'[w] = Tail(down[w]) /\ \A v \in Workers : v # w => down'[v] = down[v]
    BY <1>0
  <1>2. CASE d.type = "fd"
    <2>1. PICK x : x = d.val
      OBVIOUS
    <2>2. inbox' = [inbox EXCEPT ![w] = Append(@, x)] /\ Notify(w)
      BY <1>2, <2>1 DEF ReaderW, Route
    <2>3. /\ x \in Conns /\ In(down[w], Fd(x))
          /\ \A c \in Conns : Once(Tail(down[w]), Fd(c)) /\ (In(Tail(down[w]), Fd(c)) <=> In(down[w], Fd(c)) /\ c # x)
      BY <1>0, <1>2, <2>1, QueueTypes, FrameLemma
    <2>4. x \in Held(<<"down", w>>)
      BY <2>3, HeldAt
    <2>5. x \notin Held(<<"inbox", w>>)
      <3>1. <<"down", w>> # <<"inbox", w>>
        OBVIOUS
      <3> QED  BY <2>4, <3>1, Disjoint, HolderType
    <2>6. ~In(inbox[w], x)
      BY <2>3, <2>5, HeldAt
    <2>7. inbox'[w] = Append(inbox[w], x) /\ \A v \in Workers : v # w => inbox'[v] = inbox[v]
      BY <1>0, <2>2
    <2>8. \A c \in Conns : Once(inbox'[w], c) /\ (In(inbox'[w], c) <=> In(inbox[w], c) \/ c = x)
      <3>1. inbox[w] \in Seq(Conns) /\ \A c \in Conns : Once(inbox[w], c)
        BY QueueTypes
      <3>2. \A c \in Conns : Once(Append(inbox[w], x), c) /\ (In(Append(inbox[w], x), c) <=> In(inbox[w], c) \/ c = x)
        BY <2>3, <2>6, <3>1, QueueLemma
      <3> QED  BY <2>7, <3>2
    <2>9. \A c \in Conns : Once(down'[w], Fd(c)) /\ (In(down'[w], Fd(c)) <=> In(down[w], Fd(c)) /\ c # x)
      BY <1>1, <2>3
    <2>10. NoTwice'
      <3>1. ASSUME NEW v \in Workers, NEW c \in Conns PROVE Once(down'[v], Fd(c)) /\ Once(inbox'[v], c)
        <4>1. CASE v = w
          BY <2>8, <2>9, <4>1
        <4>2. CASE v # w
          BY <1>1, <2>7, <4>2, QueueTypes
        <4> QED  BY <4>1, <4>2
      <3>2. ASSUME NEW s \in Servers, NEW c \in Conns PROVE Once(buf'[s], c)
        BY <1>0, QueueTypes
      <3> QED  BY <3>1, <3>2 DEF NoTwice
    <2>11. ASSUME NEW p \in Holders, p # <<"down", w>>, p # <<"inbox", w>> PROVE Held(p)' = Held(p)
      <3>1. (p[1] = "down" => p[2] \in Workers /\ p[2] # w) /\ (p[1] = "inbox" => p[2] \in Workers /\ p[2] # w)
        BY <2>11, HolderType
      <3>2. p[1] = "bridge" => \/ bridge'[p[2]] = bridge[p[2]]
                               \/ bridge[p[2]].pc # "send" /\ bridge'[p[2]].pc # "send"
        BY <2>2, HolderType, NotifySame
      <3> QED  BY <1>0, <1>1, <2>7, <3>1, <3>2, HeldSame
    <2>12. /\ Held(<<"down", w>>)' = Held(<<"down", w>>) \ {x} /\ {x} \subseteq Held(<<"down", w>>)
           /\ Held(<<"inbox", w>>)' = Held(<<"inbox", w>>) \cup {x}
      <3>1. Held(<<"down", w>>) = {c \in Conns : In(down[w], Fd(c))} /\ Held(<<"down", w>>)' = {c \in Conns : In(down'[w], Fd(c))}
        BY HeldAt, HeldAfter
      <3>2. Held(<<"inbox", w>>) = {c \in Conns : In(inbox[w], c)} /\ Held(<<"inbox", w>>)' = {c \in Conns : In(inbox'[w], c)}
        BY HeldAt, HeldAfter
      <3>3. Held(<<"down", w>>)' = Held(<<"down", w>>) \ {x} /\ {x} \subseteq Held(<<"down", w>>)
        BY <2>3, <2>4, <2>9, <3>1
      <3>4. Held(<<"inbox", w>>)' = Held(<<"inbox", w>>) \cup {x}
        BY <2>3, <2>8, <3>2
      <3> QED  BY <3>3, <3>4
    <2>13. <<"inbox", w>> \in Holders /\ <<"down", w>> \in Holders /\ <<"inbox", w>> # <<"down", w>>
      BY HolderType
    <2>14. PICK a \in Holders, b \in Holders : a = <<"inbox", w>> /\ b = <<"down", w>> /\ a # b
      BY <2>13
    <2>15. \A p \in Holders : p # b /\ p # a => Held(p)' = Held(p)
      BY <2>11, <2>14
    <2>16. {x} \subseteq Held(b) /\ Held(b)' = Held(b) \ {x} /\ Held(a)' = Held(a) \cup {x}
      BY <2>12, <2>14
    <2>17. next' = next
      BY <1>0
    <2> QED  BY <2>10, <2>14, <2>15, <2>16, <2>17, OwnerMove
  <1>3. CASE d.type # "fd"
    <2>1. UNCHANGED <<inbox, bridge>>
      BY <1>3 DEF ReaderW, Route
    <2>2. \A c \in Conns : Once(down'[w], Fd(c)) /\ (In(down'[w], Fd(c)) <=> In(down[w], Fd(c)))
      BY <1>0, <1>1, <1>3, QueueTypes, FrameLemma
    <2>3. NoTwice'
      <3>1. ASSUME NEW v \in Workers, NEW c \in Conns PROVE Once(down'[v], Fd(c)) /\ Once(inbox'[v], c)
        <4>1. CASE v = w
          BY <2>1, <2>2, <4>1, QueueTypes
        <4>2. CASE v # w
          BY <1>1, <2>1, <4>2, QueueTypes
        <4> QED  BY <4>1, <4>2
      <3>2. ASSUME NEW s \in Servers, NEW c \in Conns PROVE Once(buf'[s], c)
        BY <1>0, QueueTypes
      <3> QED  BY <3>1, <3>2 DEF NoTwice
    <2>4. ASSUME NEW p \in Holders PROVE Held(p)' = Held(p)
      <3>1. CASE p = <<"down", w>>
        <4>1. Held(<<"down", w>>)' = Held(<<"down", w>>)
          <5>1. Held(<<"down", w>>) = {c \in Conns : In(down[w], Fd(c))}
            BY HeldAt
          <5>2. Held(<<"down", w>>)' = {c \in Conns : In(down'[w], Fd(c))}
            BY HeldAfter
          <5> QED  BY <2>2, <5>1, <5>2
        <4> QED  BY <3>1, <4>1
      <3>2. CASE p # <<"down", w>>
        <4>1. p[1] = "down" => p[2] \in Workers /\ p[2] # w
          BY <3>2, HolderType
        <4> QED  BY <1>0, <1>1, <2>1, <4>1, HeldSame
      <3> QED  BY <3>1, <3>2
    <2> QED  BY <1>0, <2>3, <2>4, OwnerSame
  <1> QED  BY <1>2, <1>3

(* A queue that is empty. *)
LEMMA EmptyQueue ==
    \A e : ~In(<<>>, e) /\ Once(<<>>, e)
  BY DEF In, Once

(* The end of worker_recv_loop closes what the inbox has. *)
LEMMA OwnerReaderWEnd ==
    ASSUME WorkerTypes, OwnerInv, NEW w \in Workers, ReaderWEnd(w)
    PROVE  OwnerInv'
  <1>0. /\ inbox \in [Workers -> Seq(Conns)] /\ inbox[w] \in Seq(Conns) /\ inbox' = [inbox EXCEPT ![w] = <<>>]
        /\ UNCHANGED <<next, down, leaked, buf, served>> /\ gone' = gone \cup Range(inbox[w]) /\ Notify(w)
    BY DEF WorkerTypes, ReaderWEnd, Drain, key, wire
  <1>1. inbox'[w] = <<>> /\ \A v \in Workers : v # w => inbox'[v] = inbox[v]
    BY <1>0
  <1>2. Range(inbox[w]) = {c \in Conns : In(inbox[w], c)}
    BY <1>0, QueueTypes, QueueLemma
  <1>3. NoTwice'
    <2>1. ASSUME NEW v \in Workers, NEW c \in Conns PROVE Once(down'[v], Fd(c)) /\ Once(inbox'[v], c)
      BY <1>0, <1>1, QueueTypes, EmptyQueue
    <2>2. ASSUME NEW s \in Servers, NEW c \in Conns PROVE Once(buf'[s], c)
      BY <1>0, QueueTypes
    <2> QED  BY <2>1, <2>2 DEF NoTwice
  <1>4. PICK a \in Holders, b \in Holders : a = <<"gone", 0>> /\ b = <<"inbox", w>> /\ a # b
    BY HolderType
  <1>5. ASSUME NEW p \in Holders, p # b, p # a PROVE Held(p)' = Held(p)
    <2>1. p[1] # "gone" /\ (p[1] = "inbox" => p[2] \in Workers /\ p[2] # w)
      BY <1>4, <1>5, HolderType
    <2>2. p[1] = "bridge" => \/ bridge'[p[2]] = bridge[p[2]]
                             \/ bridge[p[2]].pc # "send" /\ bridge'[p[2]].pc # "send"
      BY <1>0, HolderType, NotifySame
    <2> QED  BY <1>0, <1>1, <2>1, <2>2, HeldSame
  <1>6. PICK X : X = Held(b)
    OBVIOUS
  <1>7. Held(b)' = {}
    <2>1. Held(<<"inbox", w>>)' = {c \in Conns : In(inbox'[w], c)}
      BY HeldAfter
    <2>2. Held(<<"inbox", w>>)' = {}
      BY <1>1, <2>1, EmptyQueue
    <2> QED  BY <1>4, <2>2
  <1>8. Held(a)' = Held(a) \cup X
    <2>1. Held(<<"gone", 0>>) = {c \in Conns : c \in gone} /\ Held(<<"gone", 0>>)' = {c \in Conns : c \in gone'}
      BY HeldAt, HeldAfter
    <2>2. X = {c \in Conns : In(inbox[w], c)}
      BY <1>4, <1>6, HeldAt
    <2>3. Held(<<"gone", 0>>)' = Held(<<"gone", 0>>) \cup X
      BY <1>0, <1>2, <2>1, <2>2
    <2> QED  BY <1>4, <2>3
  <1>9. X \subseteq Held(b) /\ Held(b)' = Held(b) \ X /\ next' = next
    BY <1>0, <1>6, <1>7
  <1> QED  BY <1>3, <1>4, <1>5, <1>8, <1>9, OwnerMove

(* worker_recv_fd: a bridge thread takes the first connection of the inbox. *)
LEMMA OwnerBridgeRecv ==
    ASSUME WorkerTypes, OwnerInv, NEW s \in Servers, BridgeRecv(s)
    PROVE  OwnerInv'
  <1>1. PICK w \in Workers : w = s[1]
    BY ServerType
  <1>0. /\ inbox \in [Workers -> Seq(Conns)] /\ inbox[w] \in Seq(Conns) /\ bridge \in [Servers -> Bridges]
        /\ UNCHANGED <<next, down, leaked, buf, served, gone>> /\ bridge[s].pc = "check"
    BY DEF WorkerTypes, BridgeTypes, BridgeRecv, key, wire
  <1>2. CASE inbox[w] # <<>>
    <2>1. PICK x : x = Head(inbox[w])
      OBVIOUS
    <2>2. bridge' = [bridge EXCEPT ![s] = [pc |-> "send", fd |-> x]] /\ inbox' = [inbox EXCEPT ![w] = Tail(@)]
      BY <1>1, <1>2, <2>1 DEF BridgeRecv
    <2>3. inbox'[w] = Tail(inbox[w]) /\ \A v \in Workers : v # w => inbox'[v] = inbox[v]
      BY <1>0, <2>2
    <2>4. /\ x \in Conns /\ In(inbox[w], x)
          /\ \A c \in Conns : Once(inbox'[w], c) /\ (In(inbox'[w], c) <=> In(inbox[w], c) /\ c # x)
      BY <1>0, <1>2, <2>1, <2>3, QueueTypes, QueueLemma
    <2>5. NoTwice'
      <3>1. ASSUME NEW v \in Workers, NEW c \in Conns PROVE Once(down'[v], Fd(c)) /\ Once(inbox'[v], c)
        <4>1. CASE v = w
          BY <1>0, <2>4, <4>1, QueueTypes
        <4>2. CASE v # w
          BY <1>0, <2>3, <4>2, QueueTypes
        <4> QED  BY <4>1, <4>2
      <3>2. ASSUME NEW t \in Servers, NEW c \in Conns PROVE Once(buf'[t], c)
        BY <1>0, QueueTypes
      <3> QED  BY <3>1, <3>2 DEF NoTwice
    <2>6. PICK a \in Holders, b \in Holders : a = <<"bridge", s>> /\ b = <<"inbox", w>> /\ a # b
      BY HolderType
    <2>7. ASSUME NEW p \in Holders, p # b, p # a PROVE Held(p)' = Held(p)
      <3>1. (p[1] = "inbox" => p[2] \in Workers /\ p[2] # w) /\ (p[1] = "bridge" => p[2] \in Servers /\ p[2] # s)
        BY <2>6, <2>7, HolderType
      <3>2. p[1] = "bridge" => bridge'[p[2]] = bridge[p[2]]
        BY <1>0, <2>2, <3>1
      <3> QED  BY <1>0, <2>3, <3>1, <3>2, HeldSame
    <2>8. {x} \subseteq Held(b) /\ Held(b)' = Held(b) \ {x}
      <3>1. {x} \subseteq Held(<<"inbox", w>>) /\ Held(<<"inbox", w>>)' = Held(<<"inbox", w>>) \ {x}
        <4>1. Held(<<"inbox", w>>) = {c \in Conns : In(inbox[w], c)} /\ Held(<<"inbox", w>>)' = {c \in Conns : In(inbox'[w], c)}
          BY HeldAt, HeldAfter
        <4> QED  BY <2>4, <4>1
      <3> QED  BY <2>6, <3>1
    <2>9. Held(a)' = Held(a) \cup {x}
      <3>1. bridge'[s].pc = "send" /\ bridge'[s].fd = x
        BY <1>0, <2>2
      <3>2. Held(<<"bridge", s>>) = {c \in Conns : bridge[s].pc = "send" /\ bridge[s].fd = c}
            /\ Held(<<"bridge", s>>)' = {c \in Conns : bridge'[s].pc = "send" /\ bridge'[s].fd = c}
        BY HeldAt, HeldAfter
      <3>3. Held(<<"bridge", s>>)' = {x} /\ Held(<<"bridge", s>>) = {}
        BY <1>0, <2>4, <3>1, <3>2
      <3> QED  BY <2>6, <3>3
    <2>10. next' = next
      BY <1>0
    <2> QED  BY <2>5, <2>6, <2>7, <2>8, <2>9, <2>10, OwnerMove
  <1>3. CASE inbox[w] = <<>>
    <2>1. inbox' = inbox /\ bridge' = [bridge EXCEPT ![s].pc = IF closed[w] THEN "ended" ELSE "parked"]
      BY <1>1, <1>3 DEF BridgeRecv
    <2>2. bridge'[s].pc # "send" /\ \A t \in Servers : t # s => bridge'[t] = bridge[t]
      BY <1>0, <2>1 DEF Bridges
    <2>3. NoTwice'
      BY <1>0, <2>1, QueueTypes DEF NoTwice
    <2>4. ASSUME NEW p \in Holders PROVE Held(p)' = Held(p)
      <3>1. p[1] = "bridge" => \/ bridge'[p[2]] = bridge[p[2]]
                               \/ bridge[p[2]].pc # "send" /\ bridge'[p[2]].pc # "send"
        BY <1>0, <2>2, HolderType
      <3> QED  BY <1>0, <2>1, <3>1, HeldSame
    <2> QED  BY <1>0, <2>3, <2>4, OwnerSame
  <1> QED  BY <1>2, <1>3

(* What the channel of a bridge takes, the loop serves and the loop's end drops. *)
LEMMA OwnerBridgeSend ==
    ASSUME WorkerTypes, OwnerInv, NEW s \in Servers, BridgeSend(s)
    PROVE  OwnerInv'
  <1>1. PICK w \in Workers : w = s[1]
    BY ServerType
  <1>2. PICK x : x = bridge[s].fd
    OBVIOUS
  <1>0. /\ bridge \in [Servers -> Bridges] /\ buf \in [Servers -> Seq(Conns)] /\ buf[s] \in Seq(Conns) /\ leaked \in [Workers -> SUBSET Conns]
        /\ UNCHANGED <<next, down, inbox, served, gone>> /\ bridge[s].pc = "send" /\ x \in Conns
    BY <1>2 DEF WorkerTypes, BridgeTypes, BridgeSend, key, wire
  <1>3. PICK b \in Holders : b = <<"bridge", s>>
    BY HolderType
  <1>4. Held(b) = {x}
    <2>1. Held(<<"bridge", s>>) = {c \in Conns : bridge[s].pc = "send" /\ bridge[s].fd = c}
      BY HeldAt
    <2> QED  BY <1>0, <1>2, <1>3, <2>1
  <1>5. PICK pc \in {"check", "ended"} : bridge' = [bridge EXCEPT ![s] = [pc |-> pc, fd |-> 0]]
    BY DEF BridgeSend
  <1>6. bridge'[s].pc # "send" /\ \A t \in Servers : t # s => bridge'[t] = bridge[t]
    BY <1>0, <1>5
  <1>7. Held(b)' = {}
    <2>1. Held(<<"bridge", s>>)' = {c \in Conns : bridge'[s].pc = "send" /\ bridge'[s].fd = c}
      BY HeldAfter
    <2>2. Held(<<"bridge", s>>)' = {}
      BY <1>6, <2>1
    <2> QED  BY <1>3, <2>2
  <1>8. next' = next /\ {x} \subseteq Held(b) /\ Held(b)' = Held(b) \ {x}
    BY <1>0, <1>4, <1>7
  <1>9. CASE buf' = [buf EXCEPT ![s] = Append(@, x)] /\ leaked' = leaked
    <2>1. buf'[s] = Append(buf[s], x) /\ \A t \in Servers : t # s => buf'[t] = buf[t]
      BY <1>0, <1>9
    <2>2. PICK a \in Holders : a = <<"buf", s>> /\ a # b
      BY <1>3, HolderType
    <2>3. x \notin Held(a)
      BY <1>4, <2>2, Disjoint
    <2>4. ~In(buf[s], x)
      BY <1>0, <2>2, <2>3, HeldAt
    <2>5. \A c \in Conns : Once(buf'[s], c) /\ (In(buf'[s], c) <=> In(buf[s], c) \/ c = x)
      BY <1>0, <2>1, <2>4, QueueTypes, QueueLemma
    <2>6. NoTwice'
      <3>1. ASSUME NEW v \in Workers, NEW c \in Conns PROVE Once(down'[v], Fd(c)) /\ Once(inbox'[v], c)
        BY <1>0, QueueTypes
      <3>2. ASSUME NEW t \in Servers, NEW c \in Conns PROVE Once(buf'[t], c)
        <4>1. CASE t = s
          BY <2>5, <4>1
        <4>2. CASE t # s
          BY <2>1, <4>2, QueueTypes
        <4> QED  BY <4>1, <4>2
      <3> QED  BY <3>1, <3>2 DEF NoTwice
    <2>7. Held(a)' = Held(a) \cup {x}
      <3>1. Held(<<"buf", s>>) = {c \in Conns : In(buf[s], c)} /\ Held(<<"buf", s>>)' = {c \in Conns : In(buf'[s], c)}
        BY HeldAt, HeldAfter
      <3>2. Held(<<"buf", s>>)' = Held(<<"buf", s>>) \cup {x}
        BY <1>0, <2>5, <3>1
      <3> QED  BY <2>2, <3>2
    <2>8. ASSUME NEW p \in Holders, p # b, p # a PROVE Held(p)' = Held(p)
      <3>1. (p[1] = "buf" => p[2] \in Servers /\ p[2] # s) /\ (p[1] = "bridge" => p[2] \in Servers /\ p[2] # s)
        BY <1>3, <2>2, <2>8, HolderType
      <3> QED  BY <1>0, <1>6, <1>9, <2>1, <3>1, HeldSame
    <2> QED  BY <1>8, <2>2, <2>6, <2>7, <2>8, OwnerMove
  <1>10. CASE leaked' = [leaked EXCEPT ![w] = @ \cup {x}] /\ buf' = buf
    <2>1. leaked'[w] = leaked[w] \cup {x} /\ \A v \in Workers : v # w => leaked'[v] = leaked[v]
      BY <1>0, <1>10
    <2>2. PICK a \in Holders : a = <<"leaked", w>> /\ a # b
      BY <1>3, HolderType
    <2>6. NoTwice'
      BY <1>0, <1>10, QueueTypes DEF NoTwice
    <2>7. Held(a)' = Held(a) \cup {x}
      <3>1. Held(<<"leaked", w>>) = {c \in Conns : c \in leaked[w]} /\ Held(<<"leaked", w>>)' = {c \in Conns : c \in leaked'[w]}
        BY HeldAt, HeldAfter
      <3>2. Held(<<"leaked", w>>)' = Held(<<"leaked", w>>) \cup {x}
        BY <1>0, <2>1, <3>1
      <3> QED  BY <2>2, <3>2
    <2>8. ASSUME NEW p \in Holders, p # b, p # a PROVE Held(p)' = Held(p)
      <3>1. (p[1] = "leaked" => p[2] \in Workers /\ p[2] # w) /\ (p[1] = "bridge" => p[2] \in Servers /\ p[2] # s)
        BY <1>3, <2>2, <2>8, HolderType
      <3> QED  BY <1>0, <1>6, <1>10, <2>1, <3>1, HeldSame
    <2> QED  BY <1>8, <2>2, <2>6, <2>7, <2>8, OwnerMove
  <1> QED  BY <1>1, <1>2, <1>9, <1>10 DEF BridgeSend

(* The loop of a server takes a connection. *)
LEMMA OwnerServe ==
    ASSUME WorkerTypes, OwnerInv, NEW s \in Servers, Serve(s)
    PROVE  OwnerInv'
  <1>1. PICK x : x = Head(buf[s])
    OBVIOUS
  <1>0. /\ buf \in [Servers -> Seq(Conns)] /\ buf[s] \in Seq(Conns) /\ buf[s] # <<>> /\ buf' = [buf EXCEPT ![s] = Tail(@)]
        /\ served' = served \cup {x} /\ UNCHANGED <<next, down, inbox, leaked, bridge, gone>>
    BY <1>1 DEF WorkerTypes, Serve, key, wire
  <1>2. buf'[s] = Tail(buf[s]) /\ \A t \in Servers : t # s => buf'[t] = buf[t]
    BY <1>0
  <1>3. x \in Conns /\ In(buf[s], x) /\ \A c \in Conns : Once(buf'[s], c) /\ (In(buf'[s], c) <=> In(buf[s], c) /\ c # x)
    BY <1>0, <1>1, <1>2, QueueTypes, QueueLemma
  <1>4. NoTwice'
    <2>1. ASSUME NEW v \in Workers, NEW c \in Conns PROVE Once(down'[v], Fd(c)) /\ Once(inbox'[v], c)
      BY <1>0, QueueTypes
    <2>2. ASSUME NEW t \in Servers, NEW c \in Conns PROVE Once(buf'[t], c)
      <3>1. CASE t = s
        BY <1>3, <3>1
      <3>2. CASE t # s
        BY <1>2, <3>2, QueueTypes
      <3> QED  BY <3>1, <3>2
    <2> QED  BY <2>1, <2>2 DEF NoTwice
  <1>5. PICK a \in Holders, b \in Holders : a = <<"served", 0>> /\ b = <<"buf", s>> /\ a # b
    BY HolderType
  <1>6. {x} \subseteq Held(b) /\ Held(b)' = Held(b) \ {x}
    <2>1. Held(<<"buf", s>>) = {c \in Conns : In(buf[s], c)} /\ Held(<<"buf", s>>)' = {c \in Conns : In(buf'[s], c)}
      BY HeldAt, HeldAfter
    <2>2. {x} \subseteq Held(<<"buf", s>>) /\ Held(<<"buf", s>>)' = Held(<<"buf", s>>) \ {x}
      BY <1>3, <2>1
    <2> QED  BY <1>5, <2>2
  <1>7. Held(a)' = Held(a) \cup {x}
    <2>1. Held(<<"served", 0>>) = {c \in Conns : c \in served} /\ Held(<<"served", 0>>)' = {c \in Conns : c \in served'}
      BY HeldAt, HeldAfter
    <2>2. Held(<<"served", 0>>)' = Held(<<"served", 0>>) \cup {x}
      BY <1>0, <1>3, <2>1
    <2> QED  BY <1>5, <2>2
  <1>8. ASSUME NEW p \in Holders, p # b, p # a PROVE Held(p)' = Held(p)
    <2>1. p[1] # "served" /\ (p[1] = "buf" => p[2] \in Servers /\ p[2] # s)
      BY <1>5, <1>8, HolderType
    <2> QED  BY <1>0, <1>2, <2>1, HeldSame
  <1>9. next' = next
    BY <1>0
  <1> QED  BY <1>4, <1>5, <1>6, <1>7, <1>8, <1>9, OwnerMove

(* The loop of a server ends, with what is buffered. *)
LEMMA OwnerLoopEnd ==
    ASSUME WorkerTypes, OwnerInv, NEW s \in Servers, LoopEnd(s)
    PROVE  OwnerInv'
  <1>1. PICK w \in Workers : w = s[1]
    BY ServerType
  <1>0. /\ buf \in [Servers -> Seq(Conns)] /\ buf[s] \in Seq(Conns) /\ buf' = [buf EXCEPT ![s] = <<>>]
        /\ leaked \in [Workers -> SUBSET Conns] /\ leaked' = [leaked EXCEPT ![w] = @ \cup Range(buf[s])]
        /\ UNCHANGED <<next, down, inbox, bridge, served, gone>>
    BY <1>1 DEF WorkerTypes, LoopEnd, key, wire
  <1>2. /\ buf'[s] = <<>> /\ \A t \in Servers : t # s => buf'[t] = buf[t]
        /\ leaked'[w] = leaked[w] \cup Range(buf[s]) /\ \A v \in Workers : v # w => leaked'[v] = leaked[v]
    BY <1>0
  <1>3. Range(buf[s]) = {c \in Conns : In(buf[s], c)}
    BY <1>0, QueueTypes, QueueLemma
  <1>4. NoTwice'
    <2>1. ASSUME NEW v \in Workers, NEW c \in Conns PROVE Once(down'[v], Fd(c)) /\ Once(inbox'[v], c)
      BY <1>0, QueueTypes
    <2>2. ASSUME NEW t \in Servers, NEW c \in Conns PROVE Once(buf'[t], c)
      BY <1>2, QueueTypes, EmptyQueue
    <2> QED  BY <2>1, <2>2 DEF NoTwice
  <1>5. PICK a \in Holders, b \in Holders : a = <<"leaked", w>> /\ b = <<"buf", s>> /\ a # b
    BY HolderType
  <1>6. PICK X : X = {c \in Conns : In(buf[s], c)}
    OBVIOUS
  <1>7. Held(b) = X /\ Held(b)' = {}
    <2>1. Held(<<"buf", s>>) = {c \in Conns : In(buf[s], c)} /\ Held(<<"buf", s>>)' = {c \in Conns : In(buf'[s], c)}
      BY HeldAt, HeldAfter
    <2>2. Held(<<"buf", s>>)' = {}
      BY <1>2, <2>1, EmptyQueue
    <2> QED  BY <1>5, <1>6, <2>1, <2>2
  <1>8. Held(a)' = Held(a) \cup X
    <2>1. Held(<<"leaked", w>>) = {c \in Conns : c \in leaked[w]} /\ Held(<<"leaked", w>>)' = {c \in Conns : c \in leaked'[w]}
      BY HeldAt, HeldAfter
    <2>2. Held(<<"leaked", w>>)' = Held(<<"leaked", w>>) \cup X
      BY <1>2, <1>3, <1>6, <2>1
    <2> QED  BY <1>5, <2>2
  <1>9. ASSUME NEW p \in Holders, p # b, p # a PROVE Held(p)' = Held(p)
    <2>1. (p[1] = "leaked" => p[2] \in Workers /\ p[2] # w) /\ (p[1] = "buf" => p[2] \in Servers /\ p[2] # s)
      BY <1>5, <1>9, HolderType
    <2> QED  BY <1>0, <1>2, <2>1, HeldSame
  <1>10. next' = next /\ X \subseteq Held(b) /\ Held(b)' = Held(b) \ X
    BY <1>0, <1>7
  <1> QED  BY <1>4, <1>5, <1>8, <1>9, <1>10, OwnerMove

(* The process of worker w ends, and with it all that it holds. *)
LEMMA OwnerEnd ==
    ASSUME WorkerTypes, OwnerInv, NEW w \in Workers, End(w)
    PROVE  OwnerInv'
  <1> DEFINE S == {t \in Servers : t[1] = w}
             bufs == UNION {Range(buf[t]) : t \in S}
             sends == {bridge[t].fd : t \in {u \in S : bridge[u].pc = "send"}}
             mine == Fds(down[w]) \cup Range(inbox[w]) \cup leaked[w] \cup bufs \cup sends
             D == ({"down", "inbox", "leaked"} \X {w}) \cup ({"buf", "bridge"} \X S)
  <1>0. /\ down \in [Workers -> Seq(Frames)] /\ inbox \in [Workers -> Seq(Conns)] /\ leaked \in [Workers -> SUBSET Conns]
        /\ buf \in [Servers -> Seq(Conns)] /\ bridge \in [Servers -> Bridges]
        /\ \A t \in Servers : bridge[t].pc = "send" => bridge[t].fd \in Conns
    BY DEF WorkerTypes, BridgeTypes
  <1>1. /\ gone' = gone \cup mine /\ down' = [down EXCEPT ![w] = <<>>] /\ inbox' = [inbox EXCEPT ![w] = <<>>]
        /\ leaked' = [leaked EXCEPT ![w] = {}]
        /\ buf' = [t \in Servers |-> IF t \in S THEN <<>> ELSE buf[t]]
        /\ bridge' = [t \in Servers |-> IF t \in S THEN Idle ELSE bridge[t]]
    BY Zenon DEF End
  <1>2. UNCHANGED <<next, served>>
    BY DEF End, key
  <1>3. /\ down'[w] = <<>> /\ inbox'[w] = <<>> /\ leaked'[w] = {}
        /\ \A v \in Workers : v # w => down'[v] = down[v] /\ inbox'[v] = inbox[v] /\ leaked'[v] = leaked[v]
    BY <1>0, <1>1
  <1>4. /\ \A t \in Servers : t \in S => buf'[t] = <<>> /\ bridge'[t] = Idle
        /\ \A t \in Servers : t \notin S => buf'[t] = buf[t] /\ bridge'[t] = bridge[t]
    BY <1>1
  <1>5. NoTwice'
    <2>1. ASSUME NEW v \in Workers, NEW c \in Conns PROVE Once(down'[v], Fd(c)) /\ Once(inbox'[v], c)
      BY <1>3, QueueTypes, EmptyQueue
    <2>2. ASSUME NEW t \in Servers, NEW c \in Conns PROVE Once(buf'[t], c)
      BY <1>4, QueueTypes, EmptyQueue
    <2> QED  BY <2>1, <2>2 DEF NoTwice
  <1>6. ASSUME NEW c \in Conns PROVE c \in mine <=> \E p \in Holders : p \in D /\ c \in Held(p)
    <2>1. /\ c \in Fds(down[w]) <=> c \in Held(<<"down", w>>)
          /\ c \in Range(inbox[w]) <=> c \in Held(<<"inbox", w>>)
          /\ c \in leaked[w] <=> c \in Held(<<"leaked", w>>)
      <3>1. Fds(down[w]) = {x \in Conns : In(down[w], Fd(x))}
        BY QueueTypes, FrameLemma
      <3>2. Range(inbox[w]) = {x \in Conns : In(inbox[w], x)}
        BY QueueTypes, QueueLemma
      <3> QED  BY <3>1, <3>2, HeldAt
    <2>2. ASSUME NEW t \in S PROVE c \in Range(buf[t]) <=> c \in Held(<<"buf", t>>)
      <3>1. Range(buf[t]) = {x \in Conns : In(buf[t], x)}
        BY QueueTypes, QueueLemma
      <3> QED  BY <3>1, HeldAt
    <2>3. c \in bufs <=> \E t \in S : c \in Held(<<"buf", t>>)
      BY <2>2
    <2>4. c \in sends <=> \E t \in S : c \in Held(<<"bridge", t>>)
      <3>1. \A t \in S : c \in Held(<<"bridge", t>>) <=> bridge[t].pc = "send" /\ bridge[t].fd = c
        BY HeldAt
      <3> QED  BY <3>1
    <2> HIDE DEF bufs, sends, S
    <2>5. c \in mine <=> \/ c \in Held(<<"down", w>>) \/ c \in Held(<<"inbox", w>>) \/ c \in Held(<<"leaked", w>>)
                         \/ \E t \in S : c \in Held(<<"buf", t>>) \/ c \in Held(<<"bridge", t>>)
      BY <2>1, <2>3, <2>4
    <2>6. /\ <<"down", w>> \in Holders /\ <<"inbox", w>> \in Holders /\ <<"leaked", w>> \in Holders
          /\ \A t \in S : <<"buf", t>> \in Holders /\ <<"bridge", t>> \in Holders
      BY HolderType DEF S
    <2>7. \A p : p \in D <=> \/ p = <<"down", w>> \/ p = <<"inbox", w>> \/ p = <<"leaked", w>>
                             \/ \E t \in S : p = <<"buf", t>> \/ p = <<"bridge", t>>
      OBVIOUS
    <2> HIDE DEF D, mine
    <2>8. ASSUME NEW p \in Holders, p \in D, c \in Held(p) PROVE c \in mine
      BY <2>5, <2>7, <2>8
    <2>9. ASSUME c \in mine PROVE \E p \in Holders : p \in D /\ c \in Held(p)
      BY <2>5, <2>6, <2>7, <2>9
    <2> QED  BY <2>8, <2>9
  <1>7. ASSUME NEW p \in Holders, p \in D PROVE Held(p)' = {}
    <2>1. Held(<<"down", w>>)' = {} /\ Held(<<"inbox", w>>)' = {} /\ Held(<<"leaked", w>>)' = {}
      BY <1>3, EmptyQueue, HeldAfter
    <2>2. ASSUME NEW t \in S PROVE Held(<<"buf", t>>)' = {} /\ Held(<<"bridge", t>>)' = {}
      <3>1. t \in Servers /\ buf'[t] = <<>> /\ bridge'[t].pc # "send"
        BY <1>4 DEF Idle
      <3> QED  BY <3>1, EmptyQueue, HeldAfter
    <2>3. \/ p = <<"down", w>> \/ p = <<"inbox", w>> \/ p = <<"leaked", w>>
          \/ \E t \in S : p = <<"buf", t>> \/ p = <<"bridge", t>>
      BY <1>7
    <2> QED  BY <2>1, <2>2, <2>3
  <1>8. PICK a \in Holders : a = <<"gone", 0>> /\ a \notin D
    BY HolderType
  <1>9. ASSUME NEW p \in Holders, p \notin D, p # a PROVE Held(p)' = Held(p)
    <2>1. /\ p[1] # "gone" /\ (p[1] \in {"down", "inbox", "leaked"} => p[2] \in Workers /\ p[2] # w)
          /\ p[1] \in {"buf", "bridge"} => p[2] \in Servers /\ p[2] \notin S
      <3>1. /\ p = <<p[1], p[2]>> /\ (p[1] = "gone" => p[2] = 0)
            /\ p[1] \in {"down", "inbox", "leaked"} => p[2] \in Workers
            /\ p[1] \in {"buf", "bridge"} => p[2] \in Servers
        BY HolderType
      <3> HIDE DEF S
      <3> QED  BY <1>8, <1>9, <3>1
    <2> HIDE DEF S
    <2> QED  BY <1>2, <1>3, <1>4, <2>1, HeldSame
  <1>10. ASSUME NEW c PROVE c \in Held(<<"gone", 0>>)' <=> c \in Held(<<"gone", 0>>) \/ \E p \in Holders : p \in D /\ c \in Held(p)
    <2>1. Held(<<"gone", 0>>) = {x \in Conns : x \in gone} /\ Held(<<"gone", 0>>)' = {x \in Conns : x \in gone'}
      BY HeldAt, HeldAfter
    <2>2. \A p : Held(p) \subseteq Conns
      BY DEF Held
    <2> HIDE DEF mine, D
    <2>3. CASE c \in Conns
      BY <1>1, <1>6, <2>1, <2>3
    <2>4. CASE c \notin Conns
      BY <2>1, <2>2, <2>4
    <2> QED  BY <2>3, <2>4
  <1>11. PICK g, h : /\ \A p \in Holders : g[p] = Held(p) /\ h[p] = Held(p)'
                     /\ Split(g, next) /\ (Split(h, next') /\ NoTwice' => OwnerInv')
    BY OwnerFacts
  <1> HIDE DEF D, mine, S
  <1>12. \A p \in Holders : p \notin D /\ p # a => h[p] = g[p]
    BY <1>9, <1>11
  <1>13. \A p \in Holders : p \in D => h[p] = {}
    BY <1>7, <1>11
  <1>14. \A c : c \in h[a] <=> c \in g[a] \/ \E p \in Holders : p \in D /\ c \in g[p] /\ c \notin h[p]
    <2>1. h[a] = Held(<<"gone", 0>>)' /\ g[a] = Held(<<"gone", 0>>)
      BY <1>8, <1>11
    <2>2. \A c : c \in h[a] <=> c \in g[a] \/ \E p \in Holders : p \in D /\ c \in Held(p)
      BY <1>10, <2>1
    <2>3. \A p \in Holders : Held(p) = g[p]
      BY <1>11
    <2> QED  BY <1>13, <2>2, <2>3
  <1>15. Split(h, next)
    <2>1. PICK n, E : n = next /\ E = D
      OBVIOUS
    <2>2. /\ Split(g, n) /\ a \notin E /\ \A p \in Holders : p \notin E /\ p # a => h[p] = g[p]
          /\ \A p \in Holders : p \in E => h[p] \subseteq g[p]
          /\ \A c : c \in h[a] <=> c \in g[a] \/ \E p \in Holders : p \in E /\ c \in g[p] /\ c \notin h[p]
      BY <1>8, <1>11, <1>12, <1>13, <1>14, <2>1
    <2>3. Split(h, n)
      BY ONLY <2>2, a \in Holders, MoveLemma
    <2> QED  BY <2>1, <2>3
  <1> QED  BY <1>2, <1>5, <1>11, <1>15

(* A frame is added to the channel of worker w. *)
LEMMA DownLemma ==
    ASSUME WorkerTypes, OwnerInv, NEW w \in Workers, NEW f, down' = [down EXCEPT ![w] = Append(@, f)],
           UNCHANGED <<inbox, leaked, buf, bridge, served, gone>>,
           \A c \in Conns : Once(Append(down[w], f), Fd(c))
    PROVE  /\ NoTwice' /\ down'[w] = Append(down[w], f)
           /\ \A p \in Holders : p # <<"down", w>> => Held(p)' = Held(p)
  <1>1. down'[w] = Append(down[w], f) /\ \A v \in Workers : v # w => down'[v] = down[v]
    BY DEF WorkerTypes
  <1>2. NoTwice'
    <2>1. ASSUME NEW v \in Workers, NEW c \in Conns PROVE Once(down'[v], Fd(c)) /\ Once(inbox'[v], c)
      <3>1. CASE v = w
        BY <1>1, <3>1, QueueTypes
      <3>2. CASE v # w
        BY <1>1, <3>2, QueueTypes
      <3> QED  BY <3>1, <3>2
    <2>2. ASSUME NEW t \in Servers, NEW c \in Conns PROVE Once(buf'[t], c)
      BY QueueTypes
    <2> QED  BY <2>1, <2>2 DEF NoTwice
  <1>3. ASSUME NEW p \in Holders, p # <<"down", w>> PROVE Held(p)' = Held(p)
    <2>1. p[1] = "down" => p[2] \in Workers /\ p[2] # w
      BY <1>3, HolderType
    <2> QED  BY <1>1, <2>1, HeldSame
  <1> QED  BY <1>1, <1>2, <1>3

(* A reply is no connection. *)
LEMMA OwnerPumpReply ==
    ASSUME PrimaryTypes, WorkerTypes, OwnerInv, PumpReply
    PROVE  OwnerInv'
  <1>0. UNCHANGED <<next, inbox, leaked, buf, bridge, served, gone>>
    BY DEF PumpReply, key, serving
  <1>1. PICK w \in Workers : w = Head(batch)[2]
    BY BatchType DEF PumpReply, PrimaryTypes
  <1>2. PICK b \in BOOLEAN : b = (pump = "yes")
    OBVIOUS
  <1>3. down' = down \/ down' = [down EXCEPT ![w] = Append(@, Reply(b))]
    BY <1>1, <1>2 DEF PumpReply
  <1>4. CASE down' = down
    <2>1. NoTwice'
      BY <1>0, <1>4, QueueTypes DEF NoTwice
    <2>2. \A p \in Holders : Held(p)' = Held(p)
      BY <1>0, <1>4, HeldSame
    <2> QED  BY <1>0, <2>1, <2>2, OwnerSame
  <1>5. CASE down' = [down EXCEPT ![w] = Append(@, Reply(b))]
    <2>1. \A c \in Conns : Once(Append(down[w], Reply(b)), Fd(c)) /\ (In(Append(down[w], Reply(b)), Fd(c)) <=> In(down[w], Fd(c)))
      BY QueueTypes, FrameLemma
    <2>2. /\ NoTwice' /\ down'[w] = Append(down[w], Reply(b))
          /\ \A p \in Holders : p # <<"down", w>> => Held(p)' = Held(p)
      BY <1>0, <1>5, <2>1, DownLemma
    <2>3. Held(<<"down", w>>)' = Held(<<"down", w>>)
      <3>1. Held(<<"down", w>>) = {c \in Conns : In(down[w], Fd(c))} /\ Held(<<"down", w>>)' = {c \in Conns : In(down'[w], Fd(c))}
        BY HeldAt, HeldAfter
      <3> QED  BY <2>1, <2>2, <3>1
    <2>4. \A p \in Holders : Held(p)' = Held(p)
      BY <2>2, <2>3
    <2> QED  BY <1>0, <2>2, <2>4, OwnerSame
  <1> QED  BY <1>3, <1>4, <1>5

(* The accepted connection comes to place a. *)
LEMMA OwnerArrive ==
    ASSUME OwnerInv, next \in Nat \ {0}, next' = next + 1, NoTwice', NEW a \in Holders,
           \A p \in Holders : p # a => Held(p)' = Held(p), Held(a)' = Held(a) \cup {next}
    PROVE  OwnerInv'
  <1>1. PICK g, h : /\ \A p \in Holders : g[p] = Held(p) /\ h[p] = Held(p)'
                    /\ Split(g, next) /\ (Split(h, next') /\ NoTwice' => OwnerInv')
    BY OwnerFacts
  <1>2. PICK n \in Nat \ {0} : n = next
    OBVIOUS
  <1>3. Split(g, n) /\ (\A p \in Holders : p # a => h[p] = g[p]) /\ h[a] = g[a] \cup {n}
    BY <1>1, <1>2
  <1>4. Split(h, n + 1)
    BY ONLY <1>3, a \in Holders, n \in Nat \ {0}, ArriveLemma
  <1> QED  BY <1>1, <1>2, <1>4

(* accept: the connection goes to the channel of a worker, or is closed. *)
LEMMA OwnerAccept ==
    ASSUME PrimaryTypes, RotationInv, WorkerTypes, OwnerInv, Accept
    PROVE  OwnerInv'
  <1>0. UNCHANGED <<inbox, leaked, buf, bridge, served>>
    BY DEF Accept
  <1>1. next \in Conns /\ next' = next + 1 /\ next \in Nat \ {0}
    BY AcceptLemma DEF Conns
  <1>2. \A p \in Holders : next \notin Held(p)
    <2>1. next \notin 1 .. next - 1
      BY <1>1
    <2> QED  BY <2>1 DEF OwnerInv, Split
  <1>3. CASE gone' = gone \cup {next} /\ down' = down
    <2>1. PICK a \in Holders : a = <<"gone", 0>>
      BY HolderType
    <2>2. NoTwice'
      BY <1>0, <1>3, QueueTypes DEF NoTwice
    <2>3. ASSUME NEW p \in Holders, p # a PROVE Held(p)' = Held(p)
      <3>1. p[1] # "gone"
        BY <2>1, <2>3, HolderType
      <3> QED  BY <1>0, <1>3, <3>1, HeldSame
    <2>4. Held(a)' = Held(a) \cup {next}
      <3>1. Held(<<"gone", 0>>) = {x \in Conns : x \in gone} /\ Held(<<"gone", 0>>)' = {x \in Conns : x \in gone'}
        BY HeldAt, HeldAfter
      <3>2. Held(<<"gone", 0>>)' = Held(<<"gone", 0>>) \cup {next}
        BY <1>1, <1>3, <3>1
      <3> QED  BY <2>1, <3>2
    <2> QED  BY <1>1, <2>2, <2>3, <2>4, OwnerArrive
  <1>4. ASSUME NEW k \in 1 .. Len(rot), gone' = gone, down' = [down EXCEPT ![rot[k]] = Append(@, Fd(next))]
        PROVE  OwnerInv'
    <2>1. PICK w \in Workers : w = rot[k]
      BY DEF PrimaryTypes
    <2>2. PICK a \in Holders : a = <<"down", w>>
      BY HolderType
    <2>3. ~In(down[w], Fd(next))
      <3>1. Held(<<"down", w>>) = {x \in Conns : In(down[w], Fd(x))}
        BY HeldAt
      <3>2. next \notin Held(<<"down", w>>)
        BY <1>2, <2>2
      <3> QED  BY <1>1, <3>1, <3>2
    <2>4. PICK n \in Conns : n = next
      BY <1>1
    <2>5. \A c \in Conns : Once(Append(down[w], Fd(n)), Fd(c)) /\ (In(Append(down[w], Fd(n)), Fd(c)) <=> In(down[w], Fd(c)) \/ c = n)
      <3>1. down[w] \in Seq(Frames) /\ \A c \in Conns : Once(down[w], Fd(c))
        BY QueueTypes
      <3>2. ~In(down[w], Fd(n))
        BY <2>3, <2>4
      <3> QED  BY <3>1, <3>2, FrameLemma
    <2>6. down' = [down EXCEPT ![w] = Append(@, Fd(n))]
      BY <1>4, <2>1, <2>4
    <2>7. /\ NoTwice' /\ down'[w] = Append(down[w], Fd(n))
          /\ \A p \in Holders : p # <<"down", w>> => Held(p)' = Held(p)
      BY <1>0, <1>4, <2>5, <2>6, DownLemma
    <2>8. Held(a)' = Held(a) \cup {next}
      <3>1. Held(<<"down", w>>) = {x \in Conns : In(down[w], Fd(x))} /\ Held(<<"down", w>>)' = {x \in Conns : In(down'[w], Fd(x))}
        BY HeldAt, HeldAfter
      <3>2. Held(<<"down", w>>)' = Held(<<"down", w>>) \cup {n}
        BY <2>5, <2>7, <3>1
      <3> QED  BY <2>2, <2>4, <3>2
    <2>9. \A p \in Holders : p # a => Held(p)' = Held(p)
      BY <2>2, <2>7
    <2> QED  BY <1>1, <2>7, <2>8, <2>9, OwnerArrive
  <1>5. (gone' = gone \cup {next} /\ down' = down)
        \/ \E k \in 1 .. Len(rot) : gone' = gone /\ down' = [down EXCEPT ![rot[k]] = Append(@, Fd(next))]
    BY AcceptLemma
  <1> QED  BY <1>3, <1>4, <1>5

(* The reply starts the bridge of a server that had none. *)
LEMMA OwnerAnswer ==
    ASSUME WorkerTypes, FreshInv, OwnerInv, NEW w \in Workers, Answer(w)
    PROVE  OwnerInv'
  <1>0. UNCHANGED <<next, down, inbox, leaked, buf, served, gone>> /\ lis[w] = "asking" /\ bridge \in [Servers -> Bridges]
    BY DEF Answer, key, wire, WorkerTypes, BridgeTypes
  <1>1. PICK t : t = <<w, gen[w]>>
    OBVIOUS
  <1>2. bridge' = [bridge EXCEPT ![t].pc = IF query[w] = "yes" THEN "check" ELSE @]
    BY <1>1 DEF Answer
  <1>3. \A s \in Servers : s # t => bridge'[s] = bridge[s]
    BY <1>0, <1>2
  <1>4. t \in Servers => bridge[t].pc = "none"
    <2>1. t[1] = w /\ t[2] = gen[w]
      BY <1>1
    <2> QED  BY <1>0, <2>1 DEF FreshInv
  <1>5. t \in Servers => bridge'[t].pc \in {"none", "check"}
    BY <1>0, <1>2, <1>4 DEF Bridges
  <1>6. NoTwice'
    BY <1>0, QueueTypes DEF NoTwice
  <1>7. ASSUME NEW p \in Holders PROVE Held(p)' = Held(p)
    <2>1. p[1] = "bridge" => \/ bridge'[p[2]] = bridge[p[2]]
                             \/ bridge[p[2]].pc # "send" /\ bridge'[p[2]].pc # "send"
      BY <1>3, <1>4, <1>5, HolderType
    <2> QED  BY <1>0, <2>1, HeldSame
  <1> QED  BY <1>0, <1>6, <1>7, OwnerSame

(* Every step keeps every connection in one place. *)
LEMMA OwnerStep ==
    PrimaryTypes /\ WorkerTypes /\ RotationInv /\ FreshInv /\ OwnerInv /\ ClusterNext => OwnerInv'
  <1> SUFFICES ASSUME PrimaryTypes, WorkerTypes, RotationInv, FreshInv, OwnerInv, ClusterNext PROVE OwnerInv'
    OBVIOUS
  <1>1. CASE UNCHANGED <<next, down, inbox, leaked, buf, bridge, served, gone>>
    <2>1. NoTwice'
      BY <1>1, QueueTypes DEF NoTwice
    <2>2. \A p \in Holders : Held(p)' = Held(p)
      BY <1>1, HeldSame
    <2> QED  BY <1>1, <2>1, <2>2, OwnerSame
  <1>2. CASE PumpSpawn \/ PumpStart \/ PumpCollect \/ PumpDone \/ Immediate
    BY <1>1, <1>2 DEF PumpSpawn, PumpStart, PumpCollect, PumpDone, Immediate, key, wire, serving
  <1>3. CASE PumpEvent
    <2>1. UNCHANGED <<next, down>>
      BY <1>3, PumpEventLemma DEF PumpsEvent, PumpQuery, PumpClosed, PumpExited, key
    <2> QED  BY <1>1, <1>3, <2>1 DEF PumpEvent, serving
  <1>4. ASSUME NEW w \in Workers, PumpExit(w) \/ PumpClose(w) \/ Fork(w) \/ Disconnect(w) \/ ReaderP(w) \/ Waiter(w)
        PROVE  OwnerInv'
    BY <1>1, <1>4 DEF PumpExit, RemoveWorker, PumpClose, Fork, Disconnect, ReaderP, Waiter, key, wire, serving
  <1>5. ASSUME NEW w \in Workers, Listen(w) \/ SelfDisconnect(w) \/ Timeout(w) PROVE OwnerInv'
    BY <1>1, <1>5 DEF Listen, SelfDisconnect, Timeout, key, wire, serving
  <1>6. ASSUME NEW w \in Workers, Quit(w) \/ WorkerDies(w) PROVE OwnerInv'
    BY <1>6, OwnerEnd DEF Quit, WorkerDies
  <1>7. ASSUME NEW w \in Workers, Answer(w) \/ ReaderW(w) \/ ReaderWEnd(w) PROVE OwnerInv'
    BY <1>7, OwnerAnswer, OwnerReaderW, OwnerReaderWEnd
  <1>8. ASSUME NEW s \in Servers, Server(s) PROVE OwnerInv'
    BY <1>8, OwnerBridgeRecv, OwnerBridgeSend, OwnerServe, OwnerLoopEnd DEF Server
  <1>9. ASSUME NEW s \in Servers, ServerClose(s) PROVE OwnerInv'
    BY <1>1, <1>9 DEF ServerClose, key, wire
  <1>10. CASE PumpReply \/ Accept
    BY <1>10, OwnerPumpReply, OwnerAccept
  <1> QED
    BY <1>2, <1>3, <1>4, <1>5, <1>6, <1>7, <1>8, <1>9, <1>10 DEF ClusterNext, Primary, Worker

-----------------------------------------------------------------------------
(* The invariant holds at the start. *)
LEMMA ClusterInvInit == ClusterInit => ClusterInv
  <1> SUFFICES ASSUME ClusterInit PROVE ClusterInv
    OBVIOUS
  <1>1. UnforkedInv
    <2>1. ~NoKid.map /\ ~NoKid.marked /\ ~NoKid.exitEmitted
      BY DEF NoKid, NewKid
    <2> QED  BY <2>1 DEF ClusterInit, UnforkedInv
  <1>2. RotationInv
    BY DEF ClusterInit, RotationInv
  <1>3. EventInv
    <2> SUFFICES ASSUME NEW w \in Workers PROVE Told(w)
      BY DEF EventInv
    <2>1. log[w] = <<>> /\ imm = <<>> /\ ~kid[w].marked
      BY DEF ClusterInit, NoKid, NewKid
    <2>2. \A d, e : Before(<<>>, d, e)
      BY DEF Before
    <2> QED  BY <2>1, <2>2, EmptyQueue DEF Told
  <1>4. FreshInv
    BY DEF ClusterInit, FreshInv, Idle
  <1>5. OwnerInv
    <2>1. /\ \A w \in Workers : down[w] = <<>> /\ inbox[w] = <<>> /\ leaked[w] = {}
          /\ \A s \in Servers : buf[s] = <<>> /\ bridge[s].pc # "send"
          /\ served = {} /\ gone = {} /\ next = 1
      BY DEF ClusterInit, Idle
    <2>2. NoTwice
      BY <2>1, EmptyQueue DEF NoTwice
    <2>3. ASSUME NEW p \in Holders PROVE Held(p) = {}
      <3>1. \A c \in Conns : ~Has(p, c)
        BY <2>1, EmptyQueue, HolderType DEF Has
      <3> QED  BY <3>1 DEF Held
    <2>4. 1 .. next - 1 = {}
      BY <2>1
    <2> QED  BY <2>2, <2>3, <2>4 DEF OwnerInv, Split
  <1> QED  BY <1>1, <1>2, <1>3, <1>4, <1>5, PrimaryTypesInit, WorkerTypesInit DEF ClusterInv

(* The invariant is inductive. *)
LEMMA ClusterInvStep == ClusterInv /\ [ClusterNext]_clustervars => ClusterInv'
  <1> SUFFICES ASSUME ClusterInv, [ClusterNext]_clustervars PROVE ClusterInv'
    OBVIOUS
  <1>1. CASE ClusterNext
    BY <1>1, PrimaryTypesStep, WorkerTypesStep, UnforkedStep, RotationStep, EventStep, FreshStep, OwnerStep DEF ClusterInv
  <1>2. CASE UNCHANGED clustervars
    <2> USE <1>2 DEF ClusterInv, clustervars, reactor, key, wire, listens, serving, bounds
    <2>1. PrimaryTypes' /\ WorkerTypes'
      BY DEF PrimaryTypes, WorkerTypes
    <2>2. UnforkedInv' /\ FreshInv'
      BY DEF UnforkedInv, FreshInv
    <2>3. RotationInv'
      BY DEF RotationInv, Sendable, Ahead
    <2>4. EventInv'
      BY DEF EventInv, Told
    <2>5. OwnerInv'
      <3>1. NoTwice'
        BY QueueTypes DEF NoTwice
      <3>2. \A p \in Holders : Held(p)' = Held(p)
        BY HeldSame
      <3> QED  BY <3>1, <3>2, OwnerSame
    <2> QED  BY <2>1, <2>2, <2>3, <2>4, <2>5
  <1> QED  BY <1>1, <1>2

(* The inductive invariant of node:cluster, for any number of workers, connections,
   listens, deaths and slow answers: the rotation of dispatch_fd_round_robin, the events
   of mark_worker_disconnected and cluster_internal_exit, and the place of every
   connection stay consistent over all steps of the two processes and their threads. *)
THEOREM ClusterInvariant == ClusterSpec => []ClusterInv
  BY ClusterInvInit, ClusterInvStep, PTL DEF ClusterSpec

(* The rotation has every worker at most once. *)
LEMMA RotationBound ==
    ASSUME PrimaryTypes, RotationInv
    PROVE  /\ Cardinality(Workers) \in Nat /\ Len(rot) \in Nat /\ Len(rot) <= Cardinality(Workers)
           /\ IsInjective(rot)
  <1>1. rot \in [1 .. Len(rot) -> Workers] /\ Len(rot) \in Nat
    BY DEF PrimaryTypes
  <1>2. IsInjective(rot)
    BY <1>1 DEF IsInjective, RotationInv
  <1>3. PICK n \in Nat : n = Len(rot)
    BY <1>1
  <1>4. PICK r : r = rot
    OBVIOUS
  <1>5. r \in Injection(1 .. n, Workers)
    BY <1>1, <1>2, <1>3, <1>4 DEF Injection
  <1>6. IsFiniteSet(Workers)
    BY ClusterAssumption
  <1>7. Cardinality(1 .. n) <= Cardinality(Workers)
    BY <1>5, <1>6, FS_Injection
  <1>8. Cardinality(1 .. n) = n
    BY FS_Interval
  <1> QED  BY <1>1, <1>2, <1>3, <1>6, <1>7, <1>8, FS_CardinalityType

(* What is once in a sequence. *)
LEMMA OnceLemma ==
    ASSUME NEW S, NEW s \in Seq(S), NEW e, Once(s, e)
    PROVE  Cardinality({i \in DOMAIN s : s[i] = e}) <= 1
  <1>1. DOMAIN s = 1 .. Len(s)
    OBVIOUS
  <1>2. CASE {i \in DOMAIN s : s[i] = e} = {}
    BY <1>2, FS_EmptySet
  <1>3. CASE {i \in DOMAIN s : s[i] = e} # {}
    <2>1. PICK k \in DOMAIN s : s[k] = e
      BY <1>3
    <2>2. {i \in DOMAIN s : s[i] = e} = {k}
      BY <1>1, <2>1 DEF Once
    <2>3. Cardinality({k}) = 1
      BY FS_Singleton
    <2>4. PICK I : I = {i \in DOMAIN s : s[i] = e}
      OBVIOUS
    <2>5. Cardinality(I) = 1
      BY <2>2, <2>3, <2>4
    <2> QED  BY <2>4, <2>5
  <1> QED  BY <1>2, <1>3

(* The invariant has the events of a worker in their order. *)
LEMMA InvOrder == ClusterInv => ClusterOrder
  <1> SUFFICES ASSUME ClusterInv, NEW w \in Workers PROVE Ordered(log[w], "disconnect", "exit")
    BY DEF ClusterOrder
  <1>1. /\ Told(w) /\ log[w] \in Seq(Seen) /\ DOMAIN log[w] = 1 .. Len(log[w])
    BY DEF ClusterInv, EventInv, PrimaryTypes
  <1>2. /\ Cardinality({i \in DOMAIN log[w] : log[w][i] = "disconnect"}) <= 1
        /\ Cardinality({i \in DOMAIN log[w] : log[w][i] = "exit"}) <= 1
    BY <1>1, OnceLemma DEF Told
  <1>3. \A i \in DOMAIN log[w] : log[w][i] = "exit" => \E j \in 1 .. i - 1 : log[w][j] = "disconnect"
    BY <1>1 DEF Told, Before
  <1> QED  BY <1>2, <1>3 DEF Ordered

(* The invariant bounds how often a worker is passed over. *)
LEMMA InvFair == ClusterInv => RotationFair
  <1> SUFFICES ASSUME ClusterInv, NEW w \in Workers, w \in Range(rot), Sendable(w)
               PROVE  since[w] < Cardinality(Workers)
    BY DEF RotationFair
  <1>1. PICK i \in 1 .. Len(rot) : rot[i] = w
    BY DEF ClusterInv, PrimaryTypes, Range
  <1>2. since[w] + Ahead(i) < Len(rot) /\ since[w] \in Nat
    BY <1>1 DEF ClusterInv, RotationInv, PrimaryTypes
  <1>3. Cardinality(Workers) \in Nat /\ Len(rot) \in Nat /\ Len(rot) <= Cardinality(Workers)
    BY RotationBound DEF ClusterInv
  <1>4. idx \in Nat /\ idx < Len(rot)
    <2>1. rot # <<>>
      BY <1>1
    <2> QED  BY <2>1 DEF ClusterInv, RotationInv, PrimaryTypes
  <1>5. Ahead(i) \in Nat
    BY <1>1, <1>3, <1>4 DEF Ahead
  <1> QED  BY <1>2, <1>3, <1>5

(* The invariant has the types. *)
LEMMA InvTypes == ClusterInv => ClusterTypes
  <1> SUFFICES ASSUME ClusterInv PROVE ClusterTypes
    OBVIOUS
  <1>1. PrimaryTypes /\ WorkerTypes /\ RotationInv
    BY DEF ClusterInv
  <1>2. idx \in 0 .. Cardinality(Workers) /\ (rot # <<>> => idx < Len(rot)) /\ IsInjective(rot)
    BY <1>1, RotationBound DEF PrimaryTypes, RotationInv
  <1>3. Range(rot) \subseteq Workers
    BY <1>1 DEF PrimaryTypes, Range
  <1> QED  BY <1>1, <1>2, <1>3 DEF ClusterTypes, PrimaryTypes, WorkerTypes

(* The invariant has every accepted connection in one place. *)
LEMMA InvOwner == ClusterInv => OneOwner
  <1> SUFFICES ASSUME ClusterInv, NEW c \in Conns, c < next PROVE Cardinality(Places(c)) = 1
    BY DEF OneOwner
  <1>1. PrimaryTypes /\ WorkerTypes /\ OwnerInv /\ c \in 1 .. next - 1
    BY DEF ClusterInv, PrimaryTypes, Conns
  <1>2. PICK p \in Holders : c \in Held(p)
    BY <1>1 DEF OwnerInv, Split
  <1>3. \A q \in Holders : c \in Held(q) <=> q = p
    BY <1>1, <1>2 DEF OwnerInv, Split
  <1>4. /\ \A w \in Workers : /\ c \in Fds(down[w]) <=> p = <<"down", w>>
                              /\ c \in Range(inbox[w]) <=> p = <<"inbox", w>>
                              /\ c \in leaked[w] <=> p = <<"leaked", w>>
        /\ \A s \in Servers : /\ c \in Range(buf[s]) <=> p = <<"buf", s>>
                              /\ bridge[s].pc = "send" /\ bridge[s].fd = c <=> p = <<"bridge", s>>
        /\ c \in served <=> p = <<"served", 0>>
        /\ c \in gone <=> p = <<"gone", 0>>
    <2>1. ASSUME NEW w \in Workers
          PROVE  /\ c \in Fds(down[w]) <=> p = <<"down", w>>
                 /\ c \in Range(inbox[w]) <=> p = <<"inbox", w>>
                 /\ c \in leaked[w] <=> p = <<"leaked", w>>
      <3>1. Fds(down[w]) = {x \in Conns : In(down[w], Fd(x))}
        BY <1>1, QueueTypes, FrameLemma
      <3>2. Range(inbox[w]) = {x \in Conns : In(inbox[w], x)}
        BY <1>1, QueueTypes, QueueLemma
      <3>3. /\ c \in Fds(down[w]) <=> c \in Held(<<"down", w>>)
            /\ c \in Range(inbox[w]) <=> c \in Held(<<"inbox", w>>)
            /\ c \in leaked[w] <=> c \in Held(<<"leaked", w>>)
        BY <3>1, <3>2, HeldAt
      <3> QED  BY <1>3, <3>3, HolderType
    <2>2. ASSUME NEW s \in Servers
          PROVE  /\ c \in Range(buf[s]) <=> p = <<"buf", s>>
                 /\ bridge[s].pc = "send" /\ bridge[s].fd = c <=> p = <<"bridge", s>>
      <3>1. Range(buf[s]) = {x \in Conns : In(buf[s], x)}
        BY <1>1, QueueTypes, QueueLemma
      <3>2. /\ c \in Range(buf[s]) <=> c \in Held(<<"buf", s>>)
            /\ bridge[s].pc = "send" /\ bridge[s].fd = c <=> c \in Held(<<"bridge", s>>)
        BY <3>1, HeldAt
      <3> QED  BY <1>3, <3>2, HolderType
    <2>3. (c \in served <=> p = <<"served", 0>>) /\ (c \in gone <=> p = <<"gone", 0>>)
      BY <1>3, HeldAt, HolderType
    <2> QED  BY <2>1, <2>2, <2>3
  <1>5. PICK q : q = IF p[1] \in {"served", "gone"} THEN <<p[1], c>> ELSE p
    OBVIOUS
  <1>6. \A x : x \in Places(c) <=> x = q
    <2>1. \A x : x \in Places(c) <=>
            \/ \E w \in Workers : x = <<"down", w>> /\ c \in Fds(down[w])
            \/ \E w \in Workers : x = <<"inbox", w>> /\ c \in Range(inbox[w])
            \/ \E w \in Workers : x = <<"leaked", w>> /\ c \in leaked[w]
            \/ \E s \in Servers : x = <<"buf", s>> /\ c \in Range(buf[s])
            \/ \E s \in Servers : x = <<"bridge", s>> /\ bridge[s].pc = "send" /\ bridge[s].fd = c
            \/ c \in served /\ x = <<"served", c>>
            \/ c \in gone /\ x = <<"gone", c>>
      BY DEF Places
    <2>2. \A x : x \in Places(c) <=>
            \/ \E w \in Workers : x = <<"down", w>> /\ p = x
            \/ \E w \in Workers : x = <<"inbox", w>> /\ p = x
            \/ \E w \in Workers : x = <<"leaked", w>> /\ p = x
            \/ \E s \in Servers : x = <<"buf", s>> /\ p = x
            \/ \E s \in Servers : x = <<"bridge", s>> /\ p = x
            \/ p = <<"served", 0>> /\ x = <<"served", c>>
            \/ p = <<"gone", 0>> /\ x = <<"gone", c>>
      BY <1>4, <2>1
    <2>3. /\ p = <<p[1], p[2]>> /\ p[1] \in {"down", "inbox", "leaked", "buf", "bridge", "served", "gone"}
          /\ p[1] \in {"down", "inbox", "leaked"} => p[2] \in Workers
          /\ p[1] \in {"buf", "bridge"} => p[2] \in Servers
          /\ p[1] \in {"served", "gone"} => p[2] = 0
      BY HolderType
    <2> QED  BY <1>5, <2>2, <2>3
  <1>7. Places(c) = {q}
    BY <1>6
  <1> QED  BY <1>7, FS_Singleton

(* node:cluster is safe: the descriptor of an accepted connection is in exactly one place
   (dispatch_fd_round_robin, worker_recv_loop, worker_recv_fd, spawn_rr_inject_loop), the
   cluster's `disconnect` of a worker comes once and before its `exit`, and no worker that
   can take connections is passed over more than once for each other worker. *)
THEOREM ClusterSafe == ClusterSpec => []ClusterIsSafe
  <1>1. ClusterInv => ClusterIsSafe
    BY InvTypes, InvOwner, InvOrder, InvFair DEF ClusterIsSafe
  <1> QED  BY <1>1, ClusterInvariant, PTL

-----------------------------------------------------------------------------
(* Compose.tla, the orchestrator. *)

(* Records and lists as the provers need them. *)
EngineFields == {"pc", "op", "n", "inc", "spec", "svcs", "rmvol", "orph", "todo", "ids", "sc",
                 "sr", "saved", "ret", "bad"}
ContainerFields == {"id", "name", "svc", "proj", "ver", "st", "by"}
IsEngine(r) == r = [x \in EngineFields |-> r[x]]
IsContainer(c) == c = [x \in ContainerFields |-> c[x]]
IsList(s) == s \in Seq(Range(s))

(* The networks and volumes an engine may create and remove. *)
Own(e) == {r \in [k : {"net", "vol"}, p : {ProjOf[e]}, i : Nat] : r \notin External}
NoVolume(s) == \A r \in Range(s) : r.k # "vol"

(* The containers there are, and those a run may still create. *)
Runs == cont \cup late

(* What the fields of an engine are at each point of its operation. *)
EngineOk(e, r) ==
  /\ IsEngine(r) /\ r.n \in 0 .. ops /\ r.bad \in BOOLEAN /\ r.rmvol \in BOOLEAN
  /\ IsList(r.sc) /\ r.sr \in Seq(Own(e)) /\ r.saved \in Seq(Own(e))
  /\ r.pc \notin {"kill", "sweep"} => r.ids = {}
  /\ r.pc \in {"mk", "swap", "start", "run", "kill"} => r.todo # <<>>
  /\ r.pc \in {"res", "mk", "svc", "swap", "start", "run"} => r.op = "up"
  /\ r.pc = "undo" => r.op \in {"up", "down"}
  /\ r.pc \in {"list", "kill", "orphans", "rmres"} => r.op = "down"
  /\ r.pc = "project" => r.op = "sweep"
  /\ r.pc \in {"bstart", "bstop"} => r.op \in {"start", "stop", "restart"}
  /\ r.pc = "sweep" => r.op \in {"down", "sweep"}
  /\ r.pc \in {"res", "mk", "orphans", "rmres"} \/ (r.pc = "sweep" /\ r.op = "down")
       => r.todo \in Seq(Own(e))
  /\ r.pc \in {"orphans", "rmres", "sweep"} /\ r.op = "down" /\ ~r.rmvol => NoVolume(r.todo)
  /\ r.pc = "undo" /\ r.op = "down" /\ ~r.rmvol => NoVolume(r.sr)
  /\ r.pc # "idle" => r.n # 0 /\ r.ret = "none"
  /\ r.ret = "undone" => r.n # 0 /\ r.op = "up" /\ r.sc = <<>> /\ r.sr = <<>>

EnginesInv ==
  /\ ops \in Nat /\ eng = [e \in Engines |-> eng[e]]
  /\ \A e \in Engines : EngineOk(e, eng[e])
  /\ \A e, f \in Engines : eng[e].n = eng[f].n /\ eng[e].n # 0 => e = f

(* Containers have ids of their own, and no list has one that is still to come. *)
ItemsInv ==
  /\ \A c \in Runs : IsContainer(c) /\ c.id \in Nat \ {0} /\ c.by \in 0 .. ops
                     /\ c.st \in {"created", "running", "stopped"}
  /\ \A c, d \in cont : c.name = d.name => c = d
  /\ \A c, d \in Runs : c.id = d.id => c.proj = d.proj /\ c.by = d.by
  /\ \A x \in res : x.by \in 0 .. ops
  /\ \A x, y \in res : x.r = y.r => x = y
  /\ \E b \in Nat : UsedIds \subseteq 0 .. b

(* What an engine lists is of its project; what an up() listed by id is its own. *)
Lists(r, i) == i \in r.ids \/ \E x \in Range(r.sc) : x.id = i
ListsInv ==
  \A e \in Engines : \A c \in Runs :
     /\ Lists(eng[e], c.id) => c.proj = ProjOf[e]
     /\ eng[e].op = "up" /\ (\E x \in Range(eng[e].sc) : x.id = c.id) => c.by = eng[e].n

(* What an up() created is on its lists until the rollback has removed it. *)
Undoing(r) == r.op = "up" /\ ~r.bad /\ (r.pc # "idle" \/ r.ret = "undone")
CreatedInv ==
  late = {} /\ \A e \in Engines : Undoing(eng[e]) =>
     /\ \A c \in cont : c.by = eng[e].n => \E x \in Range(eng[e].sc) : x.id = c.id
     /\ \A x \in res : x.by = eng[e].n => x.r \in Range(eng[e].sr)

(* With one engine for each project, what the list of an up() names is what it created. *)
OwnersInv ==
  \A e \in Engines : \A x \in res :
     eng[e].op = "up" /\ x.r \in Range(eng[e].sr) => x.by = eng[e].n

(* What an up() is about to create does not exist. *)
AbsentInv ==
  \A e \in Engines : eng[e].pc = "mk" => \A x \in res : x.r # Head(eng[e].todo)

(* Without container_name a name tells the engine, and the spec it was made for. *)
NamesInv ==
  /\ \A c \in Runs :
       /\ c.name[1] \in Engines /\ c.proj = ProjOf[c.name[1]]
       /\ c.name[2] <= eng[c.name[1]].inc
       /\ c.name[2] = eng[c.name[1]].inc => c.ver = eng[c.name[1]].spec.ver
       /\ c.name[2] \in Nat
  /\ \A e \in Engines : eng[e].inc \in Nat /\ eng[e].pc # "swap"
                        /\ \A x \in Range(eng[e].sc) : x.id = 0 => x.name[1] = e

(* With one engine, a container that is about to be replaced is outdated. *)
SwapInv ==
  \A e \in Engines : eng[e].pc = "swap" =>
     /\ ByName(NameOf(e, Head(eng[e].todo))) # {}
     /\ \A c \in ByName(NameOf(e, Head(eng[e].todo))) : c.ver # eng[e].spec.ver

-----------------------------------------------------------------------------
(* Vec::retain keeps the elements at the positions it is told to, and nothing else. *)
LEMMA SelectRange ==
    ASSUME NEW E, NEW q \in Seq(E), NEW K \in SUBSET (1 .. Len(q))
    PROVE  Select(q, K) \in Seq(E) /\ Range(Select(q, K)) = {q[n] : n \in K}
  <1> DEFINE under(n) == {m \in K : m < n}
             place == [n \in K |-> 1 + Cardinality(under(n))]
             c == Cardinality(K)
             nth(k) == CHOOSE n \in K : 1 + Cardinality({m \in K : m < n}) = k
             z == Select(q, K)
  <1>1. IsFiniteSet(K) /\ c \in Nat /\ K \subseteq Nat
    <2>1. IsFiniteSet(1 .. Len(q))
      BY FS_Interval
    <2>2. IsFiniteSet(K)
      BY <2>1, FS_Subset
    <2> QED  BY <2>2, FS_CardinalityType
  <1>2. ASSUME NEW n \in K
        PROVE  IsFiniteSet(under(n)) /\ Cardinality(under(n)) \in Nat /\ Cardinality(under(n)) < c
    <2>1. under(n) \in SUBSET K /\ n \notin under(n)
      BY <1>1
    <2> HIDE DEF under
    <2>2. IsFiniteSet(under(n)) /\ Cardinality(under(n)) <= c /\ (c = Cardinality(under(n)) => K = under(n))
      BY <1>1, <2>1, FS_Subset
    <2>3. Cardinality(under(n)) \in Nat
      BY <2>2, FS_CardinalityType
    <2> QED  BY <1>1, <2>1, <2>2, <2>3
  <1>3. ASSUME NEW m \in K, NEW n \in K, m < n PROVE place[m] < place[n]
    <2>1. under(m) \subseteq under(n) /\ m \in under(n) /\ m \notin under(m)
      <3>1. m \in Nat /\ n \in Nat /\ \A k \in K : k \in Nat
        BY <1>1
      <3>2. \A k \in K : k < m => k < n
        BY <1>3, <3>1
      <3>3. ~(m < m)
        BY <3>1
      <3> QED  BY <1>3, <3>2, <3>3
    <2> HIDE DEF under
    <2>2. /\ Cardinality(under(m)) <= Cardinality(under(n))
          /\ (Cardinality(under(n)) = Cardinality(under(m)) => under(n) = under(m))
      BY <2>1, <1>2, FS_Subset
    <2> QED  BY <1>2, <2>1, <2>2
  <1>4. place \in [K -> 1 .. c]
    <2> HIDE DEF under, c
    <2>1. \A n \in K : 1 + Cardinality(under(n)) \in 1 .. c
      BY <1>1, <1>2
    <2> QED  BY <2>1
  <1>5. c = Cardinality(K) /\ \A n \in K : place[n] = 1 + Cardinality({m \in K : m < n})
    OBVIOUS
  <1> HIDE DEF place
  <1>6. \A m, n \in K : place[m] = place[n] => m = n
    <2> SUFFICES ASSUME NEW m \in K, NEW n \in K, m < n \/ n < m PROVE place[m] # place[n]
      BY <1>1
    <2>1. place[m] \in Nat /\ place[n] \in Nat
      BY <1>1, <1>4
    <2> QED  BY <1>3, <2>1
  <1>7. \A k \in 1 .. c : \E n \in K : place[n] = k
    <2>1. place \in Injection(K, 1 .. c)
      BY <1>4, <1>6 DEF Injection, IsInjective
    <2>2. IsFiniteSet(1 .. c) /\ Cardinality(1 .. c) = c
      BY <1>1, FS_Interval
    <2>3. place \in Surjection(K, 1 .. c)
      BY <1>1, <2>1, <2>2, FS_Injection
    <2> QED  BY <2>3 DEF Surjection
  <1>8. \A k \in 1 .. c : nth(k) \in K /\ place[nth(k)] = k
    <2> TAKE k \in 1 .. c
    <2>1. \E n \in K : 1 + Cardinality({m \in K : m < n}) = k
      BY <1>5, <1>7
    <2>2. nth(k) \in K /\ 1 + Cardinality({m \in K : m < nth(k)}) = k
      BY <2>1
    <2> HIDE DEF nth
    <2> QED  BY <1>5, <2>2
  <1>9. z = [k \in 1 .. Cardinality(K) |-> q[nth(k)]]
    BY Zenon DEF Select, Arrange
  <1> HIDE DEF z, nth, c
  <1>10. \A k \in 1 .. c : q[nth(k)] \in E
    BY <1>8, ElementOfSeq
  <1>11. z \in Seq(E) /\ DOMAIN z = 1 .. c /\ \A k \in 1 .. c : z[k] = q[nth(k)]
    BY <1>1, <1>5, <1>9, <1>10
  <1>12. \A n \in K : place[n] \in 1 .. c /\ nth(place[n]) = n
    BY <1>4, <1>6, <1>8
  <1>13. Range(z) = {q[n] : n \in K}
    <2>1. Range(z) = {z[k] : k \in 1 .. c}
      BY <1>11 DEF Range
    <2>2. \A k \in 1 .. c : z[k] = q[nth(k)] /\ nth(k) \in K
      BY <1>8, <1>11
    <2>3. \A n \in K : z[place[n]] = q[n] /\ place[n] \in 1 .. c
      BY <1>11, <1>12
    <2>4. ASSUME NEW x \in Range(z) PROVE x \in {q[n] : n \in K}
      <3>1. PICK k \in 1 .. c : x = z[k]
        BY <2>1
      <3> QED  BY <2>2, <3>1
    <2>5. ASSUME NEW n \in K PROVE q[n] \in Range(z)
      BY <2>1, <2>3
    <2> QED  BY <2>4, <2>5
  <1> QED  BY <1>11, <1>13 DEF z

(* A bounded set of ids has a greatest one. *)
LEMMA MaxLemma ==
    ASSUME NEW T \in SUBSET Nat, T # {}, NEW b \in Nat, T \subseteq 0 .. b
    PROVE  Max(T) \in T /\ \A y \in T : Max(T) >= y
  <1> DEFINE D == {b - y : y \in T}
  <1>1. D \in SUBSET Nat /\ D # {}
    <2>1. \A y \in T : b - y \in Nat
      OBVIOUS
    <2> QED  BY <2>1
  <1>2. PICK m \in D : \A z \in D : m <= z
    <2> HIDE DEF D
    <2> QED  BY <1>1, MinLemma
  <1>3. PICK x \in T : m = b - x
    OBVIOUS
  <1>4. ASSUME NEW y \in T PROVE x >= y
    <2>1. b - y \in D
      OBVIOUS
    <2>2. b - x <= b - y
      BY <1>2, <1>3, <2>1
    <2> QED  BY <2>2
  <1>5. \E u \in T : \A y \in T : u >= y
    BY <1>4
  <1> QED  BY <1>5 DEF Max

(* The ends of a list. *)
LEMMA ListLemma ==
    ASSUME NEW s, IsList(s), NEW x
    PROVE  /\ IsList(Append(s, x)) /\ Range(Append(s, x)) = Range(s) \cup {x}
           /\ s # <<>> => /\ IsList(Front(s)) /\ Last(s) \in Range(s)
                          /\ Range(s) = Range(Front(s)) \cup {Last(s)}
           /\ IsList(<<>>) /\ Range(<<>>) = {}
  <1> DEFINE S == Range(s) \cup {x}
  <1>1. s \in Seq(S)
    <2>1. s \in Seq(Range(s)) /\ Range(s) \subseteq S
      BY DEF IsList
    <2> HIDE DEF S
    <2> QED  BY <2>1
  <1>2. Append(s, x) \in Seq(S) /\ Len(Append(s, x)) = Len(s) + 1 /\ Append(s, x)[Len(s) + 1] = x
        /\ \A i \in 1 .. Len(s) : Append(s, x)[i] = s[i]
    <2>1. x \in S
      OBVIOUS
    <2> HIDE DEF S
    <2> QED  BY <1>1, <2>1
  <1>3. Len(s) \in Nat /\ DOMAIN s = 1 .. Len(s)
    BY <1>1
  <1>4. Range(Append(s, x)) = S
    BY <1>1, <1>2, <1>3 DEF Range
  <1>5. IsList(Append(s, x))
    BY <1>2, <1>4 DEF IsList
  <1>6. ASSUME s # <<>>
        PROVE  /\ IsList(Front(s)) /\ Last(s) \in Range(s)
               /\ Range(s) = Range(Front(s)) \cup {Last(s)}
    <2>1. Len(s) >= 1
      BY <1>1, <1>3, <1>6, EmptySeq
    <2>2. /\ Front(s) \in Seq(Range(s)) /\ Len(Front(s)) = Len(s) - 1
          /\ \A i \in 1 .. Len(s) - 1 : Front(s)[i] = s[i]
      BY <1>3, <2>1 DEF Front, IsList
    <2>3. DOMAIN Front(s) = 1 .. Len(s) - 1
      BY <2>2
    <2>4. Last(s) = s[Len(s)]
      BY DEF Last
    <2>5. Range(s) = Range(Front(s)) \cup {Last(s)} /\ Last(s) \in Range(s)
      <3>0. PICK l \in Nat : l = Len(s)
        BY <1>3
      <3>1. \A i \in 1 .. Len(s) : i = Len(s) \/ i \in 1 .. Len(s) - 1
        BY ONLY l \in Nat, <3>0
      <3>2. Len(s) \in 1 .. Len(s) /\ \A i \in 1 .. Len(s) - 1 : i \in 1 .. Len(s)
        BY ONLY l \in Nat, <3>0, <2>1
      <3> QED  BY <1>3, <2>2, <2>3, <2>4, <3>1, <3>2 DEF Range
    <2>6. Front(s) \in Seq(Range(Front(s)))
      <3>1. Front(s) = [i \in 1 .. Len(s) - 1 |-> Front(s)[i]]
        BY <2>2, <2>3
      <3>2. \A i \in 1 .. Len(s) - 1 : Front(s)[i] \in Range(Front(s))
        BY <2>3 DEF Range
      <3>3. Len(s) - 1 \in Nat
        BY <1>3, <2>1
      <3>4. PICK l \in Nat : l = Len(s) - 1
        BY <3>3
      <3>5. PICK g, T : g = Front(s) /\ T = Range(Front(s))
        OBVIOUS
      <3>6. g = [i \in 1 .. l |-> g[i]] /\ \A i \in 1 .. l : g[i] \in T
        BY <3>1, <3>2, <3>4, <3>5
      <3>7. g \in Seq(T)
        BY <3>4, <3>6, IsASeq
      <3> QED  BY <3>5, <3>7
    <2> QED  BY <2>5, <2>6 DEF IsList
  <1>7. IsList(<<>>) /\ Range(<<>>) = {}
    BY DEF IsList, Range
  <1> QED  BY <1>4, <1>5, <1>6, <1>7

(* The same of a list of resources. *)
LEMMA SeqLemma ==
    ASSUME NEW S, NEW s \in Seq(S)
    PROVE  /\ IsList(s) /\ Range(s) \subseteq S
           /\ \A x \in S : Append(s, x) \in Seq(S)
           /\ s # <<>> => Head(s) \in Range(s) /\ Tail(s) \in Seq(S) /\ Range(Tail(s)) \subseteq Range(s)
  <1>1. DOMAIN s = 1 .. Len(s) /\ Len(s) \in Nat /\ s = [i \in 1 .. Len(s) |-> s[i]]
    OBVIOUS
  <1>2. \A i \in 1 .. Len(s) : s[i] \in Range(s)
    BY <1>1 DEF Range
  <1>3. s \in Seq(Range(s))
    <2>1. PICK l, T : l \in Nat /\ l = Len(s) /\ T = Range(s)
      BY <1>1
    <2>2. s = [i \in 1 .. l |-> s[i]] /\ \A i \in 1 .. l : s[i] \in T
      BY <1>1, <1>2, <2>1
    <2>3. s \in Seq(T)
      BY <2>1, <2>2, IsASeq
    <2> QED  BY <2>1, <2>3
  <1>4. Range(s) \subseteq S
    BY <1>1 DEF Range
  <1>5. ASSUME s # <<>>
        PROVE  Head(s) \in Range(s) /\ Tail(s) \in Seq(S) /\ Range(Tail(s)) \subseteq Range(s)
    <2>1. Len(s) >= 1 /\ Head(s) = s[1]
      BY <1>1, <1>5, EmptySeq
    <2>2. Tail(s) \in Seq(S) /\ Len(Tail(s)) = Len(s) - 1 /\ \A i \in 1 .. Len(s) - 1 : Tail(s)[i] = s[i + 1]
      BY <1>5, HeadTailProperties
    <2>3. DOMAIN Tail(s) = 1 .. Len(s) - 1
      BY <2>2
    <2>4. \A i \in 1 .. Len(s) - 1 : Tail(s)[i] \in Range(s)
      BY <1>1, <1>2, <2>1, <2>2
    <2> QED  BY <1>1, <1>2, <2>1, <2>2, <2>3, <2>4 DEF Range
  <1> QED  BY <1>3, <1>4, <1>5 DEF IsList

-----------------------------------------------------------------------------
(* Retaining by a set of values. *)
LEMMA RetainLemma ==
    ASSUME NEW S, NEW q \in Seq(S), NEW P
    PROVE  /\ Select(q, {n \in DOMAIN q : ~(q[n] \in P)}) \in Seq(S)
           /\ Range(Select(q, {n \in DOMAIN q : ~(q[n] \in P)})) = Range(q) \ P
  <1>1. PICK K : K = {n \in DOMAIN q : ~(q[n] \in P)}
    OBVIOUS
  <1>2. K \in SUBSET (1 .. Len(q)) /\ DOMAIN q = 1 .. Len(q)
    BY <1>1
  <1>3. Select(q, K) \in Seq(S) /\ Range(Select(q, K)) = {q[n] : n \in K}
    BY <1>2, SelectRange
  <1>4. {q[n] : n \in K} = Range(q) \ P
    BY <1>1 DEF Range
  <1> QED  BY <1>1, <1>3, <1>4

(* The declared networks and volumes that are not external. *)
LEMMA DeclaredLemma ==
    ASSUME EngineNumbers, NEW e \in Engines
    PROVE  /\ NetSeq(e) \in Seq(Own(e)) /\ NoVolume(NetSeq(e))
           /\ VolSeq(e) \in Seq(Own(e))
           /\ NetSeq(e) \o VolSeq(e) \in Seq(Own(e)) /\ NetSeq(e) \o <<>> \in Seq(Own(e))
           /\ <<>> \o VolSeq(e) \in Seq(Own(e)) /\ NoVolume(NetSeq(e) \o <<>>)
  <1>1. ASSUME NEW n \in Nat, NEW kind \in {"net", "vol"}
        PROVE  /\ Declared(e, kind, n) \in Seq(Own(e))
               /\ \A r \in Range(Declared(e, kind, n)) : r.k = kind
    <2> DEFINE All == [k : {kind}, p : {ProjOf[e]}, i : Nat]
               q == [i \in 1 .. n |-> [k |-> kind, p |-> ProjOf[e], i |-> i]]
    <2>1. q \in Seq(All)
      <3>1. \A i \in 1 .. n : [k |-> kind, p |-> ProjOf[e], i |-> i] \in All
        OBVIOUS
      <3> HIDE DEF All
      <3> QED  BY <3>1, IsASeq
    <2>2. Declared(e, kind, n) = Select(q, {m \in DOMAIN q : ~(q[m] \in External)})
      BY Zenon DEF Declared, Without
    <2>3. \A r \in All : r \in [k : {"net", "vol"}, p : {ProjOf[e]}, i : Nat] /\ r.k = kind
      OBVIOUS
    <2> HIDE DEF q, All
    <2>4. Declared(e, kind, n) \in Seq(All) /\ Range(Declared(e, kind, n)) = Range(q) \ External
      BY <2>1, <2>2, RetainLemma
    <2>5. Range(q) \subseteq All /\ IsList(Declared(e, kind, n))
      BY <2>1, <2>4, SeqLemma
    <2>6. Range(Declared(e, kind, n)) \subseteq Own(e)
      BY <2>3, <2>4, <2>5 DEF Own
    <2>7. Declared(e, kind, n) \in Seq(Own(e))
      BY <2>5, <2>6 DEF IsList
    <2> QED  BY <2>3, <2>4, <2>5, <2>7
  <1>2. /\ NetSeq(e) \in Seq(Own(e)) /\ NoVolume(NetSeq(e)) /\ VolSeq(e) \in Seq(Own(e))
    BY <1>1 DEF NetSeq, VolSeq, NoVolume, EngineNumbers
  <1>3. \A a, b \in Seq(Own(e)) : a \o b \in Seq(Own(e)) /\ a \o <<>> = a /\ <<>> \o a = a
    OBVIOUS
  <1> QED  BY <1>2, <1>3

(* The lists a rollback walks: the networks or the volumes, the last entry, and what is
   left when that is gone. *)
LEMMA SessionLemma ==
    ASSUME NEW e \in Engines, eng[e].sr \in Seq(Own(e))
    PROVE  /\ \A k : Kind(e, k) \in Seq(Own(e)) /\ Range(Kind(e, k)) = {r \in Range(eng[e].sr) : r.k = k}
           /\ eng[e].sr # <<>> => LastRes(e) \in Range(eng[e].sr)
           /\ LET z == Without(eng[e].sr, LAMBDA r : r = LastRes(e))
              IN  z \in Seq(Own(e)) /\ Range(z) = Range(eng[e].sr) \ {LastRes(e)}
  <1> DEFINE q == eng[e].sr
  <1>1. IsList(q) /\ Range(q) \subseteq Own(e) /\ DOMAIN q = 1 .. Len(q)
    BY SeqLemma
  <1>2. ASSUME NEW k
        PROVE  Kind(e, k) \in Seq(Own(e)) /\ Range(Kind(e, k)) = {r \in Range(q) : r.k = k}
    <2>1. PICK P : P = {r \in Own(e) : r.k # k}
      OBVIOUS
    <2>2. Kind(e, k) = Select(q, {n \in DOMAIN q : ~(q[n].k # k)})
      BY Zenon DEF Kind, Without
    <2>3. \A n \in DOMAIN q : q[n] \in Own(e)
      OBVIOUS
    <2>4. {n \in DOMAIN q : ~(q[n].k # k)} = {n \in DOMAIN q : ~(q[n] \in P)}
      BY <2>1, <2>3
    <2>5. Kind(e, k) = Select(q, {n \in DOMAIN q : ~(q[n] \in P)})
      BY <2>2, <2>4
    <2>6. /\ Select(q, {n \in DOMAIN q : ~(q[n] \in P)}) \in Seq(Own(e))
          /\ Range(Select(q, {n \in DOMAIN q : ~(q[n] \in P)})) = Range(q) \ P
      BY RetainLemma, Zenon
    <2>7. Kind(e, k) \in Seq(Own(e)) /\ Range(Kind(e, k)) = Range(q) \ P
      BY <2>5, <2>6, Zenon
    <2> QED  BY <1>1, <2>1, <2>7
  <1>3. ASSUME q # <<>> PROVE LastRes(e) \in Range(q)
    <2>1. PICK r \in Range(q) : TRUE
      BY <1>1, <1>3, SeqLemma
    <2>2. r.k \in {"net", "vol"}
      BY <1>1, <2>1 DEF Own
    <2>3. Kind(e, "net") # <<>> \/ Kind(e, "vol") # <<>>
      <3>1. \A s : s = <<>> => Range(s) = {}
        BY DEF Range
      <3> QED  BY <1>2, <2>2, <3>1
    <2>4. \A k : Kind(e, k) # <<>> => Last(Kind(e, k)) \in Range(Kind(e, k))
      BY <1>2, SeqLemma, ListLemma
    <2> QED  BY <1>2, <2>3, <2>4 DEF LastRes
  <1>4. PICK P : P = {LastRes(e)}
    OBVIOUS
  <1>5. Without(q, LAMBDA r : r = LastRes(e)) = Select(q, {n \in DOMAIN q : ~(q[n] = LastRes(e))})
    BY Zenon DEF Without
  <1>6. {n \in DOMAIN q : ~(q[n] = LastRes(e))} = {n \in DOMAIN q : ~(q[n] \in P)}
    BY <1>4
  <1>7. PICK z : z = Without(q, LAMBDA r : r = LastRes(e))
    OBVIOUS
  <1>8. z \in Seq(Own(e)) /\ Range(z) = Range(q) \ P
    <2>1. /\ Select(q, {n \in DOMAIN q : ~(q[n] \in P)}) \in Seq(Own(e))
          /\ Range(Select(q, {n \in DOMAIN q : ~(q[n] \in P)})) = Range(q) \ P
      BY RetainLemma, Zenon
    <2> QED  BY <1>5, <1>6, <1>7, <2>1, Zenon
  <1> QED  BY <1>2, <1>3, <1>4, <1>7, <1>8

-----------------------------------------------------------------------------
(* The steps by what they do to the runtime and to the lists of the engines. *)
(* A container keeps all but its state; no container is new. *)
States == {"created", "running", "stopped"}
SameContainer(c, d) ==
  /\ IsContainer(d) /\ d.st \in States /\ d.id = c.id /\ d.name = c.name
  /\ d.proj = c.proj /\ d.ver = c.ver /\ d.by = c.by
NoNew ==
  /\ \A d \in cont' : \E c \in cont : SameContainer(c, d)
  /\ \A c, d \in cont' : c.name = d.name => c = d

(* Only engine e changes. *)
OnlyBy(e) ==
  /\ eng' = [f \in Engines |-> eng'[f]]
  /\ \A f \in Engines : f # e => eng'[f] = eng[f]

(* create_volume succeeded for a volume that was there. *)
Adopted(e, r) == Idempotent /\ eng[e].pc = "mk" /\ r = Head(eng[e].todo)

(* A step of e that creates nothing. *)
Settles(e) ==
  /\ OnlyBy(e) /\ NoNew /\ late' = late /\ res' \subseteq res /\ ops' = ops
  /\ eng'[e].n = eng[e].n /\ eng'[e].inc = eng[e].inc /\ eng'[e].spec = eng[e].spec
  /\ eng'[e].op = eng[e].op
  /\ \A x \in Range(eng'[e].sc) : \/ x \in Range(eng[e].sc)
                                  \/ x.id = 0 /\ \E s : x.name = NameOf(e, s)
  /\ \A i \in eng'[e].ids : i \in eng[e].ids \/ \E c \in cont : c.id = i /\ c.proj = ProjOf[e]
  /\ eng[e].op = "up" => \A r \in Range(eng'[e].sr) : r \in Range(eng[e].sr) \/ Adopted(e, r)
  /\ Undoing(eng'[e]) =>
       /\ Undoing(eng[e])
       /\ \A c \in cont', x \in Range(eng[e].sc) :
             x.id = c.id => \E y \in Range(eng'[e].sc) : y.id = c.id
       /\ \A x \in res' : x.r \in Range(eng[e].sr) => x.r \in Range(eng'[e].sr)

(* A change of state keeps the rest of a container. *)
LEMMA StateLemma ==
    ASSUME NEW c, IsContainer(c), NEW t \in States
    PROVE  SameContainer(c, [c EXCEPT !.st = t]) /\ [c EXCEPT !.st = t].name = c.name
  BY DEF SameContainer, IsContainer, ContainerFields

(* Changing the state of some containers creates none, and names stay unique. *)
LEMMA ChangeLemma ==
    ASSUME ItemsInv, NEW C \in SUBSET cont, NEW t \in States,
           cont' = (cont \ C) \cup {[c EXCEPT !.st = t] : c \in C}
    PROVE  NoNew
  <1>1. \A c \in cont : IsContainer(c) /\ c.st \in States
    BY DEF ItemsInv, Runs, States
  <1>2. \A c \in cont : SameContainer(c, c)
    BY <1>1 DEF SameContainer
  <1>3. PICK g : g = [c \in cont |-> IF c \in C THEN [c EXCEPT !.st = t] ELSE c]
    OBVIOUS
  <1>4. \A c \in cont : SameContainer(c, g[c]) /\ g[c].name = c.name
    BY <1>1, <1>2, <1>3, StateLemma
  <1>5. \A d \in cont' : \E c \in cont : d = g[c]
    BY <1>3
  <1>6. \A d \in cont' : \E c \in cont : SameContainer(c, d)
    BY <1>4, <1>5
  <1>7. ASSUME NEW d1 \in cont', NEW d2 \in cont', d1.name = d2.name PROVE d1 = d2
    <2>1. PICK c1 \in cont : d1 = g[c1]
      BY <1>5
    <2>2. PICK c2 \in cont : d2 = g[c2]
      BY <1>5
    <2>3. c1 = c2
      BY <1>4, <1>7, <2>1, <2>2 DEF ItemsInv
    <2> QED  BY <2>1, <2>2, <2>3
  <1> QED  BY <1>6, <1>7 DEF NoNew

(* stop, start and remove create no container. *)
LEMMA NoNewLemma ==
    ASSUME ItemsInv
    PROVE  /\ cont' \subseteq cont => NoNew
           /\ \A C \in SUBSET cont : (cont' = Stopped(C) \/ cont' = Started(C) \/ KillAll(C)) => NoNew
  <1>1. ASSUME cont' \subseteq cont PROVE NoNew
    BY <1>1 DEF NoNew, SameContainer, ItemsInv, Runs, States
  <1>2. ASSUME NEW C \in SUBSET cont, cont' = Stopped(C) \/ cont' = Started(C) PROVE NoNew
    BY <1>2, ChangeLemma DEF Stopped, Started, States
  <1>3. ASSUME NEW C \in SUBSET cont, KillAll(C) PROVE NoNew
    <2>1. CASE cont' = cont \ C
      BY <1>1, <2>1
    <2>2. CASE cont' = Stopped(C)
      BY <1>2, <2>2
    <2> QED  BY <1>3, <2>1, <2>2 DEF KillAll
  <1> QED  BY <1>1, <1>2, <1>3

(* What the engine's record is after a step. *)
LEMMA SetLemma ==
    ASSUME EnginesInv, NEW e \in Engines, NEW r, Set(e, r)
    PROVE  OnlyBy(e) /\ eng'[e] = r
  BY DEF Set, OnlyBy, EnginesInv

(* A step of e that keeps its lists. *)
LEMMA KeepsLists ==
    ASSUME NEW e \in Engines, OnlyBy(e), NoNew, late' = late, res' \subseteq res, ops' = ops,
           eng'[e].n = eng[e].n, eng'[e].inc = eng[e].inc, eng'[e].spec = eng[e].spec,
           eng'[e].op = eng[e].op, eng'[e].sc = eng[e].sc,
           eng'[e].sr = eng[e].sr \/ eng[e].op # "up",
           eng'[e].ids \subseteq eng[e].ids \cup {c.id : c \in {d \in cont : d.proj = ProjOf[e]}},
           eng[e].pc # "idle", eng[e].bad => eng'[e].bad,
           eng[e].bad \in BOOLEAN
    PROVE  Settles(e)
  <1>1. Undoing(eng'[e]) => Undoing(eng[e])
    BY DEF Undoing
  <1> QED  BY <1>1 DEF Settles, Undoing

-----------------------------------------------------------------------------
(* The types and the effect of every step of up(). *)
LEMMA NextResEffect ==
    ASSUME EngineNumbers, EnginesInv, ItemsInv, NEW e \in Engines, NextRes(e)
    PROVE  EngineOk(e, eng[e])' /\ Settles(e)
  <1>1. EngineOk(e, eng[e]) /\ ops' = ops /\ cont' = cont /\ res' = res /\ late' = late /\ eng[e].pc = "res"
    BY DEF NextRes, Bounds, EnginesInv
  <1>2. PICK r : /\ Set(e, r)
                 /\ \/ eng[e].todo # <<>> /\ r = [eng[e] EXCEPT !.todo = Tail(@)]
                    \/ eng[e].todo # <<>> /\ r = [eng[e] EXCEPT !.pc = "mk"]
                    \/ r = [eng[e] EXCEPT !.pc = "svc", !.todo = Target(e)]
                    \/ r = Return(e, eng[e], "failed")
    BY Zenon DEF NextRes
  <1>3. OnlyBy(e) /\ eng'[e] = r
    BY <1>2, SetLemma
  <1>4. eng[e].todo \in Seq(Own(e)) /\ (eng[e].todo # <<>> => Tail(eng[e].todo) \in Seq(Own(e)))
    BY <1>1, SeqLemma DEF EngineOk
  <1>5. EngineOk(e, eng[e])'
    <2>1. IsEngine(eng[e])
      BY <1>1 DEF EngineOk
    <2>2. /\ IsEngine(r) /\ r.n = eng[e].n /\ r.op = eng[e].op /\ r.sc = eng[e].sc /\ r.sr = eng[e].sr
          /\ r.bad = eng[e].bad /\ r.rmvol = eng[e].rmvol /\ r.saved = eng[e].saved
      BY <1>2, <2>1 DEF IsEngine, EngineFields, Return
    <2>3. \/ r.pc = "res" /\ eng[e].todo # <<>> /\ r.todo = Tail(eng[e].todo) /\ r.ret = eng[e].ret /\ r.ids = eng[e].ids
          \/ r.pc = "mk" /\ eng[e].todo # <<>> /\ r.todo = eng[e].todo /\ r.ret = eng[e].ret /\ r.ids = eng[e].ids
          \/ r.pc = "svc" /\ r.ret = eng[e].ret /\ r.ids = eng[e].ids
          \/ r.pc = "idle" /\ r.ret = "failed" /\ r.ids = {}
      BY <1>1, <1>2, <2>1 DEF IsEngine, EngineFields, Return
    <2> QED  BY <1>1, <1>3, <1>4, <2>2, <2>3 DEF EngineOk
  <1>6. NoNew
    BY <1>1, NoNewLemma
  <1>7. /\ r.n = eng[e].n /\ r.inc = eng[e].inc /\ r.spec = eng[e].spec /\ r.op = eng[e].op
        /\ r.sc = eng[e].sc /\ r.sr = eng[e].sr /\ r.ids \subseteq eng[e].ids /\ r.bad = eng[e].bad
    BY <1>1, <1>2 DEF EngineOk, IsEngine, EngineFields, Return
  <1>8. Settles(e)
    BY <1>1, <1>3, <1>6, <1>7, KeepsLists DEF EngineOk
  <1> QED  BY <1>5, <1>8

(* The decision about a service changes only the engine. *)
LEMMA ServiceEffect ==
    ASSUME EnginesInv, ItemsInv, NEW e \in Engines, Service(e)
    PROVE  EngineOk(e, eng[e])' /\ Settles(e)
  <1>1. EngineOk(e, eng[e]) /\ ops' = ops /\ cont' = cont /\ res' = res /\ late' = late /\ eng[e].pc = "svc"
    BY DEF Service, Bounds, EnginesInv
  <1>2. PICK r : /\ Set(e, r)
                 /\ \/ r = Return(e, eng[e], "up")
                    \/ r = Undo(eng[e])
                    \/ r = [eng[e] EXCEPT !.todo = Tail(@)]
                    \/ /\ eng[e].todo # <<>>
                       /\ \E pc \in {"run", "swap", "start"} : r = [eng[e] EXCEPT !.pc = pc]
    BY DEF Service
  <1>3. OnlyBy(e) /\ eng'[e] = r
    BY <1>2, SetLemma
  <1>5. EngineOk(e, eng[e])'
    BY <1>1, <1>2, <1>3 DEF EngineOk, IsEngine, EngineFields, Return, Undo
  <1>6. NoNew
    BY <1>1, NoNewLemma
  <1>7. /\ r.n = eng[e].n /\ r.inc = eng[e].inc /\ r.spec = eng[e].spec /\ r.op = eng[e].op
        /\ r.sc = eng[e].sc /\ r.sr = eng[e].sr /\ r.ids \subseteq eng[e].ids /\ r.bad = eng[e].bad
    BY <1>1, <1>2 DEF EngineOk, IsEngine, EngineFields, Return, Undo
  <1>8. Settles(e)
    BY <1>1, <1>3, <1>6, <1>7, KeepsLists DEF EngineOk
  <1> QED  BY <1>5, <1>8

(* Removing an outdated container creates nothing and keeps the lists. *)
LEMMA SwapEffect ==
    ASSUME EnginesInv, ItemsInv, NEW e \in Engines, SwapContainer(e)
    PROVE  EngineOk(e, eng[e])' /\ Settles(e)
  <1>1. EngineOk(e, eng[e]) /\ ops' = ops /\ res' = res /\ late' = late /\ eng[e].pc = "swap"
    BY DEF SwapContainer, Bounds, EnginesInv
  <1>2. PICK r : Set(e, r) /\ r = [eng[e] EXCEPT !.pc = "run"]
    BY DEF SwapContainer
  <1>3. OnlyBy(e) /\ eng'[e] = r
    BY <1>2, SetLemma
  <1>4. /\ IsEngine(r) /\ r.pc = "run" /\ r.todo = eng[e].todo /\ r.rmvol = eng[e].rmvol
        /\ r.saved = eng[e].saved /\ r.ret = eng[e].ret
    BY <1>1, <1>2 DEF EngineOk, IsEngine, EngineFields
  <1>6. NoNew
    BY NoNewLemma DEF SwapContainer, ByName
  <1>7. /\ r.n = eng[e].n /\ r.inc = eng[e].inc /\ r.spec = eng[e].spec /\ r.op = eng[e].op
        /\ r.sc = eng[e].sc /\ r.sr = eng[e].sr /\ r.ids = eng[e].ids /\ r.bad = eng[e].bad
    BY <1>1, <1>2 DEF EngineOk, IsEngine, EngineFields
  <1>5. EngineOk(e, eng[e])'
    BY <1>1, <1>3, <1>4, <1>7 DEF EngineOk
  <1>8. Settles(e)
    BY <1>1, <1>3, <1>6, <1>7, KeepsLists DEF EngineOk
  <1> QED  BY <1>5, <1>8

(* A stopped container that is started is listed by its name. *)
LEMMA StartOldEffect ==
    ASSUME EnginesInv, ItemsInv, NEW e \in Engines, StartOld(e)
    PROVE  EngineOk(e, eng[e])' /\ Settles(e)
  <1>1. EngineOk(e, eng[e]) /\ ops' = ops /\ res' = res /\ late' = late /\ eng[e].pc = "start"
    BY DEF StartOld, Bounds, EnginesInv
  <1>2. CASE cont' = cont /\ Set(e, Undo(eng[e]))
    <2>1. OnlyBy(e) /\ eng'[e] = Undo(eng[e])
      BY <1>2, SetLemma
    <2>2. EngineOk(e, eng[e])'
      BY <1>1, <2>1 DEF EngineOk, IsEngine, EngineFields, Undo
    <2>3. NoNew
      BY <1>2, NoNewLemma
    <2>4. PICK r : r = eng'[e]
      OBVIOUS
    <2>5. /\ r.n = eng[e].n /\ r.inc = eng[e].inc /\ r.spec = eng[e].spec /\ r.op = eng[e].op
          /\ r.sc = eng[e].sc /\ r.sr = eng[e].sr /\ r.ids \subseteq eng[e].ids /\ r.bad = eng[e].bad
      BY <1>1, <2>1, <2>4 DEF EngineOk, IsEngine, EngineFields, Undo
    <2> QED  BY <1>1, <2>1, <2>2, <2>3, <2>4, <2>5, KeepsLists DEF EngineOk
  <1>3. ASSUME NEW n, NEW C \in SUBSET cont, n = NameOf(e, Head(eng[e].todo)), cont' = Started(C),
               Set(e, [eng[e] EXCEPT !.pc = "svc", !.todo = Tail(@),
                                     !.sc = Append(@, [id |-> 0, name |-> n])])
        PROVE  EngineOk(e, eng[e])' /\ Settles(e)
    <2>1. PICK r : r = [eng[e] EXCEPT !.pc = "svc", !.todo = Tail(@),
                                      !.sc = Append(@, [id |-> 0, name |-> n])]
      OBVIOUS
    <2>2. OnlyBy(e) /\ eng'[e] = r
      BY <1>3, <2>1, SetLemma
    <2>3. PICK x : x = [id |-> 0, name |-> n]
      OBVIOUS
    <2>4. IsList(eng[e].sc)
      BY <1>1 DEF EngineOk
    <2>5. IsList(Append(eng[e].sc, x)) /\ Range(Append(eng[e].sc, x)) = Range(eng[e].sc) \cup {x}
      BY <2>4, ListLemma
    <2>6. r.sc = Append(eng[e].sc, x)
      BY <1>1, <2>1, <2>3 DEF EngineOk, IsEngine, EngineFields
    <2>7. /\ r.n = eng[e].n /\ r.inc = eng[e].inc /\ r.spec = eng[e].spec /\ r.op = eng[e].op
          /\ r.sr = eng[e].sr /\ r.ids = eng[e].ids /\ r.bad = eng[e].bad /\ IsEngine(r)
          /\ r.rmvol = eng[e].rmvol /\ r.saved = eng[e].saved /\ r.ret = eng[e].ret /\ r.pc = "svc"
      BY <1>1, <2>1 DEF EngineOk, IsEngine, EngineFields
    <2>8. EngineOk(e, eng[e])'
      BY <1>1, <2>2, <2>5, <2>6, <2>7 DEF EngineOk
    <2>9. NoNew
      BY <1>3, NoNewLemma
    <2>10. x.id = 0 /\ x.name = NameOf(e, Head(eng[e].todo))
      BY <1>3, <2>3
    <2>11. Undoing(eng'[e]) => Undoing(eng[e])
      BY <1>1, <2>2, <2>7 DEF Undoing
    <2> QED  BY <1>1, <2>2, <2>5, <2>6, <2>7, <2>8, <2>9, <2>10, <2>11 DEF Settles
  <1> QED  BY <1>2, <1>3 DEF StartOld, ByName

(* A network or a volume is created. *)
Makes(e, r) ==
  /\ OnlyBy(e) /\ cont' = cont /\ late' = late /\ ops' = ops
  /\ r \in Own(e) /\ (\A x \in res : x.r # r) /\ res' = res \cup {[r |-> r, by |-> eng[e].n]}
  /\ eng'[e].n = eng[e].n /\ eng'[e].inc = eng[e].inc /\ eng'[e].spec = eng[e].spec
  /\ eng'[e].op = "up" /\ eng[e].op = "up" /\ eng[e].pc # "idle" /\ eng'[e].pc = "res"
  /\ eng'[e].sc = eng[e].sc /\ eng'[e].ids = eng[e].ids /\ eng'[e].bad = eng[e].bad
  /\ Range(eng'[e].sr) = Range(eng[e].sr) \cup {r}

(* A container c is created, or will be; a run that returned lists it. *)
Creates(e, c) ==
  /\ OnlyBy(e) /\ res' = res /\ ops' = ops
  /\ IsContainer(c) /\ c.st \in States /\ c.id = 1 + Max(UsedIds) /\ c.proj = ProjOf[e]
  /\ c.ver = eng[e].spec.ver /\ c.by = eng[e].n /\ \E s : c.name = NameOf(e, s)
  /\ cont \subseteq cont' /\ cont' \subseteq cont \cup {c}
  /\ late \subseteq late' /\ late' \subseteq late \cup {c}
  /\ "timeout" \notin Faults => late' = late
  /\ cont' # cont => \A d \in cont : d.name # c.name
  /\ eng'[e].n = eng[e].n /\ eng'[e].inc = eng[e].inc /\ eng'[e].spec = eng[e].spec
  /\ eng'[e].op = "up" /\ eng[e].op = "up" /\ eng[e].pc # "idle" /\ eng'[e].pc \in {"svc", "undo"}
  /\ eng'[e].sr = eng[e].sr /\ eng'[e].ids = eng[e].ids /\ eng'[e].bad = eng[e].bad
  /\ Range(eng[e].sc) \subseteq Range(eng'[e].sc)
  /\ \A x \in Range(eng'[e].sc) : x \in Range(eng[e].sc) \/ x.id = c.id
  /\ \/ \E x \in Range(eng'[e].sc) : x.id = c.id
     \/ {"partial", "timeout"} \cap Faults # {}

(* create_network and create_volume: one more, listed, or nothing. *)
LEMMA MakeResEffect ==
    ASSUME EnginesInv, ItemsInv, NEW e \in Engines, MakeRes(e)
    PROVE  EngineOk(e, eng[e])' /\ (Settles(e) \/ \E r \in Own(e) : Makes(e, r))
  <1>1. EngineOk(e, eng[e]) /\ ops' = ops /\ cont' = cont /\ late' = late /\ eng[e].pc = "mk"
    BY DEF MakeRes, Bounds, EnginesInv
  <1>2. CASE res' = res /\ Set(e, Return(e, eng[e], "failed"))
    <2>1. OnlyBy(e) /\ eng'[e] = Return(e, eng[e], "failed")
      BY <1>2, SetLemma
    <2>2. EngineOk(e, eng[e])'
      BY <1>1, <2>1 DEF EngineOk, IsEngine, EngineFields, Return
    <2>3. NoNew
      BY <1>1, NoNewLemma
    <2>4. PICK r : r = eng'[e]
      OBVIOUS
    <2>5. /\ r.n = eng[e].n /\ r.inc = eng[e].inc /\ r.spec = eng[e].spec /\ r.op = eng[e].op
          /\ r.sc = eng[e].sc /\ r.sr = eng[e].sr /\ r.ids \subseteq eng[e].ids /\ r.bad = eng[e].bad
      BY <1>1, <2>1, <2>4 DEF EngineOk, IsEngine, EngineFields, Return
    <2> QED  BY <1>1, <1>2, <2>1, <2>2, <2>3, <2>4, <2>5, KeepsLists DEF EngineOk
  <1>3. ASSUME NEW h, h = Head(eng[e].todo),
               \/ ~Exists(h) /\ res' = res \cup {[r |-> h, by |-> eng[e].n]}
               \/ Adopts(h) /\ res' = res,
               Set(e, [eng[e] EXCEPT !.pc = "res", !.todo = Tail(@), !.sr = Append(@, h)])
        PROVE  EngineOk(e, eng[e])' /\ (Settles(e) \/ Makes(e, h))
    <2>1. PICK r : r = [eng[e] EXCEPT !.pc = "res", !.todo = Tail(@), !.sr = Append(@, h)]
      OBVIOUS
    <2>2. OnlyBy(e) /\ eng'[e] = r
      BY <1>3, <2>1, SetLemma
    <2>3. /\ eng[e].todo \in Seq(Own(e)) /\ eng[e].todo # <<>> /\ eng[e].sr \in Seq(Own(e))
          /\ eng[e].op = "up"
      BY <1>1 DEF EngineOk
    <2>4. h \in Own(e) /\ Tail(eng[e].todo) \in Seq(Own(e))
      BY <1>3, <2>3, SeqLemma
    <2>5. Append(eng[e].sr, h) \in Seq(Own(e)) /\ Range(Append(eng[e].sr, h)) = Range(eng[e].sr) \cup {h}
      <3>1. IsList(eng[e].sr) /\ Append(eng[e].sr, h) \in Seq(Own(e))
        BY <2>3, <2>4, SeqLemma
      <3> QED  BY <3>1, ListLemma
    <2>6. /\ r.n = eng[e].n /\ r.inc = eng[e].inc /\ r.spec = eng[e].spec /\ r.op = eng[e].op
          /\ r.sc = eng[e].sc /\ r.sr = Append(eng[e].sr, h) /\ r.ids = eng[e].ids /\ r.bad = eng[e].bad
          /\ r.rmvol = eng[e].rmvol /\ r.saved = eng[e].saved /\ r.ret = eng[e].ret /\ r.pc = "res"
          /\ r.todo = Tail(eng[e].todo) /\ IsEngine(r)
      BY <1>1, <2>1 DEF EngineOk, IsEngine, EngineFields
    <2>7. EngineOk(e, eng[e])'
      BY <1>1, <2>2, <2>3, <2>4, <2>5, <2>6 DEF EngineOk
    <2>8. ASSUME ~Exists(h), res' = res \cup {[r |-> h, by |-> eng[e].n]} PROVE Makes(e, h)
      BY <1>1, <2>2, <2>3, <2>4, <2>5, <2>6, <2>8 DEF Makes, Exists
    <2>9. ASSUME Adopts(h), res' = res PROVE Settles(e)
      <3>1. NoNew
        BY <1>1, NoNewLemma
      <3>2. Undoing(eng'[e]) => Undoing(eng[e])
        BY <1>1, <2>2, <2>6 DEF Undoing
      <3>3. Adopted(e, h)
        BY <1>1, <1>3, <2>9 DEF Adopts, Adopted
      <3>4. \A x \in Range(r.sr) : x \in Range(eng[e].sr) \/ Adopted(e, x)
        BY <2>5, <2>6, <3>3
      <3> QED  BY <1>1, <2>2, <2>5, <2>6, <2>9, <3>1, <3>2, <3>4 DEF Settles
    <2> QED  BY <1>3, <2>7, <2>8, <2>9
  <1>4. \A h : Makes(e, h) => h \in Own(e)
    BY DEF Makes
  <1> QED  BY <1>2, <1>3, <1>4 DEF MakeRes

(* run_with_security: a container with an id of its own, or nothing. *)
LEMMA RunEffect ==
    ASSUME EnginesInv, ItemsInv, NEW e \in Engines, Run(e)
    PROVE  EngineOk(e, eng[e])' /\ (Settles(e) \/ \E c : Creates(e, c))
  <1>1. EngineOk(e, eng[e]) /\ ops' = ops /\ res' = res /\ eng[e].pc = "run"
    BY DEF Run, Bounds, EnginesInv
  <1>2. PICK c : c = NewContainer(e, "running")
    OBVIOUS
  <1>3. /\ IsContainer(c) /\ c.id = 1 + Max(UsedIds) /\ c.proj = ProjOf[e] /\ c.st = "running"
        /\ c.ver = eng[e].spec.ver /\ c.by = eng[e].n /\ c.name = NameOf(e, Head(eng[e].todo))
    BY <1>2 DEF NewContainer, IsContainer, ContainerFields
  <1>4. CASE /\ Set(e, Undo(eng[e]))
             /\ \/ UNCHANGED <<cont, late>>
                \/ /\ ByName(c.name) = {} /\ "partial" \in Faults /\ late' = late
                   /\ cont' = cont \cup {[c EXCEPT !.st = "created"]}
                \/ "timeout" \in Faults /\ late' = late \cup {c} /\ cont' = cont
    <2>1. OnlyBy(e) /\ eng'[e] = Undo(eng[e])
      BY <1>4, SetLemma
    <2>2. EngineOk(e, eng[e])'
      BY <1>1, <2>1 DEF EngineOk, IsEngine, EngineFields, Undo
    <2>3. PICK r : r = eng'[e]
      OBVIOUS
    <2>4. /\ r.n = eng[e].n /\ r.inc = eng[e].inc /\ r.spec = eng[e].spec /\ r.op = eng[e].op
          /\ r.sc = eng[e].sc /\ r.sr = eng[e].sr /\ r.ids = eng[e].ids /\ r.bad = eng[e].bad
          /\ r.pc = "undo" /\ r.op = "up"
      BY <1>1, <2>1, <2>3 DEF EngineOk, IsEngine, EngineFields, Undo
    <2>5. CASE UNCHANGED <<cont, late>>
      <3>1. NoNew
        BY <2>5, NoNewLemma
      <3> QED  BY <1>1, <2>1, <2>2, <2>3, <2>4, <2>5, <3>1, KeepsLists DEF EngineOk
    <2>6. CASE ByName(c.name) = {} /\ "partial" \in Faults /\ late' = late
               /\ cont' = cont \cup {[c EXCEPT !.st = "created"]}
      <3>1. PICK d : d = [c EXCEPT !.st = "created"]
        OBVIOUS
      <3>2. /\ IsContainer(d) /\ d.id = c.id /\ d.proj = c.proj /\ d.st \in States
            /\ d.ver = c.ver /\ d.by = c.by /\ d.name = c.name
        BY <1>3, <3>1 DEF IsContainer, ContainerFields, States
      <3>3. cont' = cont \cup {d} /\ \A x \in cont : x.name # d.name
        BY <2>6, <3>1, <3>2 DEF ByName
      <3>4. Creates(e, d)
        BY <1>1, <1>3, <2>1, <2>3, <2>4, <2>6, <3>2, <3>3 DEF Creates
      <3> QED  BY <2>2, <3>4
    <2>7. CASE "timeout" \in Faults /\ late' = late \cup {c} /\ cont' = cont
      <3>1. Creates(e, c)
        BY <1>1, <1>3, <2>1, <2>3, <2>4, <2>7 DEF Creates, States
      <3> QED  BY <2>2, <3>1
    <2> QED  BY <1>4, <2>5, <2>6, <2>7
  <1>5. CASE /\ ByName(c.name) = {} /\ cont' = cont \cup {c} /\ late' = late
             /\ Set(e, [eng[e] EXCEPT !.pc = "svc", !.todo = Tail(@),
                                      !.sc = Append(@, [id |-> c.id, name |-> c.name])])
    <2>1. PICK x : x = [id |-> c.id, name |-> c.name]
      OBVIOUS
    <2>2. PICK r : r = [eng[e] EXCEPT !.pc = "svc", !.todo = Tail(@), !.sc = Append(@, x)]
      OBVIOUS
    <2>3. OnlyBy(e) /\ eng'[e] = r
      BY <1>5, <2>1, <2>2, SetLemma
    <2>4. IsList(eng[e].sc) /\ eng[e].op = "up"
      BY <1>1 DEF EngineOk
    <2>5. IsList(Append(eng[e].sc, x)) /\ Range(Append(eng[e].sc, x)) = Range(eng[e].sc) \cup {x}
      BY <2>4, ListLemma
    <2>6. /\ r.n = eng[e].n /\ r.inc = eng[e].inc /\ r.spec = eng[e].spec /\ r.op = eng[e].op
          /\ r.sc = Append(eng[e].sc, x) /\ r.sr = eng[e].sr /\ r.ids = eng[e].ids /\ r.bad = eng[e].bad
          /\ r.rmvol = eng[e].rmvol /\ r.saved = eng[e].saved /\ r.ret = eng[e].ret /\ r.pc = "svc"
          /\ IsEngine(r)
      BY <1>1, <2>2 DEF EngineOk, IsEngine, EngineFields
    <2>7. EngineOk(e, eng[e])'
      BY <1>1, <2>3, <2>4, <2>5, <2>6 DEF EngineOk
    <2>8. x.id = c.id /\ \A d \in cont : d.name # c.name
      BY <1>5, <2>1 DEF ByName
    <2>9. Creates(e, c)
      BY <1>1, <1>3, <1>5, <2>3, <2>4, <2>5, <2>6, <2>8 DEF Creates, States
    <2> QED  BY <2>7, <2>9
  <1> QED  BY <1>2, <1>4, <1>5 DEF Run, Fault

-----------------------------------------------------------------------------
(* The rollback and down(). *)
LEMMA UndoEffect ==
    ASSUME EngineNumbers, EnginesInv, ItemsInv, NEW e \in Engines, UndoStep(e)
    PROVE  EngineOk(e, eng[e])' /\ Settles(e)
  <1>1. EngineOk(e, eng[e]) /\ ops' = ops /\ late' = late /\ eng[e].pc = "undo"
    BY DEF UndoStep, Bounds, EnginesInv
  <1>2. /\ IsEngine(eng[e]) /\ eng[e].op \in {"up", "down"} /\ IsList(eng[e].sc)
        /\ eng[e].sr \in Seq(Own(e)) /\ eng[e].saved \in Seq(Own(e)) /\ eng[e].bad \in BOOLEAN
    BY <1>1 DEF EngineOk
  <1>3. CASE /\ eng[e].sc # <<>> /\ KillAll(Entry(Last(eng[e].sc))) /\ res' = res
             /\ Set(e, [eng[e] EXCEPT !.sc = Front(@),
                           !.bad = @ \/ ~Gone(Entry(Last(eng[e].sc)))])
    <2>1. PICK r, x, b : /\ r = [eng[e] EXCEPT !.sc = Front(@), !.bad = @ \/ ~Gone(Entry(Last(eng[e].sc)))]
                         /\ x = Last(eng[e].sc) /\ b = ~Gone(Entry(x))
      OBVIOUS
    <2>2. OnlyBy(e) /\ eng'[e] = r
      BY <1>3, <2>1, SetLemma
    <2>3. /\ IsList(Front(eng[e].sc)) /\ x \in Range(eng[e].sc)
          /\ Range(eng[e].sc) = Range(Front(eng[e].sc)) \cup {x}
      BY <1>2, <1>3, <2>1, ListLemma
    <2>4. r = [eng[e] EXCEPT !.sc = Front(eng[e].sc), !.bad = (eng[e].bad \/ b)]
      BY <2>1
    <2>5. /\ r.n = eng[e].n /\ r.inc = eng[e].inc /\ r.spec = eng[e].spec /\ r.op = eng[e].op
          /\ r.sc = Front(eng[e].sc) /\ r.sr = eng[e].sr /\ r.ids = eng[e].ids
          /\ r.rmvol = eng[e].rmvol /\ r.saved = eng[e].saved /\ r.ret = eng[e].ret /\ r.pc = "undo"
          /\ IsEngine(r)
      BY <1>1, <1>2, <2>4 DEF IsEngine, EngineFields
    <2>6. r.bad = (eng[e].bad \/ b)
      BY <1>2, <2>4 DEF IsEngine, EngineFields
    <2>7. EngineOk(e, eng[e])'
      BY <1>1, <1>2, <2>2, <2>3, <2>5, <2>6 DEF EngineOk
    <2>8. Entry(x) \in SUBSET cont
      BY DEF Entry, ByName, ById
    <2>9. NoNew
      BY <1>3, <2>1, <2>8, NoNewLemma
    <2>10. ASSUME Undoing(eng'[e])
           PROVE  /\ Undoing(eng[e])
                  /\ \A c \in cont', y \in Range(eng[e].sc) :
                        y.id = c.id => \E z \in Range(eng'[e].sc) : z.id = c.id
      <3>1. ~r.bad /\ r.op = "up"
        BY <2>2, <2>10 DEF Undoing
      <3>2. ~eng[e].bad /\ Gone(Entry(x))
        BY <1>2, <2>1, <2>6, <3>1
      <3>3. Undoing(eng[e])
        BY <1>1, <2>5, <3>1, <3>2 DEF Undoing
      <3>4. ASSUME NEW c \in cont', NEW y \in Range(eng[e].sc), y.id = c.id
            PROVE  \E z \in Range(eng'[e].sc) : z.id = c.id
        <4>1. PICK d \in cont : SameContainer(d, c)
          BY <2>9 DEF NoNew
        <4>2. d.id = c.id /\ d.id # 0
          BY <4>1 DEF SameContainer, ItemsInv, Runs
        <4>3. y # x
          <5>1. SUFFICES ASSUME y = x PROVE FALSE
            OBVIOUS
          <5>2. x.id = d.id /\ x.id # 0
            BY <3>4, <4>2, <5>1
          <5>3. d \in Entry(x)
            BY <5>2 DEF Entry, ById
          <5> QED  BY <3>2, <4>2, <5>3 DEF Gone
        <4> QED  BY <2>2, <2>3, <2>5, <3>4, <4>3
      <3> QED  BY <3>3, <3>4
    <2> QED  BY <1>1, <1>3, <2>2, <2>3, <2>5, <2>7, <2>9, <2>10 DEF Settles
  <1>4. CASE /\ eng[e].sc = <<>> /\ eng[e].sr # <<>> /\ RemoveRes(LastRes(e)) /\ cont' = cont
             /\ Set(e, [eng[e] EXCEPT !.sr = Without(@, LAMBDA r : r = LastRes(e)),
                                      !.bad = @ \/ Left(LastRes(e))])
    <2>0. PICK z : z = Without(eng[e].sr, LAMBDA r : r = LastRes(e))
      OBVIOUS
    <2>1. PICK r, x, b : /\ r = [eng[e] EXCEPT !.sr = z, !.bad = @ \/ Left(LastRes(e))]
                         /\ x = LastRes(e) /\ b = Left(x)
      OBVIOUS
    <2>2. OnlyBy(e) /\ eng'[e] = r
      BY <1>4, <2>0, <2>1, SetLemma
    <2>3. x \in Range(eng[e].sr) /\ z \in Seq(Own(e)) /\ Range(z) = Range(eng[e].sr) \ {x}
      BY <1>2, <1>4, <2>0, <2>1, SessionLemma
    <2>4. r = [eng[e] EXCEPT !.sr = z, !.bad = (eng[e].bad \/ b)]
      BY <2>1
    <2>5. /\ r.n = eng[e].n /\ r.inc = eng[e].inc /\ r.spec = eng[e].spec /\ r.op = eng[e].op
          /\ r.sc = eng[e].sc /\ r.sr = z /\ r.ids = eng[e].ids
          /\ r.rmvol = eng[e].rmvol /\ r.saved = eng[e].saved /\ r.ret = eng[e].ret /\ r.pc = "undo"
          /\ IsEngine(r)
      BY <1>1, <1>2, <2>4 DEF IsEngine, EngineFields
    <2>6. r.bad = (eng[e].bad \/ b)
      BY <1>2, <2>4 DEF IsEngine, EngineFields
    <2>7. b \in BOOLEAN
      BY <2>1 DEF Left
    <2>8. EngineOk(e, eng[e])'
      <3>1. NoVolume(eng[e].sr) => NoVolume(z)
        BY <2>3 DEF NoVolume
      <3> QED  BY <1>1, <1>2, <2>2, <2>3, <2>5, <2>6, <2>7, <3>1 DEF EngineOk
    <2>9. NoNew
      BY <1>4, NoNewLemma
    <2>10. res' \subseteq res
      BY <1>4 DEF RemoveRes
    <2>11. ASSUME Undoing(eng'[e])
           PROVE  /\ Undoing(eng[e])
                  /\ \A y \in res' : y.r \in Range(eng[e].sr) => y.r \in Range(eng'[e].sr)
      <3>1. ~r.bad /\ r.op = "up"
        BY <2>2, <2>11 DEF Undoing
      <3>2. ~eng[e].bad /\ ~Left(x)
        BY <1>2, <2>1, <2>6, <2>7, <3>1
      <3>3. \A y \in res' : y.r # x
        BY <3>2 DEF Left
      <3> QED  BY <1>1, <2>2, <2>3, <2>5, <3>1, <3>2, <3>3 DEF Undoing
    <2> QED  BY <1>1, <2>2, <2>3, <2>5, <2>8, <2>9, <2>10, <2>11 DEF Settles
  <1>5. ASSUME NEW r, Set(e, r), eng[e].sc = <<>>, eng[e].sr = <<>>, UNCHANGED <<cont, res>>,
               \/ eng[e].op = "up" /\ r = Return(e, eng[e], "undone")
               \/ /\ eng[e].op = "down"
                  /\ \/ \E t : r = [eng[e] EXCEPT !.sr = eng[e].saved, !.saved = <<>>, !.pc = "list", !.todo = t]
                     \/ r = Return(e, [eng[e] EXCEPT !.sr = eng[e].saved, !.saved = <<>>], "failed")
        PROVE  EngineOk(e, eng[e])' /\ Settles(e)
    <2>1. OnlyBy(e) /\ eng'[e] = r
      BY <1>5, SetLemma
    <2>2. /\ r.n = eng[e].n /\ r.inc = eng[e].inc /\ r.spec = eng[e].spec /\ r.op = eng[e].op
          /\ r.sc = eng[e].sc /\ (r.sr = eng[e].sr \/ eng[e].op # "up") /\ r.ids \subseteq eng[e].ids
          /\ r.bad = eng[e].bad
      BY <1>2, <1>5 DEF IsEngine, EngineFields, Return
    <2>3. <<>> \in Seq(Own(e))
      OBVIOUS
    <2>4. EngineOk(e, eng[e])'
      <3>1. IsEngine(r) /\ r.rmvol = eng[e].rmvol /\ r.sr \in Seq(Own(e)) /\ r.saved \in Seq(Own(e)) /\ r.ids = {}
        BY <1>1, <1>2, <1>5, <2>3 DEF EngineOk, IsEngine, EngineFields, Return
      <3>2. \/ r.pc = "idle" /\ r.ret \in {"undone", "failed"}
            \/ r.pc = "list" /\ r.ret = eng[e].ret /\ r.op = "down"
        BY <1>2, <1>5 DEF IsEngine, EngineFields, Return
      <3>3. r.ret = "undone" => r.op = "up" /\ r.sr = <<>> /\ r.sc = <<>>
        BY <1>1, <1>2, <1>5 DEF EngineOk, IsEngine, EngineFields, Return
      <3> QED  BY <1>1, <1>2, <2>1, <2>2, <3>1, <3>2, <3>3 DEF EngineOk
    <2>5. NoNew /\ res' \subseteq res
      BY <1>5, NoNewLemma
    <2> QED  BY <1>1, <1>2, <2>1, <2>2, <2>4, <2>5, KeepsLists
  <1>6. \A t : [[eng[e] EXCEPT !.sr = eng[e].saved, !.saved = <<>>] EXCEPT !.pc = "list", !.todo = t]
                 = [eng[e] EXCEPT !.sr = eng[e].saved, !.saved = <<>>, !.pc = "list", !.todo = t]
    BY <1>2 DEF IsEngine, EngineFields
  <1> QED  BY <1>3, <1>4, <1>5, <1>6 DEF UndoStep

(* list(true) of down() collects ids of this project only. *)
LEMMA ListServiceEffect ==
    ASSUME EngineNumbers, EnginesInv, ItemsInv, NEW e \in Engines, ListService(e)
    PROVE  EngineOk(e, eng[e])' /\ Settles(e)
  <1>1. EngineOk(e, eng[e]) /\ ops' = ops /\ cont' = cont /\ res' = res /\ late' = late /\ eng[e].pc = "list"
    BY DEF ListService, Bounds, EnginesInv
  <1>2. PICK r : /\ Set(e, r)
                 /\ \/ r = [eng[e] EXCEPT !.pc = IF eng[e].orph THEN "orphans" ELSE "rmres",
                                          !.todo = NetSeq(e) \o IF eng[e].rmvol THEN VolSeq(e) ELSE <<>>]
                    \/ /\ eng[e].todo # <<>>
                       /\ r = [eng[e] EXCEPT !.pc = "kill",
                                 !.ids = {c.id : c \in Labelled(e, Head(eng[e].todo))}]
                    \/ r = Return(e, eng[e], "failed")
    BY DEF ListService
  <1>3. OnlyBy(e) /\ eng'[e] = r
    BY <1>2, SetLemma
  <1>4. IsEngine(eng[e]) /\ eng[e].op = "down" /\ eng[e].rmvol \in BOOLEAN /\ eng[e].ids = {}
    BY <1>1 DEF EngineOk
  <1>5. PICK t : t = NetSeq(e) \o IF eng[e].rmvol THEN VolSeq(e) ELSE <<>>
    OBVIOUS
  <1>6. t \in Seq(Own(e)) /\ (~eng[e].rmvol => NoVolume(t))
    BY <1>4, <1>5, DeclaredLemma
  <1>7. /\ r.n = eng[e].n /\ r.inc = eng[e].inc /\ r.spec = eng[e].spec /\ r.op = eng[e].op
        /\ r.sc = eng[e].sc /\ r.sr = eng[e].sr /\ r.bad = eng[e].bad /\ IsEngine(r)
        /\ r.rmvol = eng[e].rmvol /\ r.saved = eng[e].saved
    BY <1>2, <1>4 DEF IsEngine, EngineFields, Return
  <1>8. \/ r.pc \in {"orphans", "rmres"} /\ r.todo = t /\ r.ids = {} /\ r.ret = eng[e].ret
        \/ /\ r.pc = "kill" /\ r.todo # <<>> /\ r.ret = eng[e].ret
           /\ r.ids = {c.id : c \in Labelled(e, Head(eng[e].todo))}
        \/ r.pc = "idle" /\ r.ret = "failed" /\ r.ids = {}
    BY <1>2, <1>4, <1>5 DEF IsEngine, EngineFields, Return
  <1>9. EngineOk(e, eng[e])'
    BY <1>1, <1>3, <1>4, <1>6, <1>7, <1>8 DEF EngineOk
  <1>10. NoNew
    BY <1>1, NoNewLemma
  <1>11. r.ids \subseteq eng[e].ids \cup {c.id : c \in {d \in cont : d.proj = ProjOf[e]}}
    BY <1>8 DEF Labelled
  <1>12. eng[e].bad \in BOOLEAN
    BY <1>1 DEF EngineOk
  <1> QED  BY <1>1, <1>3, <1>7, <1>9, <1>10, <1>11, <1>12, KeepsLists

(* One container of a list, or of a name, is killed. *)
LEMMA KillEffect ==
    ASSUME EnginesInv, ItemsInv, NEW e \in Engines, eng[e].pc \in {"kill", "sweep"},
           NEW C \in SUBSET cont, KillAll(C), NEW b \in BOOLEAN, NEW r,
           \/ \E i : r = [eng[e] EXCEPT !.ids = @ \ {i}, !.bad = (@ \/ b)]
           \/ /\ eng[e].ids = {} /\ eng[e].pc = "kill"
              /\ r = [eng[e] EXCEPT !.pc = "list", !.todo = Tail(@), !.bad = (@ \/ b)],
           Set(e, r), Bounds, UNCHANGED <<res, late>>
    PROVE  EngineOk(e, eng[e])' /\ Settles(e)
  <1>1. EngineOk(e, eng[e]) /\ ops' = ops /\ res' = res /\ late' = late
    BY DEF Bounds, EnginesInv
  <1>2. OnlyBy(e) /\ eng'[e] = r
    BY SetLemma
  <1>3. IsEngine(eng[e]) /\ eng[e].bad \in BOOLEAN
    BY <1>1 DEF EngineOk
  <1>4. /\ r.n = eng[e].n /\ r.inc = eng[e].inc /\ r.spec = eng[e].spec /\ r.op = eng[e].op
        /\ r.sc = eng[e].sc /\ r.sr = eng[e].sr /\ IsEngine(r) /\ r.ids \subseteq eng[e].ids
        /\ r.rmvol = eng[e].rmvol /\ r.saved = eng[e].saved /\ r.ret = eng[e].ret
    BY <1>3 DEF IsEngine, EngineFields
  <1>5. r.bad = (eng[e].bad \/ b)
    BY <1>3 DEF IsEngine, EngineFields
  <1>6. \/ r.pc = eng[e].pc /\ r.todo = eng[e].todo
        \/ r.pc = "list" /\ eng[e].pc = "kill" /\ eng[e].ids = {}
    BY <1>3 DEF IsEngine, EngineFields
  <1>7. EngineOk(e, eng[e])'
    BY <1>1, <1>2, <1>3, <1>4, <1>5, <1>6 DEF EngineOk
  <1>8. NoNew
    BY NoNewLemma
  <1>9. eng[e].bad => r.bad
    BY <1>5
  <1> QED  BY <1>1, <1>2, <1>3, <1>4, <1>7, <1>8, <1>9, KeepsLists

(* A container down() listed, or the one of its own name, is killed. *)
LEMMA KillListedEffect ==
    ASSUME EnginesInv, ItemsInv, NEW e \in Engines, KillListed(e)
    PROVE  EngineOk(e, eng[e])' /\ Settles(e)
  <1>1. eng[e].pc = "kill" /\ Bounds /\ UNCHANGED <<res, late>>
    BY DEF KillListed
  <1>2. ASSUME NEW i, KillAll(ById(i)),
               Set(e, [eng[e] EXCEPT !.ids = @ \ {i}, !.bad = @ \/ ~Gone(ById(i))])
        PROVE  EngineOk(e, eng[e])' /\ Settles(e)
    <2>1. PICK b \in BOOLEAN : b = ~Gone(ById(i))
      OBVIOUS
    <2>2. ById(i) \in SUBSET cont
      BY DEF ById
    <2>3. PICK r : Set(e, r) /\ r = [eng[e] EXCEPT !.ids = @ \ {i}, !.bad = (@ \/ b)]
      BY <1>2, <2>1
    <2> QED  BY <1>1, <1>2, <2>2, <2>3, KillEffect
  <1>3. ASSUME NEW C, C = ByName(NameOf(e, Head(eng[e].todo))), KillAll(C), eng[e].ids = {},
               Set(e, [eng[e] EXCEPT !.pc = "list", !.todo = Tail(@), !.bad = @ \/ ~Gone(C)])
        PROVE  EngineOk(e, eng[e])' /\ Settles(e)
    <2>1. PICK b \in BOOLEAN : b = ~Gone(C)
      OBVIOUS
    <2>2. C \in SUBSET cont
      BY <1>3 DEF ByName
    <2>3. PICK r : Set(e, r) /\ r = [eng[e] EXCEPT !.pc = "list", !.todo = Tail(@), !.bad = (@ \/ b)]
      BY <1>3, <2>1
    <2> QED  BY <1>1, <1>3, <2>2, <2>3, KillEffect
  <1> QED  BY <1>2, <1>3 DEF KillListed

(* The sweep removes what it listed, then goes on or returns. *)
LEMMA SweepEffect ==
    ASSUME EnginesInv, ItemsInv, NEW e \in Engines, Sweep(e)
    PROVE  EngineOk(e, eng[e])' /\ Settles(e)
  <1>1. eng[e].pc = "sweep" /\ Bounds /\ UNCHANGED <<res, late>> /\ EngineOk(e, eng[e]) /\ ops' = ops
    BY DEF Sweep, EnginesInv, Bounds
  <1>2. ASSUME NEW i, KillAll(ById(i)),
               Set(e, [eng[e] EXCEPT !.ids = @ \ {i}, !.bad = @ \/ ~Gone(ById(i))])
        PROVE  EngineOk(e, eng[e])' /\ Settles(e)
    <2>1. PICK b \in BOOLEAN : b = ~Gone(ById(i))
      OBVIOUS
    <2>2. ById(i) \in SUBSET cont
      BY DEF ById
    <2>3. PICK r : Set(e, r) /\ r = [eng[e] EXCEPT !.ids = @ \ {i}, !.bad = (@ \/ b)]
      BY <1>2, <2>1
    <2> QED  BY <1>1, <1>2, <2>2, <2>3, KillEffect
  <1>3. ASSUME NEW r, Set(e, r), eng[e].ids = {}, cont' = cont,
               \/ eng[e].op = "down" /\ r = [eng[e] EXCEPT !.pc = "rmres"]
               \/ r = Return(e, eng[e], "swept")
        PROVE  EngineOk(e, eng[e])' /\ Settles(e)
    <2>1. OnlyBy(e) /\ eng'[e] = r
      BY <1>3, SetLemma
    <2>2. IsEngine(eng[e]) /\ eng[e].bad \in BOOLEAN
      BY <1>1 DEF EngineOk
    <2>3. /\ r.n = eng[e].n /\ r.inc = eng[e].inc /\ r.spec = eng[e].spec /\ r.op = eng[e].op
          /\ r.sc = eng[e].sc /\ r.sr = eng[e].sr /\ IsEngine(r) /\ r.ids \subseteq eng[e].ids
          /\ r.bad = eng[e].bad /\ r.rmvol = eng[e].rmvol /\ r.saved = eng[e].saved
      BY <1>3, <2>2 DEF IsEngine, EngineFields, Return
    <2>4. \/ r.pc = "rmres" /\ r.todo = eng[e].todo /\ eng[e].op = "down" /\ r.ret = eng[e].ret
          \/ r.pc = "idle" /\ r.ret = "swept"
      BY <1>3, <2>2 DEF IsEngine, EngineFields, Return
    <2>5. EngineOk(e, eng[e])'
      BY <1>1, <1>3, <2>1, <2>2, <2>3, <2>4 DEF EngineOk
    <2>6. NoNew
      BY <1>3, NoNewLemma
    <2> QED  BY <1>1, <2>1, <2>2, <2>3, <2>5, <2>6, KeepsLists
  <1> QED  BY <1>2, <1>3 DEF Sweep

(* The orphans it lists are of this project. *)
LEMMA ListOrphansEffect ==
    ASSUME EnginesInv, ItemsInv, NEW e \in Engines, ListOrphans(e)
    PROVE  EngineOk(e, eng[e])' /\ Settles(e)
  <1>1. EngineOk(e, eng[e]) /\ ops' = ops /\ cont' = cont /\ res' = res /\ late' = late /\ eng[e].pc = "orphans"
    BY DEF ListOrphans, Bounds, EnginesInv
  <1>2. PICK r : /\ Set(e, r)
                 /\ \/ r = [eng[e] EXCEPT !.pc = "sweep", !.ids = {c.id : c \in Orphans(e)}]
                    \/ r = [eng[e] EXCEPT !.pc = "rmres", !.bad = TRUE]
    BY DEF ListOrphans
  <1>3. OnlyBy(e) /\ eng'[e] = r
    BY <1>2, SetLemma
  <1>4. IsEngine(eng[e]) /\ eng[e].bad \in BOOLEAN /\ eng[e].op = "down" /\ eng[e].ids = {}
    BY <1>1 DEF EngineOk
  <1>5. /\ r.n = eng[e].n /\ r.inc = eng[e].inc /\ r.spec = eng[e].spec /\ r.op = eng[e].op
        /\ r.sc = eng[e].sc /\ r.sr = eng[e].sr /\ IsEngine(r) /\ r.todo = eng[e].todo
        /\ r.rmvol = eng[e].rmvol /\ r.saved = eng[e].saved /\ r.ret = eng[e].ret
    BY <1>2, <1>4 DEF IsEngine, EngineFields
  <1>6. \/ r.pc = "sweep" /\ r.bad = eng[e].bad /\ r.ids = {c.id : c \in Orphans(e)}
        \/ r.pc = "rmres" /\ r.bad = TRUE /\ r.ids = {}
    BY <1>2, <1>4 DEF IsEngine, EngineFields
  <1>7. EngineOk(e, eng[e])'
    BY <1>1, <1>3, <1>4, <1>5, <1>6 DEF EngineOk
  <1>8. NoNew
    BY <1>1, NoNewLemma
  <1>9. r.ids \subseteq eng[e].ids \cup {c.id : c \in {d \in cont : d.proj = ProjOf[e]}}
    BY <1>6 DEF Orphans
  <1>10. eng[e].bad => r.bad
    BY <1>6
  <1> QED  BY <1>1, <1>3, <1>4, <1>5, <1>7, <1>8, <1>9, <1>10, KeepsLists

(* down() removes declared networks, and volumes if asked. *)
LEMMA RemoveDeclaredEffect ==
    ASSUME EnginesInv, ItemsInv, NEW e \in Engines, RemoveDeclared(e)
    PROVE  EngineOk(e, eng[e])' /\ Settles(e)
  <1>1. /\ EngineOk(e, eng[e]) /\ ops' = ops /\ cont' = cont /\ late' = late /\ eng[e].pc = "rmres"
        /\ res' \subseteq res
    BY DEF RemoveDeclared, Bounds, EnginesInv, RemoveRes
  <1>0. PICK b \in BOOLEAN : b = Left(Head(eng[e].todo))
    BY DEF Left
  <1>2. PICK r : /\ Set(e, r)
                 /\ \/ r = Return(e, eng[e], "downed")
                    \/ eng[e].todo # <<>> /\ r = [eng[e] EXCEPT !.todo = Tail(@), !.bad = (@ \/ b)]
    BY <1>0 DEF RemoveDeclared
  <1>3. OnlyBy(e) /\ eng'[e] = r
    BY <1>2, SetLemma
  <1>4. /\ IsEngine(eng[e]) /\ eng[e].bad \in BOOLEAN /\ eng[e].op = "down" /\ eng[e].ids = {}
        /\ eng[e].todo \in Seq(Own(e))
    BY <1>1 DEF EngineOk
  <1>5. /\ r.n = eng[e].n /\ r.inc = eng[e].inc /\ r.spec = eng[e].spec /\ r.op = eng[e].op
        /\ r.sc = eng[e].sc /\ r.sr = eng[e].sr /\ IsEngine(r) /\ r.ids = {}
        /\ r.rmvol = eng[e].rmvol /\ r.saved = eng[e].saved
    BY <1>2, <1>4 DEF IsEngine, EngineFields, Return
  <1>6. \/ r.pc = "idle" /\ r.ret = "downed"
        \/ r.pc = "rmres" /\ r.todo = Tail(eng[e].todo) /\ eng[e].todo # <<>> /\ r.ret = eng[e].ret
    BY <1>1, <1>2, <1>4 DEF IsEngine, EngineFields, Return
  <1>7. r.bad \in BOOLEAN /\ (eng[e].bad => r.bad)
    BY <1>2, <1>4 DEF IsEngine, EngineFields, Return
  <1>8. eng[e].todo # <<>> => /\ Tail(eng[e].todo) \in Seq(Own(e))
                              /\ NoVolume(eng[e].todo) => NoVolume(Tail(eng[e].todo))
    BY <1>4, SeqLemma DEF NoVolume
  <1>9. EngineOk(e, eng[e])'
    BY <1>1, <1>3, <1>4, <1>5, <1>6, <1>7, <1>8 DEF EngineOk
  <1>10. NoNew
    BY <1>1, NoNewLemma
  <1> QED  BY <1>1, <1>3, <1>4, <1>5, <1>7, <1>9, <1>10, KeepsLists

(* start(), stop() and restart(), and the list of down_by_project(). *)
LEMMA ControlEffect ==
    ASSUME EnginesInv, ItemsInv, NEW e \in Engines, StopEach(e) \/ StartEach(e) \/ ListProject(e)
    PROVE  EngineOk(e, eng[e])' /\ Settles(e)
  <1>1. /\ EngineOk(e, eng[e]) /\ ops' = ops /\ res' = res /\ late' = late
        /\ eng[e].pc \in {"bstop", "bstart", "project"}
    BY DEF StopEach, StartEach, ListProject, Bounds, EnginesInv
  <1>2. NoNew
    <2>1. CASE cont' = cont
      BY <2>1, NoNewLemma
    <2>2. ASSUME NEW C \in SUBSET cont, cont' = Stopped(C) \/ cont' = Started(C) PROVE NoNew
      BY <2>2, NoNewLemma
    <2> QED  BY <2>1, <2>2 DEF StopEach, StartEach, ListProject, ByName
  <1>3. PICK r : /\ Set(e, r)
                 /\ \/ r = [eng[e] EXCEPT !.todo = Tail(@)]
                    \/ \E how \in {"failed", "done"} : r = Return(e, eng[e], how)
                    \/ /\ eng[e].pc = "bstop"
                       /\ r = [eng[e] EXCEPT !.pc = "bstart", !.todo = ServiceSeq(e, eng[e].svcs)]
                    \/ /\ eng[e].pc = "project"
                       /\ r = [eng[e] EXCEPT !.pc = "sweep",
                                 !.ids = {c.id : c \in {d \in cont : d.proj = ProjOf[e]}}]
    BY DEF StopEach, StartEach, ListProject, AfterStops
  <1>4. OnlyBy(e) /\ eng'[e] = r
    BY <1>3, SetLemma
  <1>5. IsEngine(eng[e]) /\ eng[e].bad \in BOOLEAN /\ eng[e].ids = {}
    BY <1>1 DEF EngineOk
  <1>6. /\ r.n = eng[e].n /\ r.inc = eng[e].inc /\ r.spec = eng[e].spec /\ r.op = eng[e].op
        /\ r.sc = eng[e].sc /\ r.sr = eng[e].sr /\ IsEngine(r) /\ r.bad = eng[e].bad
        /\ r.rmvol = eng[e].rmvol /\ r.saved = eng[e].saved
    BY <1>3, <1>5 DEF IsEngine, EngineFields, Return
  <1>7. \/ r.pc = "idle" /\ r.ret \in {"failed", "done"} /\ r.ids = {}
        \/ r.pc = eng[e].pc /\ r.ids = {} /\ r.ret = eng[e].ret
        \/ r.pc = "bstart" /\ eng[e].pc = "bstop" /\ r.ids = {} /\ r.ret = eng[e].ret
        \/ /\ r.pc = "sweep" /\ r.ret = eng[e].ret /\ eng[e].pc = "project"
           /\ r.ids = {c.id : c \in {d \in cont : d.proj = ProjOf[e]}}
    BY <1>1, <1>3, <1>5 DEF IsEngine, EngineFields, Return
  <1>8. EngineOk(e, eng[e])'
    BY <1>1, <1>4, <1>5, <1>6, <1>7 DEF EngineOk
  <1>9. r.ids \subseteq eng[e].ids \cup {c.id : c \in {d \in cont : d.proj = ProjOf[e]}}
    BY <1>7
  <1> QED  BY <1>1, <1>2, <1>4, <1>5, <1>6, <1>8, <1>9, KeepsLists

(* An operation begins. *)
Begins(e) ==
  /\ OnlyBy(e) /\ UNCHANGED <<cont, res, late>> /\ ops' = ops + 1
  /\ eng'[e].n = ops + 1 /\ eng'[e].inc = eng[e].inc /\ eng'[e].spec = eng[e].spec
  /\ eng'[e].pc \notin {"idle", "swap", "mk"} /\ eng'[e].ids = {} /\ Range(eng'[e].sc) \subseteq Range(eng[e].sc)
  /\ eng'[e].op = "up" => eng'[e].sc = <<>> /\ eng'[e].sr = <<>>

(* A process ends and the next one has an engine of its own. *)
Renews(e) ==
  /\ OnlyBy(e) /\ UNCHANGED <<cont, res, late, ops>>
  /\ \E sp \in Specs : eng'[e] = NewEngine(eng[e].inc + 1, sp)

(* The runtime changes by itself. *)
Arrives == /\ \E l \in late : /\ late' = late \ {l}
                              /\ cont' = IF ByName(l.name) = {} THEN cont \cup {l} ELSE cont
Rests == /\ UNCHANGED <<eng, res, ops>> /\ (Arrives \/ (NoNew /\ late' = late))
         /\ \A c \in cont : \E d \in cont' : d.name = c.name

EffectOf(e) ==
  /\ EngineOk(e, eng[e])'
  /\ \/ Settles(e) \/ (\E r \in Own(e) : Makes(e, r)) \/ (\E c : Creates(e, c))
     \/ Begins(e) \/ Renews(e)
Effect == Rests \/ \E e \in Engines : EffectOf(e)

(* up(), down(), start(), stop(), restart() and down_by_project() begin. *)
LEMMA BeginEffect ==
    ASSUME EngineNumbers, EnginesInv, NEW e \in Engines, Call(e)
    PROVE  EngineOk(e, eng[e])' /\ Begins(e)
  <1>1. /\ EngineOk(e, eng[e]) /\ ops \in Nat /\ eng[e].pc = "idle" /\ ops' = ops + 1
        /\ UNCHANGED <<cont, res, late>>
    BY DEF Call, Up, Down, Control, Cleanup, Begin, EngineIdle, EnginesInv
  <1>2. IsEngine(eng[e]) /\ eng[e].ids = {} /\ IsList(eng[e].sc) /\ eng[e].sr \in Seq(Own(e)) /\ eng[e].saved \in Seq(Own(e))
    BY <1>1 DEF EngineOk
  <1>3. ASSUME NEW r, Begin(e, r), IsEngine(r)
        PROVE  /\ OnlyBy(e) /\ IsEngine(eng'[e]) /\ eng'[e].n = ops + 1 /\ eng'[e].ret = "none"
               /\ eng'[e].bad \in BOOLEAN /\ eng'[e].inc = r.inc /\ eng'[e].spec = r.spec
               /\ eng'[e].pc = r.pc /\ eng'[e].op = r.op /\ eng'[e].ids = r.ids /\ eng'[e].sc = r.sc
               /\ eng'[e].sr = r.sr /\ eng'[e].saved = r.saved /\ eng'[e].todo = r.todo
               /\ eng'[e].rmvol = r.rmvol
    <2>1. PICK q : q = [r EXCEPT !.n = ops + 1, !.ret = "none", !.bad = FALSE]
      OBVIOUS
    <2>2. Set(e, q)
      BY <1>3, <2>1 DEF Begin, Set
    <2>3. OnlyBy(e) /\ eng'[e] = q
      BY <2>2, SetLemma
    <2>4. IsEngine(q) /\ q.n = ops + 1 /\ q.ret = "none" /\ q.bad \in BOOLEAN
      BY <1>3, <2>1 DEF IsEngine, EngineFields
    <2>5. /\ q.inc = r.inc /\ q.spec = r.spec /\ q.pc = r.pc /\ q.op = r.op /\ q.ids = r.ids
          /\ q.sc = r.sc /\ q.sr = r.sr
      BY <1>3, <2>1 DEF IsEngine, EngineFields
    <2>6. q.saved = r.saved /\ q.todo = r.todo /\ q.rmvol = r.rmvol
      BY <1>3, <2>1 DEF IsEngine, EngineFields
    <2> QED  BY <2>3, <2>4, <2>5, <2>6
  <1>4. CASE Up(e)
    <2>1. PICK S : Begin(e, UpStart(e, S))
      BY <1>4 DEF Up
    <2>2. PICK r : r = UpStart(e, S)
      OBVIOUS
    <2>3. PICK t : t = (IF Bridge THEN NetSeq(e) ELSE <<>>) \o VolSeq(e)
      OBVIOUS
    <2>4. t \in Seq(Own(e)) /\ <<>> \in Seq(Own(e)) /\ IsList(<<>>) /\ Range(<<>>) = {}
      <3>1. t \in Seq(Own(e))
        BY <2>3, DeclaredLemma
      <3>2. IsList(<<>>) /\ Range(<<>>) = {}
        BY <1>2, ListLemma
      <3> QED  BY <3>1, <3>2
    <2>5. /\ IsEngine(r) /\ r.op = "up" /\ r.pc = "res" /\ r.sc = <<>> /\ r.sr = <<>> /\ r.todo = t
          /\ r.ids = eng[e].ids /\ r.inc = eng[e].inc /\ r.spec = eng[e].spec /\ r.saved = eng[e].saved
          /\ r.rmvol = eng[e].rmvol
      BY <1>2, <2>2, <2>3 DEF UpStart, IsEngine, EngineFields
    <2>6. Begin(e, r)
      BY <2>1, <2>2
    <2>7. /\ OnlyBy(e) /\ IsEngine(eng'[e]) /\ eng'[e].n = ops + 1 /\ eng'[e].ret = "none"
          /\ eng'[e].bad \in BOOLEAN /\ eng'[e].inc = r.inc /\ eng'[e].spec = r.spec
          /\ eng'[e].pc = r.pc /\ eng'[e].op = r.op /\ eng'[e].ids = r.ids /\ eng'[e].sc = r.sc
          /\ eng'[e].sr = r.sr /\ eng'[e].saved = r.saved /\ eng'[e].todo = r.todo
          /\ eng'[e].rmvol = r.rmvol
      BY <1>3, <2>5, <2>6
    <2>8. EngineOk(e, eng[e])'
      BY <1>1, <1>2, <2>4, <2>5, <2>7 DEF EngineOk
    <2>9. Begins(e)
      BY <1>1, <1>2, <2>4, <2>5, <2>7 DEF Begins
    <2> QED  BY <2>8, <2>9
  <1>5. CASE Down(e)
    <2>1. PICK q \in Asked(e), v \in BOOLEAN, o \in BOOLEAN : Begin(e, DownStart(e, q, v, o))
      BY <1>5, Zenon DEF Down
    <2>2. PICK r : r = DownStart(e, q, v, o)
      OBVIOUS
    <2>3. /\ <<>> \in Seq(Own(e)) /\ Kind(e, "net") \in Seq(Own(e)) /\ Kind(e, "vol") \in Seq(Own(e))
          /\ NoVolume(Kind(e, "net"))
      <3>1. \A k : Kind(e, k) \in Seq(Own(e)) /\ Range(Kind(e, k)) = {r2 \in Range(eng[e].sr) : r2.k = k}
        BY <1>2, SessionLemma
      <3>2. NoVolume(Kind(e, "net"))
        BY <3>1 DEF NoVolume
      <3> QED  BY <3>1, <3>2
    <2>4. /\ IsEngine(r) /\ r.op = "down" /\ r.pc = "undo" /\ r.sc = eng[e].sc /\ r.rmvol = v
          /\ r.ids = eng[e].ids /\ r.inc = eng[e].inc /\ r.spec = eng[e].spec
          /\ r.saved = (IF v THEN <<>> ELSE Kind(e, "vol"))
          /\ r.sr = (IF v THEN eng[e].sr ELSE Kind(e, "net"))
      BY <1>2, <2>2 DEF DownStart, IsEngine, EngineFields
    <2>5. Begin(e, r)
      BY <2>1, <2>2
    <2>6. /\ OnlyBy(e) /\ IsEngine(eng'[e]) /\ eng'[e].n = ops + 1 /\ eng'[e].ret = "none"
          /\ eng'[e].bad \in BOOLEAN /\ eng'[e].inc = r.inc /\ eng'[e].spec = r.spec
          /\ eng'[e].pc = r.pc /\ eng'[e].op = r.op /\ eng'[e].ids = r.ids /\ eng'[e].sc = r.sc
          /\ eng'[e].sr = r.sr /\ eng'[e].saved = r.saved /\ eng'[e].todo = r.todo
          /\ eng'[e].rmvol = r.rmvol
      BY <1>3, <2>4, <2>5
    <2>7. EngineOk(e, eng[e])'
      BY <1>1, <1>2, <2>1, <2>3, <2>4, <2>6 DEF EngineOk
    <2>8. Begins(e)
      BY <1>1, <1>2, <2>4, <2>6 DEF Begins
    <2> QED  BY <2>7, <2>8
  <1>6. ASSUME NEW r, Begin(e, r),
               \/ r = [eng[e] EXCEPT !.op = "sweep", !.pc = "project"]
               \/ \E q : \E op \in {"start", "stop", "restart"} :
                     r = [eng[e] EXCEPT !.op = op, !.svcs = q,
                             !.pc = IF op = "start" THEN "bstart" ELSE "bstop",
                             !.todo = ServiceSeq(e, q)]
        PROVE  EngineOk(e, eng[e])' /\ Begins(e)
    <2>1. /\ IsEngine(r) /\ r.sc = eng[e].sc /\ r.sr = eng[e].sr /\ r.rmvol = eng[e].rmvol
          /\ r.ids = eng[e].ids /\ r.inc = eng[e].inc /\ r.spec = eng[e].spec /\ r.saved = eng[e].saved
      BY <1>2, <1>6 DEF IsEngine, EngineFields
    <2>2. \/ r.pc = "project" /\ r.op = "sweep"
          \/ r.pc \in {"bstart", "bstop"} /\ r.op \in {"start", "stop", "restart"}
      BY <1>2, <1>6 DEF IsEngine, EngineFields
    <2>3. /\ OnlyBy(e) /\ IsEngine(eng'[e]) /\ eng'[e].n = ops + 1 /\ eng'[e].ret = "none"
          /\ eng'[e].bad \in BOOLEAN /\ eng'[e].inc = r.inc /\ eng'[e].spec = r.spec
          /\ eng'[e].pc = r.pc /\ eng'[e].op = r.op /\ eng'[e].ids = r.ids /\ eng'[e].sc = r.sc
          /\ eng'[e].sr = r.sr /\ eng'[e].saved = r.saved /\ eng'[e].todo = r.todo
          /\ eng'[e].rmvol = r.rmvol
      BY <1>3, <1>6, <2>1
    <2>4. EngineOk(e, eng[e])'
      BY <1>1, <1>2, <2>1, <2>2, <2>3 DEF EngineOk
    <2>5. Begins(e)
      BY <1>1, <1>2, <2>1, <2>2, <2>3 DEF Begins
    <2> QED  BY <2>4, <2>5
  <1>7. CASE Control(e)
    <2>1. PICK q \in Asked(e), op \in {"start", "stop", "restart"} :
             Begin(e, [eng[e] EXCEPT !.op = op, !.svcs = q,
                             !.pc = IF op = "start" THEN "bstart" ELSE "bstop",
                             !.todo = ServiceSeq(e, q)])
      BY <1>7, Zenon DEF Control
    <2> QED  BY <1>6, <2>1
  <1>8. CASE Cleanup(e)
    BY <1>6, <1>8 DEF Cleanup
  <1> QED  BY <1>4, <1>5, <1>7, <1>8 DEF Call

(* The next process has an engine with empty lists. *)
LEMMA RenewEffect ==
    ASSUME EnginesInv, NEW e \in Engines, FreshEngine(e)
    PROVE  EngineOk(e, eng[e])' /\ Renews(e)
  <1>1. ops \in Nat /\ UNCHANGED <<cont, res, late, ops>>
    BY DEF EnginesInv, FreshEngine
  <1>2. PICK sp \in Specs : Set(e, NewEngine(eng[e].inc + 1, sp))
    BY DEF FreshEngine
  <1>3. PICK r : r = NewEngine(eng[e].inc + 1, sp)
    OBVIOUS
  <1>4. OnlyBy(e) /\ eng'[e] = r
    BY <1>2, <1>3, SetLemma
  <1>5. IsList(<<>>) /\ <<>> \in Seq(Own(e))
    BY DEF IsList
  <1>6. EngineOk(e, eng[e])'
    <2>1. IsEngine(r)
      BY <1>3 DEF NewEngine, IsEngine, EngineFields
    <2>2. /\ r.n = 0 /\ r.bad \in BOOLEAN /\ r.rmvol \in BOOLEAN /\ r.sc = <<>> /\ r.sr = <<>> /\ r.saved = <<>>
          /\ r.pc = "idle" /\ r.ids = {} /\ r.ret = "none"
      BY <1>3 DEF NewEngine
    <2> QED  BY <1>1, <1>4, <1>5, <2>1, <2>2 DEF EngineOk
  <1> QED  BY <1>1, <1>3, <1>4, <1>6 DEF Renews

(* Every step of an engine has one of these effects. *)
LEMMA StepEffect ==
    ASSUME EngineNumbers, EnginesInv, ItemsInv, NEW e \in Engines,
           EngineStep(e) \/ Call(e) \/ FreshEngine(e)
    PROVE  EffectOf(e)
  <1>1. CASE EngineStep(e)
    BY <1>1, NextResEffect, MakeResEffect, ServiceEffect, SwapEffect, StartOldEffect, RunEffect,
       UndoEffect, ListServiceEffect, KillListedEffect, ListOrphansEffect, SweepEffect,
       RemoveDeclaredEffect, ControlEffect, Zenon DEF EngineStep, EffectOf
  <1>2. CASE Call(e) \/ FreshEngine(e)
    BY <1>2, BeginEffect, RenewEffect DEF EffectOf
  <1> QED  BY <1>1, <1>2

(* A container that ends and a late run change no engine. *)
LEMMA RestLemma ==
    ASSUME ItemsInv, ContainerExits \/ LateRun
    PROVE  Rests
  <1>1. ASSUME ContainerExits PROVE Rests
    <2>1. PICK c \in cont : cont' = Stopped({c})
      BY <1>1 DEF ContainerExits
    <2>2. NoNew
      BY <2>1, NoNewLemma
    <2>3. c \in cont /\ IsContainer(c) /\ [c EXCEPT !.st = "stopped"].name = c.name
      BY DEF ItemsInv, Runs, IsContainer, ContainerFields
    <2>4. \A a \in cont : \E d \in cont' : d.name = a.name
      BY <2>1, <2>3 DEF Stopped
    <2> QED  BY <1>1, <2>2, <2>4 DEF ContainerExits, Rests
  <1>2. ASSUME LateRun PROVE Rests
    <2>1. Arrives /\ cont \subseteq cont'
      BY <1>2 DEF LateRun, Arrives
    <2> QED  BY <1>2, <2>1 DEF LateRun, Rests
  <1> QED  BY <1>1, <1>2

(* Every step of the specification has one of these effects. *)
LEMMA EffectLemma ==
    ASSUME EngineNumbers, EnginesInv, ItemsInv, ComposeNext
    PROVE  Effect
  BY StepEffect, RestLemma DEF ComposeNext, Effect

-----------------------------------------------------------------------------
(* What every step keeps. *)
LEMMA EnginesStep ==
    ASSUME EnginesInv, Effect
    PROVE  EnginesInv'
  <1>1. CASE Rests
    BY <1>1 DEF Rests, EnginesInv, EngineOk
  <1>2. ASSUME NEW e \in Engines, EngineOk(e, eng[e])', OnlyBy(e), ops' \in Nat, ops <= ops',
               \/ eng'[e].n = eng[e].n \/ eng'[e].n = 0 \/ eng'[e].n = ops + 1
        PROVE  EnginesInv'
    <2>1. ASSUME NEW f \in Engines PROVE EngineOk(f, eng[f])'
      <3>1. CASE f = e
        BY <1>2, <3>1
      <3>2. CASE f # e
        <4>1. EngineOk(f, eng[f]) /\ eng'[f] = eng[f] /\ ops \in Nat
          BY <1>2, <3>2 DEF OnlyBy, EnginesInv
        <4>2. eng[f].n \in 0 .. ops'
          BY <1>2, <4>1 DEF EngineOk
        <4> QED  BY <4>1, <4>2 DEF EngineOk
      <3> QED  BY <3>1, <3>2
    <2>2. \A f \in Engines : eng[f].n \in 0 .. ops
      BY DEF EnginesInv, EngineOk
    <2>3. ASSUME NEW f \in Engines, NEW g \in Engines, eng'[f].n = eng'[g].n, eng'[f].n # 0 PROVE f = g
      <3>1. ops \in Nat
        BY DEF EnginesInv
      <3> QED  BY <1>2, <2>2, <2>3, <3>1 DEF OnlyBy, EnginesInv
    <2> QED  BY <1>2, <2>1, <2>3 DEF EnginesInv, OnlyBy
  <1>3. ops \in Nat
    BY DEF EnginesInv
  <1>4. ASSUME NEW e \in Engines, EngineOk(e, eng[e])',
               \/ Settles(e) \/ (\E r \in Own(e) : Makes(e, r)) \/ (\E c : Creates(e, c))
               \/ Begins(e) \/ Renews(e)
        PROVE  EnginesInv'
    <2>1. OnlyBy(e) /\ ops' \in Nat /\ ops <= ops'
      BY <1>3, <1>4 DEF Settles, Makes, Creates, Begins, Renews
    <2>2. eng'[e].n = eng[e].n \/ eng'[e].n = 0 \/ eng'[e].n = ops + 1
      <3>1. CASE Settles(e)
        BY <3>1 DEF Settles
      <3>2. CASE \E r \in Own(e) : Makes(e, r)
        BY <3>2 DEF Makes
      <3>3. CASE \E c : Creates(e, c)
        BY <3>3 DEF Creates
      <3>4. CASE Begins(e)
        BY <3>4 DEF Begins
      <3>5. CASE Renews(e)
        <4>1. \A i, sp : NewEngine(i, sp).n = 0
          BY DEF NewEngine
        <4> QED  BY <3>5, <4>1 DEF Renews
      <3> QED  BY <1>4, <3>1, <3>2, <3>3, <3>4, <3>5
    <2> QED  BY <1>2, <1>4, <2>1, <2>2
  <1> QED  BY <1>1, <1>4 DEF Effect, EffectOf

(* The id of a new container is on no list and no other container has it. *)
LEMMA UsedLemma ==
    ASSUME ItemsInv
    PROVE  /\ \A c \in Runs : c.id \in UsedIds
           /\ \A e \in Engines : /\ eng[e].ids \subseteq UsedIds
                                 /\ \A x \in Range(eng[e].sc) : x.id \in UsedIds
           /\ 1 + Max(UsedIds) \in Nat \ {0} /\ 1 + Max(UsedIds) \notin UsedIds
  <1>1. PICK b \in Nat : UsedIds \subseteq 0 .. b
    BY DEF ItemsInv
  <1>2. 0 \in UsedIds
    BY DEF UsedIds
  <1>3. Max(UsedIds) \in UsedIds /\ \A y \in UsedIds : Max(UsedIds) >= y
    <2>1. PICK T : T = UsedIds
      OBVIOUS
    <2>2. T \in SUBSET Nat /\ T # {} /\ T \subseteq 0 .. b
      BY <1>1, <1>2, <2>1
    <2>3. Max(T) \in T /\ \A y \in T : Max(T) >= y
      BY <2>2, MaxLemma
    <2> QED  BY <2>1, <2>3
  <1>4. 1 + Max(UsedIds) \in Nat \ {0} /\ 1 + Max(UsedIds) \notin UsedIds
    <2>1. PICK m : m = Max(UsedIds)
      OBVIOUS
    <2>2. m \in Nat
      <3>1. m \in 0 .. b
        BY <1>1, <1>3, <2>1, Zenon
      <3> QED  BY <3>1
    <2>3. 1 + m \in Nat \ {0} /\ ~(m >= 1 + m)
      BY <2>2
    <2> QED  BY <1>3, <2>1, <2>3
  <1>5. /\ \A c \in Runs : c.id \in UsedIds
        /\ \A e \in Engines : /\ eng[e].ids \subseteq UsedIds
                              /\ \A x \in Range(eng[e].sc) : x.id \in UsedIds
    BY DEF UsedIds, Runs
  <1> QED  BY <1>4, <1>5

(* One more id keeps the ids bounded. *)
LEMMA BoundLemma ==
    ASSUME ItemsInv, NEW i \in Nat, UsedIds' \subseteq UsedIds \cup {i}
    PROVE  \E b \in Nat : UsedIds' \subseteq 0 .. b
  <1>1. PICK b \in Nat : UsedIds \subseteq 0 .. b
    BY DEF ItemsInv
  <1>2. 0 .. b \subseteq 0 .. (b + i) /\ i \in 0 .. (b + i) /\ b + i \in Nat
    OBVIOUS
  <1> QED  BY <1>1, <1>2

(* Every step keeps ids and names apart. *)
LEMMA ItemsStep ==
    ASSUME EnginesInv, ItemsInv, Effect
    PROVE  ItemsInv'
  <1> DEFINE U(i) == /\ i = 0 \/ (\E c \in cont' : c.id = i) \/ (\E c \in late' : c.id = i)
                        \/ \E f \in Engines : i \in eng'[f].ids \/ \E x \in Range(eng'[f].sc) : x.id = i
  <1>0. \A i \in UsedIds' : U(i)
    BY DEF UsedIds
  <1> HIDE DEF U
  <1>a. 0 \in UsedIds /\ 0 \in Nat
    BY DEF UsedIds
  <1>b. /\ \A c \in cont : c.id \in UsedIds
        /\ \A c \in late : c.id \in UsedIds
        /\ \A e \in Engines : \A i \in eng[e].ids : i \in UsedIds
        /\ \A e \in Engines : \A x \in Range(eng[e].sc) : x.id \in UsedIds
    BY UsedLemma DEF Runs
  <1>1. ASSUME NoNew, late' = late, res' \subseteq res, ops' \in Nat, ops <= ops', UsedIds' \subseteq UsedIds
        PROVE  ItemsInv'
    <2>1. \E b \in Nat : UsedIds' \subseteq 0 .. b
      BY <1>1, <1>a, BoundLemma
    <2>2. ops \in Nat
      BY DEF EnginesInv
    <2>3. \A d \in Runs' : \E c \in Runs : SameContainer(c, d)
      <3>1. \A c \in late : SameContainer(c, c)
        BY DEF SameContainer, ItemsInv, Runs, States
      <3> QED  BY <1>1, <3>1 DEF Runs, NoNew
    <2>4. \A d \in Runs' : IsContainer(d) /\ d.id \in Nat \ {0} /\ d.by \in 0 .. ops'
                           /\ d.st \in {"created", "running", "stopped"}
      <3>1. \A c \in Runs : c.id \in Nat \ {0} /\ c.by \in 0 .. ops
        BY DEF ItemsInv
      <3>2. 0 .. ops \subseteq 0 .. ops'
        BY <1>1, <2>2
      <3> QED  BY <2>3, <3>1, <3>2 DEF SameContainer, States
    <2>5. \A c, d \in Runs' : c.id = d.id => c.proj = d.proj /\ c.by = d.by
      <3> SUFFICES ASSUME NEW c \in Runs', NEW d \in Runs', c.id = d.id PROVE c.proj = d.proj /\ c.by = d.by
        OBVIOUS
      <3>1. PICK c2 \in Runs : SameContainer(c2, c)
        BY <2>3
      <3>2. PICK d2 \in Runs : SameContainer(d2, d)
        BY <2>3
      <3> QED  BY <3>1, <3>2 DEF SameContainer, ItemsInv
    <2>6. /\ \A x \in res' : x.by \in 0 .. ops'
          /\ \A x, y \in res' : x.r = y.r => x = y
      BY <1>1, <2>2 DEF ItemsInv
    <2>7. \A c, d \in cont' : c.name = d.name => c = d
      BY <1>1 DEF NoNew
    <2> QED  BY <2>1, <2>4, <2>5, <2>6, <2>7 DEF ItemsInv
  <1>2. CASE Rests /\ NoNew /\ late' = late
    <2>1. \A i \in UsedIds' : i \in UsedIds
      BY <1>0, <1>a, <1>b, <1>2 DEF U, Rests, NoNew, SameContainer
    <2>2. ops \in Nat
      BY DEF EnginesInv
    <2> QED  BY <1>1, <1>2, <2>1, <2>2 DEF Rests
  <1>3. CASE Rests /\ Arrives
    <2>1. PICK l \in late : /\ late' = late \ {l}
                            /\ cont' = IF ByName(l.name) = {} THEN cont \cup {l} ELSE cont
      BY <1>3 DEF Arrives
    <2>2. Runs' \subseteq Runs
      BY <2>1 DEF Runs
    <2>3. \A c, d \in cont' : c.name = d.name => c = d
      BY <2>1 DEF ItemsInv, ByName
    <2>4. \A i \in UsedIds' : i \in UsedIds
      BY <1>0, <1>a, <1>b, <1>3, <2>1 DEF U, Rests
    <2>5. \E b \in Nat : UsedIds' \subseteq 0 .. b
      BY <1>a, <2>4, BoundLemma
    <2> QED  BY <1>3, <2>2, <2>3, <2>5 DEF ItemsInv, Rests
  <1>4. ASSUME NEW e \in Engines, Settles(e) PROVE ItemsInv'
    <2>1. \A i \in UsedIds' : i \in UsedIds
      <3> SUFFICES ASSUME NEW i \in UsedIds' PROVE i \in UsedIds
        OBVIOUS
      <3>1. CASE i = 0
        BY <1>a, <3>1
      <3>2. CASE (\E c \in cont' : c.id = i) \/ (\E c \in late' : c.id = i)
        BY <1>b, <1>4, <3>2 DEF Settles, NoNew, SameContainer
      <3>3. ASSUME NEW f \in Engines, i \in eng'[f].ids PROVE i \in UsedIds
        BY <1>b, <1>4, <3>3 DEF Settles, OnlyBy
      <3>4. ASSUME NEW f \in Engines, NEW x \in Range(eng'[f].sc), x.id = i PROVE i \in UsedIds
        BY <1>a, <1>b, <1>4, <3>4 DEF Settles, OnlyBy
      <3> QED  BY <1>0, <3>1, <3>2, <3>3, <3>4 DEF U
    <2>2. ops \in Nat
      BY DEF EnginesInv
    <2> QED  BY <1>1, <1>4, <2>1, <2>2 DEF Settles
  <1>5. ASSUME NEW e \in Engines, NEW r \in Own(e), Makes(e, r) PROVE ItemsInv'
    <2>1. \A f \in Engines : eng'[f].sc = eng[f].sc /\ eng'[f].ids = eng[f].ids
      BY <1>5 DEF Makes, OnlyBy
    <2>2. cont' = cont /\ late' = late /\ ops' = ops /\ res' = res \cup {[r |-> r, by |-> eng[e].n]}
          /\ \A x \in res : x.r # r
      BY <1>5 DEF Makes
    <2>3. \A i \in UsedIds' : i \in UsedIds
      BY <1>0, <1>a, <1>b, <2>1, <2>2 DEF U
    <2>4. \E b \in Nat : UsedIds' \subseteq 0 .. b
      BY <1>a, <2>3, BoundLemma
    <2>5. eng[e].n \in 0 .. ops
      BY DEF EnginesInv, EngineOk
    <2>6. PICK y : y = [r |-> r, by |-> eng[e].n]
      OBVIOUS
    <2>8. y.r = r /\ y.by = eng[e].n
      BY <2>6
    <2>7. /\ \A x \in res' : x.by \in 0 .. ops'
          /\ \A x, z \in res' : x.r = z.r => x = z
      BY <2>2, <2>5, <2>6, <2>8 DEF ItemsInv
    <2> QED  BY <2>2, <2>4, <2>7 DEF ItemsInv, Runs
  <1>6. ASSUME NEW e \in Engines, NEW c, Creates(e, c) PROVE ItemsInv'
    <2>1. c.id \in Nat \ {0} /\ c.id \notin UsedIds
      BY <1>6, UsedLemma DEF Creates
    <2>2. \A i \in UsedIds' : i \in UsedIds \cup {c.id}
      <3> SUFFICES ASSUME NEW i \in UsedIds' PROVE i \in UsedIds \cup {c.id}
        OBVIOUS
      <3>1. CASE i = 0
        BY <1>a, <3>1
      <3>2. CASE (\E d \in cont' : d.id = i) \/ (\E d \in late' : d.id = i)
        BY <1>b, <1>6, <3>2 DEF Creates
      <3>3. ASSUME NEW f \in Engines, i \in eng'[f].ids PROVE i \in UsedIds
        BY <1>b, <1>6, <3>3 DEF Creates, OnlyBy
      <3>4. ASSUME NEW f \in Engines, NEW x \in Range(eng'[f].sc), x.id = i PROVE i \in UsedIds \cup {c.id}
        BY <1>b, <1>6, <3>4 DEF Creates, OnlyBy
      <3> QED  BY <1>0, <3>1, <3>2, <3>3, <3>4 DEF U
    <2>3. \E b \in Nat : UsedIds' \subseteq 0 .. b
      BY <2>1, <2>2, BoundLemma
    <2>4. eng[e].n \in 0 .. ops
      BY DEF EnginesInv, EngineOk
    <2>5. Runs' \subseteq Runs \cup {c} /\ ops' = ops /\ res' = res
      BY <1>6 DEF Creates, Runs
    <2>6. /\ IsContainer(c) /\ c.id \in Nat \ {0} /\ c.by \in 0 .. ops
          /\ c.st \in {"created", "running", "stopped"}
      BY <1>6, <2>1, <2>4 DEF Creates, States
    <2>7. \A d \in Runs : d.id # c.id
      BY <1>b, <2>1 DEF Runs
    <2>8. \A d1, d2 \in Runs' : d1.id = d2.id => d1.proj = d2.proj /\ d1.by = d2.by
      BY <2>5, <2>7 DEF ItemsInv
    <2>9. \A d1, d2 \in cont' : d1.name = d2.name => d1 = d2
      <3>1. cont' \subseteq cont \cup {c} /\ (cont' # cont => \A d \in cont : d.name # c.name)
        BY <1>6 DEF Creates
      <3> QED  BY <3>1 DEF ItemsInv
    <2> QED  BY <2>3, <2>5, <2>6, <2>8, <2>9 DEF ItemsInv
  <1>7. ASSUME NEW e \in Engines, Begins(e) \/ Renews(e) PROVE ItemsInv'
    <2>1. \A f \in Engines : Range(eng'[f].sc) \subseteq Range(eng[f].sc) /\ eng'[f].ids \subseteq eng[f].ids
      <3>1. Range(<<>>) = {}
        BY DEF Range
      <3>2. CASE Begins(e)
        BY <3>2 DEF Begins, OnlyBy
      <3>3. CASE Renews(e)
        BY <3>1, <3>3 DEF Renews, OnlyBy, NewEngine
      <3> QED  BY <1>7, <3>2, <3>3
    <2>2. cont' = cont /\ late' = late /\ res' = res
      BY <1>7 DEF Begins, Renews
    <2>3. \A i \in UsedIds' : i \in UsedIds
      BY <1>0, <1>a, <1>b, <2>1, <2>2 DEF U
    <2>4. ops' \in Nat /\ ops <= ops'
      BY <1>7 DEF Begins, Renews, EnginesInv
    <2>5. NoNew
      BY <2>2, NoNewLemma
    <2> QED  BY <1>1, <2>2, <2>3, <2>4, <2>5
  <1> QED  BY <1>2, <1>3, <1>4, <1>5, <1>6, <1>7 DEF Effect, EffectOf, Rests

(* What every container of the next state comes from. *)
LEMMA HeirLemma ==
    ASSUME ItemsInv, (NoNew /\ late' = late) \/ Arrives
    PROVE  \A d \in Runs' : \E c \in Runs : SameContainer(c, d)
  <1>1. \A c \in Runs : SameContainer(c, c)
    BY DEF ItemsInv, SameContainer, States
  <1>2. CASE NoNew /\ late' = late
    BY <1>1, <1>2 DEF NoNew, Runs
  <1>3. CASE Arrives
    <2>1. Runs' \subseteq Runs
      BY <1>3 DEF Arrives, Runs
    <2> QED  BY <1>1, <2>1
  <1> QED  BY <1>2, <1>3

(* Every step keeps the lists to the project, and those of an up() to its own. *)
LEMMA ListsStep ==
    ASSUME EnginesInv, ItemsInv, ListsInv, Effect
    PROVE  ListsInv'
  <1>0. \A c \in Runs : c.id # 0 /\ c.id \in Nat
    BY DEF ItemsInv
  <1>1. CASE Rests
    <2>1. \A d \in Runs' : \E c \in Runs : SameContainer(c, d)
      BY <1>1, HeirLemma DEF Rests
    <2>2. eng' = eng
      BY <1>1 DEF Rests
    <2> QED  BY <2>1, <2>2 DEF ListsInv, Lists, SameContainer
  <1>2. ASSUME NEW e \in Engines, Settles(e) PROVE ListsInv'
    <2>1. \A d \in Runs' : \E c \in Runs : SameContainer(c, d)
      BY <1>2, HeirLemma DEF Settles
    <2> SUFFICES ASSUME NEW f \in Engines, NEW d \in Runs'
                 PROVE  /\ Lists(eng'[f], d.id) => d.proj = ProjOf[f]
                        /\ eng'[f].op = "up" /\ (\E x \in Range(eng'[f].sc) : x.id = d.id) => d.by = eng'[f].n
      BY DEF ListsInv
    <2>2. PICK c \in Runs : SameContainer(c, d)
      BY <2>1
    <2>3. c.id = d.id /\ c.proj = d.proj /\ c.by = d.by /\ c.id # 0
      BY <1>0, <2>2 DEF SameContainer
    <2>4. /\ Lists(eng[f], c.id) => c.proj = ProjOf[f]
          /\ eng[f].op = "up" /\ (\E x \in Range(eng[f].sc) : x.id = c.id) => c.by = eng[f].n
      BY DEF ListsInv
    <2>5. CASE f # e
      <3>1. eng'[f] = eng[f]
        BY <1>2, <2>5 DEF Settles, OnlyBy
      <3> QED  BY <2>3, <2>4, <3>1
    <2>6. CASE f = e
      <3>1. ASSUME NEW x \in Range(eng'[e].sc), x.id = d.id PROVE x \in Range(eng[e].sc)
        BY <1>2, <2>3, <3>1 DEF Settles
      <3>2. ASSUME d.id \in eng'[e].ids PROVE d.proj = ProjOf[e]
        <4>1. CASE d.id \in eng[e].ids
          BY <2>3, <2>4, <2>6, <4>1 DEF Lists
        <4>2. ASSUME NEW c2 \in cont, c2.id = d.id, c2.proj = ProjOf[e] PROVE d.proj = ProjOf[e]
          <5>1. c2 \in Runs
            BY DEF Runs
          <5> QED  BY <2>3, <4>2, <5>1 DEF ItemsInv
        <4> QED  BY <1>2, <3>2, <4>1, <4>2 DEF Settles
      <3>3. eng'[e].n = eng[e].n /\ eng'[e].op = eng[e].op
        BY <1>2 DEF Settles
      <3> QED  BY <2>3, <2>4, <2>6, <3>1, <3>2, <3>3 DEF Lists
    <2> QED  BY <2>5, <2>6
  <1>3. ASSUME NEW e \in Engines, NEW r \in Own(e), Makes(e, r) PROVE ListsInv'
    <2>1. Runs' = Runs
      BY <1>3 DEF Makes, Runs
    <2>2. \A f \in Engines : /\ eng'[f].sc = eng[f].sc /\ eng'[f].ids = eng[f].ids /\ eng'[f].op = eng[f].op
                             /\ eng'[f].n = eng[f].n
      BY <1>3 DEF Makes, OnlyBy
    <2> QED  BY <2>1, <2>2 DEF ListsInv, Lists
  <1>4. ASSUME NEW e \in Engines, NEW c, Creates(e, c) PROVE ListsInv'
    <2>1. /\ \A f \in Engines : /\ c.id \notin eng[f].ids
                                /\ \A x \in Range(eng[f].sc) : x.id # c.id
          /\ \A d \in Runs : d.id # c.id
      <3>1. c.id \notin UsedIds
        BY <1>4, UsedLemma DEF Creates
      <3> QED  BY <3>1, UsedLemma
    <2>2. Runs' \subseteq Runs \cup {c}
      BY <1>4 DEF Creates, Runs
    <2>3. /\ c.proj = ProjOf[e] /\ c.by = eng[e].n /\ eng'[e].n = eng[e].n /\ eng'[e].op = eng[e].op
          /\ eng'[e].ids = eng[e].ids
          /\ \A x \in Range(eng'[e].sc) : x \in Range(eng[e].sc) \/ x.id = c.id
          /\ \A f \in Engines : f # e => eng'[f] = eng[f]
      BY <1>4 DEF Creates, OnlyBy
    <2> SUFFICES ASSUME NEW f \in Engines, NEW d \in Runs'
                 PROVE  /\ Lists(eng'[f], d.id) => d.proj = ProjOf[f]
                        /\ eng'[f].op = "up" /\ (\E x \in Range(eng'[f].sc) : x.id = d.id) => d.by = eng'[f].n
      BY DEF ListsInv
    <2>4. CASE f = e
      BY <2>1, <2>2, <2>3, <2>4 DEF ListsInv, Lists
    <2>5. CASE f # e
      BY <2>1, <2>2, <2>3, <2>5 DEF ListsInv, Lists
    <2> QED  BY <2>4, <2>5
  <1>5. ASSUME NEW e \in Engines, Begins(e) \/ Renews(e) PROVE ListsInv'
    <2>1. /\ \A f \in Engines : f # e => eng'[f] = eng[f]
          /\ Runs' = Runs
      BY <1>5 DEF Begins, Renews, OnlyBy, Runs
    <2>2. /\ Range(eng'[e].sc) \subseteq Range(eng[e].sc) /\ eng'[e].ids = {}
          /\ eng'[e].op = "up" => Range(eng'[e].sc) = {}
      <3>1. Range(<<>>) = {}
        BY DEF Range
      <3>2. CASE Begins(e)
        BY <3>1, <3>2 DEF Begins
      <3>3. CASE Renews(e)
        BY <3>1, <3>3 DEF Renews, NewEngine
      <3> QED  BY <1>5, <3>2, <3>3
    <2> QED  BY <2>1, <2>2 DEF ListsInv, Lists
  <1> QED  BY <1>1, <1>2, <1>3, <1>4, <1>5 DEF Effect, EffectOf

(* Only a run that returned creates a container. *)
NoLate == {"partial", "timeout"} \cap Faults = {}

(* Every step keeps what an up() created on its lists, if a run that fails creates nothing. *)
LEMMA CreatedStep ==
    ASSUME NoLate, EnginesInv, ItemsInv, CreatedInv, Effect
    PROVE  CreatedInv'
  <1> DEFINE Done(f) ==
         Undoing(eng'[f]) => /\ \A d \in cont' : d.by = eng'[f].n => \E x \in Range(eng'[f].sc) : x.id = d.id
                             /\ \A x \in res' : x.by = eng'[f].n => x.r \in Range(eng'[f].sr)
  <1>0. late = {} /\ ops \in Nat
    BY DEF CreatedInv, EnginesInv
  <1>1. CASE Rests
    <2>1. NoNew /\ late' = late
      BY <1>0, <1>1 DEF Rests, Arrives
    <2>2. eng' = eng /\ res' = res
      BY <1>1 DEF Rests
    <2> QED  BY <2>1, <2>2 DEF CreatedInv, NoNew, SameContainer
  <1>2. \A f \in Engines : Undoing(eng[f]) =>
           /\ \A c \in cont : c.by = eng[f].n => \E x \in Range(eng[f].sc) : x.id = c.id
           /\ \A x \in res : x.by = eng[f].n => x.r \in Range(eng[f].sr)
    BY DEF CreatedInv
  <1>3. ASSUME NEW e \in Engines, Settles(e) PROVE CreatedInv'
    <2>1. \A d \in cont' : \E c \in cont : c.id = d.id /\ c.by = d.by
      BY <1>3 DEF Settles, NoNew, SameContainer
    <2>2. ASSUME NEW f \in Engines, f # e PROVE Done(f)
      BY <1>2, <1>3, <2>1, <2>2 DEF Settles, OnlyBy
    <2>3. Done(e)
      <3>1. SUFFICES ASSUME Undoing(eng'[e]) PROVE Done(e)
        OBVIOUS
      <3>2. /\ Undoing(eng[e]) /\ eng'[e].n = eng[e].n /\ res' \subseteq res
            /\ \A c \in cont', x \in Range(eng[e].sc) :
                  x.id = c.id => \E y \in Range(eng'[e].sc) : y.id = c.id
            /\ \A x \in res' : x.r \in Range(eng[e].sr) => x.r \in Range(eng'[e].sr)
        BY <1>3, <3>1 DEF Settles
      <3> QED  BY <1>2, <2>1, <3>2
    <2>4. late' = {}
      BY <1>0, <1>3 DEF Settles
    <2> QED  BY <2>2, <2>3, <2>4 DEF CreatedInv
  <1>4. ASSUME NEW e \in Engines, NEW r \in Own(e), Makes(e, r) PROVE CreatedInv'
    <2>1. PICK y : y = [r |-> r, by |-> eng[e].n]
      OBVIOUS
    <2>2. y.r = r /\ y.by = eng[e].n
      BY <2>1
    <2>3. /\ cont' = cont /\ late' = {} /\ res' = res \cup {y}
          /\ \A f \in Engines : f # e => eng'[f] = eng[f]
          /\ eng'[e].n = eng[e].n /\ eng'[e].sc = eng[e].sc /\ Range(eng'[e].sr) = Range(eng[e].sr) \cup {r}
          /\ Undoing(eng[e]) = Undoing(eng'[e])
      BY <1>0, <1>4, <2>1 DEF Makes, OnlyBy, Undoing
    <2>4. \A f \in Engines : f # e => eng[f].n # eng[e].n
      BY <1>4 DEF Makes, EnginesInv, EngineOk
    <2>5. ASSUME NEW f \in Engines, f # e PROVE Done(f)
      BY <1>2, <2>2, <2>3, <2>4, <2>5
    <2>6. Done(e)
      BY <1>2, <2>2, <2>3
    <2> QED  BY <2>3, <2>5, <2>6 DEF CreatedInv
  <1>5. ASSUME NEW e \in Engines, NEW c, Creates(e, c) PROVE CreatedInv'
    <2>1. /\ cont' \subseteq cont \cup {c} /\ late' = {} /\ res' = res /\ c.by = eng[e].n
          /\ \A f \in Engines : f # e => eng'[f] = eng[f]
          /\ eng'[e].n = eng[e].n /\ eng'[e].sr = eng[e].sr /\ Range(eng[e].sc) \subseteq Range(eng'[e].sc)
          /\ \E x \in Range(eng'[e].sc) : x.id = c.id
      BY <1>0, <1>5 DEF Creates, OnlyBy, NoLate
    <2>2. Undoing(eng'[e]) => Undoing(eng[e])
      BY <1>5 DEF Creates, Undoing
    <2>4. \A f \in Engines : f # e => eng[f].n # eng[e].n
      BY <1>5 DEF Creates, EnginesInv, EngineOk
    <2>5. ASSUME NEW f \in Engines, f # e PROVE Done(f)
      BY <1>2, <2>1, <2>4, <2>5
    <2>6. Done(e)
      BY <1>2, <2>1, <2>2
    <2> QED  BY <2>1, <2>5, <2>6 DEF CreatedInv
  <1>6. ASSUME NEW e \in Engines, Begins(e) \/ Renews(e) PROVE CreatedInv'
    <2>1. /\ cont' = cont /\ late' = {} /\ res' = res
          /\ \A f \in Engines : f # e => eng'[f] = eng[f]
      BY <1>0, <1>6 DEF Begins, Renews, OnlyBy
    <2>2. ASSUME NEW f \in Engines, f # e PROVE Done(f)
      BY <1>2, <2>1, <2>2
    <2>3. Done(e)
      <3>1. CASE Begins(e)
        <4>1. eng'[e].n = ops + 1
          BY <3>1 DEF Begins
        <4>2. (\A c \in cont : c.by \in 0 .. ops) /\ \A x \in res : x.by \in 0 .. ops
          BY DEF ItemsInv, Runs
        <4>3. (\A c \in cont : c.by # ops + 1) /\ \A x \in res : x.by # ops + 1
          BY <1>0, <4>2
        <4> QED  BY <2>1, <4>1, <4>3
      <3>2. CASE Renews(e)
        <4>1. eng'[e].op = "none"
          BY <3>2 DEF Renews, NewEngine
        <4> QED  BY <4>1 DEF Undoing
      <3> QED  BY <1>6, <3>1, <3>2
    <2> QED  BY <2>1, <2>2, <2>3 DEF CreatedInv
  <1> QED  BY <1>1, <1>3, <1>4, <1>5, <1>6 DEF Effect, EffectOf

(* No two engines of one project. *)
Apart == \A e, f \in Engines : ProjOf[e] = ProjOf[f] => e = f

(* Every step keeps the lists of an up() to what it created, if projects are apart. *)
LEMMA OwnersStep ==
    ASSUME Apart, EnginesInv, ItemsInv, OwnersInv, Idempotent => AbsentInv, Effect
    PROVE  OwnersInv'
  <1>0. \A f \in Engines : \A x \in Range(eng[f].sr) : x.p = ProjOf[f]
    <2>1. \A f \in Engines : Range(eng[f].sr) \subseteq Own(f)
      BY SeqLemma DEF EnginesInv, EngineOk
    <2> QED  BY <2>1 DEF Own
  <1>1. CASE Rests
    BY <1>1 DEF Rests, OwnersInv
  <1>2. ASSUME NEW e \in Engines, Settles(e) PROVE OwnersInv'
    <2>1. \A r : Adopted(e, r) => \A x \in res : x.r # r
      BY DEF Adopted, AbsentInv
    <2> QED  BY <1>2, <2>1 DEF Settles, OnlyBy, OwnersInv
  <1>3. ASSUME NEW e \in Engines, NEW r \in Own(e), Makes(e, r) PROVE OwnersInv'
    <2>1. PICK y : y = [r |-> r, by |-> eng[e].n]
      OBVIOUS
    <2>2. y.r = r /\ y.by = eng[e].n /\ r.p = ProjOf[e]
      BY <1>3, <2>1 DEF Own
    <2>3. /\ res' = res \cup {y} /\ (\A x \in res : x.r # r)
          /\ \A f \in Engines : f # e => eng'[f] = eng[f]
          /\ eng'[e].n = eng[e].n /\ eng'[e].op = eng[e].op /\ Range(eng'[e].sr) = Range(eng[e].sr) \cup {r}
      BY <1>3, <2>1 DEF Makes, OnlyBy
    <2>4. \A f \in Engines : f # e => r \notin Range(eng[f].sr)
      BY <1>0, <2>2 DEF Apart
    <2> QED  BY <2>2, <2>3, <2>4 DEF OwnersInv
  <1>4. ASSUME NEW e \in Engines, NEW c, Creates(e, c) PROVE OwnersInv'
    BY <1>4 DEF Creates, OnlyBy, OwnersInv
  <1>5. ASSUME NEW e \in Engines, Begins(e) \/ Renews(e) PROVE OwnersInv'
    <2>1. res' = res /\ \A f \in Engines : f # e => eng'[f] = eng[f]
      BY <1>5 DEF Begins, Renews, OnlyBy
    <2>2. eng'[e].op = "up" => Range(eng'[e].sr) = {}
      <3>1. Range(<<>>) = {}
        BY DEF Range
      <3>2. CASE Begins(e)
        BY <3>1, <3>2 DEF Begins
      <3>3. CASE Renews(e)
        BY <3>1, <3>3 DEF Renews, NewEngine
      <3> QED  BY <1>5, <3>2, <3>3
    <2> QED  BY <2>1, <2>2 DEF OwnersInv
  <1> QED  BY <1>1, <1>2, <1>3, <1>4, <1>5 DEF Effect, EffectOf

-----------------------------------------------------------------------------
(* The containers a step of e stops, starts or removes, by the point of its operation. *)
LEMMA ChangesLemma ==
    /\ \A C \in SUBSET cont : cont' = Stopped(C) \/ cont' = Started(C) \/ KillAll(C) => cont \ cont' \subseteq C
  BY DEF Stopped, Started, KillAll

(* A container is changed by its id on a list or by a name of the engine. *)
LEMMA TouchLemma ==
    ASSUME NEW e \in Engines, EngineStep(e), NEW c \in cont, c \notin cont'
    PROVE  \/ eng[e].pc = "undo" /\ eng[e].sc # <<>> /\ c \in Entry(Last(eng[e].sc))
           \/ eng[e].pc \in {"kill", "sweep"} /\ c.id \in eng[e].ids
           \/ /\ eng[e].pc \in {"swap", "kill", "bstop"}
              /\ c.name = NameOf(e, Head(eng[e].todo))
           \/ /\ eng[e].pc \in {"start", "bstart"} /\ c.st # "running"
              /\ c.name = NameOf(e, Head(eng[e].todo))
  <1> DEFINE Goal == \/ eng[e].pc = "undo" /\ eng[e].sc # <<>> /\ c \in Entry(Last(eng[e].sc))
                     \/ eng[e].pc \in {"kill", "sweep"} /\ c.id \in eng[e].ids
                     \/ /\ eng[e].pc \in {"swap", "kill", "bstop"}
                        /\ c.name = NameOf(e, Head(eng[e].todo))
                     \/ /\ eng[e].pc \in {"start", "bstart"} /\ c.st # "running"
                        /\ c.name = NameOf(e, Head(eng[e].todo))
  <1>0. PICK n : n = NameOf(e, Head(eng[e].todo))
    OBVIOUS
  <1>a. /\ ByName(n) \in SUBSET cont /\ {d \in ByName(n) : d.st # "running"} \in SUBSET cont
        /\ \A i : ById(i) \in SUBSET cont
        /\ \A x : Entry(x) \in SUBSET cont
    BY DEF ByName, ById, Entry
  <1>1. ASSUME NextRes(e) \/ MakeRes(e) \/ Service(e) \/ Run(e) \/ ListService(e) \/ ListOrphans(e)
               \/ RemoveDeclared(e) \/ ListProject(e)
        PROVE  FALSE
    BY <1>1 DEF NextRes, MakeRes, Service, Run, ListService, ListOrphans, RemoveDeclared, ListProject
  <1>2. ASSUME SwapContainer(e) PROVE Goal
    BY <1>0, <1>a, <1>2, ChangesLemma DEF SwapContainer, ByName
  <1>3. ASSUME StartOld(e) PROVE Goal
    BY <1>0, <1>a, <1>3, ChangesLemma DEF StartOld, ByName
  <1>4. ASSUME UndoStep(e) PROVE Goal
    BY <1>a, <1>4, ChangesLemma DEF UndoStep
  <1>5. ASSUME KillListed(e) PROVE Goal
    <2>1. eng[e].pc = "kill"
      BY <1>5 DEF KillListed
    <2>2. ASSUME NEW i \in eng[e].ids, KillAll(ById(i)) PROVE Goal
      BY <1>a, <2>1, <2>2, ChangesLemma DEF ById
    <2>3. ASSUME KillAll(ByName(n)) PROVE Goal
      BY <1>0, <1>a, <2>1, <2>3, ChangesLemma DEF ByName
    <2> QED  BY <1>0, <1>5, <2>2, <2>3 DEF KillListed
  <1>6. ASSUME Sweep(e) PROVE Goal
    <2>1. eng[e].pc = "sweep"
      BY <1>6 DEF Sweep
    <2>2. ASSUME NEW i \in eng[e].ids, KillAll(ById(i)) PROVE Goal
      BY <1>a, <2>1, <2>2, ChangesLemma DEF ById
    <2> QED  BY <1>6, <2>2 DEF Sweep
  <1>7. ASSUME StopEach(e) PROVE Goal
    BY <1>0, <1>a, <1>7, ChangesLemma DEF StopEach, ByName
  <1>8. ASSUME StartEach(e) PROVE Goal
    BY <1>0, <1>a, <1>8, ChangesLemma DEF StartEach, ByName
  <1> QED  BY <1>1, <1>2, <1>3, <1>4, <1>5, <1>6, <1>7, <1>8, Zenon DEF EngineStep

(* The networks and volumes a step of e removes. *)
LEMMA RemovalLemma ==
    ASSUME EnginesInv, NEW e \in Engines, EngineStep(e), NEW v \in res, v \notin res'
    PROVE  /\ Acts(e) /\ v.r \in Own(e)
           /\ \/ eng[e].pc = "undo" /\ v.r \in Range(eng[e].sr)
              \/ eng[e].pc = "rmres" /\ v.r \in Range(eng[e].todo)
  <1>0. EngineOk(e, eng[e])
    BY DEF EnginesInv
  <1>1. ASSUME NextRes(e) \/ MakeRes(e) \/ Service(e) \/ Run(e) \/ ListService(e) \/ ListOrphans(e)
               \/ ListProject(e) \/ SwapContainer(e) \/ StartOld(e) \/ KillListed(e) \/ Sweep(e)
               \/ StopEach(e) \/ StartEach(e)
        PROVE  FALSE
    BY <1>1 DEF NextRes, MakeRes, Service, Run, ListService, ListOrphans, ListProject, SwapContainer,
                StartOld, KillListed, Sweep, StopEach, StartEach
  <1>2. ASSUME NEW x, RemoveRes(x) PROVE v.r = x
    BY <1>2 DEF RemoveRes
  <1>3. ASSUME UndoStep(e)
        PROVE  Acts(e) /\ v.r \in Own(e) /\ eng[e].pc = "undo" /\ v.r \in Range(eng[e].sr)
    <2>0. PICK z : z = Without(eng[e].sr, LAMBDA r : r = LastRes(e))
      OBVIOUS
    <2>1. /\ eng[e].pc = "undo" /\ eng[e].sr # <<>> /\ RemoveRes(LastRes(e))
          /\ Set(e, [eng[e] EXCEPT !.sr = z, !.bad = @ \/ Left(LastRes(e))])
      BY <1>3, <2>0 DEF UndoStep
    <2>2. IsEngine(eng[e]) /\ eng[e].sr \in Seq(Own(e))
      BY <1>0 DEF EngineOk
    <2>3. LastRes(e) \in Range(eng[e].sr) /\ Range(z) = Range(eng[e].sr) \ {LastRes(e)}
      BY <2>0, <2>1, <2>2, SessionLemma
    <2>4. PICK r, b : r = [eng[e] EXCEPT !.sr = z, !.bad = b] /\ Set(e, r)
      BY <2>1
    <2>5. r.sr = z /\ eng'[e] = r
      BY <2>2, <2>4, SetLemma DEF IsEngine, EngineFields
    <2>6. Acts(e)
      BY <2>3, <2>5 DEF Acts
    <2>7. v.r = LastRes(e)
      BY <1>2, <2>1
    <2>8. Range(eng[e].sr) \subseteq Own(e)
      BY <2>2, SeqLemma
    <2> QED  BY <2>1, <2>3, <2>6, <2>7, <2>8
  <1>4. ASSUME RemoveDeclared(e)
        PROVE  Acts(e) /\ v.r \in Own(e) /\ eng[e].pc = "rmres" /\ v.r \in Range(eng[e].todo)
    <2>1. /\ eng[e].pc = "rmres" /\ eng[e].todo # <<>> /\ RemoveRes(Head(eng[e].todo))
          /\ Set(e, [eng[e] EXCEPT !.todo = Tail(@), !.bad = @ \/ Left(Head(eng[e].todo))])
      BY <1>4 DEF RemoveDeclared
    <2>2. IsEngine(eng[e]) /\ eng[e].todo \in Seq(Own(e))
      BY <1>0, <2>1 DEF EngineOk
    <2>3. Head(eng[e].todo) \in Range(eng[e].todo) /\ Range(eng[e].todo) \subseteq Own(e)
      BY <2>1, <2>2, SeqLemma
    <2>4. PICK r, b : r = [eng[e] EXCEPT !.todo = Tail(@), !.bad = b] /\ Set(e, r)
      BY <2>1
    <2>5. r.todo = Tail(eng[e].todo) /\ eng'[e] = r
      BY <2>2, <2>4, SetLemma DEF IsEngine, EngineFields
    <2>6. Tail(eng[e].todo) # eng[e].todo
      <3>1. Len(eng[e].todo) \in Nat /\ Len(Tail(eng[e].todo)) = Len(eng[e].todo) - 1
        BY <2>1, <2>2
      <3>2. Len(Tail(eng[e].todo)) # Len(eng[e].todo)
        BY <3>1
      <3> QED  BY <3>2, Zenon
    <2>7. Acts(e)
      BY <2>5, <2>6 DEF Acts
    <2>8. v.r = Head(eng[e].todo)
      BY <1>2, <2>1
    <2> QED  BY <2>1, <2>3, <2>7, <2>8
  <1> QED  BY <1>1, <1>3, <1>4, Zenon DEF EngineStep

(* An engine comes to replace a container, or to create a network or a volume, only by
   the step that looks at it. *)
LEMMA PcLemma ==
    ASSUME EnginesInv, NEW e \in Engines, EngineStep(e), eng'[e].pc \in {"swap", "mk"}
    PROVE  NextRes(e) \/ Service(e)
  <1>0. IsEngine(eng[e])
    BY DEF EnginesInv, EngineOk
  <1>s. ASSUME NEW r, Set(e, r) PROVE r.pc \in {"swap", "mk"}
    BY <1>s, SetLemma
  <1>a. \A p, t, x : p # "swap" /\ p # "mk" =>
           /\ ~Set(e, [eng[e] EXCEPT !.pc = p])
           /\ ~Set(e, [eng[e] EXCEPT !.pc = p, !.todo = t])
           /\ ~Set(e, [eng[e] EXCEPT !.pc = p, !.todo = t, !.sc = x])
           /\ ~Set(e, [eng[e] EXCEPT !.pc = p, !.todo = t, !.sr = x])
           /\ ~Set(e, [eng[e] EXCEPT !.pc = p, !.todo = t, !.bad = x])
           /\ ~Set(e, [eng[e] EXCEPT !.pc = p, !.ids = x])
           /\ ~Set(e, [eng[e] EXCEPT !.pc = p, !.bad = x])
    <2> SUFFICES ASSUME NEW p, NEW t, NEW x, p # "swap", p # "mk" PROVE
           /\ ~Set(e, [eng[e] EXCEPT !.pc = p])
           /\ ~Set(e, [eng[e] EXCEPT !.pc = p, !.todo = t])
           /\ ~Set(e, [eng[e] EXCEPT !.pc = p, !.todo = t, !.sc = x])
           /\ ~Set(e, [eng[e] EXCEPT !.pc = p, !.todo = t, !.sr = x])
           /\ ~Set(e, [eng[e] EXCEPT !.pc = p, !.todo = t, !.bad = x])
           /\ ~Set(e, [eng[e] EXCEPT !.pc = p, !.ids = x])
           /\ ~Set(e, [eng[e] EXCEPT !.pc = p, !.bad = x])
      OBVIOUS
    <2>1. [eng[e] EXCEPT !.pc = p].pc = p
      BY <1>0 DEF IsEngine, EngineFields
    <2>2. [eng[e] EXCEPT !.pc = p, !.todo = t].pc = p
      BY <1>0 DEF IsEngine, EngineFields
    <2>3. [eng[e] EXCEPT !.pc = p, !.todo = t, !.sc = x].pc = p
      BY <1>0 DEF IsEngine, EngineFields
    <2>4. [eng[e] EXCEPT !.pc = p, !.todo = t, !.sr = x].pc = p
      BY <1>0 DEF IsEngine, EngineFields
    <2>5. [eng[e] EXCEPT !.pc = p, !.todo = t, !.bad = x].pc = p
      BY <1>0 DEF IsEngine, EngineFields
    <2>6. [eng[e] EXCEPT !.pc = p, !.ids = x].pc = p
      BY <1>0 DEF IsEngine, EngineFields
    <2>7. [eng[e] EXCEPT !.pc = p, !.bad = x].pc = p
      BY <1>0 DEF IsEngine, EngineFields
    <2> QED  BY <1>s, <2>1, <2>2, <2>3, <2>4, <2>5, <2>6, <2>7, Zenon
  <1>b. \A t, x : eng[e].pc # "swap" /\ eng[e].pc # "mk" =>
           /\ ~Set(e, [eng[e] EXCEPT !.todo = t])
           /\ ~Set(e, [eng[e] EXCEPT !.ids = t, !.bad = x])
           /\ ~Set(e, [eng[e] EXCEPT !.sc = t, !.bad = x])
           /\ ~Set(e, [eng[e] EXCEPT !.sr = t, !.bad = x])
           /\ ~Set(e, [eng[e] EXCEPT !.todo = t, !.bad = x])
    <2> SUFFICES ASSUME NEW t, NEW x, eng[e].pc # "swap", eng[e].pc # "mk" PROVE
           /\ ~Set(e, [eng[e] EXCEPT !.todo = t])
           /\ ~Set(e, [eng[e] EXCEPT !.ids = t, !.bad = x])
           /\ ~Set(e, [eng[e] EXCEPT !.sc = t, !.bad = x])
           /\ ~Set(e, [eng[e] EXCEPT !.sr = t, !.bad = x])
           /\ ~Set(e, [eng[e] EXCEPT !.todo = t, !.bad = x])
      OBVIOUS
    <2>1. [eng[e] EXCEPT !.todo = t].pc = eng[e].pc
      BY <1>0 DEF IsEngine, EngineFields
    <2>2. [eng[e] EXCEPT !.ids = t, !.bad = x].pc = eng[e].pc
      BY <1>0 DEF IsEngine, EngineFields
    <2>3. [eng[e] EXCEPT !.sc = t, !.bad = x].pc = eng[e].pc
      BY <1>0 DEF IsEngine, EngineFields
    <2>4. [eng[e] EXCEPT !.sr = t, !.bad = x].pc = eng[e].pc
      BY <1>0 DEF IsEngine, EngineFields
    <2>5. [eng[e] EXCEPT !.todo = t, !.bad = x].pc = eng[e].pc
      BY <1>0 DEF IsEngine, EngineFields
    <2> QED  BY <1>s, <2>1, <2>2, <2>3, <2>4, <2>5, Zenon
  <1>c. \A how : 
           /\ ~Set(e, Return(e, eng[e], how))
           /\ ~Set(e, Undo(eng[e]))
    <2>1. \A how : 
              /\ Return(e, eng[e], how).pc = "idle"
              /\ Undo(eng[e]).pc = "undo"
      BY <1>0 DEF IsEngine, EngineFields, Return, Undo
    <2> QED  BY <1>s, <2>1, Zenon
  <1>d. \A t, x : 
           /\ ~Set(e, [[eng[e] EXCEPT !.sr = x, !.saved = <<>>] EXCEPT !.pc = "list", !.todo = t])
           /\ ~Set(e, Return(e, [eng[e] EXCEPT !.sr = x, !.saved = <<>>], "failed"))
    <2>1. \A t, x : 
              /\ [[eng[e] EXCEPT !.sr = x, !.saved = <<>>] EXCEPT !.pc = "list", !.todo = t].pc = "list"
              /\ Return(e, [eng[e] EXCEPT !.sr = x, !.saved = <<>>], "failed").pc = "idle"
      BY <1>0 DEF IsEngine, EngineFields, Return
    <2> QED  BY <1>s, <2>1, Zenon
  <1>2. ~MakeRes(e)
    BY <1>a, <1>b, <1>c, <1>d, Zenon DEF MakeRes
  <1>3. ~SwapContainer(e)
    BY <1>a, <1>b, <1>c, <1>d, Zenon DEF SwapContainer
  <1>4. ~StartOld(e)
    BY <1>a, <1>b, <1>c, <1>d, Zenon DEF StartOld
  <1>5. ~Run(e)
    BY <1>a, <1>b, <1>c, <1>d, Zenon DEF Run
  <1>6. ~UndoStep(e)
    BY <1>a, <1>b, <1>c, <1>d, Zenon DEF UndoStep
  <1>7. ~ListService(e)
    BY <1>a, <1>b, <1>c, <1>d, Zenon DEF ListService
  <1>8. ~KillListed(e)
    BY <1>a, <1>b, <1>c, <1>d, Zenon DEF KillListed
  <1>9. ~ListOrphans(e)
    BY <1>a, <1>b, <1>c, <1>d, Zenon DEF ListOrphans
  <1>10. ~Sweep(e)
    BY <1>a, <1>b, <1>c, <1>d, Zenon DEF Sweep
  <1>11. ~RemoveDeclared(e)
    BY <1>a, <1>b, <1>c, <1>d, Zenon DEF RemoveDeclared
  <1>12. ~StopEach(e)
    BY <1>a, <1>b, <1>c, <1>d, Zenon DEF StopEach, AfterStops
  <1>13. ~StartEach(e)
    BY <1>a, <1>b, <1>c, <1>d, Zenon DEF StartEach
  <1>14. ~ListProject(e)
    BY <1>a, <1>b, <1>c, <1>d, Zenon DEF ListProject
  <1> QED  BY <1>2, <1>3, <1>4, <1>5, <1>6, <1>7, <1>8, <1>9, <1>10, <1>11, <1>12, <1>13, <1>14, Zenon DEF EngineStep

(* How a container comes to be replaced. *)
LEMMA SwapLemma ==
    ASSUME EngineNumbers, EnginesInv, ItemsInv, ComposeNext, NEW e \in Engines, eng'[e].pc = "swap"
    PROVE  \/ Rests
           \/ eng'[e] = eng[e] /\ \E f \in Engines : f # e
           \/ /\ cont' = cont /\ eng'[e].todo = eng[e].todo /\ eng'[e].spec = eng[e].spec
              /\ eng'[e].inc = eng[e].inc
              /\ \E c \in ByName(NameOf(e, Head(eng[e].todo))) : c.ver # eng[e].spec.ver
  <1>0. /\ EngineOk(e, eng[e]) /\ IsEngine(eng[e])
        /\ \A f \in Engines : EffectOf(f) => OnlyBy(f)
    BY DEF EnginesInv, EngineOk, EffectOf, Settles, Makes, Creates, Begins, Renews
  <1>1. ASSUME NEW f \in Engines, f # e, EngineStep(f) \/ Call(f) \/ FreshEngine(f)
        PROVE  eng'[e] = eng[e] /\ \E g \in Engines : g # e
    BY <1>0, <1>1, StepEffect DEF OnlyBy
  <1>2. ASSUME NEW r, Set(e, r) PROVE r.pc = "swap"
    BY <1>2, SetLemma
  <1>3. CASE Service(e)
    <2>1. Set(e, [eng[e] EXCEPT !.pc = "swap"]) => eng'[e] = [eng[e] EXCEPT !.pc = "swap"]
      BY SetLemma
    <2>2. [eng[e] EXCEPT !.pc = "swap"].todo = eng[e].todo /\ [eng[e] EXCEPT !.pc = "swap"].spec = eng[e].spec
          /\ [eng[e] EXCEPT !.pc = "swap"].inc = eng[e].inc
      BY <1>0 DEF IsEngine, EngineFields
    <2>3. [eng[e] EXCEPT !.pc = "run"].pc # "swap" /\ [eng[e] EXCEPT !.pc = "start"].pc # "swap"
          /\ Undo(eng[e]).pc # "swap" /\ Return(e, eng[e], "up").pc # "swap"
      BY <1>0 DEF IsEngine, EngineFields, Undo, Return
    <2>4. eng[e].pc = "svc" /\ [eng[e] EXCEPT !.todo = Tail(@)].pc = eng[e].pc
      BY <1>0, <1>3 DEF IsEngine, EngineFields, Service
    <2>5. /\ Set(e, [eng[e] EXCEPT !.pc = "swap"]) /\ cont' = cont
          /\ \E c \in ByName(NameOf(e, Head(eng[e].todo))) : c.ver # eng[e].spec.ver
      <3>1. /\ ~Set(e, [eng[e] EXCEPT !.pc = "run"]) /\ ~Set(e, [eng[e] EXCEPT !.pc = "start"])
            /\ ~Set(e, Undo(eng[e])) /\ ~Set(e, Return(e, eng[e], "up"))
            /\ ~Set(e, [eng[e] EXCEPT !.todo = Tail(@)])
        BY <1>2, <2>3, <2>4
      <3> QED  BY <1>3, <3>1, Zenon DEF Service
    <2> QED  BY <2>1, <2>2, <2>5
  <1>4. ASSUME EngineStep(e), ~Service(e) PROVE FALSE
    <2>1. NextRes(e)
      BY <1>4, PcLemma
    <2>2. Set(e, [eng[e] EXCEPT !.todo = Tail(@)]) \/ Set(e, [eng[e] EXCEPT !.pc = "mk"])
          \/ Set(e, [eng[e] EXCEPT !.pc = "svc", !.todo = Target(e)])
          \/ Set(e, Return(e, eng[e], "failed"))
      BY <2>1, Zenon DEF NextRes
    <2>3. eng[e].pc = "res"
      BY <2>1 DEF NextRes
    <2>4. /\ [eng[e] EXCEPT !.todo = Tail(@)].pc = "res" /\ [eng[e] EXCEPT !.pc = "mk"].pc = "mk"
          /\ [eng[e] EXCEPT !.pc = "svc", !.todo = Target(e)].pc = "svc"
          /\ Return(e, eng[e], "failed").pc = "idle"
      BY <1>0, <2>3 DEF IsEngine, EngineFields, Return
    <2> QED  BY <1>2, <2>2, <2>4
  <1>5. ASSUME Call(e) \/ FreshEngine(e) PROVE FALSE
    <2>1. Begins(e) \/ Renews(e)
      BY <1>5, BeginEffect, RenewEffect
    <2>2. \A i, sp : NewEngine(i, sp).pc = "idle"
      BY DEF NewEngine
    <2> QED  BY <2>1, <2>2 DEF Begins, Renews
  <1>6. CASE ContainerExits \/ LateRun
    BY <1>6, RestLemma
  <1> QED  BY <1>1, <1>3, <1>4, <1>5, <1>6 DEF ComposeNext

(* No step makes what an up() is about to create, if projects are apart and inspect
   does not fail. *)
LEMMA AbsentStep ==
    ASSUME EngineNumbers, Apart, "inspect" \notin Faults, EnginesInv, ItemsInv, AbsentInv, ComposeNext
    PROVE  AbsentInv'
  <1> SUFFICES ASSUME NEW e \in Engines, eng'[e].pc = "mk", NEW x \in res'
               PROVE  x.r # Head(eng'[e].todo)
    BY DEF AbsentInv
  <1>0. /\ IsEngine(eng[e])
        /\ eng[e].pc = "mk" => eng[e].todo \in Seq(Own(e)) /\ eng[e].todo # <<>>
        /\ \A f \in Engines : EffectOf(f) => OnlyBy(f)
    BY DEF EnginesInv, EngineOk, EffectOf, Settles, Makes, Creates, Begins, Renews
  <1>1. CASE Rests
    BY <1>1 DEF Rests, AbsentInv
  <1>2. ASSUME NEW f \in Engines, f # e, EffectOf(f) PROVE x.r # Head(eng'[e].todo)
    <2>1. eng'[e] = eng[e]
      BY <1>0, <1>2 DEF OnlyBy
    <2>2. \A y \in res : y.r # Head(eng[e].todo)
      BY <2>1 DEF AbsentInv
    <2>3. Head(eng[e].todo).p = ProjOf[e]
      <3>1. Head(eng[e].todo) \in Own(e)
        BY <1>0, <2>1, SeqLemma
      <3> QED  BY <3>1 DEF Own
    <2>4. CASE res' \subseteq res
      BY <2>1, <2>2, <2>4
    <2>5. ASSUME NEW r \in Own(f), Makes(f, r) PROVE x.r # Head(eng'[e].todo)
      <3>1. r.p = ProjOf[f]
        BY <2>5 DEF Own
      <3>2. r # Head(eng[e].todo)
        BY <1>2, <2>3, <3>1 DEF Apart
      <3>3. x \in res \/ x.r = r
        BY <2>5 DEF Makes
      <3> QED  BY <2>1, <2>2, <3>2, <3>3
    <2>6. res' \subseteq res \/ \E r \in Own(f) : Makes(f, r)
      BY <1>2 DEF EffectOf, Settles, Creates, Begins, Renews
    <2> QED  BY <2>4, <2>5, <2>6
  <1>3. ASSUME NEW r, Set(e, r) PROVE r.pc = "mk" /\ eng'[e] = r
    BY <1>3, SetLemma
  <1>4. ASSUME NextRes(e) PROVE x.r # Head(eng'[e].todo)
    <2>1. eng[e].pc = "res" /\ res' = res
      BY <1>4 DEF NextRes
    <2>2. /\ [eng[e] EXCEPT !.todo = Tail(@)].pc = "res"
          /\ [eng[e] EXCEPT !.pc = "svc", !.todo = Target(e)].pc = "svc"
          /\ Return(e, eng[e], "failed").pc = "idle"
          /\ [eng[e] EXCEPT !.pc = "mk"].todo = eng[e].todo
      BY <1>0, <2>1 DEF IsEngine, EngineFields, Return
    <2>3. /\ ~Set(e, [eng[e] EXCEPT !.todo = Tail(@)])
          /\ ~Set(e, [eng[e] EXCEPT !.pc = "svc", !.todo = Target(e)])
          /\ ~Set(e, Return(e, eng[e], "failed"))
      BY <1>3, <2>2
    <2>4. ~Fault("inspect")
      BY DEF Fault
    <2>5. ~Exists(Head(eng[e].todo)) /\ Set(e, [eng[e] EXCEPT !.pc = "mk"])
      BY <1>4, <2>3, <2>4, Zenon DEF NextRes
    <2>6. eng'[e].todo = eng[e].todo
      BY <1>3, <2>2, <2>5
    <2> QED  BY <2>1, <2>5, <2>6 DEF Exists
  <1>5. ASSUME Service(e) PROVE FALSE
    <2>1. \/ Set(e, Return(e, eng[e], "up")) \/ Set(e, Undo(eng[e]))
          \/ Set(e, [eng[e] EXCEPT !.todo = Tail(@)])
          \/ \E pc \in {"run", "swap", "start"} : Set(e, [eng[e] EXCEPT !.pc = pc])
      BY <1>5 DEF Service
    <2>2. eng[e].pc = "svc"
      BY <1>5 DEF Service
    <2>3. /\ Return(e, eng[e], "up").pc = "idle" /\ Undo(eng[e]).pc = "undo"
          /\ [eng[e] EXCEPT !.todo = Tail(@)].pc = "svc"
          /\ \A pc : [eng[e] EXCEPT !.pc = pc].pc = pc
      BY <1>0, <2>2 DEF IsEngine, EngineFields, Return, Undo
    <2> QED  BY <1>3, <2>1, <2>3
  <1>6. ASSUME Call(e) \/ FreshEngine(e) PROVE FALSE
    <2>1. Begins(e) \/ Renews(e)
      BY <1>6, BeginEffect, RenewEffect
    <2>2. \A i, sp : NewEngine(i, sp).pc = "idle"
      BY DEF NewEngine
    <2> QED  BY <2>1, <2>2 DEF Begins, Renews
  <1>7. ASSUME NEW f \in Engines, EngineStep(f) \/ Call(f) \/ FreshEngine(f)
        PROVE  x.r # Head(eng'[e].todo)
    <2>1. EffectOf(f)
      BY <1>7, StepEffect
    <2>2. CASE f = e
      <3>1. EngineStep(e)
        BY <1>6, <1>7, <2>2
      <3> QED  BY <1>4, <1>5, <3>1, PcLemma
    <2> QED  BY <1>2, <2>1, <2>2
  <1>8. CASE ContainerExits \/ LateRun
    BY <1>1, <1>8, RestLemma
  <1> QED  BY <1>7, <1>8 DEF ComposeNext

(* Every step keeps names to their engine, if no service has a container_name. *)
LEMMA NamesStep ==
    ASSUME EngineNumbers, Named = {}, EnginesInv, ItemsInv, NamesInv, ComposeNext
    PROVE  NamesInv'
  <1>0. Effect
    BY EffectLemma
  <1>a. \A f \in Engines : \A s : NameOf(f, s)[1] = f /\ NameOf(f, s)[2] = eng[f].inc
    BY DEF NameOf
  <1>b. \A c \in Runs : /\ c.name[1] \in Engines /\ c.proj = ProjOf[c.name[1]]
                        /\ c.name[2] <= eng[c.name[1]].inc
                        /\ c.name[2] = eng[c.name[1]].inc => c.ver = eng[c.name[1]].spec.ver
                        /\ c.name[2] \in Nat
    BY DEF NamesInv
  <1>c. \A f \in Engines : /\ eng[f].inc \in Nat /\ eng[f].pc # "swap"
                           /\ \A x \in Range(eng[f].sc) : x.id = 0 => x.name[1] = f
    BY DEF NamesInv
  <1>1. ASSUME NEW f \in Engines PROVE eng'[f].pc # "swap"
    <2>1. SUFFICES ASSUME eng'[f].pc = "swap" PROVE FALSE
      OBVIOUS
    <2>2. ASSUME NEW c \in ByName(NameOf(f, Head(eng[f].todo))) PROVE c.ver = eng[f].spec.ver
      <3>1. c \in Runs /\ c.name = NameOf(f, Head(eng[f].todo))
        BY <2>2 DEF ByName, Runs
      <3> QED  BY <1>a, <1>b, <3>1
    <2>3. Rests => eng'[f] = eng[f]
      BY DEF Rests
    <2> QED  BY <1>c, <2>1, <2>2, <2>3, SwapLemma
  <1> DEFINE Well(d) == /\ d.name[1] \in Engines /\ d.proj = ProjOf[d.name[1]]
                        /\ d.name[2] <= eng'[d.name[1]].inc
                        /\ d.name[2] = eng'[d.name[1]].inc => d.ver = eng'[d.name[1]].spec.ver
                        /\ d.name[2] \in Nat
             Kept(f) == eng'[f].inc \in Nat /\ \A x \in Range(eng'[f].sc) : x.id = 0 => x.name[1] = f
  <1>2. ASSUME \A d \in Runs' : Well(d), \A f \in Engines : Kept(f) PROVE NamesInv'
    BY <1>1, <1>2 DEF NamesInv
  <1>3. ASSUME \A f \in Engines : eng'[f].inc = eng[f].inc /\ eng'[f].spec = eng[f].spec,
               \A d \in Runs' : \E c \in Runs : SameContainer(c, d)
        PROVE  \A d \in Runs' : Well(d)
    BY <1>b, <1>3 DEF SameContainer
  <1>4. CASE Rests
    <2>1. \A d \in Runs' : \E c \in Runs : SameContainer(c, d)
      BY <1>4, HeirLemma DEF Rests
    <2>2. eng' = eng
      BY <1>4 DEF Rests
    <2>3. \A d \in Runs' : Well(d)
      BY <1>3, <2>1, <2>2
    <2>4. \A f \in Engines : Kept(f)
      BY <1>c, <2>2
    <2> QED  BY <1>2, <2>3, <2>4
  <1>5. ASSUME NEW e \in Engines, Settles(e) PROVE NamesInv'
    <2>1. \A d \in Runs' : \E c \in Runs : SameContainer(c, d)
      BY <1>5, HeirLemma DEF Settles
    <2>2. \A f \in Engines : eng'[f].inc = eng[f].inc /\ eng'[f].spec = eng[f].spec
      BY <1>5 DEF Settles, OnlyBy
    <2>3. \A d \in Runs' : Well(d)
      BY <1>3, <2>1, <2>2
    <2>4. \A f \in Engines : Kept(f)
      <3>1. ASSUME NEW f \in Engines, f # e PROVE Kept(f)
        BY <1>c, <1>5, <3>1 DEF Settles, OnlyBy
      <3>2. Kept(e)
        BY <1>a, <1>c, <1>5, <2>2 DEF Settles
      <3> QED  BY <3>1, <3>2
    <2> QED  BY <1>2, <2>3, <2>4
  <1>6. ASSUME NEW e \in Engines, NEW r \in Own(e), Makes(e, r) PROVE NamesInv'
    <2>1. Runs' = Runs /\ \A c \in Runs : SameContainer(c, c)
      BY <1>6 DEF Makes, Runs, SameContainer, ItemsInv, States
    <2>2. \A f \in Engines : eng'[f].inc = eng[f].inc /\ eng'[f].spec = eng[f].spec /\ eng'[f].sc = eng[f].sc
      BY <1>6 DEF Makes, OnlyBy
    <2>3. \A d \in Runs' : Well(d)
      BY <1>3, <2>1, <2>2
    <2>4. \A f \in Engines : Kept(f)
      BY <1>c, <2>2
    <2> QED  BY <1>2, <2>3, <2>4
  <1>7. ASSUME NEW e \in Engines, NEW c, Creates(e, c) PROVE NamesInv'
    <2>1. /\ Runs' \subseteq Runs \cup {c} /\ c.proj = ProjOf[e] /\ c.ver = eng[e].spec.ver
          /\ \E s : c.name = NameOf(e, s)
          /\ \A f \in Engines : eng'[f].inc = eng[f].inc /\ eng'[f].spec = eng[f].spec
          /\ \A f \in Engines : f # e => eng'[f] = eng[f]
          /\ \A x \in Range(eng'[e].sc) : x \in Range(eng[e].sc) \/ x.id = c.id
      BY <1>7 DEF Creates, OnlyBy, Runs
    <2>2. c.id # 0
      BY <1>7, UsedLemma DEF Creates
    <2>3. c.name[1] = e /\ c.name[2] = eng[e].inc /\ eng[e].inc \in Nat
      BY <1>a, <1>c, <2>1
    <2>4. Well(c)
      BY <2>1, <2>3
    <2>5. \A d \in Runs : Well(d)
      BY <1>b, <2>1
    <2>6. \A f \in Engines : Kept(f)
      BY <1>c, <2>1, <2>2
    <2> QED  BY <1>2, <2>1, <2>4, <2>5, <2>6
  <1>8. ASSUME NEW e \in Engines, Begins(e) PROVE NamesInv'
    <2>1. /\ Runs' = Runs /\ \A c \in Runs : SameContainer(c, c)
          /\ \A f \in Engines : /\ eng'[f].inc = eng[f].inc /\ eng'[f].spec = eng[f].spec
                                /\ Range(eng'[f].sc) \subseteq Range(eng[f].sc)
      BY <1>8 DEF Begins, Runs, OnlyBy, SameContainer, ItemsInv, States
    <2>2. \A d \in Runs' : Well(d)
      BY <1>3, <2>1
    <2>3. \A f \in Engines : Kept(f)
      BY <1>c, <2>1
    <2> QED  BY <1>2, <2>2, <2>3
  <1>9. ASSUME NEW e \in Engines, Renews(e) PROVE NamesInv'
    <2>1. eng'[e].inc = eng[e].inc + 1 /\ eng'[e].sc = <<>>
      BY <1>9 DEF Renews, NewEngine
    <2>2. Runs' = Runs /\ \A f \in Engines : f # e => eng'[f] = eng[f]
      BY <1>9 DEF Renews, OnlyBy, Runs
    <2>3. Range(<<>>) = {}
      BY DEF Range
    <2>4. ASSUME NEW d \in Runs PROVE Well(d)
      <3>1. CASE d.name[1] = e
        <4>1. d.name[2] <= eng[e].inc /\ eng[e].inc \in Nat /\ d.name[2] \in Nat
          BY <1>b, <1>c, <3>1
        <4>2. d.name[2] <= eng[e].inc + 1 /\ d.name[2] # eng[e].inc + 1
          BY <4>1
        <4> QED  BY <1>b, <2>1, <3>1, <4>2
      <3>2. CASE d.name[1] # e
        BY <1>b, <2>2, <3>2
      <3> QED  BY <3>1, <3>2
    <2>5. \A f \in Engines : Kept(f)
      BY <1>c, <2>1, <2>2, <2>3
    <2> QED  BY <1>2, <2>2, <2>4, <2>5
  <1> QED  BY <1>0, <1>4, <1>5, <1>6, <1>7, <1>8, <1>9 DEF Effect, EffectOf

(* One engine at most. *)
Alone == \A e, f \in Engines : e = f

(* Every step of a single engine keeps what it replaces outdated. *)
LEMMA SwapStep ==
    ASSUME EngineNumbers, Alone, EnginesInv, ItemsInv, SwapInv, ComposeNext
    PROVE  SwapInv'
  <1> SUFFICES ASSUME NEW e \in Engines, eng'[e].pc = "swap"
               PROVE  /\ ByName(NameOf(e, Head(eng[e].todo)))' # {}
                      /\ \A c \in ByName(NameOf(e, Head(eng[e].todo)))' : c.ver # eng'[e].spec.ver
    BY DEF SwapInv
  <1>0. PICK n : n = NameOf(e, Head(eng[e].todo))
    OBVIOUS
  <1>1. CASE Rests
    <2>1. eng' = eng
      BY <1>1 DEF Rests
    <2>2. n = NameOf(e, Head(eng[e].todo))'
      BY <1>0, <2>1 DEF NameOf
    <2>3. (\E c \in cont : c.name = n) /\ \A c \in cont : c.name = n => c.ver # eng[e].spec.ver
      BY <1>0, <2>1 DEF SwapInv, ByName
    <2>4. \E c \in cont' : c.name = n
      BY <1>1, <2>3 DEF Rests
    <2>5. ASSUME NEW d \in cont', d.name = n PROVE d.ver # eng[e].spec.ver
      <3>1. CASE NoNew
        BY <2>3, <2>5, <3>1 DEF NoNew, SameContainer
      <3>2. CASE Arrives
        <4>1. d \in cont
          BY <2>3, <2>5, <3>2 DEF Arrives, ByName
        <4> QED  BY <2>3, <2>5, <4>1
      <3> QED  BY <1>1, <3>1, <3>2 DEF Rests
    <2> QED  BY <2>1, <2>2, <2>4, <2>5 DEF ByName
  <1>2. CASE /\ cont' = cont /\ eng'[e].todo = eng[e].todo /\ eng'[e].spec = eng[e].spec
             /\ eng'[e].inc = eng[e].inc
             /\ \E c \in ByName(n) : c.ver # eng[e].spec.ver
    <2>1. n = NameOf(e, Head(eng[e].todo))'
      BY <1>0, <1>2 DEF NameOf
    <2>2. ByName(n)' = ByName(n) /\ \A c, d \in ByName(n) : c = d
      BY <1>2 DEF ByName, ItemsInv
    <2>3. ByName(NameOf(e, Head(eng[e].todo)))' = ByName(n)
      BY <1>2, <2>1 DEF ByName
    <2> QED  BY <1>2, <2>2, <2>3
  <1> QED  BY <1>0, <1>1, <1>2, SwapLemma DEF Alone

-----------------------------------------------------------------------------
(* The first state. *)
LEMMA ComposeInitLemma ==
    ASSUME ComposeInit
    PROVE  /\ EnginesInv /\ ItemsInv /\ ListsInv /\ CreatedInv /\ OwnersInv /\ SwapInv
           /\ NamesInv /\ AbsentInv
  <1>1. /\ Runs = {} /\ cont = {} /\ late = {} /\ ops = 0
        /\ res = {[r |-> r, by |-> 0] : r \in External}
        /\ eng \in [Engines -> {NewEngine(1, sp) : sp \in Specs}]
    BY DEF ComposeInit, Runs
  <1>2. ASSUME NEW e \in Engines
        PROVE  /\ IsEngine(eng[e]) /\ eng[e].pc = "idle" /\ eng[e].n = 0 /\ eng[e].op = "none"
               /\ eng[e].inc = 1 /\ eng[e].rmvol = FALSE /\ eng[e].ids = {} /\ eng[e].sc = <<>>
               /\ eng[e].sr = <<>> /\ eng[e].saved = <<>> /\ eng[e].ret = "none" /\ eng[e].bad = FALSE
    <2>1. PICK sp : eng[e] = NewEngine(1, sp)
      BY <1>1
    <2>2. IsEngine(NewEngine(1, sp))
      BY DEF NewEngine, IsEngine, EngineFields
    <2> QED  BY <2>1, <2>2 DEF NewEngine
  <1>3. Range(<<>>) = {} /\ IsList(<<>>)
    BY DEF Range, IsList
  <1>4. ASSUME NEW e \in Engines PROVE EngineOk(e, eng[e])
    <2>1. PICK r : r = eng[e]
      OBVIOUS
    <2>2. /\ IsEngine(r) /\ r.pc = "idle" /\ r.n = 0 /\ r.op = "none" /\ r.rmvol = FALSE /\ r.ids = {}
          /\ r.sc = <<>> /\ r.sr = <<>> /\ r.saved = <<>> /\ r.ret = "none" /\ r.bad = FALSE
      BY <1>2, <2>1
    <2>3. r.sr \in Seq(Own(e)) /\ r.saved \in Seq(Own(e)) /\ IsList(r.sc) /\ r.n \in 0 .. ops
      BY <1>1, <1>3, <2>2
    <2>4. EngineOk(e, r)
      BY <2>2, <2>3 DEF EngineOk
    <2> QED  BY <2>1, <2>4
  <1>5. EnginesInv
    BY <1>1, <1>2, <1>4 DEF EnginesInv
  <1>6. UsedIds \subseteq 0 .. 0
    <2>1. \A i \in UsedIds : i = 0
      BY <1>1, <1>2, <1>3 DEF UsedIds
    <2> QED  BY <2>1
  <1>7. (\A x \in res : x.by = 0) /\ \A x, y \in res : x.r = y.r => x = y
    BY <1>1
  <1>8. ItemsInv
    BY <1>1, <1>6, <1>7 DEF ItemsInv
  <1>9. ListsInv
    BY <1>1 DEF ListsInv
  <1>10. CreatedInv /\ OwnersInv
    BY <1>1, <1>2 DEF CreatedInv, OwnersInv, Undoing
  <1>11. SwapInv /\ AbsentInv
    BY <1>2 DEF SwapInv, AbsentInv
  <1>12. NamesInv
    <2>1. ASSUME NEW e \in Engines
          PROVE  eng[e].inc \in Nat /\ eng[e].pc # "swap" /\ Range(eng[e].sc) = {}
      <3>1. eng[e].inc = 1 /\ eng[e].pc = "idle" /\ eng[e].sc = <<>>
        BY <1>2
      <3>2. Range(eng[e].sc) = {}
        BY <1>3, <3>1, Zenon
      <3> QED  BY <3>1, <3>2
    <2> QED  BY <1>1, <2>1 DEF NamesInv
  <1> QED  BY <1>5, <1>8, <1>9, <1>10, <1>11, <1>12

(* A step that changes nothing. *)
LEMMA ComposeStutter ==
    ASSUME UNCHANGED composevars
    PROVE  /\ EnginesInv => EnginesInv'
           /\ ItemsInv => ItemsInv'
           /\ ListsInv => ListsInv'
           /\ CreatedInv => CreatedInv'
           /\ OwnersInv => OwnersInv'
           /\ AbsentInv => AbsentInv'
           /\ NamesInv => NamesInv'
           /\ SwapInv => SwapInv'
  <1>1. eng' = eng /\ cont' = cont /\ late' = late /\ res' = res /\ ops' = ops
    BY DEF composevars
  <1>2. UsedIds' = UsedIds /\ Runs' = Runs
    BY <1>1 DEF UsedIds, Runs
  <1>3. EnginesInv => EnginesInv'
    BY <1>1 DEF EnginesInv, EngineOk
  <1>4. ItemsInv => ItemsInv'
    BY <1>1, <1>2 DEF ItemsInv
  <1>5. ListsInv => ListsInv'
    BY <1>1, <1>2 DEF ListsInv
  <1>6. /\ CreatedInv => CreatedInv'
        /\ OwnersInv => OwnersInv'
        /\ AbsentInv => AbsentInv'
        /\ NamesInv => NamesInv'
    BY <1>1, <1>2 DEF CreatedInv, OwnersInv, AbsentInv, NamesInv
  <1>7. SwapInv => SwapInv'
    BY <1>1 DEF SwapInv, ByName, NameOf
  <1> QED  BY <1>3, <1>4, <1>5, <1>6, <1>7

(* The inductive invariant of the orchestrator, for any engines, specs and faults. *)
ComposeInv == EnginesInv /\ ItemsInv /\ ListsInv

(* ComposeInv holds in every state, for any engines, projects, specs, faults and bounds. *)
THEOREM ComposeInvariant ==
    ASSUME EngineNumbers
    PROVE  ComposeSpec => []ComposeInv
  <1>1. ComposeInit => ComposeInv
    BY ComposeInitLemma DEF ComposeInv
  <1>2. ComposeInv /\ [ComposeNext]_composevars => ComposeInv'
    BY EffectLemma, EnginesStep, ItemsStep, ListsStep, ComposeStutter DEF ComposeInv
  <1> QED  BY <1>1, <1>2, PTL DEF ComposeSpec

(* Every state is well typed: names of containers and of networks and volumes are
   unique in the runtime, and an engine is at a point of the operation it is in. *)
THEOREM ComposeTypes ==
    ASSUME EngineNumbers
    PROVE  ComposeSpec => []EngineTypes
  <1>1. ComposeInv => EngineTypes
    BY DEF ComposeInv, EnginesInv, EngineOk, ItemsInv, Runs, EngineTypes
  <1> QED  BY <1>1, ComposeInvariant, PTL

(* A rollback of up() that was refused nothing leaves nothing of that up() behind,
   however many engines share the project, if a run that fails creates no container:
   every container, network and volume of the up() is on its session lists until
   rollback() has removed it. *)
THEOREM UndoIsClean ==
    ASSUME EngineNumbers, NoLate
    PROVE  ComposeSpec => []UndoClean
  <1>1. ComposeInit => CreatedInv
    BY ComposeInitLemma
  <1>2. ComposeInv /\ CreatedInv /\ [ComposeNext]_composevars => CreatedInv'
    BY EffectLemma, CreatedStep, ComposeStutter DEF ComposeInv
  <1>3. ComposeInv /\ CreatedInv => UndoClean
    <2> SUFFICES ASSUME ComposeInv, CreatedInv, NEW e \in Engines, eng[e].ret = "undone", ~eng[e].bad
                 PROVE  \A x \in cont \cup res : x.by # eng[e].n
      BY DEF UndoClean
    <2>1. eng[e].op = "up" /\ eng[e].sc = <<>> /\ eng[e].sr = <<>>
      BY DEF ComposeInv, EnginesInv, EngineOk
    <2>2. Range(<<>>) = {}
      BY DEF Range
    <2>3. Undoing(eng[e])
      BY <2>1 DEF Undoing
    <2> QED  BY <2>1, <2>2, <2>3 DEF CreatedInv
  <1> QED  BY <1>1, <1>2, <1>3, ComposeInvariant, PTL DEF ComposeSpec

(* A volume is removed only by a down() that was asked to or by the rollback of the
   up() that created it, an external one never, if no two engines share a project and,
   where the backend creates a volume that exists without an error, no inspect fails:
   then what up() puts on session_volumes is new.  Without the second hypothesis
   RollsBackOwn fails in the run compose_rollback. *)
THEOREM VolumesKept ==
    ASSUME EngineNumbers, Apart, Idempotent => "inspect" \notin Faults
    PROVE  ComposeSpec => [][KeepsVolumes]_composevars
  <1> DEFINE Inv == OwnersInv /\ (Idempotent => AbsentInv)
  <1>1. ComposeInit => Inv
    BY ComposeInitLemma
  <1>2. ComposeInv /\ Inv /\ [ComposeNext]_composevars => Inv'
    <2> SUFFICES ASSUME ComposeInv, Inv, [ComposeNext]_composevars PROVE Inv'
      OBVIOUS
    <2>1. CASE UNCHANGED composevars
      BY <2>1, ComposeStutter
    <2>2. CASE ComposeNext
      <3>1. Effect
        BY <2>2, EffectLemma DEF ComposeInv
      <3>2. OwnersInv'
        BY <3>1, OwnersStep DEF ComposeInv
      <3>3. Idempotent => AbsentInv'
        BY <2>2, AbsentStep DEF ComposeInv
      <3> QED  BY <3>2, <3>3
    <2> QED  BY <2>1, <2>2
  <1>3. ComposeInv /\ Inv /\ [ComposeNext]_composevars => [KeepsVolumes]_composevars
    <2> SUFFICES ASSUME ComposeInv, OwnersInv, ComposeNext, NEW v \in res, v \notin res', v.r.k = "vol"
                 PROVE  /\ v.r \notin External
                        /\ \E e \in Engines : /\ Acts(e)
                                              /\ \/ eng[e].op = "down" /\ eng[e].rmvol
                                                 \/ eng[e].op = "up" /\ v.by = eng[e].n
      BY DEF KeepsVolumes
    <2>1. PICK e \in Engines : EngineStep(e)
      BY DEF ComposeNext, Call, Up, Down, Control, Cleanup, Begin, FreshEngine, ContainerExits, LateRun
    <2>2. /\ Acts(e) /\ v.r \in Own(e)
          /\ \/ eng[e].pc = "undo" /\ v.r \in Range(eng[e].sr)
             \/ eng[e].pc = "rmres" /\ v.r \in Range(eng[e].todo)
      BY <2>1, RemovalLemma DEF ComposeInv
    <2>3. EngineOk(e, eng[e])
      BY DEF ComposeInv, EnginesInv
    <2>4. \/ eng[e].op = "down" /\ eng[e].rmvol
          \/ eng[e].op = "up" /\ v.by = eng[e].n
      BY <2>2, <2>3 DEF EngineOk, NoVolume, OwnersInv
    <2>5. v.r \notin External
      BY <2>2 DEF Own
    <2> QED  BY <2>2, <2>4, <2>5
  <1> QED  BY <1>1, <1>2, <1>3, ComposeInvariant, PTL DEF ComposeSpec

(* An engine stops and removes nothing of another project, if no service has a
   container_name. *)
THEOREM ProjectsApart ==
    ASSUME EngineNumbers, Named = {}
    PROVE  ComposeSpec => [][KeepsToProject]_composevars
  <1>1. ComposeInit => NamesInv
    BY ComposeInitLemma
  <1>2. ComposeInv /\ NamesInv /\ [ComposeNext]_composevars => NamesInv'
    BY NamesStep, ComposeStutter DEF ComposeInv
  <1>3. ComposeInv /\ NamesInv /\ [ComposeNext]_composevars => [KeepsToProject]_composevars
    <2> SUFFICES ASSUME ComposeInv, NamesInv, ComposeNext, NEW e \in Engines, Acts(e)
                 PROVE  /\ \A c \in cont \ cont' : c.proj = ProjOf[e]
                        /\ \A r \in res \ res' : r.r.p = ProjOf[e]
      BY DEF KeepsToProject
    <2>0. EnginesInv /\ ItemsInv /\ ListsInv
      BY DEF ComposeInv
    <2>1. EngineStep(e) \/ (cont' = cont /\ res' = res)
      <3>1. ASSUME NEW f \in Engines, EngineStep(f), f # e PROVE FALSE
        <4>1. OnlyBy(f)
          BY <2>0, <3>1, StepEffect DEF EffectOf, Settles, Makes, Creates, Begins, Renews
        <4> QED  BY <3>1, <4>1 DEF OnlyBy, Acts
      <3>2. ASSUME ContainerExits \/ LateRun PROVE FALSE
        BY <3>2 DEF ContainerExits, LateRun, Acts
      <3>3. ASSUME NEW f \in Engines, Call(f) \/ FreshEngine(f) PROVE cont' = cont /\ res' = res
        BY <3>3 DEF Call, Up, Down, Control, Cleanup, Begin, FreshEngine
      <3> QED  BY <3>1, <3>2, <3>3 DEF ComposeNext
    <2>2. ASSUME EngineStep(e), NEW r \in res, r \notin res' PROVE r.r.p = ProjOf[e]
      BY <2>0, <2>2, RemovalLemma DEF Own
    <2>3. ASSUME EngineStep(e), NEW c \in cont, c \notin cont' PROVE c.proj = ProjOf[e]
      <3>0. c \in Runs
        BY DEF Runs
      <3>1. ASSUME NEW s, c.name = NameOf(e, s) PROVE c.proj = ProjOf[e]
        <4>1. c.name[1] = e
          BY <3>1 DEF NameOf
        <4> QED  BY <3>0, <4>1 DEF NamesInv
      <3>2. ASSUME eng[e].sc # <<>>, c \in Entry(Last(eng[e].sc)) PROVE c.proj = ProjOf[e]
        <4>1. PICK x : x = Last(eng[e].sc)
          OBVIOUS
        <4>2. x \in Range(eng[e].sc)
          BY <2>0, <3>2, <4>1, ListLemma DEF EnginesInv, EngineOk
        <4>3. CASE x.id = 0
          <5>1. c.name[1] = e
            BY <3>2, <4>1, <4>2, <4>3 DEF Entry, ByName, NamesInv
          <5> QED  BY <3>0, <5>1 DEF NamesInv
        <4>4. CASE x.id # 0
          <5>1. c.id = x.id
            BY <3>2, <4>1, <4>4 DEF Entry, ById
          <5> QED  BY <2>0, <3>0, <4>2, <5>1 DEF ListsInv, Lists
        <4> QED  BY <4>3, <4>4
      <3>3. ASSUME c.id \in eng[e].ids PROVE c.proj = ProjOf[e]
        BY <2>0, <3>0, <3>3 DEF ListsInv, Lists
      <3> QED  BY <2>3, <3>1, <3>2, <3>3, TouchLemma
    <2> QED  BY <2>1, <2>2, <2>3
  <1> QED  BY <1>1, <1>2, <1>3, ComposeInvariant, PTL DEF ComposeSpec

(* A running container with the hash of the spec is left alone by an up(). *)
LEMMA SparedLemma ==
    ASSUME EngineNumbers, ComposeInv, ComposeNext, NEW e \in Engines, NEW c \in cont,
           Acts(e), eng[e].op = "up", eng[e].pc # "idle", c.st = "running", c.ver = eng[e].spec.ver,
           c.by # eng[e].n, \A x \in Range(eng[e].sc) : x.id = 0 => x.name # c.name,
           eng[e].pc = "swap" => c.name # NameOf(e, Head(eng[e].todo))
    PROVE  StaysUp(c)
  <1>0. EnginesInv /\ ItemsInv /\ ListsInv /\ EngineOk(e, eng[e]) /\ c \in Runs
    BY DEF ComposeInv, EnginesInv, Runs
  <1>1. c \in cont' => StaysUp(c)
    BY DEF StaysUp
  <1>2. EngineStep(e) \/ cont' = cont
    <2>1. ASSUME NEW f \in Engines, EngineStep(f), f # e PROVE FALSE
      <3>1. OnlyBy(f)
        BY <1>0, <2>1, StepEffect DEF EffectOf, Settles, Makes, Creates, Begins, Renews
      <3> QED  BY <2>1, <3>1 DEF OnlyBy, Acts
    <2>2. ASSUME ContainerExits \/ LateRun PROVE FALSE
      BY <2>2 DEF ContainerExits, LateRun, Acts
    <2>3. ASSUME NEW f \in Engines, Call(f) \/ FreshEngine(f) PROVE cont' = cont
      BY <2>3 DEF Call, Up, Down, Control, Cleanup, Begin, FreshEngine
    <2> QED  BY <2>1, <2>2, <2>3 DEF ComposeNext
  <1>3. ASSUME EngineStep(e), c \notin cont' PROVE FALSE
    <2>1. eng[e].pc \notin {"kill", "sweep", "bstop", "bstart"}
      BY <1>0 DEF EngineOk
    <2>2. ASSUME eng[e].sc # <<>>, c \in Entry(Last(eng[e].sc)) PROVE FALSE
      <3>1. PICK x : x = Last(eng[e].sc)
        OBVIOUS
      <3>2. x \in Range(eng[e].sc)
        BY <1>0, <2>2, <3>1, ListLemma DEF EngineOk
      <3>3. CASE x.id = 0
        BY <2>2, <3>1, <3>2, <3>3 DEF Entry, ByName
      <3>4. CASE x.id # 0
        <4>1. c.id = x.id
          BY <2>2, <3>1, <3>4 DEF Entry, ById
        <4> QED  BY <1>0, <3>2, <4>1 DEF ListsInv
      <3> QED  BY <3>3, <3>4
    <2> QED  BY <1>3, <2>1, <2>2, TouchLemma
  <1> QED  BY <1>1, <1>2, <1>3

(* An up(), also one that rolls back, leaves alone a running container with the
   hash of the spec that it neither created nor started, if no service has a
   container_name or the engine is the only one. *)
THEOREM RunningSpared ==
    ASSUME EngineNumbers, Named = {} \/ Alone
    PROVE  ComposeSpec => [][SparesRunning]_composevars
  <1> DEFINE Inv == IF Named = {} THEN NamesInv ELSE SwapInv
  <1>1. ComposeInit => Inv
    BY ComposeInitLemma
  <1>2. ComposeInv /\ Inv /\ [ComposeNext]_composevars => Inv'
    BY NamesStep, SwapStep, ComposeStutter DEF ComposeInv
  <1>3. ComposeInv /\ Inv /\ [ComposeNext]_composevars => [SparesRunning]_composevars
    <2> SUFFICES ASSUME ComposeInv, Inv, ComposeNext, NEW e \in Engines, NEW c \in cont,
                        Acts(e), eng[e].op = "up", eng[e].pc # "idle", c.st = "running",
                        c.ver = eng[e].spec.ver, c.by # eng[e].n,
                        \A x \in Range(eng[e].sc) : x.id = 0 => x.name # c.name
                 PROVE  StaysUp(c)
      BY DEF SparesRunning
    <2>1. ASSUME eng[e].pc = "swap", c.name = NameOf(e, Head(eng[e].todo)) PROVE FALSE
      <3>1. CASE Named = {}
        BY <2>1, <3>1 DEF NamesInv
      <3>2. CASE Named # {}
        BY <2>1, <3>2 DEF SwapInv, ByName
      <3> QED  BY <3>1, <3>2
    <2> QED  BY <2>1, SparedLemma
  <1> QED  BY <1>1, <1>2, <1>3, ComposeInvariant, PTL DEF ComposeSpec
=============================================================================
