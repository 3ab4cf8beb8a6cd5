-------------------------- MODULE EventLoopProofs --------------------------
(* Theorems about EventLoop.tla, for any number of jobs and timers. *)
EXTENDS EventLoop, TLAPS

(* The conjuncts of TypeOK that say a variable is Boolean, and the others
   with what the bound on `rounds' rests on. *)
BoolInv == hot \in BOOLEAN /\ notified \in BOOLEAN /\ ready \in BOOLEAN

OtherTypes ==
    /\ kind \in [Jobs -> Kinds]
    /\ jpc \in [Jobs -> {"none", "busy", "runnable", "pushed", "told", "counted", "done"}]
    /\ inflight \subseteq Jobs /\ active \subseteq Jobs
    /\ simple \subseteq Jobs /\ deferred \subseteq Jobs /\ results \subseteq Jobs
    /\ micro \subseteq Jobs \cup Timers /\ ran \subseteq Jobs \cup Timers
    /\ timer \in [Timers -> {"off", "armed", "due", "fired"}]
    /\ cpc \in Leaving \cup
          {"script", "flush", "pump", "pump2", "check", "simple", "deferred",
           "active", "results", "body", "wait", "budget", "park", "fast",
           "poll", "drive", "tick"}
    /\ site \in {"header", "body"}
    /\ rounds \in 0..FlushRounds
    /\ FlushInv

(* The flags stay Boolean. *)
LEMMA BoolStep ==
    ASSUME BoolInv, [Next]_vars
    PROVE  BoolInv'
  <1> USE LoopAssumption DEF BoolInv, queues, counts, jsVars, wakeVars, mainVars
  <1>1. CASE Script
    BY <1>1, Zenon DEF Script, Start, NotStarted, Unarmed
  <1>2. CASE Flush
    BY <1>2, Zenon DEF Flush, RunMicrotasks, Start, NotStarted, Unarmed, Due
  <1>3. CASE Body
    BY <1>3, Zenon DEF Body, RunMicrotasks, Start, NotStarted, Unarmed, Due
  <1>4. CASE SettleSimple
    BY <1>4, Zenon DEF SettleSimple
  <1>5. CASE SettleDeferred
    BY <1>5, Zenon DEF SettleDeferred
  <1>6. CASE CheckInflight
    BY <1>6, Zenon DEF CheckInflight, Answer, OnlyMoves
  <1>7. CASE CheckSimple
    BY <1>7, Zenon DEF CheckSimple, Answer, OnlyMoves
  <1>8. CASE CheckDeferred
    BY <1>8, Zenon DEF CheckDeferred, Answer, OnlyMoves
  <1>9. CASE CheckActive
    BY <1>9, Zenon DEF CheckActive, Answer, OnlyMoves
  <1>10. CASE CheckResults
    BY <1>10, Zenon DEF CheckResults, Answer, OnlyMoves
  <1>11. CASE WaitSwap
    BY <1>11, Zenon DEF WaitSwap
  <1>12. CASE WaitNot
    BY <1>12, Zenon DEF WaitNot
  <1>13. CASE IdleReclaim
    BY <1>13, Zenon DEF IdleReclaim, BackToHeader
  <1>14. CASE Park
    BY <1>14, Zenon DEF Park, Busy
  <1>15. CASE FastDrive
    BY <1>15, Zenon DEF FastDrive, BackToHeader
  <1>16. CASE DrivePoll
    BY <1>16, Zenon DEF DrivePoll, BackToHeader, RunTasks, Runnable
  <1>17. CASE TickPoll
    BY <1>17, Zenon DEF TickPoll, BackToHeader, RunTasks, Runnable
  <1>18. CASE TickTasks
    BY <1>18, Zenon DEF TickTasks, RunTasks, Runnable
  <1>19. CASE DriveEnd
    BY <1>19, Zenon DEF DriveEnd, BackToHeader
  <1>20. CASE TickEnd
    BY <1>20, Zenon DEF TickEnd, BackToHeader
  <1>21. CASE IdleCap
    BY <1>21, Zenon DEF IdleCap, BackToHeader
  <1>22. CASE BeforeExit
    BY <1>22, Zenon DEF BeforeExit, Start, NotStarted, Unarmed
  <1>23. CASE LastDrain
    BY <1>23, Zenon DEF LastDrain, RunMicrotasks, Start, NotStarted, Unarmed, Due
  <1>24. CASE ExitJobs
    BY <1>24, Zenon DEF ExitJobs, Start, NotStarted, Unarmed
  <1>25. ASSUME NEW j \in Jobs, Arrive(j) PROVE BoolInv'
    BY <1>25, Zenon DEF Arrive
  <1>26. ASSUME NEW j \in Jobs, WorkerPush(j) PROVE BoolInv'
    BY <1>26, Zenon DEF WorkerPush
  <1>27. ASSUME NEW j \in Jobs, WorkerTell(j) PROVE BoolInv'
    BY <1>27, Zenon DEF WorkerTell, Notify
  <1>28. ASSUME NEW j \in Jobs, WorkerUncount(j) PROVE BoolInv'
    BY <1>28, Zenon DEF WorkerUncount
  <1>29. ASSUME NEW j \in Jobs, WorkerWake(j) PROVE BoolInv'
    BY <1>29, Zenon DEF WorkerWake, Notify
  <1>30. ASSUME NEW t \in Timers, Expire(t) PROVE BoolInv'
    BY <1>30, Zenon DEF Expire
  <1>31. CASE UNCHANGED vars
    BY <1>31, Zenon DEF vars
  <1> QED
    BY <1>1, <1>2, <1>3, <1>4, <1>5, <1>6, <1>7, <1>8, <1>9, <1>10, <1>11, <1>12,
       <1>13, <1>14, <1>15, <1>16, <1>17, <1>18, <1>19, <1>20, <1>21, <1>22, <1>23, <1>24,
       <1>25, <1>26, <1>27, <1>28, <1>29, <1>30, <1>31
       DEF Next, MainRuns, WorkerStep, Returned

(* Every step keeps the other types. *)
LEMMA TypeStep ==
    ASSUME TypeOK, FlushInv, [Next]_vars
    PROVE  OtherTypes'
  <1> USE LoopAssumption DEF TypeOK, FlushInv, OtherTypes, Leaving, Kinds, queues, counts, jsVars, wakeVars, mainVars
  <1>1. CASE Script
    BY <1>1 DEF Script, Start, NotStarted, Unarmed
  <1>2. CASE Flush
    BY <1>2 DEF Flush, RunMicrotasks, Start, NotStarted, Unarmed, Due
  <1>3. CASE Body
    BY <1>3 DEF Body, RunMicrotasks, Start, NotStarted, Unarmed, Due
  <1>4. CASE SettleSimple
    BY <1>4 DEF SettleSimple
  <1>5. CASE SettleDeferred
    BY <1>5 DEF SettleDeferred
  <1>6. CASE CheckInflight
    BY <1>6 DEF CheckInflight, Answer, OnlyMoves
  <1>7. CASE CheckSimple
    BY <1>7 DEF CheckSimple, Answer, OnlyMoves
  <1>8. CASE CheckDeferred
    BY <1>8 DEF CheckDeferred, Answer, OnlyMoves
  <1>9. CASE CheckActive
    BY <1>9 DEF CheckActive, Answer, OnlyMoves
  <1>10. CASE CheckResults
    BY <1>10 DEF CheckResults, Answer, OnlyMoves
  <1>11. CASE WaitSwap
    BY <1>11 DEF WaitSwap
  <1>12. CASE WaitNot
    BY <1>12 DEF WaitNot
  <1>13. CASE IdleReclaim
    BY <1>13 DEF IdleReclaim, BackToHeader
  <1>14. CASE Park
    BY <1>14 DEF Park, Busy
  <1>15. CASE FastDrive
    BY <1>15 DEF FastDrive, BackToHeader
  <1>16. CASE DrivePoll
    BY <1>16 DEF DrivePoll, BackToHeader, RunTasks, Runnable
  <1>17. CASE TickPoll
    BY <1>17 DEF TickPoll, BackToHeader, RunTasks, Runnable
  <1>18. CASE TickTasks
    BY <1>18 DEF TickTasks, RunTasks, Runnable
  <1>19. CASE DriveEnd
    BY <1>19 DEF DriveEnd, BackToHeader
  <1>20. CASE TickEnd
    BY <1>20 DEF TickEnd, BackToHeader
  <1>21. CASE IdleCap
    BY <1>21 DEF IdleCap, BackToHeader
  <1>22. CASE BeforeExit
    BY <1>22 DEF BeforeExit, Start, NotStarted, Unarmed
  <1>23. CASE LastDrain
    BY <1>23 DEF LastDrain, RunMicrotasks, Start, NotStarted, Unarmed, Due
  <1>24. CASE ExitJobs
    BY <1>24 DEF ExitJobs, Start, NotStarted, Unarmed
  <1>25. ASSUME NEW j \in Jobs, Arrive(j) PROVE OtherTypes'
    BY <1>25 DEF Arrive
  <1>26. ASSUME NEW j \in Jobs, WorkerPush(j) PROVE OtherTypes'
    BY <1>26 DEF WorkerPush
  <1>27. ASSUME NEW j \in Jobs, WorkerTell(j) PROVE OtherTypes'
    BY <1>27 DEF WorkerTell, Notify
  <1>28. ASSUME NEW j \in Jobs, WorkerUncount(j) PROVE OtherTypes'
    BY <1>28 DEF WorkerUncount
  <1>29. ASSUME NEW j \in Jobs, WorkerWake(j) PROVE OtherTypes'
    BY <1>29 DEF WorkerWake, Notify
  <1>30. ASSUME NEW t \in Timers, Expire(t) PROVE OtherTypes'
    BY <1>30 DEF Expire
  <1>31. CASE UNCHANGED vars
    BY <1>31 DEF vars
  <1> QED
    BY <1>1, <1>2, <1>3, <1>4, <1>5, <1>6, <1>7, <1>8, <1>9, <1>10, <1>11, <1>12,
       <1>13, <1>14, <1>15, <1>16, <1>17, <1>18, <1>19, <1>20, <1>21, <1>22, <1>23, <1>24,
       <1>25, <1>26, <1>27, <1>28, <1>29, <1>30, <1>31
       DEF Next, MainRuns, WorkerStep, Returned

(* The counters count the jobs that have a result to hand over. *)
LEMMA CountStep ==
    ASSUME TypeOK, CountInv, [Next]_vars
    PROVE  CountInv'
  <1> USE LoopAssumption DEF TypeOK, CountInv, Leaving, Kinds, queues, counts, jsVars, wakeVars, mainVars
  <1>1. CASE Script
    BY <1>1 DEF Script, Start, NotStarted, Unarmed
  <1>2. CASE Flush
    BY <1>2 DEF Flush, RunMicrotasks, Start, NotStarted, Unarmed, Due
  <1>3. CASE Body
    BY <1>3 DEF Body, RunMicrotasks, Start, NotStarted, Unarmed, Due
  <1>4. CASE SettleSimple
    BY <1>4 DEF SettleSimple
  <1>5. CASE SettleDeferred
    BY <1>5 DEF SettleDeferred
  <1>6. CASE CheckInflight
    BY <1>6 DEF CheckInflight, Answer, OnlyMoves
  <1>7. CASE CheckSimple
    BY <1>7 DEF CheckSimple, Answer, OnlyMoves
  <1>8. CASE CheckDeferred
    BY <1>8 DEF CheckDeferred, Answer, OnlyMoves
  <1>9. CASE CheckActive
    BY <1>9 DEF CheckActive, Answer, OnlyMoves
  <1>10. CASE CheckResults
    BY <1>10 DEF CheckResults, Answer, OnlyMoves
  <1>11. CASE WaitSwap
    BY <1>11 DEF WaitSwap
  <1>12. CASE WaitNot
    BY <1>12 DEF WaitNot
  <1>13. CASE IdleReclaim
    BY <1>13 DEF IdleReclaim, BackToHeader
  <1>14. CASE Park
    BY <1>14 DEF Park, Busy
  <1>15. CASE FastDrive
    BY <1>15 DEF FastDrive, BackToHeader
  <1>16. CASE DrivePoll
    BY <1>16 DEF DrivePoll, BackToHeader, RunTasks, Runnable
  <1>17. CASE TickPoll
    BY <1>17 DEF TickPoll, BackToHeader, RunTasks, Runnable
  <1>18. CASE TickTasks
    BY <1>18 DEF TickTasks, RunTasks, Runnable
  <1>19. CASE DriveEnd
    BY <1>19 DEF DriveEnd, BackToHeader
  <1>20. CASE TickEnd
    BY <1>20 DEF TickEnd, BackToHeader
  <1>21. CASE IdleCap
    BY <1>21 DEF IdleCap, BackToHeader
  <1>22. CASE BeforeExit
    BY <1>22 DEF BeforeExit, Start, NotStarted, Unarmed
  <1>23. CASE LastDrain
    BY <1>23 DEF LastDrain, RunMicrotasks, Start, NotStarted, Unarmed, Due
  <1>24. CASE ExitJobs
    BY <1>24 DEF ExitJobs, Start, NotStarted, Unarmed
  <1>25. ASSUME NEW j \in Jobs, Arrive(j) PROVE CountInv'
    BY <1>25 DEF Arrive
  <1>26. ASSUME NEW j \in Jobs, WorkerPush(j) PROVE CountInv'
    BY <1>26 DEF WorkerPush
  <1>27. ASSUME NEW j \in Jobs, WorkerTell(j) PROVE CountInv'
    BY <1>27 DEF WorkerTell, Notify
  <1>28. ASSUME NEW j \in Jobs, WorkerUncount(j) PROVE CountInv'
    BY <1>28 DEF WorkerUncount
  <1>29. ASSUME NEW j \in Jobs, WorkerWake(j) PROVE CountInv'
    BY <1>29 DEF WorkerWake, Notify
  <1>30. ASSUME NEW t \in Timers, Expire(t) PROVE CountInv'
    BY <1>30 DEF Expire
  <1>31. CASE UNCHANGED vars
    BY <1>31 DEF vars
  <1> QED
    BY <1>1, <1>2, <1>3, <1>4, <1>5, <1>6, <1>7, <1>8, <1>9, <1>10, <1>11, <1>12,
       <1>13, <1>14, <1>15, <1>16, <1>17, <1>18, <1>19, <1>20, <1>21, <1>22, <1>23, <1>24,
       <1>25, <1>26, <1>27, <1>28, <1>29, <1>30, <1>31
       DEF Next, MainRuns, WorkerStep, Returned

(* No step drops a result or a fired timer. *)
LEMMA HandedStep ==
    ASSUME TypeOK, CountInv, HandedInv, [Next]_vars
    PROVE  HandedInv'
  <1> USE LoopAssumption DEF TypeOK, HandedInv, Leaving, Kinds, queues, counts, jsVars, wakeVars, mainVars
  <1>1. CASE Script
    BY <1>1 DEF Script, Start, NotStarted, Unarmed
  <1>2. CASE Flush
    BY <1>2 DEF Flush, RunMicrotasks, Start, NotStarted, Unarmed, Due
  <1>3. CASE Body
    BY <1>3 DEF Body, RunMicrotasks, Start, NotStarted, Unarmed, Due
  <1>4. CASE SettleSimple
    BY <1>4 DEF SettleSimple
  <1>5. CASE SettleDeferred
    BY <1>5 DEF SettleDeferred
  <1>6. CASE CheckInflight
    BY <1>6 DEF CheckInflight, Answer, OnlyMoves
  <1>7. CASE CheckSimple
    BY <1>7 DEF CheckSimple, Answer, OnlyMoves
  <1>8. CASE CheckDeferred
    BY <1>8 DEF CheckDeferred, Answer, OnlyMoves
  <1>9. CASE CheckActive
    BY <1>9 DEF CheckActive, Answer, OnlyMoves
  <1>10. CASE CheckResults
    BY <1>10 DEF CheckResults, Answer, OnlyMoves
  <1>11. CASE WaitSwap
    BY <1>11 DEF WaitSwap
  <1>12. CASE WaitNot
    BY <1>12 DEF WaitNot
  <1>13. CASE IdleReclaim
    BY <1>13 DEF IdleReclaim, BackToHeader
  <1>14. CASE Park
    BY <1>14 DEF Park, Busy
  <1>15. CASE FastDrive
    BY <1>15 DEF FastDrive, BackToHeader
  <1>16. CASE DrivePoll
    BY <1>16 DEF DrivePoll, BackToHeader, RunTasks, Runnable
  <1>17. CASE TickPoll
    BY <1>17 DEF TickPoll, BackToHeader, RunTasks, Runnable
  <1>18. CASE TickTasks
    BY <1>18 DEF TickTasks, RunTasks, Runnable
  <1>19. CASE DriveEnd
    BY <1>19 DEF DriveEnd, BackToHeader
  <1>20. CASE TickEnd
    BY <1>20 DEF TickEnd, BackToHeader
  <1>21. CASE IdleCap
    BY <1>21 DEF IdleCap, BackToHeader
  <1>22. CASE BeforeExit
    BY <1>22 DEF BeforeExit, Start, NotStarted, Unarmed
  <1>23. CASE LastDrain
    BY <1>23 DEF LastDrain, RunMicrotasks, Start, NotStarted, Unarmed, Due
  <1>24. CASE ExitJobs
    BY <1>24 DEF ExitJobs, Start, NotStarted, Unarmed
  <1>25. ASSUME NEW j \in Jobs, Arrive(j) PROVE HandedInv'
    BY <1>25 DEF Arrive
  <1>26. ASSUME NEW j \in Jobs, WorkerPush(j) PROVE HandedInv'
    BY <1>26 DEF WorkerPush
  <1>27. ASSUME NEW j \in Jobs, WorkerTell(j) PROVE HandedInv'
    BY <1>27 DEF WorkerTell, Notify
  <1>28. ASSUME NEW j \in Jobs, WorkerUncount(j) PROVE HandedInv'
    BY <1>28 DEF WorkerUncount
  <1>29. ASSUME NEW j \in Jobs, WorkerWake(j) PROVE HandedInv'
    BY <1>29 DEF WorkerWake, Notify
  <1>30. ASSUME NEW t \in Timers, Expire(t) PROVE HandedInv'
    BY <1>30 DEF Expire
  <1>31. CASE UNCHANGED vars
    BY <1>31 DEF vars
  <1> QED
    BY <1>1, <1>2, <1>3, <1>4, <1>5, <1>6, <1>7, <1>8, <1>9, <1>10, <1>11, <1>12,
       <1>13, <1>14, <1>15, <1>16, <1>17, <1>18, <1>19, <1>20, <1>21, <1>22, <1>23, <1>24,
       <1>25, <1>26, <1>27, <1>28, <1>29, <1>30, <1>31
       DEF Next, MainRuns, WorkerStep, Returned

(* A source that was found dead is not revived during the test. *)
LEMMA CheckStep ==
    ASSUME TypeOK, CountInv, CheckInv, [Next]_vars
    PROVE  CheckInv'
  <1> USE LoopAssumption DEF TypeOK, CountInv, CheckInv, Leaving, Kinds, queues, counts, jsVars, wakeVars, mainVars
  <1>1. CASE Script
    BY <1>1 DEF Script, Start, NotStarted, Unarmed
  <1>2. CASE Flush
    BY <1>2 DEF Flush, RunMicrotasks, Start, NotStarted, Unarmed, Due
  <1>3. CASE Body
    BY <1>3 DEF Body, RunMicrotasks, Start, NotStarted, Unarmed, Due
  <1>4. CASE SettleSimple
    BY <1>4 DEF SettleSimple
  <1>5. CASE SettleDeferred
    BY <1>5 DEF SettleDeferred
  <1>6. CASE CheckInflight
    BY <1>6 DEF CheckInflight, Answer, OnlyMoves
  <1>7. CASE CheckSimple
    BY <1>7 DEF CheckSimple, Answer, OnlyMoves
  <1>8. CASE CheckDeferred
    BY <1>8 DEF CheckDeferred, Answer, OnlyMoves
  <1>9. CASE CheckActive
    BY <1>9 DEF CheckActive, Answer, OnlyMoves
  <1>10. CASE CheckResults
    BY <1>10 DEF CheckResults, Answer, OnlyMoves
  <1>11. CASE WaitSwap
    BY <1>11 DEF WaitSwap
  <1>12. CASE WaitNot
    BY <1>12 DEF WaitNot
  <1>13. CASE IdleReclaim
    BY <1>13 DEF IdleReclaim, BackToHeader
  <1>14. CASE Park
    BY <1>14 DEF Park, Busy
  <1>15. CASE FastDrive
    BY <1>15 DEF FastDrive, BackToHeader
  <1>16. CASE DrivePoll
    BY <1>16 DEF DrivePoll, BackToHeader, RunTasks, Runnable
  <1>17. CASE TickPoll
    BY <1>17 DEF TickPoll, BackToHeader, RunTasks, Runnable
  <1>18. CASE TickTasks
    BY <1>18 DEF TickTasks, RunTasks, Runnable
  <1>19. CASE DriveEnd
    BY <1>19 DEF DriveEnd, BackToHeader
  <1>20. CASE TickEnd
    BY <1>20 DEF TickEnd, BackToHeader
  <1>21. CASE IdleCap
    BY <1>21 DEF IdleCap, BackToHeader
  <1>22. CASE BeforeExit
    BY <1>22 DEF BeforeExit, Start, NotStarted, Unarmed
  <1>23. CASE LastDrain
    BY <1>23 DEF LastDrain, RunMicrotasks, Start, NotStarted, Unarmed, Due
  <1>24. CASE ExitJobs
    BY <1>24 DEF ExitJobs, Start, NotStarted, Unarmed
  <1>25. ASSUME NEW j \in Jobs, Arrive(j) PROVE CheckInv'
    BY <1>25 DEF Arrive
  <1>26. ASSUME NEW j \in Jobs, WorkerPush(j) PROVE CheckInv'
    BY <1>26 DEF WorkerPush
  <1>27. ASSUME NEW j \in Jobs, WorkerTell(j) PROVE CheckInv'
    BY <1>27 DEF WorkerTell, Notify
  <1>28. ASSUME NEW j \in Jobs, WorkerUncount(j) PROVE CheckInv'
    BY <1>28 DEF WorkerUncount
  <1>29. ASSUME NEW j \in Jobs, WorkerWake(j) PROVE CheckInv'
    BY <1>29 DEF WorkerWake, Notify
  <1>30. ASSUME NEW t \in Timers, Expire(t) PROVE CheckInv'
    BY <1>30 DEF Expire
  <1>31. CASE UNCHANGED vars
    BY <1>31 DEF vars
  <1> QED
    BY <1>1, <1>2, <1>3, <1>4, <1>5, <1>6, <1>7, <1>8, <1>9, <1>10, <1>11, <1>12,
       <1>13, <1>14, <1>15, <1>16, <1>17, <1>18, <1>19, <1>20, <1>21, <1>22, <1>23, <1>24,
       <1>25, <1>26, <1>27, <1>28, <1>29, <1>30, <1>31
       DEF Next, MainRuns, WorkerStep, Returned

(* The main thread parks on no result whose notify is past. *)
LEMMA TellStep ==
    ASSUME TypeOK, CountInv, TellInv, [Next]_vars
    PROVE  TellInv'
  <1> USE LoopAssumption DEF TypeOK, CountInv, TellInv, Waking, Leaving, Kinds, queues, counts, jsVars, wakeVars, mainVars
  <1>1. CASE Script
    BY <1>1 DEF Script, Start, NotStarted, Unarmed
  <1>2. CASE Flush
    BY <1>2 DEF Flush, RunMicrotasks, Start, NotStarted, Unarmed, Due
  <1>3. CASE Body
    BY <1>3 DEF Body, RunMicrotasks, Start, NotStarted, Unarmed, Due
  <1>4. CASE SettleSimple
    BY <1>4 DEF SettleSimple
  <1>5. CASE SettleDeferred
    BY <1>5 DEF SettleDeferred
  <1>6. CASE CheckInflight
    BY <1>6 DEF CheckInflight, Answer, OnlyMoves
  <1>7. CASE CheckSimple
    BY <1>7 DEF CheckSimple, Answer, OnlyMoves
  <1>8. CASE CheckDeferred
    BY <1>8 DEF CheckDeferred, Answer, OnlyMoves
  <1>9. CASE CheckActive
    BY <1>9 DEF CheckActive, Answer, OnlyMoves
  <1>10. CASE CheckResults
    BY <1>10 DEF CheckResults, Answer, OnlyMoves
  <1>11. CASE WaitSwap
    BY <1>11 DEF WaitSwap
  <1>12. CASE WaitNot
    BY <1>12 DEF WaitNot
  <1>13. CASE IdleReclaim
    BY <1>13 DEF IdleReclaim, BackToHeader
  <1>14. CASE Park
    BY <1>14 DEF Park, Busy
  <1>15. CASE FastDrive
    BY <1>15 DEF FastDrive, BackToHeader
  <1>16. CASE DrivePoll
    BY <1>16 DEF DrivePoll, BackToHeader, RunTasks, Runnable
  <1>17. CASE TickPoll
    <2>1. CASE notified \/ ready
      BY <1>17, <2>1 DEF TickPoll, BackToHeader, RunTasks
    <2>2. CASE ~notified /\ ~ready
      <3>1. cpc' = "tick" /\ active' = {} /\ results' = {} /\ micro' = {}
        BY <1>17, <2>2 DEF TickPoll, RunTasks
      <3>2. CASE Runnable = {}
        <4>1. jpc' = jpc /\ simple' = simple /\ deferred' = deferred
          BY <1>17, <2>2, <3>2 DEF TickPoll, RunTasks
        <4>2. simple \cup deferred \subseteq Waking
          BY <1>17, <2>2 DEF TickPoll
        <4> QED  BY <3>1, <4>1, <4>2
      <3>3. CASE Runnable # {}
        <4>1. ready'
          BY <1>17, <2>2, <3>3, Zenon DEF TickPoll, RunTasks
        <4> QED  BY <3>1, <4>1
      <3> QED  BY <3>2, <3>3
    <2> QED  BY <2>1, <2>2
  <1>18. CASE TickTasks
    BY <1>18 DEF TickTasks, RunTasks, Runnable
  <1>19. CASE DriveEnd
    BY <1>19 DEF DriveEnd, BackToHeader
  <1>20. CASE TickEnd
    BY <1>20 DEF TickEnd, BackToHeader
  <1>21. CASE IdleCap
    BY <1>21 DEF IdleCap, BackToHeader
  <1>22. CASE BeforeExit
    BY <1>22 DEF BeforeExit, Start, NotStarted, Unarmed
  <1>23. CASE LastDrain
    BY <1>23 DEF LastDrain, RunMicrotasks, Start, NotStarted, Unarmed, Due
  <1>24. CASE ExitJobs
    BY <1>24 DEF ExitJobs, Start, NotStarted, Unarmed
  <1>25. ASSUME NEW j \in Jobs, Arrive(j) PROVE TellInv'
    BY <1>25 DEF Arrive
  <1>26. ASSUME NEW j \in Jobs, WorkerPush(j) PROVE TellInv'
    BY <1>26 DEF WorkerPush
  <1>27. ASSUME NEW j \in Jobs, WorkerTell(j) PROVE TellInv'
    BY <1>27 DEF WorkerTell, Notify
  <1>28. ASSUME NEW j \in Jobs, WorkerUncount(j) PROVE TellInv'
    BY <1>28 DEF WorkerUncount
  <1>29. ASSUME NEW j \in Jobs, WorkerWake(j) PROVE TellInv'
    BY <1>29 DEF WorkerWake, Notify
  <1>30. ASSUME NEW t \in Timers, Expire(t) PROVE TellInv'
    BY <1>30 DEF Expire
  <1>31. CASE UNCHANGED vars
    BY <1>31 DEF vars
  <1> QED
    BY <1>1, <1>2, <1>3, <1>4, <1>5, <1>6, <1>7, <1>8, <1>9, <1>10, <1>11, <1>12,
       <1>13, <1>14, <1>15, <1>16, <1>17, <1>18, <1>19, <1>20, <1>21, <1>22, <1>23, <1>24,
       <1>25, <1>26, <1>27, <1>28, <1>29, <1>30, <1>31
       DEF Next, MainRuns, WorkerStep, Returned

(* The initial states. *)
LEMMA LoopInit == Init => LoopInv
  <1> SUFFICES ASSUME Init PROVE LoopInv  OBVIOUS
  <1>1. BoolInv
    BY Zenon DEF Init, BoolInv
  <1>2. OtherTypes
    BY LoopAssumption DEF Init, OtherTypes, FlushInv, Kinds, Leaving
  <1>3. CountInv /\ HandedInv /\ CheckInv /\ TellInv
    BY DEF Init, CountInv, HandedInv, CheckInv, TellInv
  <1> QED  BY <1>1, <1>2, <1>3 DEF LoopInv, TypeOK, BoolInv, OtherTypes

(* The inductive invariant of the loop. *)
THEOREM LoopInvariant == Spec => []LoopInv
  <1>1. LoopInv /\ [Next]_vars => LoopInv'
    <2> SUFFICES ASSUME LoopInv, [Next]_vars PROVE LoopInv'  OBVIOUS
    <2>1. TypeOK /\ FlushInv /\ BoolInv /\ CountInv /\ HandedInv /\ CheckInv /\ TellInv
      BY DEF LoopInv, TypeOK, BoolInv
    <2>2. TypeOK' /\ FlushInv'
      BY <2>1, BoolStep, TypeStep DEF TypeOK, BoolInv, OtherTypes
    <2> QED  BY <2>1, <2>2, CountStep, HandedStep, CheckStep, TellStep DEF LoopInv
  <1> QED  BY <1>1, LoopInit, PTL DEF Spec

(* The state of the loop stays well typed; in particular the initial flush ends
   after FlushRounds drains. *)
THEOREM LoopTypes == Spec => []TypeOK
  <1>1. LoopInv => TypeOK
    BY DEF LoopInv
  <1> QED  BY <1>1, LoopInvariant, PTL

(* Issues #591 and #921: for any number of jobs and timers, in every
   interleaving of workers with the liveness test, the loop exits only when
   every continuation of the program has run. *)
THEOREM LoopNeverExitsEarly == Spec => []NoEarlyExit
  <1>1. LoopInv => NoEarlyExit
    <2> SUFFICES ASSUME LoopInv, cpc = "exit" PROVE Started \subseteq ran
      BY DEF NoEarlyExit
    <2>1. inflight = {} /\ active = {} /\ simple = {} /\ deferred = {} /\ results = {} /\ micro = {}
      BY DEF LoopInv, CheckInv
    <2>2. ASSUME NEW j \in Jobs, jpc[j] # "none" PROVE j \in ran
      <3>1. jpc[j] \in {"pushed", "told", "counted", "done"}
        BY <2>1, <2>2 DEF LoopInv, CountInv, TypeOK, Kinds
      <3> QED  BY <2>1, <3>1 DEF LoopInv, HandedInv
    <2>3. ASSUME NEW t \in Timers, timer[t] # "off" PROVE t \in ran
      BY <2>1, <2>3 DEF LoopInv, CheckInv, HandedInv
    <2> QED  BY <2>2, <2>3 DEF Started
  <1> QED  BY <1>1, LoopInvariant, PTL

(* For any number of jobs, a main thread parked in a tick has no continuation
   to run, and whoever queued a result is still going to wake it. *)
THEOREM LoopParksWhenIdle == Spec => []ParksOnlyWhenIdle
  <1>1. LoopInv => ParksOnlyWhenIdle
    BY DEF LoopInv, TellInv, Waking, ParksOnlyWhenIdle
  <1> QED  BY <1>1, LoopInvariant, PTL
============================================================================
