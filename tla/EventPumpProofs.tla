-------------------------- MODULE EventPumpProofs --------------------------
(* Theorems about EventPump.tla, for any number of producers and pushes. *)
EXTENDS EventPump, TLAPS

(* What the pump keeps to under every memory model, with and without a driver. *)
BaseInv == TypeOK /\ WaitersInv /\ SpinInv

(* Every step keeps the types, the meaning of WAITER_COUNT and the bound on the
   spin streak. *)
LEMMA BaseStep ==
    ASSUME BaseInv, [Next]_vars
    PROVE  BaseInv'
  <1> USE PumpAssumption DEF BaseInv, WaitersInv, SpinInv, TypeOK, Marked, mainVars, prodVars,
          ProducerGoto
  <1>1. ASSUME NEW p \in Producers, Push(p) PROVE BaseInv'
    BY <1>1 DEF Push
  <1>2. ASSUME NEW p \in Producers, StoreNotified(p) PROVE BaseInv'
    BY <1>2 DEF StoreNotified
  <1>3. ASSUME NEW p \in Producers, FlushStore(p) PROVE BaseInv'
    BY <1>3 DEF FlushStore
  <1>4. ASSUME NEW p \in Producers, WakeDriver(p) PROVE BaseInv'
    BY <1>4 DEF WakeDriver
  <1>5. ASSUME NEW p \in Producers, LoadWaiterCount(p) PROVE BaseInv'
    BY <1>5 DEF LoadWaiterCount
  <1>6. ASSUME NEW p \in Producers, RaiseFlag(p) PROVE BaseInv'
    BY <1>6 DEF RaiseFlag
  <1>7. ASSUME NEW p \in Producers, Signal(p) PROVE BaseInv'
    BY <1>7 DEF Signal
  <1>8. CASE Drain
    BY <1>8 DEF Drain
  <1>9. CASE SwapNotified
    BY <1>9 DEF SwapNotified, Around
  <1>10. CASE BudgetZero
    BY <1>10 DEF BudgetZero, Around
  <1>11. CASE BudgetPositive
    BY <1>11 DEF BudgetPositive
  <1>12. CASE IdleReclaim
    BY <1>12 DEF IdleReclaim
  <1>13. CASE EnableTick
    BY <1>13 DEF EnableTick
  <1>14. CASE TickCheck
    BY <1>14 DEF TickCheck
  <1>15. CASE TickTask
    BY <1>15 DEF TickTask
  <1>16. CASE TickReady
    BY <1>16 DEF TickReady, EndTick
  <1>17. CASE TickTimeout
    BY <1>17 DEF TickTimeout, EndTick
  <1>18. CASE MarkWaiter
    BY <1>18 DEF MarkWaiter
  <1>19. CASE Recheck
    <2>1. notified' \in BOOLEAN /\ flag' \in BOOLEAN /\ held' \in BOOLEAN /\ ready' \in BOOLEAN
      BY <1>19, Zenon DEF Recheck
    <2> QED  BY <1>19, <2>1 DEF Recheck
  <1>20. CASE CvTimeout
    BY <1>20 DEF CvTimeout
  <1>21. CASE LowerFlag
    BY <1>21 DEF LowerFlag
  <1>22. CASE UnmarkWaiter
    BY <1>22 DEF UnmarkWaiter
  <1>23. CASE ClearNotified
    <2>1. notified' \in BOOLEAN /\ flag' \in BOOLEAN /\ held' \in BOOLEAN /\ ready' \in BOOLEAN
      BY <1>23, Zenon DEF ClearNotified
    <2> QED  BY <1>23, <2>1 DEF ClearNotified
  <1>24. CASE FastDrive
    BY <1>24 DEF FastDrive
  <1>25. CASE UNCHANGED vars
    BY <1>25 DEF vars
  <1> QED
    BY <1>1, <1>2, <1>3, <1>4, <1>5, <1>6, <1>7, <1>8, <1>9, <1>10, <1>11, <1>12, <1>13,
       <1>14, <1>15, <1>16, <1>17, <1>18, <1>19, <1>20, <1>21, <1>22, <1>23, <1>24,
       <1>25
       DEF Next, MainRuns, Timeout, ProducerStep

(* Nothing is notified, marked or counted at the start. *)
LEMMA BaseInit == Init => BaseInv
  <1> SUFFICES ASSUME Init PROVE BaseInv
    OBVIOUS
  <1>1. /\ notified \in BOOLEAN /\ flag \in BOOLEAN /\ held \in BOOLEAN /\ ready \in BOOLEAN
        /\ buffer \in [Producers -> BOOLEAN]
    BY Zenon DEF Init
  <1> QED
    BY <1>1, PumpAssumption DEF Init, BaseInv, TypeOK, WaitersInv, SpinInv, Marked

(* What holds of the pump under every memory model. *)
THEOREM BaseInvariant == Spec => []BaseInv
  <1>1. BaseInv /\ [Next]_vars => BaseInv'
    BY BaseStep
  <1> QED  BY <1>1, BaseInit, PTL DEF Spec

(* Which sleep the main thread uses, and where a buffered store can be. *)
LEMMA ModeStep ==
    ASSUME BaseInv, ModeInv, Driver \/ ~Buffered, [Next]_vars
    PROVE  ModeInv'
  <1> USE PumpAssumption DEF BaseInv, ModeInv, TypeOK, Marked, mainVars, prodVars, ProducerGoto
  <1>1. ASSUME NEW p \in Producers, Push(p) PROVE ModeInv'
    BY <1>1 DEF Push
  <1>2. ASSUME NEW p \in Producers, StoreNotified(p) PROVE ModeInv'
    BY <1>2 DEF StoreNotified
  <1>3. ASSUME NEW p \in Producers, FlushStore(p) PROVE ModeInv'
    BY <1>3 DEF FlushStore
  <1>4. ASSUME NEW p \in Producers, WakeDriver(p) PROVE ModeInv'
    BY <1>4 DEF WakeDriver
  <1>5. ASSUME NEW p \in Producers, LoadWaiterCount(p) PROVE ModeInv'
    BY <1>5 DEF LoadWaiterCount
  <1>6. ASSUME NEW p \in Producers, RaiseFlag(p) PROVE ModeInv'
    BY <1>6 DEF RaiseFlag
  <1>7. ASSUME NEW p \in Producers, Signal(p) PROVE ModeInv'
    BY <1>7 DEF Signal
  <1>8. CASE Drain
    BY <1>8 DEF Drain
  <1>9. CASE SwapNotified
    BY <1>9 DEF SwapNotified, Around
  <1>10. CASE BudgetZero
    BY <1>10 DEF BudgetZero, Around
  <1>11. CASE BudgetPositive
    BY <1>11 DEF BudgetPositive
  <1>12. CASE IdleReclaim
    BY <1>12 DEF IdleReclaim
  <1>13. CASE EnableTick
    BY <1>13 DEF EnableTick
  <1>14. CASE TickCheck
    BY <1>14 DEF TickCheck
  <1>15. CASE TickTask
    BY <1>15 DEF TickTask
  <1>16. CASE TickReady
    BY <1>16 DEF TickReady, EndTick
  <1>17. CASE TickTimeout
    BY <1>17 DEF TickTimeout, EndTick
  <1>18. CASE MarkWaiter
    BY <1>18 DEF MarkWaiter
  <1>19. CASE Recheck
    BY <1>19 DEF Recheck
  <1>20. CASE CvTimeout
    BY <1>20 DEF CvTimeout
  <1>21. CASE LowerFlag
    BY <1>21 DEF LowerFlag
  <1>22. CASE UnmarkWaiter
    BY <1>22 DEF UnmarkWaiter
  <1>23. CASE ClearNotified
    BY <1>23 DEF ClearNotified
  <1>24. CASE FastDrive
    BY <1>24 DEF FastDrive
  <1>25. CASE UNCHANGED vars
    BY <1>25 DEF vars
  <1> QED
    BY <1>1, <1>2, <1>3, <1>4, <1>5, <1>6, <1>7, <1>8, <1>9, <1>10, <1>11, <1>12, <1>13,
       <1>14, <1>15, <1>16, <1>17, <1>18, <1>19, <1>20, <1>21, <1>22, <1>23, <1>24,
       <1>25
       DEF Next, MainRuns, Timeout, ProducerStep

(* On its way to sleep the main thread cannot overlook queued work. *)
LEMMA ApproachStep ==
    ASSUME BaseInv, ModeInv, ApproachInv, [Next]_vars
    PROVE  ApproachInv'
  <1> USE PumpAssumption DEF BaseInv, ModeInv, ApproachInv, TypeOK, Marked, mainVars, prodVars,
          ProducerGoto
  <1>1. ASSUME NEW p \in Producers, Push(p) PROVE ApproachInv'
    BY <1>1 DEF Push
  <1>2. ASSUME NEW p \in Producers, StoreNotified(p) PROVE ApproachInv'
    BY <1>2 DEF StoreNotified
  <1>3. ASSUME NEW p \in Producers, FlushStore(p) PROVE ApproachInv'
    BY <1>3 DEF FlushStore
  <1>4. ASSUME NEW p \in Producers, WakeDriver(p) PROVE ApproachInv'
    BY <1>4 DEF WakeDriver
  <1>5. ASSUME NEW p \in Producers, LoadWaiterCount(p) PROVE ApproachInv'
    BY <1>5 DEF LoadWaiterCount
  <1>6. ASSUME NEW p \in Producers, RaiseFlag(p) PROVE ApproachInv'
    BY <1>6 DEF RaiseFlag
  <1>7. ASSUME NEW p \in Producers, Signal(p) PROVE ApproachInv'
    BY <1>7 DEF Signal
  <1>8. CASE Drain
    BY <1>8 DEF Drain
  <1>9. CASE SwapNotified
    BY <1>9 DEF SwapNotified, Around
  <1>10. CASE BudgetZero
    BY <1>10 DEF BudgetZero, Around
  <1>11. CASE BudgetPositive
    BY <1>11 DEF BudgetPositive
  <1>12. CASE IdleReclaim
    BY <1>12 DEF IdleReclaim
  <1>13. CASE EnableTick
    BY <1>13 DEF EnableTick
  <1>14. CASE TickCheck
    BY <1>14 DEF TickCheck
  <1>15. CASE TickTask
    BY <1>15 DEF TickTask
  <1>16. CASE TickReady
    BY <1>16 DEF TickReady, EndTick
  <1>17. CASE TickTimeout
    BY <1>17 DEF TickTimeout, EndTick
  <1>18. CASE MarkWaiter
    BY <1>18 DEF MarkWaiter
  <1>19. CASE Recheck
    BY <1>19 DEF Recheck
  <1>20. CASE CvTimeout
    BY <1>20 DEF CvTimeout
  <1>21. CASE LowerFlag
    BY <1>21 DEF LowerFlag
  <1>22. CASE UnmarkWaiter
    BY <1>22 DEF UnmarkWaiter
  <1>23. CASE ClearNotified
    BY <1>23 DEF ClearNotified
  <1>24. CASE FastDrive
    BY <1>24 DEF FastDrive
  <1>25. CASE UNCHANGED vars
    BY <1>25 DEF vars
  <1> QED
    BY <1>1, <1>2, <1>3, <1>4, <1>5, <1>6, <1>7, <1>8, <1>9, <1>10, <1>11, <1>12, <1>13,
       <1>14, <1>15, <1>16, <1>17, <1>18, <1>19, <1>20, <1>21, <1>22, <1>23, <1>24,
       <1>25
       DEF Next, MainRuns, Timeout, ProducerStep

(* While the main thread sleeps on queued work a wakeup is under way. *)
LEMMA SleepStep ==
    ASSUME BaseInv, ModeInv, ApproachInv, SleepInv, [Next]_vars
    PROVE  SleepInv'
  <1> USE PumpAssumption DEF BaseInv, WaitersInv, ModeInv, ApproachInv, SleepInv, TypeOK, Marked,
          mainVars, prodVars, ProducerGoto
  <1>1. ASSUME NEW p \in Producers, Push(p) PROVE SleepInv'
    BY <1>1 DEF Push
  <1>2. ASSUME NEW p \in Producers, StoreNotified(p) PROVE SleepInv'
    BY <1>2 DEF StoreNotified
  <1>3. ASSUME NEW p \in Producers, FlushStore(p) PROVE SleepInv'
    BY <1>3 DEF FlushStore
  <1>4. ASSUME NEW p \in Producers, WakeDriver(p) PROVE SleepInv'
    BY <1>4 DEF WakeDriver
  <1>5. ASSUME NEW p \in Producers, LoadWaiterCount(p) PROVE SleepInv'
    BY <1>5 DEF LoadWaiterCount
  <1>6. ASSUME NEW p \in Producers, RaiseFlag(p) PROVE SleepInv'
    BY <1>6 DEF RaiseFlag
  <1>7. ASSUME NEW p \in Producers, Signal(p) PROVE SleepInv'
    BY <1>7 DEF Signal
  <1>8. CASE Drain
    BY <1>8 DEF Drain
  <1>9. CASE SwapNotified
    BY <1>9 DEF SwapNotified, Around
  <1>10. CASE BudgetZero
    BY <1>10 DEF BudgetZero, Around
  <1>11. CASE BudgetPositive
    BY <1>11 DEF BudgetPositive
  <1>12. CASE IdleReclaim
    BY <1>12 DEF IdleReclaim
  <1>13. CASE EnableTick
    BY <1>13 DEF EnableTick
  <1>14. CASE TickCheck
    BY <1>14 DEF TickCheck
  <1>15. CASE TickTask
    BY <1>15 DEF TickTask
  <1>16. CASE TickReady
    BY <1>16 DEF TickReady, EndTick
  <1>17. CASE TickTimeout
    BY <1>17 DEF TickTimeout, EndTick
  <1>18. CASE MarkWaiter
    BY <1>18 DEF MarkWaiter
  <1>19. CASE Recheck
    BY <1>19 DEF Recheck
  <1>20. CASE CvTimeout
    BY <1>20 DEF CvTimeout
  <1>21. CASE LowerFlag
    BY <1>21 DEF LowerFlag
  <1>22. CASE UnmarkWaiter
    BY <1>22 DEF UnmarkWaiter
  <1>23. CASE ClearNotified
    BY <1>23 DEF ClearNotified
  <1>24. CASE FastDrive
    BY <1>24 DEF FastDrive
  <1>25. CASE UNCHANGED vars
    BY <1>25 DEF vars
  <1> QED
    BY <1>1, <1>2, <1>3, <1>4, <1>5, <1>6, <1>7, <1>8, <1>9, <1>10, <1>11, <1>12, <1>13,
       <1>14, <1>15, <1>16, <1>17, <1>18, <1>19, <1>20, <1>21, <1>22, <1>23, <1>24,
       <1>25
       DEF Next, MainRuns, Timeout, ProducerStep

(* Where a store cannot be overtaken by the load behind it, or the main thread
   sleeps in the wait driver, the inductive invariant holds. *)
THEOREM PumpInvariant ==
    ASSUME Driver \/ ~Buffered
    PROVE  Spec => []PumpInv
  <1>1. Init => PumpInv
    <2> SUFFICES ASSUME Init PROVE PumpInv
      OBVIOUS
    <2>1. ModeInv /\ ApproachInv /\ SleepInv
      BY DEF Init, ModeInv, ApproachInv, SleepInv, Marked
    <2> QED  BY <2>1, BaseInit DEF BaseInv, PumpInv
  <1>2. PumpInv /\ [Next]_vars => PumpInv'
    BY BaseStep, ModeStep, ApproachStep, SleepStep DEF PumpInv, BaseInv
  <1> QED  BY <1>1, <1>2, PTL DEF Spec

(* The shared state of the pump stays well typed; in particular WAITER_COUNT is
   never negative and never counts the one main thread twice. *)
THEOREM PumpTypes == Spec => []TypeOK
  <1>1. BaseInv => TypeOK
    BY DEF BaseInv
  <1> QED  BY <1>1, BaseInvariant, PTL

(* The spin throttle bounds a hot loop for every value of SPIN_THROTTLE_AFTER,
   however notifies interleave with the budget-0 returns. *)
THEOREM SpinIsBounded == Spec => []SpinBounded
  <1>1. BaseInv => SpinBounded
    BY DEF BaseInv, SpinInv, SpinBounded
  <1> QED  BY <1>1, BaseInvariant, PTL

(* No notify is lost, for any number of producers, where stores are not
   buffered past the load of WAITER_COUNT or the wait driver is installed. *)
THEOREM NoNotifyIsLost ==
    ASSUME Driver \/ ~Buffered
    PROVE  Spec => []NoLostNotify
  <1>1. PumpInv => NoLostNotify
    BY DEF PumpInv, TypeOK, SleepInv, NoLostNotify, Sleeping
  <1> QED  BY <1>1, PumpInvariant, PTL
============================================================================
