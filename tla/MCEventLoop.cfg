SPECIFICATION Spec
CONSTANTS
    Jobs = {j1, j2}
    Timers = {t1}
    FlushRounds = 2
INVARIANTS TypeOK NoEarlyExit ParksOnlyWhenIdle
PROPERTIES EveryJobContinues FinishedProgramExits
