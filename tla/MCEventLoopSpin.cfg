SPECIFICATION Spec
CONSTANTS
    Jobs = {j1}
    Timers = {t1}
    FlushRounds = 2
PROPERTIES BlocksUntilEvent
