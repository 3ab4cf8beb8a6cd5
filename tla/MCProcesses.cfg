SPECIFICATION MCSpec
CHECK_DEADLOCK FALSE
CONSTANTS
    w1 = w1
    w2 = w2
    Workers = {w1, w2}
    MaxConns = 3
    MaxListens = 2
    BufCap = 1
    MaxSlow = 1
    MaxKills = 1
    MayClose = TRUE
    MayLeave = TRUE
    MayFail = TRUE
    MaxVersion = 3
    Good = {0, 1, 3}
    Procs = {p1, p2}
    Threshold = 2
    Eager = FALSE
    MaxInstalls = 3
    MaxPowerLoss = 1
    MaxFailures = 1
    None = None
INVARIANTS UpdateIsSafe ClusterIsSafe EnginesClean
PROPERTIES EnginesSpare ProcessesEnd
