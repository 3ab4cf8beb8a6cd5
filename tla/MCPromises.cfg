SPECIFICATION MCSpec
CONSTANTS
    p1 = p1
    p2 = p2
    a1 = a1
    a2 = a2
    None = None
    Kinds = {"promise", "pass", "inline", "micro", "step", "tick"}
    Esm = TRUE
    MaxTasks = 3
    MaxDepth = 3
    MaxThrows = 3
    Promises = {p1, p2}
    Addrs = {a1, a2}
    MaxReported = 1
    MaxListenerThrows = 1
    MaxMoves = 1
    Nil = Nil
INVARIANTS Types ChainFollowsJob SurfacesAtZero
PROPERTIES QueuesDrain ReportsUnhandled
\* A program with nothing queued is over.
CHECK_DEADLOCK FALSE
