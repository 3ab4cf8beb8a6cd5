\* Two timers; a ref registry that holds one id.
SPECIFICATION MCSpec
CONSTANTS
    main = main
    ui = ui
    worker = worker
    Primary = Primary
    None = None
    Pumps = {main, ui}
    Workers = {worker}
    Ops = {"timeout", "immediate", "interval", "promise", "clear", "ref", "unref", "refresh", "await", "pump"}
    AwaitWhat = "queued"
    Handles = {FALSE}
    Delays = {0, 1}
    MaxTimers = 2
    MaxTime = 1
    MaxDepth = 2
    Cap = 1
INVARIANTS TypeOK ExactlyOnce HeapAlive
PROPERTIES DeadlineOrder TimersSettle
\* A program without timers is over.
CHECK_DEADLOCK FALSE
