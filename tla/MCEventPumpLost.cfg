\* The build without a wait driver on x86-64.
SPECIFICATION Spec
CONSTANTS
    Producers = {p1, p2}
    MaxPushes = 2
    SpinThrottleAfter = 2
    Driver = FALSE
    Buffered = TRUE
INVARIANTS NoLostNotify
