\* Two producers of two items each, every build.
SPECIFICATION MCSpec
CONSTANTS
    Producers = {p1, p2}
    MaxPushes = 2
    SpinThrottleAfter = 2
    Driver = FALSE
    Buffered = FALSE
INVARIANTS TypeOK WakeupsSuffice SpinBounded
PROPERTIES QueuedIsDrained
