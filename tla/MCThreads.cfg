SPECIFICATION MCSpec
CONSTANTS
    Waiters = {w1, w2}
    Notifiers = {n1}
    Slots = {s1}
    Values = {v0, v1}
    MaxOps = 2
    NoOne = NoOne
    Tokens = {t1}
    Threads = {main, a1, a2}
    Main = main
    MaxCalls = 1
    Nil = Nil
INVARIANTS TypeOK NoLostWakeup ExactlyOneOutcome NoStaleWaiter
           ExactlyOnce HandlesFollowSettlement NeverFreedEarly
PROPERTIES WaitsReturn ImplementsAbstract AcceptedSettles
