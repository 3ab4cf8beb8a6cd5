\* The constants of GcCycle are what its setups have between them.
SPECIFICATION MCSpec
CONSTANTS
    a = a
    b = b
    c = c
    w = w
    x = x
    s1 = s1
    s2 = s2
    r1 = r1
    r2 = r2
    r3 = r3
    t1 = t1
    t2 = t2
    Nil = Nil
    Objects = {a, b, c, w, x}
    Refs = {w, x}
    Targets = {a}
    Leaves = {}
    Slots = {s1, s2}
    Native = {s1}
    Recent = {a, b}
    Records = {r1, r2, r3}
    Tokens = {t1, t2}
    Token <- TokenOf
    MAX_REGISTRY_RESTARTS = 2
INVARIANTS ReachableIsAllocated CycleIsClean WeakIsSound RecordsAreSound
PROPERTIES CollectionEnds
