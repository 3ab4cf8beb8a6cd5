SPECIFICATION Spec
CONSTANTS
    Agents = {a1, a2}
    Slots = {s1}
    Width = 2
    Int32 = TRUE
    MaxOps = 2
PROPERTIES NoUpdateIsLost
CHECK_DEADLOCK FALSE
