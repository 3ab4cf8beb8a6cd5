SPECIFICATION ComposeSpec
CHECK_DEADLOCK FALSE
CONSTANTS
    Engines = {1}
    ProjOf <- OneProject
    Specs <- OneSpec
    Named = {}
    Nets = 0
    Vols = 1
    External = {}
    Bridge = TRUE
    Idempotent = TRUE
    Faults = {"inspect", "run"}
    MaxOps = 3
    MaxFaults = 2
    MaxFresh = 0
    MaxExits = 0
PROPERTIES RollsBackOwn
