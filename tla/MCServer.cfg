SPECIFICATION ServerSpec
CONSTANTS
    x1 = x1
    x2 = x2
    y1 = y1
    y2 = y2
    Threads = {x1, x2}
    Runs = {r1, r2}
    NoRun = NoRun
    FirstRun = r1
    Unversioned = Unversioned
    PointerTtl = 1
    GcAge = 2
    MaxTime = 3
    Getters = {x1, x2}
    Keys <- MCKeys
    Capacity = 2
    MaxLoads = 4
    RootPaths = {x1, x2}
    DeepPaths = {d}
    Contents = {y1, y2}
    Ttl = 1
    MaxClock = 3
    MaxChanges = 2
    Repos = {z1, z2}
    Commands = {y1, y2}
    ConfigReaders = {x1, x2}
    Torn = Torn
    NoTemp = NoTemp
    MaxTick = 2
    MaxSaves = 2
    Symbols <- MCSymbols
    LastRun = 2
    Views = {"minimal", "normal", "full"}
    Batches <- MCBatches
    MaxOperations = 3
SYMMETRY Symmetry
INVARIANTS
    ServerTypeOK
    ServesRecent
    FailuresExplained
    GraphsShared
    FreshWithinTtl
    RegisteredStays
    ServesTheRegistry
    WorkflowsAgree
