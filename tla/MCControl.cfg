SPECIFICATION ControlSpec
CONSTANTS
    Threads = {t1, t2}
    Agents = {a1}
    Admin = Admin
    Ttl = 1
    Sla = 2
    MaxTime = 2
    MaxOrders = 2
    MaxFaults = 1
    Callers = {c1}
    Window = 3
    MaxCalls = 2
    Forward = {2}
    Backward = {1, 4}
    MaxSeconds = 9
    MaxJumps = 2
    Slots = {1, 2}
    MaxThreads = 2
    MaxDisk = 2
SYMMETRY Symmetry
INVARIANTS
    ControlTypeOK
    RevocationBounded
    RefreshAgrees
    WindowAgrees
PROPERTY RateBounded
