SPECIFICATION Spec
CONSTANTS
    Threads = {t1}
    Agents = {a1}
    Admin = Admin
    Ttl = 2
    Sla = 4
    MaxTime = 5
    MaxOrders = 3
    MaxFaults = 0
SYMMETRY Symmetry
INVARIANT PropagationSla
