SPECIFICATION MemorySpec
CONSTANTS
    a1 = a1
    a2 = a2
    s1 = s1
    s2 = s2
    s3 = s3
    o1 = o1
    o2 = o2
    o3 = o3
    Sessions = {s1, s2, s3}
    Agents = {a1, a2}
    AgentOf <- MCAgentOf
    NoAgent = NoAgent
    Resources = {r1}
    LockTtls <- MCTtls
    Wait = 1
    LastTime = 5
    Keys = {k1, k2}
    Target = target
    Servers = {s1, s2}
    Ttls = {1}
    Forever = 9
    Interval = 2
    Limit = 2
    MaxTime = 2
    MaxPuts = 3
    Old = {o1, o2, o3}
    RowKey <- MCRowKey
    Starters = {s1, s2}
    Plain = Plain
    NoFile = NoFile
    MaxClock = 1
SYMMETRY Symmetry
INVARIANTS
    MemoryTypeOK
    Mutex
    TrustedIsListed
    SearchExact
    NoRowLost
PROPERTIES
    NoSteal
    LiveLossExplained
