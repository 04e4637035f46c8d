SPECIFICATION ContentsSpec
CONSTANTS
    a = a
    b = b
    c = c
    Paths = {a, b, c}
    TextsOf <- TextsAB
    FirstText <- FirstAB
    Absent = Absent
    None = None
    Racy = 2
    Granularity = 2
    MaxTime = 3
    MaxEdits = 2
    MaxTasks = 6
    PoolMinFiles = 3
    PerProcess = 1
    MaxChunk = 2
    Processes = {p1, p2}
    Nodes = {1, 2, 3, 4}
    NoTarget = NoTarget
    Requests <- MCRequests
    Inputs <- MCInputs
    Shares <- MCShares
    CallersK = 1
    Base = 90
    Envelope = 150
    HitBytes = 320
    Bodies <- MCBodies
    Neighbours <- MCNear
    Budgets = {9, 10, 11, 12, 13, 14, 15, 16, 18, 20}
    Frame = 5
    Root = 2
    Warning = 2
    OmittedId = 1
    Asked <- MCAsked
    FileCap = 2
    AndFetch = 2
    OrFetch = 3
    Lead = 1
    Around = 20
    EdgeBytes = 6
    StaleBytes = 12
    DigestBytes = 6
    RefBytes = 3
    NoticeBytes = 8
    KeptBack = 4
    KeptFrom = 24
    ServerCap = 110
    JvmCalls <- MCJvmCalls
    Aliases <- MCAliases
    BoxedNames = {"Integer"}
    Widening <- MCWidening
    StringSupertypes = {"CharSequence"}
    TypeParameters = {"T"}
    Capitalised = {"A", "B", "N", "Map"}
    Unreceivable = {"int"}
    Unread = Unread
INVARIANTS
    ContentsTypeOK
    ReadsTheTree
    EdgesRight
    PoolExact
    WalksExact
    WithinBudget
    WindowsReadBody
    AnswersHonest
