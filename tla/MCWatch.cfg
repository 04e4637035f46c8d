SPECIFICATION WatchSpec
CONSTANTS
    Files = {f1, f2}
    PollTick = 4
    EventTick = 1
    Debounce = 6
    MaxEdits = 3
    Writers = {w1, w2}
    Worker = worker
    Closer = closer
    Querier = querier
    BatchSize = 1
    MaxEntries = 2
    MaxFailures = 1
    MaxOrders = 2
    MaxMisses = 1
    MaxMail = 2
INVARIANTS
    WatchTypeOK
    EntriesKept
PROPERTIES
    RunsQuiet
    NoIdleRun
    WaitingChangeIndexed
    EveryEntryWritten
    DesktopSettles
