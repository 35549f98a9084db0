SPECIFICATION Spec

CONSTANTS
    c1 = c1
    c2 = c2
    s1 = s1
    s2 = s2
    e1 = e1
    e2 = e2
    None = None
    Links = {1, 2, 3}
    Kind <- AllStackOverflow
    Broken = {2, 3}
    Chats = {c1}
    Scans = {s1}
    BatchSize = 2
    WorkerCount = 2
    PerPage = 3
    OutboxEnabled = FALSE
    Errors = {e1}
    MaxClock = 3
    MaxPerTick = 1
    MaxEdits = 1
    MaxFaults = 1

INVARIANTS
    ScanIsComplete
    AtMostOnce
    FetchIsComplete

