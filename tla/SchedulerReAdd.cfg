SPECIFICATION FairSpec

CONSTANTS
    c1 = c1
    c2 = c2
    s1 = s1
    s2 = s2
    e1 = e1
    e2 = e2
    None = None
    Links = {1}
    Kind <- AllGitHub
    Broken = {}
    Chats = {c1, c2}
    Scans = {s1}
    BatchSize = 1
    WorkerCount = 1
    PerPage = 3
    OutboxEnabled = TRUE
    Errors = {e1}
    MaxClock = 2
    MaxPerTick = 1
    MaxEdits = 1
    MaxFaults = 0

PROPERTIES
    ChangesAreReported
