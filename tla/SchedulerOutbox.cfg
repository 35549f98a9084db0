SPECIFICATION FairSpec

CONSTANTS
    c1 = c1
    c2 = c2
    s1 = s1
    s2 = s2
    e1 = e1
    e2 = e2
    None = None
    Links = {1, 2}
    Kind <- AllGitHub
    Broken = {2}
    Chats = {c1}
    Scans = {s1}
    BatchSize = 1
    WorkerCount = 1
    PerPage = 1
    OutboxEnabled = TRUE
    Errors = {e1}
    MaxClock = 3
    MaxPerTick = 1
    MaxEdits = 1
    MaxFaults = 2

INVARIANTS
    NothingIsLost

PROPERTIES
    LinksKeepBeingChecked
    UpdatesAreHanded
