SPECIFICATION FairSpec

CONSTANTS
    m1 = m1
    m2 = m2
    m3 = m3
    r1 = r1
    r2 = r2
    None = None
    CreatedAt <- MCCreatedAt
    Messages = {m1, m2, m3}
    Runs = {r1, r2}
    Poison = {m2}
    BatchSize = 2
    MaxAttempts = 1
    MaxFaults = 2

INVARIANTS
    IndInv
    DuplicatesAreBounded

PROPERTIES
    ImplementsHop
    EventuallySent
