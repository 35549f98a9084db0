SPECIFICATION FairSpec

CONSTANTS
    c1 = c1
    c2 = c2
    l1 = l1
    never = never
    t1 = t1
    Times = {never, t1}
    Never = never
    n1 = n1
    n2 = n2
    h1 = h1
    h2 = h2
    None = None
    Handlers = {h1, h2}
    Chats = {c1, c2}
    Links = {l1}
    Names = {n1, n2}
    Offered <- ChatAndNeighbour
    MaxWrites = 2
    MaxScans = 1
    MaxFaults = 1

INVARIANTS
    IndInv
    StalenessHasACause

PROPERTIES
    StalenessEnds
