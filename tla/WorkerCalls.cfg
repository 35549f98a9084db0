SPECIFICATION FairSpec

CONSTANTS
    w1 = w1
    w2 = w2
    Callers = {w1, w2}
    Handlers = {w1, w2}
    Address <- MCAddress
    MinimumRequests = 2
    Threshold = 50
    Permitted = 2
    MaxRequests = 2
    Rate = 1
    Burst = 2
    Cleanup = 1
    TTL = 3
    MaxPause = 1

INVARIANTS
    IndInv

PROPERTIES
    DecidesOnItsProbes
    Recovers
    ImplementsTokenBucket
