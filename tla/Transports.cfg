SPECIFICATION FairSpec

CONSTANTS
    NumUpdates = 2
    NumChats = 2
    MaxAttempts = 2
    Retryable = {"429", "500"}
    Modes = {"HTTP", "GRPC", "HTTP_ONLY", "KAFKA"}
    MaxFaults = 3

INVARIANTS
    IndInv
    FailureIsHonest

PROPERTIES
    LateMessagesNeedALostAnswer
    CallsReturn

CHECK_DEADLOCK FALSE
