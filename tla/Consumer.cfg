SPECIFICATION FairSpec

CONSTANTS
    Records = 4
    Kind <- Mixed
    NumChats = 2
    Blocked <- SecondIsBlocked
    MaxRetries = 1
    MaxFaults = 4

INVARIANTS
    IndInv
    NoOvertaking
    DeliveriesAreBounded
    DeadLetterIsLastResort

PROPERTIES
    ImplementsHop
    RecordsAreSettled

CHECK_DEADLOCK FALSE
