SPECIFICATION FairSpec

CONSTANTS
    Records = 4
    Kind <- OneOfEach
    NumChats = 2
    MaxRetries = 1
    Summarizer <- Mended
    MaxFaults = 2

INVARIANTS
    IndInv
    CommittedIsKept
    GroupsAreInOrder
    RepetitionsNeedARestart

PROPERTIES
    ExitLeavesNoBuffer
    UpdatesLeave

CHECK_DEADLOCK FALSE
