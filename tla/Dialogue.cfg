SPECIFICATION FairSpec

CONSTANTS
    Urls <- MCUrls
    Shape <- MCShape
    Tags = {"work"}
    MaxAttempts = 2
    Wirings = {TRUE, FALSE}
    MaxMessages = 4
    MaxFaults = 2

INVARIANTS
    IndInv
    ClaimsHold
    OpenSessionsHaveACause
    UncheckableLinksLookAlike

PROPERTIES
    MessagesAreAnswered

CHECK_DEADLOCK FALSE
