\* A client that waits for each response.
SPECIFICATION FairSpec
CONSTANTS
    N = 3
    HeadLen = 2
    BodyLen <- MCBodyLen
    Plans <- MCPlans
    Pipelining = FALSE
    Apps = {"inline", "error", "denied", "file", "silent"}
    InlineLen = 2
    FileLen <- MCFileLen
    RecvMax = 3
    SendMax = 2
INVARIANTS
    TypeOK
    InOrder
    NothingWaits
    Whole
PROPERTIES
    ImplementsRequestReply
    Progress
CHECK_DEADLOCK FALSE
