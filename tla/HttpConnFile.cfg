\* A client that does not wait, and asks for files.
SPECIFICATION Spec
CONSTANTS
    N = 2
    HeadLen = 2
    BodyLen <- MCBodyLen
    Plans <- MCTwo
    Pipelining = TRUE
    Apps = {"file"}
    InlineLen = 2
    FileLen <- MCFileLen
    RecvMax = 3
    SendMax = 2
INVARIANTS
    SentCounts
CHECK_DEADLOCK FALSE
