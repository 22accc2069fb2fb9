\* A client that does not wait.
SPECIFICATION Spec
CONSTANTS
    N = 2
    HeadLen = 2
    BodyLen <- MCBodyLen
    Plans <- MCTwo
    Pipelining = TRUE
    Apps = {"inline"}
    InlineLen = 2
    FileLen <- MCFileLen
    RecvMax = 3
    SendMax = 2
INVARIANTS
    ChunkMeansMore
CHECK_DEADLOCK FALSE
