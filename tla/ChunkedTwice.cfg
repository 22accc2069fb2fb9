\* Two chunked requests, the second after the first was handled.
SPECIFICATION CkSpec
CONSTANTS
    N = 2
    Requests <- Posts
    Pipelining = FALSE
INVARIANTS
    AssertionHolds
CHECK_DEADLOCK FALSE
