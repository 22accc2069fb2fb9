\* Every configuration, and two requests in each server that starts; two requests for scripts of three calls.
SPECIFICATION Spec
CONSTANTS
    Parts = {"server", "scripts"}
    Configs <- Config
    Uris <- MCUris
    Root = "root"
    NativeUris <- MCNativeUris
    LuaUris <- MCLuaUris
    r1 = r1
    r2 = r2
    c1 = c1
    c2 = c2
    Requests <- MCRequests
    Conns <- MCConns
    ConnOf <- MCConnOf
    InitLoaded = TRUE
    ErrorLen = 2
    BufLen = 5
    MaxRequests = 2
    AcceptHooks = {"none", "clear"}
    FinishedHooks = {"none", "flush", "flush_ct", "clear"}
    MaxArgs = 2
    MaxCalls = 3
INVARIANTS
    RtTypeOK
    LbTypeOK
    Dispatched
    Configured
    CompleteServes
    Isolated
    OutputInOrder
    FailureDiscards
    HookAnswers
CHECK_DEADLOCK FALSE
