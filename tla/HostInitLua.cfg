SPECIFICATION Spec
CONSTANTS
    Parts = {"server"}
    Configs <- Config
    Uris <- MCUris
    Root = "root"
    NativeUris <- MCNativeUris
    LuaUris <- MCLuaUris
    r1 = r1
    r2 = r2
    c1 = c1
    c2 = c2
    Requests <- MCRequests
    Conns <- MCConns
    ConnOf <- MCConnOf
    InitLoaded = TRUE
    ErrorLen = 2
    BufLen = 5
    MaxRequests = 0
    AcceptHooks = {"none"}
    FinishedHooks = {"none"}
    MaxArgs = 1
    MaxCalls = 0
INVARIANT RemovingNativeKeepsLua
CHECK_DEADLOCK FALSE
