\* Four functions, against what the comments of the code say of them.
SPECIFICATION Spec
CONSTANTS
    Parts = {"calls"}
    CallFns = {"dns", "match", "acl", "path"}
    N = 2
    Requests <- AnyMethod
    Pipelining = FALSE
    UpBodies <- Bodies
    UpFaults = {TRUE, FALSE}
    WsPlans <- FramePlans
    WsIdle = 1
    WsPings = 1
    MqClients = {1, 2}
    MqPlans <- ClientPlans
    MqMaxSubs = 5
    SnAttempts = 1
    SnTimeout = 2
    SnReplies = 2
    SnDatagrams <- Replies
    SoOut = 2
    SoBack = 2
    TuIds = {1, 2}
    TuDials = 2
    TuFrames = 1
    SfSetups <- Setups
    SfRequests <- FileRequests
    SfCalls = 2
    SfLast = 2
INVARIANTS
    CallsAsExplained
CHECK_DEADLOCK FALSE
