\* The file server, against what the documentation of its options says.
SPECIFICATION Spec
CONSTANTS
    Parts = {"files"}
    CallFns = {}
    N = 2
    Requests <- AnyMethod
    Pipelining = FALSE
    UpBodies <- Bodies
    UpFaults = {TRUE, FALSE}
    WsPlans <- FramePlans
    WsIdle = 1
    WsPings = 1
    MqClients = {1, 2}
    MqPlans <- ClientPlans
    MqMaxSubs = 5
    SnAttempts = 1
    SnTimeout = 2
    SnReplies = 2
    SnDatagrams <- Replies
    SoOut = 2
    SoBack = 2
    TuIds = {1, 2}
    TuDials = 2
    TuFrames = 1
    SfSetups <- Setups
    SfRequests <- FileRequests
    SfCalls = 2
    SfLast = 2
INVARIANTS
    OptionsExplained
CHECK_DEADLOCK FALSE
