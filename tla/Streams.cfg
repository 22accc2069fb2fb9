\* Each part on its own; the functions without state on arguments around their bounds.
SPECIFICATION Spec
CONSTANTS
    Parts = {"chunked", "uploads", "websocket", "mqtt", "sntp", "socks", "tunnel", "files", "calls"}
    CallFns = {"dns", "name", "alias", "coap", "connect", "length", "publish", "subscribe", "mbuf", "hash", "encode", "print",
        "compare", "path", "normalize", "uri", "match", "variables", "acl", "ssi", "endpoint", "headers", "form"}
    N = 2
    Requests <- AnyMethod
    Pipelining = FALSE
    UpBodies <- Bodies
    UpFaults = {TRUE, FALSE}
    WsPlans <- FramePlans
    WsIdle = 1
    WsPings = 1
    MqClients = {1, 2}
    MqPlans <- ClientPlans
    MqMaxSubs = 5
    SnAttempts = 1
    SnTimeout = 2
    SnReplies = 2
    SnDatagrams <- Replies
    SoOut = 2
    SoBack = 2
    TuIds = {1, 2}
    TuDials = 2
    TuFrames = 1
    SfSetups <- Setups
    SfRequests <- FileRequests
    SfCalls = 2
    SfLast = 2
INVARIANTS
    TypeOK
    Decoded
    HandedOver
    AbortsAfterBody
    UploadsWhole
    FramesArrive
    Brokered
    SntpOnce
    
    StreamsEnd
    Served
PROPERTIES
    MessagesRead
    TextsRead
    ScriptsRead
CHECK_DEADLOCK FALSE
