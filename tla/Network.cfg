\* The loop with two connections besides the listener; a resolution; linked pairs.
SPECIFICATION FairSpec
CONSTANTS
    Parts = {"loop", "resolver", "links"}
    EvConns = {1, 2, 3}
    EvUdp = {TRUE, FALSE}
    EvRecvMax = 1
    EvIn = 2
    EvSources = {"a"}
    EvClients = 1
    EvDatagrams = 2
    EvActs = 2
    RsRetries = 2
    RsTimeout = 2
    RsAnswers = 2
    LkModes = {"cgi", "proxy"}
    LkHead = 2
    LkOut = {0, 1, 3}
    LkPost = {0, 1}
INVARIANTS
    TypeOK
    WalksHold
    Called
    Buffered
    OneChild
    FreedAll
    Resolves
    Reported
    Unlinks
    CgiAnswer
PROPERTIES
    Settles
CHECK_DEADLOCK FALSE
