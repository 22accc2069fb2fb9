\* A client, and another server that answers for it.
SPECIFICATION Spec
CONSTANTS
    Parts = {"links"}
    EvConns = {1, 2, 3}
    EvUdp = {FALSE}
    EvRecvMax = 1
    EvIn = 2
    EvSources = {"a"}
    EvClients = 1
    EvDatagrams = 2
    EvActs = 2
    RsRetries = 2
    RsTimeout = 2
    RsAnswers = 2
    LkModes = {"proxy"}
    LkHead = 2
    LkOut = {0, 1, 3}
    LkPost = {0, 1}
INVARIANTS
    ProxyTogether
CHECK_DEADLOCK FALSE
