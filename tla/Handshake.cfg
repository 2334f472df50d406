CONSTANTS
    MSS = 1
    MaxRcvBuffer = 4
    MAX_REXMIT_COUNT = 0
    MAX_SYN_REXMIT_COUNT = 1
    DUPTHRESH = 3
    NagleEnabled = TRUE
    DelayedAcksEnabled = FALSE
    IssStep = 100
    ActiveOpeners = {"A", "B"}
    PassiveOpeners = {"B"}
    Writers = {}
    Closers = {"A"}
    Aborters = {"B"}
    CloseStates = {"SYN_SENT", "LISTEN", "ESTABLISHED"}
    SendSizes = {1}
    Cwnds = {2}
    MaxData = 0
    MaxIss = 350
    NetCap = 2
    Lossy = TRUE
    SlowReaders = {}
    EarlyTimeouts = {"A", "B"}
    Duplicating = TRUE
    PortStart = 2
    PortEnd = 4
    ServicePorts = {2}
    ListenAddrs = {"any"}
    Remotes = {"r"}
    MaxId = 3
    MaxCmds = 1
    MaxInds = 1
    MaxCrossed = 1
    MaxSockets = 2
SPECIFICATION TCPSpec
INVARIANTS TypeOK NoFault HandshakeIsTimed EndsAgree
INVARIANTS TablesAgree PortsCounted FaultsExplained SocketsAgree
CHECK_DEADLOCK FALSE
