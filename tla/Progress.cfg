CONSTANTS
    MSS = 1
    MaxRcvBuffer = 4
    MAX_REXMIT_COUNT = 1
    MAX_SYN_REXMIT_COUNT = 0
    DUPTHRESH = 3
    NagleEnabled = TRUE
    DelayedAcksEnabled = FALSE
    IssStep = 100
    ActiveOpeners = {"A"}
    PassiveOpeners = {"B"}
    Writers = {"A"}
    Closers = {"A", "B"}
    Aborters = {}
    CloseStates = {"SYN_SENT", "ESTABLISHED", "CLOSE_WAIT"}
    SendSizes = {1, 2}
    Cwnds = {1, 2}
    MaxData = 2
    MaxIss = 250
    NetCap = 2
    Lossy = TRUE
    SlowReaders = {}
    EarlyTimeouts = {}
    Duplicating = FALSE
SPECIFICATION FairSpec
PROPERTIES DataArrives ClosesComplete
CHECK_DEADLOCK FALSE
