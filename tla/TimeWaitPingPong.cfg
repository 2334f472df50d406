CONSTANTS
    MSS = 1
    MaxRcvBuffer = 4
    MAX_REXMIT_COUNT = 1
    MAX_SYN_REXMIT_COUNT = 0
    DUPTHRESH = 3
    NagleEnabled = TRUE
    DelayedAcksEnabled = FALSE
    IssStep = 100
    ActiveOpeners = {"A"}
    PassiveOpeners = {"B"}
    Writers = {}
    Closers = {"A", "B"}
    Aborters = {}
    CloseStates = {"SYN_SENT", "ESTABLISHED", "CLOSE_WAIT"}
    SendSizes = {1}
    Cwnds = {2}
    MaxData = 0
    MaxIss = 250
    NetCap = 2
    Lossy = TRUE
    SlowReaders = {}
    EarlyTimeouts = {"A", "B"}
    Duplicating = FALSE
SPECIFICATION FairSpec
PROPERTIES TimeWaitEnds
CHECK_DEADLOCK FALSE
