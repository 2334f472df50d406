CONSTANTS
    MSS = 2
    MaxRcvBuffer = 4
    MAX_REXMIT_COUNT = 1
    MAX_SYN_REXMIT_COUNT = 0
    DUPTHRESH = 3
    NagleEnabled = FALSE
    DelayedAcksEnabled = FALSE
    IssStep = 100
    ActiveOpeners = {"A"}
    PassiveOpeners = {"B"}
    Writers = {"A"}
    Closers = {"A"}
    Aborters = {}
    CloseStates = {"SYN_SENT", "ESTABLISHED", "CLOSE_WAIT"}
    SendSizes = {1, 2}
    Cwnds = {2, 4}
    MaxData = 5
    MaxIss = 250
    NetCap = 3
    Lossy = TRUE
    SlowReaders = {}
    EarlyTimeouts = {}
    Duplicating = FALSE
SPECIFICATION Spec
INVARIANTS NoDataLostAtEOF
CHECK_DEADLOCK FALSE
