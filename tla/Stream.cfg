CONSTANTS
    MSS = 2
    MaxRcvBuffer = 4
    MAX_REXMIT_COUNT = 1
    MAX_SYN_REXMIT_COUNT = 0
    DUPTHRESH = 3
    NagleEnabled = FALSE
    DelayedAcksEnabled = FALSE
    IssStep = 100
    ActiveOpeners = {"A"}
    PassiveOpeners = {"B"}
    Writers = {"A", "B"}
    Closers = {"A", "B"}
    Aborters = {"B"}
    CloseStates = {"SYN_SENT", "ESTABLISHED", "CLOSE_WAIT"}
    SendSizes = {1, 2}
    Cwnds = {2}
    MaxData = 2
    MaxIss = 250
    NetCap = 2
    Lossy = TRUE
    SlowReaders = {}
    EarlyTimeouts = {}
    Duplicating = FALSE
SPECIFICATION Spec
INVARIANTS TimeWaitIsTimed IndicationsInOrder
PROPERTIES StreamSpec
CHECK_DEADLOCK FALSE
