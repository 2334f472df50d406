CONSTANTS
    MSS = 2
    MaxRcvBuffer = 4
    MAX_REXMIT_COUNT = 1
    MAX_SYN_REXMIT_COUNT = 0
    DUPTHRESH = 1
    NagleEnabled = TRUE
    DelayedAcksEnabled = TRUE
    IssStep = 100
    ActiveOpeners = {"A"}
    PassiveOpeners = {"B"}
    Writers = {"A"}
    Closers = {"A"}
    Aborters = {}
    CloseStates = {"SYN_SENT", "ESTABLISHED", "CLOSE_WAIT"}
    SendSizes = {1, 3}
    Cwnds = {2, 4}
    MaxData = 3
    MaxIss = 250
    NetCap = 3
    Lossy = TRUE
    SlowReaders = {"B"}
    EarlyTimeouts = {"A", "B"}
    Duplicating = FALSE
SPECIFICATION Spec
INVARIANTS SndVarsOrdered AckedDataWasDelivered SenderHasTimer
CHECK_DEADLOCK FALSE
