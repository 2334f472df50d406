CONSTANTS
    PortStart = 2
    PortEnd = 4
    ServicePorts = {2}
    ListenAddrs = {"any"}
    Remotes = {"r"}
    MaxId = 3
    MaxCmds = 1
    MaxInds = 2
    MaxCrossed = 3
    MaxSockets = 3
SPECIFICATION DemuxSpec
INVARIANTS OneListener
CHECK_DEADLOCK FALSE
