CONSTANTS
    Half = 8
    Span = 7
    MaxPos = 40
    SackMSS = 2
    InitialCwnd = 8
    SackNagle = TRUE
    Window = 100
    Writes = {8, 10}
    MaxWritten = 10
    MaxTimeouts = 2
    MaxLosses = 1
    Routers = {1, 2}
    HeadersPerDD = 1
    MaxVersion = 7
    MaxDDSeq = 9
    MaxTransit = 7
    MaxDisturbances = 1
    Bridges = {1, 2, 3, 4}
    NumPorts = 2
    Cable <- MCCable
    MaxAge = 4
    ForwardDelay = 3
    Phases = 2
    Stoppers = {2, 3}
    MaxHops = 10
    MaxCrashes = 1
SPECIFICATION ComponentsSpec
INVARIANTS CodeFollowsPositions ScoreboardTrue FullMeansSynchronized OSPFTimersRight LoopFree
PROPERTIES OSPFAdjacencyForms SpanningTreeForms RootHearsOfChanges
CHECK_DEADLOCK FALSE
