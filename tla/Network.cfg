CONSTANTS
    Stations = {"a", "b", "r"}
    Remote = {"x"}
    ProxyFor <- MCProxyFor
    Talks <- MCTalks
    RetryCount = 2
    MaxPackets = 2
    MaxCrashes = 1
    Sources = {"s", "t"}
    Ids = 1
    Lengths = {3, 5}
    MaxDatagrams = 2
    Unit = 2
    SourceMtu = 4
    RouterMtus = {2, 4}
    MaxDuplicates = 0
    Clients = {"c", "d"}
    Pool = {1, 2}
    MaxFaults = 2
    Hosts = {"a", "b"}
    Passive = {"b"}
    MaxTag = 8
    MaxInitRetrans = 1
    AssocMaxRetrans = 1
    MaxOnWay = 2
    MaxOpens <- MCOpens
SPECIFICATION NetworkSpec
INVARIANTS NetworkTypesOK WaitingMeansAsking ARPNoFault ResolvedToOwner PacketsKeepOrder WholeDatagrams AddressOnRecord TimersFollowState SCTPTimersRight TagsMirror SCTPFaultsExplained
PROPERTIES NoPacketWaitsForever ReassemblyImplemented ClientsGetLeases EndIsTold SCTPEnds
CHECK_DEADLOCK FALSE
