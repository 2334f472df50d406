-------------------------------- MODULE ARP --------------------------------
(***************************************************************************)
(* Address resolution (networklayer/arp/ARP.cc) together with the packets  *)
(* that IPv4 keeps back until an address is known (networklayer/ipv4/      *)
(* IPv4.cc): stations on one broadcast network.  The two modules of a      *)
(* station have a table each, keyed by the next hop's address: ARP its     *)
(* cache, IPv4 the queues of waiting packets.  They agree only through     *)
(* calls (startAddressResolution, getMACAddressFor) and signals (address   *)
(* resolution completed, failed).                                          *)
(*                                                                         *)
(* A station's MAC address is the station itself.  Time is abstract: a     *)
(* timer may expire whenever it runs, an entry may become older than       *)
(* cacheTimeout at any time.  The network loses, delays and reorders       *)
(* frames; stations crash and start again.                                 *)
(***************************************************************************)
EXTENDS Naturals, Sequences

CONSTANTS Stations,     \* stations of the network, each with its own address
          Remote,       \* addresses beyond this network
          ProxyFor,     \* which remote addresses a station answers for
          Talks,        \* bound: the next hops the applications use, <<from, to>>
          RetryCount,   \* retryCount: requests sent before giving up
          MaxPackets,   \* bound: packets the applications of a station send
          MaxCrashes    \* bound: crashes

ASSUME ARPAssumption ==
    /\ ProxyFor \in [Stations -> SUBSET Remote]
    /\ Stations \cap Remote = {}
    /\ Talks \subseteq {t \in Stations \X (Stations \cup Remote) : t[1] # t[2]}
    /\ RetryCount \in Nat \ {0} /\ MaxPackets \in Nat /\ MaxCrashes \in Nat

Addresses == Stations \cup Remote

VARIABLES
    arpCache,        \* ARP: entry per station and address
    pendingPackets,  \* IPv4: packets that wait, per station and next hop
    onWire,          \* packets given to the NIC, per station and next hop
    isUp,            \* the station's node is up
    frames,          \* ARP packets on their way, one copy per receiver
    packets,         \* number of the last packet of each station
    arpFault,        \* an assertion of the code has failed
    crashes          \* number of crashes (bound)

arpVars == <<arpCache, pendingPackets, onWire, isUp, frames, packets,
             arpFault, crashes>>

\* ARPCacheEntry: "absent" stands for no entry in the map; timer tells whether
\* the timeout message is scheduled; fresh, that lastUpdate + cacheTimeout has
\* not passed.
NoMac   == "unspecified"
Entries == [st : {"absent", "pending", "resolved"},
            mac : Stations \cup {NoMac}, fresh : BOOLEAN,
            numRetries : 0 .. RetryCount - 1, timer : BOOLEAN]

Absent == [st |-> "absent", mac |-> NoMac, fresh |-> FALSE,
           numRetries |-> 0, timer |-> FALSE]

ARPFrames == [op : {"REQUEST", "REPLY"}, srcIP : Addresses, srcMAC : Stations,
              destIP : Addresses, to : Stations]

ARPTypeOK ==
    /\ arpCache \in [Stations -> [Addresses -> Entries]]
    /\ pendingPackets \in [Stations -> [Addresses -> Seq(1 .. MaxPackets)]]
    /\ onWire \in [Stations -> [Addresses -> Seq(1 .. MaxPackets)]]
    /\ isUp \in [Stations -> BOOLEAN]
    /\ frames \subseteq ARPFrames
    /\ packets \in [Stations -> 0 .. MaxPackets]
    /\ arpFault \in BOOLEAN
    /\ crashes \in 0 .. MaxCrashes

ARPInit ==
    /\ arpCache = [h \in Stations |-> [a \in Addresses |-> Absent]]
    /\ pendingPackets = [h \in Stations |-> [a \in Addresses |-> <<>>]]
    /\ onWire = [h \in Stations |-> [a \in Addresses |-> <<>>]]
    /\ isUp = [h \in Stations |-> TRUE]
    /\ frames = {}
    /\ packets = [h \in Stations |-> 0]
    /\ arpFault = FALSE
    /\ crashes = 0

-----------------------------------------------------------------------------

\* sendARPRequest(): one copy of the broadcast frame to every other station.
ARPRequests(h, a) ==
    [op : {"REQUEST"}, srcIP : {h}, srcMAC : {h}, destIP : {a},
     to : Stations \ {h}]

\* initiateARPResolution(): the entry it leaves.
Initiated == [Absent EXCEPT !.st = "pending", !.timer = TRUE]

\* updateARPCache(): the entry it leaves.
Updated(mac) == [Absent EXCEPT !.st = "resolved", !.mac = mac, !.fresh = TRUE]

\* addressRecognized(): our own address, or one we can route to elsewhere.
addressRecognized(h, a) == a = h \/ a \in ProxyFor[h]

\* getMACAddressFor(): in the cache, not pending and not expired.
getMACAddressFor(h, a) ==
    IF arpCache[h][a].st = "resolved" /\ arpCache[h][a].fresh
    THEN arpCache[h][a].mac ELSE NoMac

BadArpResolutionCompleted(h, a) ==
    /\ onWire' = [onWire EXCEPT ![h][a] = @ \o pendingPackets[h][a]]
    /\ UNCHANGED pendingPackets

\* arpResolutionCompleted(): the waiting packets leave in order.
arpResolutionCompleted(h, a) ==
    /\ onWire' = [onWire EXCEPT ![h][a] = @ \o pendingPackets[h][a]]
    /\ pendingPackets' = [pendingPackets EXCEPT ![h][a] = <<>>]

-----------------------------------------------------------------------------

\* IPv4::sendDatagramToOutput() on a broadcast interface, the next hop unknown:
\* the packet waits, and startAddressResolution() asks unless it has asked.
Wait(h, a) ==
    /\ pendingPackets' = [pendingPackets EXCEPT ![h][a] = Append(@, packets'[h])]
    /\ IF arpCache[h][a].st = "pending"
       THEN UNCHANGED <<arpCache, frames>>
       ELSE /\ arpCache' = [arpCache EXCEPT ![h][a] = Initiated]
            /\ frames' = frames \cup ARPRequests(h, a)
    /\ UNCHANGED <<onWire, arpFault>>

\* The next hop is known: ASSERT2 that nothing waits for it, then send.
SendNow(h, a) ==
    /\ arpFault' = (arpFault \/ pendingPackets[h][a] # <<>>)
    /\ onWire' = [onWire EXCEPT ![h][a] = Append(@, packets'[h])]
    /\ UNCHANGED <<arpCache, pendingPackets, frames>>

SendDatagram(h, a) ==
    /\ isUp[h] /\ <<h, a>> \in Talks /\ packets[h] < MaxPackets
    /\ packets' = [packets EXCEPT ![h] = @ + 1]
    /\ IF getMACAddressFor(h, a) = NoMac THEN Wait(h, a) ELSE SendNow(h, a)
    /\ UNCHANGED <<isUp, crashes>>

\* requestTimedOut(), retries left: the request is repeated.
Retry(h, a) ==
    /\ arpCache' = [arpCache EXCEPT ![h][a].numRetries = @ + 1]
    /\ frames' = frames \cup ARPRequests(h, a)
    /\ UNCHANGED <<pendingPackets, onWire>>

BadGiveUp(h, a) ==
    /\ arpCache' = [arpCache EXCEPT ![h][a] = Absent]
    /\ UNCHANGED <<pendingPackets, onWire, frames>>

\* requestTimedOut(), no retries left: arpResolutionTimedOut() of IPv4 drops
\* the packets that wait, then the entry is erased.
GiveUp(h, a) ==
    /\ pendingPackets' = [pendingPackets EXCEPT ![h][a] = <<>>]
    /\ arpCache' = [arpCache EXCEPT ![h][a] = Absent]
    /\ UNCHANGED <<onWire, frames>>

MoreRetries(h, a) == arpCache[h][a].numRetries + 1 < RetryCount

RequestTimedOut(h, a) ==
    /\ arpCache[h][a].timer
    /\ arpFault' = (arpFault \/ ~isUp[h])
    /\ IF MoreRetries(h, a) THEN Retry(h, a) ELSE GiveUp(h, a)
    /\ UNCHANGED <<isUp, packets, crashes>>

BadReply(h, f) == [op |-> "REPLY", srcIP |-> f.destIP, srcMAC |-> f.srcMAC,
                   destIP |-> f.srcIP, to |-> f.srcMAC]

\* The reply to request f: addresses swapped.
Reply(h, f) == [op |-> "REPLY", srcIP |-> f.destIP, srcMAC |-> h,
                destIP |-> f.srcIP, to |-> f.srcMAC]

\* processARPPacket(): the sender's entry is updated when there is one, and
\* created when the packet is for us; a request for us is answered.  Each
\* update signals that the resolution is complete.
ProcessARPPacket(h, f) ==
    LET known == arpCache[h][f.srcIP].st # "absent"
        forUs == addressRecognized(h, f.destIP)
    IN  /\ IF known \/ forUs
           THEN /\ arpCache' = [arpCache EXCEPT ![h][f.srcIP] = Updated(f.srcMAC)]
                /\ arpResolutionCompleted(h, f.srcIP)
           ELSE UNCHANGED <<arpCache, pendingPackets, onWire>>
        /\ frames' = (frames \ {f}) \cup
                     (IF forUs /\ f.op = "REQUEST" THEN {Reply(h, f)} ELSE {})

\* handleMessage(): a frame that reaches a station that is down is dropped.
FrameArrives(h, f) ==
    /\ f \in frames /\ f.to = h
    /\ IF isUp[h]
       THEN ProcessARPPacket(h, f)
       ELSE /\ frames' = frames \ {f}
            /\ UNCHANGED <<arpCache, pendingPackets, onWire>>
    /\ UNCHANGED <<isUp, packets, arpFault, crashes>>

\* An entry gets older than cacheTimeout.
EntryExpires(h, a) ==
    /\ arpCache[h][a].fresh
    /\ arpCache' = [arpCache EXCEPT ![h][a].fresh = FALSE]
    /\ UNCHANGED <<pendingPackets, onWire, isUp, frames, packets, arpFault,
                   crashes>>

\* NodeShutdownOperation and NodeCrashOperation: ARP::flush() and IPv4::flush().
Stop(h) ==
    /\ isUp[h] /\ crashes < MaxCrashes
    /\ isUp' = [isUp EXCEPT ![h] = FALSE]
    /\ arpCache' = [arpCache EXCEPT ![h] = [a \in Addresses |-> Absent]]
    /\ pendingPackets' = [pendingPackets EXCEPT ![h] = [a \in Addresses |-> <<>>]]
    /\ crashes' = crashes + 1
    /\ UNCHANGED <<onWire, frames, packets, arpFault>>

\* NodeStartOperation: ARP::start() asserts that the cache is empty.
Start(h) ==
    /\ ~isUp[h]
    /\ isUp' = [isUp EXCEPT ![h] = TRUE]
    /\ arpFault' = (arpFault \/ \E a \in Addresses : arpCache[h][a].st # "absent")
    /\ UNCHANGED <<arpCache, pendingPackets, onWire, frames, packets, crashes>>

LoseFrame(f) ==
    /\ f \in frames
    /\ frames' = frames \ {f}
    /\ UNCHANGED <<arpCache, pendingPackets, onWire, isUp, packets, arpFault,
                   crashes>>

ARPNext ==
    \/ \E h \in Stations : \E a \in Addresses :
          SendDatagram(h, a) \/ RequestTimedOut(h, a) \/ EntryExpires(h, a)
    \/ \E h \in Stations : \E f \in frames : FrameArrives(h, f)
    \/ \E h \in Stations : Stop(h) \/ Start(h)
    \/ \E f \in frames : LoseFrame(f)

\* The simulator delivers every timer message it has scheduled.
ARPFairness ==
    \A t \in Talks : WF_arpVars(RequestTimedOut(t[1], t[2]))

ARPSpec == ARPInit /\ [][ARPNext]_arpVars /\ ARPFairness

-----------------------------------------------------------------------------

\* The tables of the two modules agree: packets wait for an address only while
\* ARP is asking for it, and it is asking only with its timer running and the
\* node up.  Otherwise a packet waits for an answer nobody will ask for, or
\* overtakes it (ASSERT2 in sendDatagramToOutput).
WaitingMeansAsking ==
    \A h \in Stations : \A a \in Addresses :
        /\ pendingPackets[h][a] # <<>> => arpCache[h][a].st = "pending"
        /\ arpCache[h][a].st = "pending" <=> arpCache[h][a].timer
        /\ arpCache[h][a].timer => isUp[h]

\* No assertion of ARP or IPv4 fails and no timer reaches a node that is down.
ARPNoFault == ~arpFault

\* An address is resolved to a station that has it or answers for it, also
\* when answers to requests of an earlier resolution, or of a life before a
\* crash, arrive late.
ResolvedToOwner ==
    \A h \in Stations : \A a \in Addresses :
        arpCache[h][a].st = "resolved" =>
            /\ arpCache[h][a].mac \in Stations
            /\ addressRecognized(arpCache[h][a].mac, a)

\* Packets to one next hop leave in the order IPv4 sent them, whether they
\* waited for the address or not.
PacketsKeepOrder ==
    \A h \in Stations : \A a \in Addresses :
        \A i, j \in DOMAIN onWire[h][a] :
            i < j => onWire[h][a][i] < onWire[h][a][j]

\* No packet waits for ever: it is sent, or dropped when the retries are used up.
NoPacketWaitsForever ==
    \A t \in Talks :
        pendingPackets[t[1]][t[2]] # <<>> ~> pendingPackets[t[1]][t[2]] = <<>>

=============================================================================
