# A formal model of INET

INET is a library of network protocols for the discrete event simulator
OMNeT++.  This directory models protocol code of `src/inet/src` in TLA+.  TLC
checks the models on small instances, TLAPS proves theorems about them for every
value of the constants.  `PROJECT.json` relates every definition to the lines it
stands for, and lists runs, properties, faulty variants, hazards and findings.

The simulation is single-threaded: an event (an application command, a packet, a
timer message) runs one handler to its end.  Inside one module there are no data
races.  What is hard is the interleaving of events of different modules over a
network that loses, duplicates and reorders, retries that race with late answers,
nodes that stop and start again, tables of two modules that must agree, and long
sequences of legal calls.

## 1. Inventory

### 1.1 TCP (`transport/tcp`)

| Part | State it keeps | Operations | Talks to |
|---|---|---|---|
| `TCPConnection` (`TCPConnectionBase/EventProc/RcvSegment/Util.cc`) | the FSM state, the TCB `TCPStateVariables` (send and receive sequence variables, flags of FINs, retransmission counters), four timer messages | `processTCPSegment`, `processAppCommand` (OPEN, SEND, CLOSE, ABORT), `processTimer`, `performStateTransition` / `stateEntered` | its queues and its `TCPAlgorithm` (calls), `TCP` (return value "delete me"), the application (indications), the peer (segments) |
| `TCPAlgorithm`: `TCPBaseAlg`, `TCPTahoe` and other flavours | REXMIT, PERSIST, DELAYED-ACK timers, `rexmit_count`, congestion window, RTT estimate | `receivedDataAck`, `receivedDuplicateAck`, `receiveSeqChanged`, `dataSent`, `ackSent`, `sendCommandInvoked`, timer handlers | calls back into the connection (`sendData`, `retransmitOneSegment`, `sendAck`) |
| send queue, receive queue | the bytes not acknowledged; the regions received but not deliverable | `enqueueAppData`, `createSegmentWithBytes`, `discardUpTo`; `insertBytesFromSegment`, `extractBytesUpTo` | `TCPConnection` |
| selective acknowledgments (`TCPConnectionSackUtil.cc`, `TCPSACKRexmitQueue.cc`, `TCPReno.cc`) | the receiver's list of blocks; the sender's scoreboard of regions (sacked, rexmitted), `pipe`, `recoveryPoint` | `addSacks`; `processSACKOption`, `setPipe`, `nextSeg`, `sendDataDuringLossRecoveryPhase` | the queues (borders of regions), `TCPReno` (calls in both directions) |
| sequence numbers (`TCPSegment.h`) | none | `seqLess`, `seqLE`, `seqGreater`, `seqGE` on 32 bits | all of the above |
| `TCP` (`TCP.cc`) | the connections by application id and by socket pair, used ephemeral ports | `handleMessage`, `findConnForSegment`, `segmentArrivalWhileClosed`, `addForkedConnection`, `removeConnection`, `reset` | IP, applications, connections |
| `TCPSocket` | the application's idea of the connection's state | `connect`, `listen`, `send`, `close`, `abort`, `processMessage` | application and `TCP` |

What makes TCP correct:

* *byte stream*: what an application reads is a prefix of what the other wrote,
  and it is told the end of the stream only after the last byte;
* *agreement*: both ends number the two streams alike although segments of earlier
  attempts are still around;
* *nothing forgotten*: what has left the send queue has reached the peer's
  application; the send variables keep their order through every retransmission;
* *timers*: each timer runs exactly in the states that need it, so no connection
  waits for nothing and no handler is called in a state it does not expect;
* *no assertion fires*: `ASSERT`s and `throw cRuntimeError` in the handlers end
  the whole simulation;
* *indications*: the application hears of its connection in the order of its life;
* *tables*: a segment and a command find the connection they belong to, ports are
  neither lost nor given out twice, and sockets agree with connections;
* *progress*: written data arrives or the connection gives up, and two closed
  applications end the connection;
* *scoreboard*: what the sender takes for received with SACK has been received.

Hard behaviours: simultaneous open and close; SYN retransmission racing the
answer; a FIN that arrives early, cut, or on a segment that also releases our own
FIN; a CLOSE that is deferred until the send queue is empty; go-back-N
retransmission that moves `snd_nxt` back while acknowledgements of later bytes
arrive; zero windows; TIME_WAIT; commands and indications that cross; forked
connections that go back to LISTEN.

### 1.2 SCTP, network layer, configuration, routing and bridging

| Component | State | Operations | Hard behaviours | What makes it correct |
|---|---|---|---|---|
| SCTP association (`transport/sctp/SCTPAssociation*.cc`, `SCTP.cc`) | automaton CLOSED..SHUTDOWN_ACK_SENT, the two verification tags, T1, T2 and T5 with their counters, the state cookie, `shutdownChunk` | ASSOCIATE, OPEN_PASSIVE, SHUTDOWN, CLOSE, ABORT; INIT, INIT_ACK, COOKIE_ECHO, COOKIE_ACK, SHUTDOWN, SHUTDOWN_ACK, SHUTDOWN_COMPLETE, ABORT; timers; packets without association | INITs and SHUTDOWNs that cross, cookies that arrive late, one end gone | each end writes the tag the other expects; timers belong to states; set-up and shutdown end; the application is told |
| ARP with IPv4's waiting packets (`networklayer/arp/ARP.cc`, `ipv4/IPv4.cc`) | ARP's cache entries (`pending`, `numRetries`, timer, `lastUpdate`), IPv4's queue of packets per next hop | `startAddressResolution`, `getMACAddressFor`, request, reply, proxy reply, time-out, `flush`; signals "completed" and "failed" | two tables in two modules that agree only through calls and signals; answers to a resolution of an earlier life | packets wait only while ARP asks; none is sent to the wrong station; order is kept; nobody waits for ever |
| IPv4 fragmentation (`IPv4.cc`, `IPv4FragBuf.cc`, `base/ReassemblyBuffer.cc`) | buffers by source, destination and identification, regions | `fragmentAndSend`, `addFragment`, `purgeStaleFragments` | any order, refragmentation on the way, reuse of identifications | a datagram is delivered by the fragment that completes it, whole and unmixed |
| DHCP (`applications/dhcp`) | client FSM INIT..REBINDING, timers, lease, interface address; server's table | all client messages and timers, `processDHCPMessage` of the server | late answers, T1/T2 racing ACKs, crash with a remembered lease, server restart | an address in use is in the table under its user; some timer always runs; clients get leases |
| OSPF adjacency (`networklayer/ospfv2`) | `Neighbor` (state, DD sequence number, summary, request and retransmission lists, timers), LSA database | the five packet handlers, seven neighbor events, flooding, retransmission | both ends run one exchange half a step apart; loss; LSAs that change meanwhile | FULL means equal databases but for what is being retransmitted; timers belong to states; adjacencies form |
| spanning tree (`linklayer/ieee8021d/stp`) | root, path cost, role, state, age, `fdWhile` and heard information of each port | `handleBPDU`, `handleTCN`, `handleTick`, `start`, `stop` | information of dead bridges, roles that change while ports forward, notifications on the way | no loop at any time; one tree in the end; the root hears of changes |

### 1.3 The rest of the repository

| Component | State and operations | What would make it correct |
|---|---|---|
| `TCP2`, `TCP3`, the flavours other than Tahoe and Reno, byte-stream and message queues | variants of the parts above; windows and rates as real numbers | as TCP |
| UDP | socket table; bind, connect, demultiplex, multicast membership | a datagram goes to the sockets bound to its address and port, to no other |
| SCTP data transfer | streams, gap lists, SACKs, paths, heartbeats | as TCP, per stream; the gap list tells the truth about the receiver |
| RTP, `tcp_lwip`, `tcp_nsc` | statistics; vendored stacks | - |
| ICMP, IGMPv2 | host and router group states with timers | reports are suppressed, groups expire |
| IPv6, neighbour discovery, mobile IPv6 | neighbour cache states, binding update lists | reachability is never claimed without evidence |
| RSTP, MAC address table, relay | rapid port transitions; ageing table | one tree, no loops; a moved station is found again |
| Ethernet MAC, 802.11, PPP, queues, radio | transmission state machines, real-valued physics | mutual exclusion on the medium |
| RIP, BGP, LDP, RSVP-TE, MANET routing | routing databases, session FSMs | loop-free convergence |
| applications, mobility, base, util, configurators | traffic generators, numerical models | - |

None of these is modelled; `PROJECT.json` gives the reason for each.

## 2. Modules

```
TCPSeq          32 bit sequence numbers against unbounded positions
TCPConnection   one connection: TCB, handlers, FSM
ByteStream      what TCP promises its two applications (abstract)
TCPPeers        two TCPConnections, a network, two applications; refines ByteStream
                where no segment is truncated
TCPSack         selective acknowledgments: blocks, scoreboard, loss recovery of TCPReno
TCPDemux        the connection tables of one host and the sockets above them
SCTPAssociation set-up and shutdown of an SCTP association
ARP             address resolution with IPv4's queues of waiting packets
Reassembly      what a reassembly buffer promises (abstract)
IPv4Fragments   sources, a router, the destination's buffers; refines Reassembly
DHCP            clients and a server
OSPFAdjacency   two routers on a link
STP             bridges and their cables
MCTCPPeers, MCStream, MCTCP, MCNetwork, MCComponents      instances for TLC
TCPSeqProofs, TCPPeersProofs, TCPDemuxProofs,
ARPProofs, IPv4FragmentsProofs, DHCPProofs, SCTPAssociationProofs   theorems
```

`MCTCP`, `MCNetwork` and `MCComponents` let TLC check several components in one
run: the first state chooses which of them runs (`part`), the others rest in one
initial state.  Their state spaces add up, they do not multiply, and fairness and
liveness formulas speak of the part that runs.

**TCPConnection** has a handler as an operator from TCB to TCB, in the order of
the code's calls: `ProcessSegment1stThru8th` is `processSegment1stThru8th()`
down to the trailing `receiveSeqChanged()` and the deferred CLOSE.  A handler
collects the segments it sends in `out` and the FSM event it returns in `event`;
`PerformStateTransition` then applies the transition table and `stateEntered()`.
A failing `ASSERT`, `scheduleAt()` of a scheduled message and `throw
cRuntimeError` set `fault`.  Data is byte positions: a segment is its flags,
numbers, length and window; the receive queue is the set of positions it holds;
the send queue is its two ends.  Congestion window and timer durations are
abstracted: a handler that sends is given the window `w` the flavour may have
(at least one MSS), a timer is scheduled or not.

**TCPPeers** makes every OMNeT++ event an action: take the handler of the
endpoint, apply the transition, put the segments sent on the way, clear the
scratch fields.  `net[p]` is the set of segments on their way to `p`: delivery in
any order; `Lossy` lets a segment disappear, `Duplicating` lets it arrive again.
The network holds at most `NetCap` segments to one endpoint, what does not fit is
lost.  Applications do what `TCPSocket` lets them do and nothing obliges them to.
A connection that reached CLOSED is deleted by `TCP`; `Removed` keeps only what
belongs to the history of its application, and segments for it meet
`segmentArrivalWhileClosed()`.

**ByteStream** is the abstract specification: `written`, `delivered`, `eof` of
each end, with the actions write, close, read, read the end, and give up.
`TCPPeers!StreamSpec` is its specification under the refinement mapping
(`written` is what has entered the send queue, `delivered` what
`extractBytesUpTo()` handed over, `eof` that PEER_CLOSED was indicated, or CLOSED
with no error before it to an application that closed first).  The code does not keep
this in general: a segment with data and FIN that the window cuts off signals the end
too early (`truncated_fin`).  `MCStream` is the instance in which every byte an
application writes has room at the other end (`NothingTruncated`), and there it does.

**TCPSeq** runs a sender's `snd_una`, `snd_nxt`, `snd_max` twice, as 32 bit
numbers with the code's comparisons and as unbounded positions, through sending,
go-back-N and acknowledgements old and new.  `CodeFollowsPositions` is what allows
`TCPConnection` to use integers.

**TCPSack** is a sender with its scoreboard and `TCPReno`, a receiver with its list
of blocks, and data that flow one way between them; segments and acknowledgments are
lost and reordered.  A handler is an operator on the sender's record, in the order of
the calls; `out` collects what it sends, `fault` is the assertion that failed.  The
regions of `TCPSACKRexmitQueue` are given by their borders and by the bytes in a sacked
and in a rexmitted region, which is all its operations read.  Two equal segments, or
acknowledgments, on their way count as one.  The option is negotiated, the window never
limits the sender, no pause restarts it, delayed acknowledgments and Limited Transmit
are off.  The module has recursive operators for the loops of `sendData()`, so nothing
is proved about it.

**TCPDemux** has the two tables of `TCP.cc`, the port counters, and the state
machine of `TCPSocket` for every socket, with commands and indications in flight
between them.  A connection is its state, its socket pair, its `fork` flag and whether
it has put off a CLOSE (`deferred`); a segment
is the event `process_RCV_SEGMENT()` may return in that state.  Data is left out, so
`process_CLOSE()` may find some in the queue wherever an application can have sent some
(`MayHoldData`): then the state machine does not see the CLOSE until a segment lets the
FIN out and makes up for it, and meanwhile the socket, which has closed, takes whatever
is indicated for a new state.  An error the code
throws ends the run and leaves the tables as they are (`fault`).  Commands and
indications cross only when both belong to one instant of the simulation; `crossed`
remembers for which ids that happened.  `Crash` is `TCP::reset()`, after which the
applications start with new sockets.

**SCTPAssociation** has two hosts on one pair of ports; one may listen, and then
forks an association for an INIT, as `SCTP.cc` does.  Every handler ends in
`Becomes` (the association it leaves, the packets it takes and sends, the
indications it gives), `Stays` or `Removed`.  As in the code, `peerVTag` is the tag
a host expects and `localVTag` the tag it writes.  `chunks` is a set of packets of
one chunk: they are lost, reordered and, by retransmission, repeated; at most
`MaxOnWay` are on their way.  Random tags are tags nobody remembers; whether a
cookie is stale is left open.  No user data is sent, there is one path.  Deleting
`shutdownChunk` or `cookieChunk` when it does not exist, and a T1 that finds a state
it does not know, set `fault`.  When T1, T2 or T5 removes the association, the
automaton is read once more, for the text of a log line only; that is left out.

**ARP** keeps both tables, `arpCache` and `pendingPackets`, keyed by station and
next hop, and one action per entry point, with the signals that one module sends
the other inside the action.  Time is abstract: a running timer may expire, an
entry may become older than `cacheTimeout`.  A station may crash (`flush()`, queues
discarded) while frames to and from it are on their way.

**IPv4Fragments** cuts datagrams at the source and fragments again at a router
with another MTU, loses, reorders and repeats them, and adds them to the region
lists of `ReassemblyBuffer` (`main` and `fragments`) as `addFragment()` does.
`Ids` identifications come back.  `age` says how long a buffer has gone without a
fragment, so the purge at the next fragment may take it.  One assumption is in the
model: an identification is used again only when the fragments of its first use
have left the network (`Reusable`); the destination's buffer may still hold some.
`Abstract` shows it to implement **Reassembly**, in which a buffer is a set of
bytes.

**DHCP** has the client's state, its five timers, the lease it remembers and the
address of its interface, and the server's table.  A message carries `current`:
whether its transaction id is still the client's last one.  Queries without a
server identifier are distinguished by what the server looks at.  Crash, restart,
re-association of a client, restart of the server (the table is lost) and loss are
bounded by `MaxFaults`.

**OSPFAdjacency** is the `Neighbor` object of each of two routers, the database of
LSA sequence numbers, and the handlers as operators on a record, in the order of
the calls; `ChangeState` includes the origination of a router LSA on entering and
leaving FULL, which happens in the middle of the handler that causes it.  The link
keeps the order of packets.  An LSA ignored within `MIN_LS_ARRIVAL` and an answer
withheld within `MIN_LS_INTERVAL` are losses.

**STP** is one record per bridge with its ports; every handler is an operator on
it.  Bridges tick once a second at the phase at which they were started; the frames
sent at one instant arrive at one instant (all cables are equally fast) in any
order of ports, and the time they take is short against the distance of two ticks.
A stopped bridge drops what arrives; `start()` keeps `fdWhile`, as the code does.
Constants of the code are constants of the model: `messageAge` is always 0,
`topologyChangeRecvd` always true, no port is ever disabled, the bridge priority
never changes.  A bridge's id is its address, priorities and costs are equal.

Names follow the code.  Operators named `Bad...` are faulty variants of the
definition that follows them: they are not part of any specification, each shows
that one property would notice the bug it stands for.

## 3. What the runs check

| Run | Instance | Distinct states | Properties |
|---|---|---|---|
| `handshake` | A and B connect, B may listen first; A closes, B aborts; one SYN retransmission; segments lost, duplicated, reordered; timers race with segments in flight.  Next to it the tables of one host: two ephemeral ports, one of them a service port, one remote socket, listening on any address, two sockets, a CLOSE with or without data in the queue, crashes | 1 582 521 | `TypeOK`, `NoFault`, `HandshakeIsTimed`, `EndsAgree`; `TablesAgree`, `PortsCounted`, `FaultsExplained`, `SocketsAgree` |
| `transfer` | A writes 3 bytes as 3 or as 1+1+1, segments of 2, window of 2 or 4, Nagle, delayed ACK, fast retransmit after 1 duplicate, FIN, 3 segments in flight; B may close its window in any segment after the handshake | 504 126 | `SndVarsOrdered`, `AckedDataWasDelivered`, `SenderHasTimer` |
| `stream` | both write two bytes, as 2 or as 1+1, in segments of up to 2, and close in any order, or B aborts; two segments in flight each way, lost and reordered; a receive buffer of 4, so that nothing is truncated | 1 563 704 | `TimeWaitIsTimed`, `IndicationsInOrder`, `StreamSpec` |
| `progress` | A writes two bytes, both may close, fair scheduling | 28 573 | `DataArrives`, `ClosesComplete` |
| `network` | ARP: three stations, one of them a proxy router, two next hops, two packets, one retry, one crash.  Fragments: two sources with one identification, datagrams of 3 and 5, MTUs 4 and 2 or 4.  DHCP: two clients, two addresses, two faults.  SCTP: two hosts, one may listen, or both open, one of them twice; one retransmission per timer, two packets on the way | 326 315 | `NetworkTypesOK`; `WaitingMeansAsking`, `ARPNoFault`, `ResolvedToOwner`, `PacketsKeepOrder`, `NoPacketWaitsForever`; `WholeDatagrams`, `ReassemblyImplemented`; `AddressOnRecord`, `TimersFollowState`, `ClientsGetLeases`; `SCTPTimersRight`, `TagsMirror`, `SCTPFaultsExplained`, `EndIsTold`, `SCTPEnds` |
| `components` | Numbers of 4 bits that wrap twice, window of 7.  SACK: 8 or 10 bytes in segments of 2, a window of 4 segments, two timeouts, one loss.  OSPF: one header per DD packet, one disturbance.  STP: a ring of four bridges, one of two stops and starts again | 193 695 | `CodeFollowsPositions`; `ScoreboardTrue`; `FullMeansSynchronized`, `OSPFTimersRight`, `OSPFAdjacencyForms`; `LoopFree`, `SpanningTreeForms`, `RootHearsOfChanges` |
| `simultaneous_open` | both connect, reliable network | violation | `SimultaneousOpenSucceeds` |
| `fin_overridden` | both close, A writes 3 bytes in segments of 2 | violation | `FinIsSignalled` |
| `truncated_fin` | A writes 5 bytes and closes, buffer of 4 | violation | `NoDataLostAtEOF` |
| `time_wait_ping_pong` | both close at once | violation | `TimeWaitEnds` |
| `close_in_syn_rcvd` | B closes while it is in SYN_RCVD | violation | `NoFault` |
| `relisten` | a listening socket whose forked connection is reset in SYN_RCVD | violation | `OneListener` |

What the properties say and why they could fail:

* `EndsAgree`: the SYN of each end has been acknowledged, its `rcv_nxt` lies among the
  numbers the other has sent, and what one takes for acknowledged the other has
  received.  An old SYN+ACK or ACK
  that passed `AcksOurSyn` / `AcksOurSynAck` would break it.
* `HandshakeIsTimed`: CONN-ESTAB and SYN-REXMIT run exactly in SYN_SENT and
  SYN_RCVD, also after a return to LISTEN and after a simultaneous open.
* `NoFault`: no `ASSERT`, no unexpected timer, no timer scheduled twice.
* `SndVarsOrdered`: `iss <= snd_una <= snd_nxt <= snd_max <= end of queue (+1 for
  the FIN)`, whatever go-back-N, probes, the deferred FIN and late ACKs do.  It holds
  whatever segments arrive; that the SYN is acknowledged (`iss < snd_una`) needs an honest
  peer and no close in SYN_RCVD, and is part of `EndsAgree`, which is proved for them.
* `AckedDataWasDelivered`: what has left the send queue is with the other
  application.
* `SenderHasTimer`: a sender that waits for the peer has REXMIT or PERSIST running.
* `StreamSpec`: the refinement of `ByteStream` where no segment is truncated.  Bytes sent
  as 1+1 are sent again as 2, so that segments overlap bytes delivered or waiting; the
  second byte or the FIN may come first; both are counted once and in their place.
* `IndicationsInOrder`: ESTABLISHED, PEER_CLOSED, an error, CLOSED, each at most
  once and in that order.
* `DataArrives`, `ClosesComplete`: progress.
* `TablesAgree`: both tables name the same connections, each once, through the
  exchange of ids and socket pairs in a fork.  `PortsCounted`: no port is lost or
  given out twice.  `SocketsAgree`: with nothing in flight, the socket's state is
  the one that belongs to the connection's; a CLOSE that was put off is the one thing
  that lets them differ, and the property says how far.  `FaultsExplained`: TCP ends the
  simulation only for want of ports, for a command that crossed an indication, for a
  second CLOSE after one that was put off, or
  because of a listening connection that no application has (a forked one that went
  back to LISTEN, or the clone of one that was forked once more).
* `ScoreboardTrue`: the receiver has what the scoreboard marks as received, however old
  the block was that said so and however regions were split since
  (`SackedWasReceived`); the receiver remembers no block that its `rcv_nxt` cuts in two
  (`BlocksCurrent`); and the assertions of the scoreboard fail only in the cases of
  section 4 (`SackFaultsExplained`).
* `NetworkTypesOK`: the type invariants of ARP, DHCP and SCTP, with the limits of
  their retries.
* `WaitingMeansAsking`: a packet waits for an address only while ARP asks for it,
  with its timer running, on a node that is up.  `ARPNoFault`: no `ASSERT` of ARP
  or of `sendDatagramToOutput()` fails.  `ResolvedToOwner`: late answers included,
  an address is resolved to who has it or answers for it.  `PacketsKeepOrder`,
  `NoPacketWaitsForever`: as their names say.
* `WholeDatagrams`: what is delivered was sent, has its length and only its own
  fragments.  `ReassemblyImplemented`: the region lists implement the set of bytes,
  and the completing fragment is the one that delivers.
* `AddressOnRecord`: the address of an interface is in the server's table under its
  user, until the server is restarted.  `TimersFollowState`: T2 never finds a state
  in which the client throws, and no client waits without a timer.
  `ClientsGetLeases`: a client has a lease again and again.
* `SCTPTimersRight`: T1 runs exactly during the set-up, T2 and T5 only during a
  shutdown and always in SHUTDOWN_SENT, whichever answer, cookie or ABORT interrupts.
  `TagsMirror`: two ends that both have an association write the tags the other
  expects, also after crossing INITs and late cookies.  `SCTPFaultsExplained`: only the
  second SHUTDOWN_ACK after crossing SHUTDOWNs, and a SHUTDOWN_COMPLETE of an earlier
  life when both ends opened again, do something undefined (section 4).
  `EndIsTold`: an application whose association ends is told so, with two exceptions
  named in it.  `SCTPEnds`: every set-up and every shutdown ends.
* `FullMeansSynchronized`, `OSPFTimersRight`, `OSPFAdjacencyForms`: the databases of
  adjacent routers differ only by what is being retransmitted; no timer is started
  twice and the retransmission timers run while there is something to retransmit;
  the adjacency forms, unless a DD packet is lost (section 4).
* `LoopFree`: the cables over which data pass never contain a cycle, whoever stops
  or starts and while roles change.  `SpanningTreeForms`: in the end the running
  bridges agree on the best of them and their open cables form a tree that connects
  them (what `STPTester` tests).  `RootHearsOfChanges`: a change noticed by the
  bridge farthest from the root reaches the root.

**Bounds.**  Every bound is a constant whose comment says "bound".

* TCP: `MaxData`, `MaxIss`, `NetCap`, the retry limits and `SendSizes`.  A retry
  limit of 1 is enough to see a retransmission and to see the limit exceeded.  Three
  segments in flight let a duplicate, a reordered and a delayed one coexist; in
  `stream` two are enough for the second byte or the FIN to come first; a
  segment in excess of `NetCap` is a loss, which `Lossy` allows anyway.  Data of 3 to
  5 bytes with segments of 2 gives a full segment, a short one and a hole between
  two.  The receive buffer of four bytes is smaller than what `truncated_fin` writes,
  so the window does fill; in `stream` it is twice what is written, because bytes that
  wait for a gap to be filled take window too.  Two bytes are the least that have an
  order, overlap in part and arrive with a gap.  Sequence numbers of A start at 100, those
  of B at 150.
* SACK: four segments outstanding give three duplicate acknowledgments behind a hole, so
  loss recovery starts, with a fifth segment and a FIN to follow.  Two timeouts reset a
  scoreboard that was filled again; one loss is enough, since reordering delays any
  segment and any acknowledgment past every other event.
* `TCPDemux`: three ids (a listening socket, its forked connection or a second
  socket, one more), one command and the indications of one handler in flight
  (`MaxInds` holds back only a handler that adds to what is there), which is what it
  takes for them to cross; two ephemeral ports run out.  One id at a time may have
  crossed (`MaxCrossed`), and an application with two sockets opens no third
  (`MaxSockets`); a forked connection may still bring it one.  With two listening
  addresses and without these two limits the part has 3.5 million states; that
  instance passed as well, but takes longer than a run should.
* ARP: two requests per resolution, one crash: a late answer of the life before it
  meets a resolution of the next.  Fragments: two datagrams with one identification;
  `MaxDuplicates` is 0 in the run, the two sources' equal identifications and the
  repetition of an identification already mix fragments.  DHCP: two faults are a loss
  and a crash, or a crash and a server restart.
* SCTP: one retransmission of every timer is enough for an answer to race with the
  retransmission and for the limit to be exceeded.  Two packets on the way let INITs,
  SHUTDOWNs, or a chunk and the retransmission of an older one cross; eight tags are never used up.
  One host may open a second time while cookies and tags of its first association are around.
* OSPF: `MaxVersion` 7, `MaxDDSeq` 9 and `MaxTransit` 7 are never reached, so no step
  is withheld; `MaxDisturbances` 1 is one loss, one early timer, one silent neighbor
  or one change elsewhere, at any moment.
* STP: ages of 4 and a forward delay of 3 ticks stand for 20 and 15 (the relation
  that matters is that of two forward delays and one age); `MaxHops` is not reached.
  Two phases let bridges tick together and apart.  Beyond the run, a triangle with
  two crashes and the ring with other pairs of stopping bridges were checked.

Dead ends (both closed, no application wants anything, all bounds reached) are
legitimate, so deadlock is not checked.  Each property of a passing run has a
faulty variant of a mapped definition that TLC finds violating it (`mutants`).

**Fairness.**  OMNeT++ delivers every message it has scheduled: a timer expires, a
packet the network keeps arrives.  That is weak fairness of each timer action and of
each delivery action; nothing is assumed of applications or against loss.

* TCP (`progress`, `time_wait_ping_pong`): timers, and `SegmentArrives` per endpoint.
  For the handlers that are expensive to evaluate the ENABLED in the formula is
  replaced by the equivalent guard (`CanArrive`, `CanRexmit`, `CanProbe`).  In
  `progress` and `stream` a retransmission timer expires only when nothing is in flight
  (`EarlyTimeouts = {}`): the timeout exceeds the round trip.
* ARP: the request time-out alone; answers may be lost each time.
* DHCP: the timers of a client, the delivery of its messages in both directions, and
  the restart of a node that crashed.  Losses are bounded by `MaxFaults`.
* SCTP: T1 and T2 of each host.  Deliveries need not be fair: both give up.
* OSPF: the timers and the link, per router.
* STP: `Run` (ticks and frames) happens again and again.  It is always enabled, so
  this is its weak fairness; a stopped bridge need not start again.

## 4. Where the code and its documentation disagree

Runs that expect a violation, each with TLC's shortest behaviour:

1. *Simultaneous open* resets the connection: in SYN_RCVD the peer's SYN+ACK is
   acceptable and its SYN bit is taken for an error
   (`TCPConnectionRcvSegment.cc:304`); the test `tcp_syn_2.test.off` expects
   ESTABLISHED.
2. *A FIN that is overridden*: a segment that brings the peer's FIN and releases
   our deferred one sets the event RCV_FIN, then CLOSE.  The FSM sees only CLOSE.
3. *A FIN on a truncated segment*: `truncateSegment()` cuts the data beyond the
   window and keeps the FIN; the application hears PEER_CLOSED with bytes missing.
4. *TIME_WAIT ping-pong*: an ACK in TIME_WAIT is answered with an ACK; two ends in
   TIME_WAIT keep each other there.
5. *CLOSE in SYN_RCVD*: the FIN's retransmission asks the send queue for a position
   it does not hold when the SYN+ACK was lost.
6. *A forked connection goes back to LISTEN* (`TCPConnectionBase.cc:560`): a RST in
   SYN_RCVD leaves two listening connections on one port, as the FIXME at
   `TCPConnectionRcvSegment.cc:1301` fears.

Observed while modelling, not run here.  TCP:

* out-of-order data moves the right edge of the advertised window back
  (`updateRcvWnd()`; the comment in `TCPConnectionRcvSegment.cc:519` says it should
  not);
* a FIN sent by the persist probe in CLOSE_WAIT: the deferred CLOSE happens only in
  the handler of a segment that moved `snd_nxt`, so the state stays CLOSE_WAIT;
* no statement schedules the FIN-WAIT-2 timer, which `TCP.ned` lists;
* data queued in SYN_RCVD after a simultaneous open has no timer;
* a SYN+ACK with window 0 starts no persist timer, and a pure window update is
  ignored when nothing is outstanding;
* `processPersistTimer()` bounds `persist_timeout` but assigns `rexmit_timeout`
  (`TCPBaseAlg.cc:373`);
* an application that closes while PEER_CLOSED is on its way closes a second time
  when it arrives (`TCPAppBase`), which TCP takes for an error;
* the same without any crossing: with data in the queue `process_CLOSE()` puts the CLOSE
  off (`TCPConnectionEventProc.cc:245`) and the connection stays ESTABLISHED; the peer's
  FIN makes the socket PEER_CLOSED whatever it was (`TCPSocket.cc:290`), the application
  closes again, and once the FIN is out this is a "Duplicate CLOSE command".  The same
  holds of a CLOSE in SYN_RCVD, with the ESTABLISHED that follows it.  `FaultsExplained`
  and `SocketsAgree` name these cases;
* a SYN in TIME_WAIT signals CONNECTION_RESET after CLOSED was indicated;
* `cloneListeningConnection()` configures `this`, not the clone; the values are equal.

TCP with selective acknowledgments (`TCPSack`, `SackFaultsExplained`):

* `setPipe()` walks up to `snd_max`, which counts the FIN; the queue of regions does not.
  With a FIN outstanding the `ASSERT` of `checkSackBlock()`
  (`TCPSACKRexmitQueue.cc:395`) fails at the third duplicate acknowledgment;
* after a timeout `sendSegment()` passes over regions that were sacked or sent again
  without looking whether anything is left to send; then the `ASSERT` of
  `enqueueSentData()` (`TCPSACKRexmitQueue.cc:97`) or of `createSegmentWithBytes()` fails;
* `sendSegmentDuringLossRecoveryPhase()` does not count the FIN that `sendSegment()` sent
  in `snd_max`, as the comment at `TCPConnectionUtil.cc:874` asks.  Its acknowledgment is
  taken for one of something not yet sent.

Between two INET endpoints the window never closes for long (the receiver hands
over data at once), so the persist timer is reached only with a foreign peer; that
is what `SlowReaders` stands for.

SCTP:

* when SHUTDOWNs cross, both ends are in SHUTDOWN_ACK_SENT and the SHUTDOWN_ACK of the
  other stops their timers without a transition: they stay there for ever.  A second
  SHUTDOWN_ACK deletes `shutdownChunk` again (`SCTPAssociationRcvMessage.cc:350`);
* a SHUTDOWN_COMPLETE deletes `shutdownAckChunk` in any state
  (`SCTPAssociationRcvMessage.cc:371`), a pointer that only `sendShutdownAck()` sets: the
  constructor leaves it uninitialized (`SCTPAssociationBase.cc:342` clears `shutdownChunk`
  only).  It takes two hosts that both opened again: a collision with a cookie of the life
  before gives an association the tags of the new life in time to answer a SHUTDOWN_ACK of
  the old one with them.  The instance of `network` is too small for it (one host opens
  twice only); an instance in which both do, with three packets on the way, reaches it;
* `SCTP_C_CLOSE` in ESTABLISHED sends a SHUTDOWN and removes the association at once;
* `sendShutdownCompleteFromMain()` reflects the tag, but the receiver's check of the tag
  does not look at the T bit, so when the SHUTDOWN_COMPLETE is lost the peer ends with
  CONN_LOST;
* a cookie is valid for 10 s, and T1 repeats it after 3, 6 and 12 s: a stale one removes
  even an ESTABLISHED association, and nobody is told.  So does an INIT in
  SHUTDOWN_SENT;
* an association forked for an INIT answers the next INIT with its old tag, so a client that
  opens again is not accepted while it exists; an ABORT in CLOSED leaves it there;
* the restart case of `processCookieEchoArrived()` is unreachable: the check of the tag
  drops its COOKIE_ECHO before;
* a cookie of an earlier association that arrives in COOKIE_ECHOED is handled as a
  collision, and both ends are ESTABLISHED with tags that do not match.  This is why
  `TagsMirror` leaves out hosts that opened twice.

Elsewhere:

* OSPF: once NEGOTIATION_DONE has cleared the DD timer, nothing sends a DD packet
  again; one lost in EXCHANGE stalls the adjacency until the neighbor falls silent.
  `OSPFAdjacencyForms` excludes it.  The update timer keeps running with an empty
  list after an implied acknowledgement.
* DHCP: the server confirms a renewal by address without looking at the client, so
  after it has lost its table two clients may hold one address; leases never expire
  in its table; a time-out in RENEWING or REBINDING begins anew and leaves the address
  on the interface.
* IPv4: stopping the node does not clear the fragment buffers.
* STP: the parameter `helloTime` is overwritten by a counter of the same name, so
  hellos go out at every tick; the root never clears its topology change flag, and a
  bridge passes the flag on only if it has a change of its own to report;
  `handleTCN()` relays a notification out of the root port even when it came in there,
  so when the root has stopped two bridges whose root ports face each other exchange
  notifications and acknowledgements without a pause until the information ages out.

## 5. What is proved

All theorems but `EndsAlwaysAgree`, which has three hypotheses of its own, hold for
every value of the constants allowed by the assumptions
`ConnectionAssumption`, `PeersAssumption`, `SeqAssumption`, `ARPAssumption`,
`FragAssumption`, `DHCPAssumption`, `DemuxAssumption` and `SCTPAssumption`: any segment size, buffer, retry
limit, number of stations, clients and addresses, any network capacity and any bound.

* `TCPPeersProofs`: `Spec => []TypeOK`, `Spec => []HandshakeIsTimed`,
  `Spec => []TimeWaitIsTimed`.  None of the three is inductive alone.  The
  invariant `PeersInv` says that each connection *rests* between two events
  (`Rests`): type, bounded counters, the handshake timers exactly in the handshake,
  the 2MSL timer in TIME_WAIT, *no timer at all in INIT and CLOSED* (so that a timer
  that expires belongs to a connection that exists, needed for ABORT to lead to
  CLOSED when the retries are exhausted), and the event cleared.
  The argument has three layers:
  1. `Keeps(c, d)`: the helpers that send, acknowledge, retransmit and update
     windows keep the type, the state, the event and the three timers that tell how
     long a state may last, and at most reset the retransmission counter.  One lemma
     per operator, in the order of `TCPConnection`.
  2. `Returns(c, d)`: what holds inside a handler once events and the 2MSL timer are
     touched: no event that enters the handshake, and *whenever the event leads to or
     stays in TIME_WAIT, the 2MSL timer has been scheduled* (`Waits`).
  3. `Ready(d)`: what a handler leaves; `TransitionOK` shows that
     `performStateTransition()` turns it into `Rests` again.  Handlers that open a
     connection or expire its timers are shown `Ready` directly.
  The fourth theorem, `Spec => []SndVarsOrdered`, rests on `PeersInv` and `SendingInv`,
  which goes through all handlers once more and uses nothing of the network but the type
  of its segments.  `SendInv` says of each connection:
  * where data flows, `SendOrdered`: the order itself, with both cases of the FIN
    (`send_fin` says that the FIN stands behind the queue; without it `snd_max` is in
    the queue; with it the FIN is sent or data before it is not, because
    `process_CLOSE` sends it at once otherwise);
  * in SYN_SENT and SYN_RCVD, `SynOrdered`: nothing but the SYN is outstanding, and an
    endpoint that did not connect has nothing queued, so a handshake that ends leaves
    the variables in order;
  * before data flows, neither REXMIT nor PERSIST runs: their handlers would send from a
    queue that has not begun, and `HandshakeIsTimed` does not exclude it.

  `Alike` and `Still` collect what does not move the variables, so that each handler is a
  chain of them around its one sending operator (`SendDataOrdered`,
  `RetransmitOneSegmentOrdered`, `SendProbeOrdered`, `SendFinOrdered`, ...).
  Proving it corrected the property: `iss < snd_una` had been part of it, but a segment
  that acknowledges `iss` alone takes SYN_RCVD to ESTABLISHED (`AcksOurSynAck` admits
  `snd_una` itself), and a close in SYN_RCVD takes it to FIN_WAIT_1 with no acknowledgement.
  The fifth theorem, `Agreeing /\ Spec => []EndsAgree`, is the one about both ends and
  the network between them.  Its invariant `AgreeInv` stands on `PeersInv` and
  `SendingInv` and says for each endpoint and every segment on its way:
  * `Known(n, c)`: the other end may expect, or acknowledge up to, only numbers that `c` has
    sent, its SYN included; `Acked(n, d, c)`: `d` has received from `c` all before `n`.
    Both are said of the connections (`PairInv`) and of the segments (`SegInv`), and both
    only grow: that of `Grows` is why an event at one end never spoils what the other end,
    or an old segment, knows of it.
  * in the handshake, `SynInv`: a connection in SYN_RCVD expects the number after the
    peer's SYN, and the peer's initial number is `Fixed`: an active opener chooses it once.
  * `FinInvAt`: a FIN, in a segment or received, comes only from an end whose application
    closes, and one that does not close stays in ESTABLISHED or CLOSE_WAIT.

  Each handler is shown to be a `Step`: what it makes of its connection keeps `PairInv`,
  the segments it sends keep `SegInv`, and the connection `Grows`.  The handlers that send
  and receive data are summed up by `Sends`, `Receives` and `Talks`, so that the
  checks of `processSegment1stThru8th()` are gone through once.

  `Agreeing` has three parts, and without any of them the property is false:
  * `IssStep > 1`: the clock that gives initial numbers moves by more than one between two
    connections.  With `IssStep = 1` the number after an old SYN is the next SYN's, and
    an ACK of one passes for an ACK of the other.
  * nobody closes in SYN_RCVD, where `process_CLOSE` goes to FIN_WAIT_1 with a SYN that
    nothing acknowledges (the run `close_in_syn_rcvd`).
  * at most one of the two applications closes.  When both do, the two behaviours of
    `truncated_fin` and `fin_overridden` meet: B, its window shrunk, cuts the data of a
    segment and keeps its FIN, sends its own FIN in the same handler, and so goes from
    ESTABLISHED to FIN_WAIT_1, where the next segment sets `rcv_nxt` back below what B
    has acknowledged.

  The run `handshake` satisfies the three; nothing is asked of the network, which loses,
  duplicates and reorders, nor of the timers, the aborts or the window of the reader.
* `ARPProofs`: `ARPTypeOK`, `WaitingMeansAsking`, `ARPNoFault`, `ResolvedToOwner` and
  `PacketsKeepOrder`, each `ARPSpec => []...`.  Three strengthenings:
  `TablesInv` adds that a node that is down has no queue (`DownIsEmpty`), from which
  the assertions follow, since each tests one table in a step on the other;
  `OwnersInv` adds that every frame on the way names a station that has or answers
  for the address it comes from (`FramesTrue`), so a late frame cannot mislead;
  `QueueInv` says that the packets sent and those that wait are together one ascending
  sequence below the last number used: releasing the queue moves the border and
  keeps the sequence, and a packet sent at once finds the queue empty by `TablesInv`.
* `TCPDemuxProofs`: `TablesAgree`, `PortsCounted`, `FaultsExplained` and `SocketsAgree`,
  for any number of connections, sockets, commands and indications.  They rest on one
  inductive invariant, `DemuxInv`, with four parts:
  1. `DemuxTypes`, and `InOrder`: both tables are bijections onto the connections, the
     port counters are cardinalities, ids are below the next one handed out.  The first
     part of the module proves what each table operation (`AddSockPair`,
     `UpdateSockPair`, `AddForkedConnection`, `RemoveConnection`, `GetEphemeralPort`)
     does to a table in order; a handler looks through `findConnForSegment()`, so its
     connection is in the table (`FoundIsUpdatable`), and "not in table" cannot happen.
  2. `AllAgreed`: for each id that no command and indication have crossed for, its
     commands *fit* (an OPEN is the first thing said of an id and finds no connection,
     a CLOSE finds one that is not closing, unless it has put off a CLOSE, an ABORT one
     not in TIME_WAIT), and without
     commands the connection fits the socket's state, or the state the socket will have
     after its last indication.  A connection that has put off its CLOSE fits more sockets
     than another (`StillOpen`, `PeerClosed`): the socket is closed before it, or thinks
     it open after its FIN went out.  `Agreed` speaks of one id; the lemmas `AgreedSame`,
     `AgreedQuiet`, `AgreedLoud`, `AgreedTaken`, `AgreedSays` and `AgreedHears` say what
     a step of the network, of TCP and of the application makes of it.
  3. `OpensNew`, `ConnsSound`: an OPEN has not crossed; a connection in LISTEN, or
     that can go back to it, has told its application nothing, and a forked one
     (`Stray`) has neither socket nor command.
  4. `OneListens`: an application that opens a second listening socket has said CLOSE of
     the first before; without it "address in use" could have other causes.
  After an error only `DemuxTypes`, `InOrder` and `FaultsExplained` are kept: the run
  has ended.  The proof corrected the model's property: TLC's instance
  had let `FaultsExplained` say that the connection that takes the address was forked
  and has a remote address; one that goes back to LISTEN, is forked again and leaves a
  *clone* under its id is a counterexample with one more id.
* `IPv4FragmentsProofs`: `WholeDatagrams`, and that `IPv4Fragments` implements
  `Reassembly` (`FragmentsImplementReassembly`: `FragSpec => ReassemblyImplemented`), for
  any number of sources, identifications, datagrams, losses and repetitions, any lengths,
  and links that carry at least one unit (`fragmentAndSend()` throws otherwise).
  1. `mergeFragments()` is a loop, in the model a recursive function.  `LeastOf` (a set of
     naturals has a least element) gives `Induction` for sets and, with it, the equation of
     the recursive definition (`RoundsDefined`).  One round (`MergeOneStep`) keeps the
     bytes and the length a buffer knows, and takes one region away, so after as many
     rounds as there are regions nothing is left to take up (`MergeFragmentsFacts`).
  2. "Overlapping is not possible", says a comment in `merge()` where it drops a fragment.
     This is the heart of the invariant: the packets of one datagram are apart
     (`PairOK`, from `CutFacts`: multiples of the piece size differ by a piece); a packet
     that may still reach a buffer is of the buffer's datagram, and its bytes are all in one
     region of it or in none (`MeetsOK`, `Fits`), none at all before the router has cut
     it.  So what `merge()` drops is there already (`MergeFacts`).
  3. At rest main is separated by a gap from what is set aside (`Gaps`), so the test
     `main.beg == 0 && main.islast` says that all bytes have come (`DoneIsComplete`): this
     is the step to the abstract module.
* `DHCPProofs`: `DHCPTypeCorrect`, `TimersAlwaysFollowState` (inductive with the types),
  `AddressOnRecordAlways` and its corollary
  `AddressesDiffer` (no two clients have one address).  `RecordInv` follows an address on
  its way: the server writes the table before it offers, so OFFERs on their way, leases
  remembered and addresses in use are all on record; an ACK makes the remembered lease
  the address, whatever address the ACK names.
* `SCTPAssociationProofs`: `SCTPTypeOK`, `SCTPTimersRight`, `EndIsTold`, `TagsMirror` and
  `SCTPFaultsExplained`, for any number of opens and of packets on the way.  The first two
  are proved together (`TimersInv`): which timers a handler leaves running follows from
  the timers it found, and those from the state.  Nearly every handler ends in
  `Becomes`, so by the lemma `BecomesKeeps` it is enough, per action, that the new
  association is in `Right` and the new packets have their type.  `EndIsTold`
  needs no strengthening: each action either keeps the association, or tells
  (`BecomesTells`), or is one of the two exceptions (`RemovedByPacket`).
  The tags need `TagsInv` and `MirrorInv`, which speak of every packet on its way.
  `Acts(h)` describes what a handler of host h may do to tags and states and what its
  packets may say; `NextActs` shows it of every action, and each part of the invariant is
  then kept by `Acts(h)`, whichever action it was:
  1. `NonZero`, `OwnersDiffer`: who uses a tag has one, and no tag was drawn by both.
  2. For a host that listens: it only forks, and every cookie of a fork names the fork
     (`OnlyForks`, `OneCookie`, `NotYetHeard`), so no cookie of another life replaces its
     tags, nor those of its peer.
  3. For a host that opens at most once (`Single`): nothing was said before it opens
     (`Unopened`), nothing accepted before it leaves COOKIE_WAIT (`Waiting`), nothing shut
     down before it leaves ESTABLISHED (`NotShutDown`); its one tag is in every cookie of
     its (`OneTag`, `OneLocal`); and a late cookie that the other host accepts has that
     host's own present tag (`LateCookie`), so `processCookieEchoArrived()` is in case B
     and not in case A there, however often the other host opened.
  4. `LateAck`, as long as one of the hosts opened at most once: the answer to a
     SHUTDOWN_ACK reaches an association in SHUTDOWN_ACK_SENT only.  From this,
     `SCTPTimersRight` and `Quiet` (T5 does not run when `shutdownChunk` was deleted)
     follows `SCTPFaultsExplained`.
  5. `Mirror`: with two single hosts, each writes no tag or the tag of the other; with one
     that listens, every COOKIE_ECHO carries the tag that its sender writes now.
  The proof corrected `SCTPFaultsExplained`: it had said that shutdownAckChunk is always
  set when it is deleted, which `LateAck` could not be shown for when both hosts open again;
  TLC then found the behaviour (section 4).
* `TCPSeqProofs`: `ComparisonsAgree` (the four comparisons agree with positions less
  than half the number space apart) and `Spec => []CodeFollowsPositions`.

Only model-checked: `NoFault`, `AckedDataWasDelivered`, `SenderHasTimer` and
`IndicationsInOrder`.  They hold of the applications of their runs and are false for
some constants, so a theorem would need hypotheses that restrict the applications
further: a close in SYN_RCVD makes the send queue fail (the fifth run of section 4);
with `IssStep = 1` an ACK of `iss` alone establishes a connection; a truncated FIN
leaves REXMIT running in TIME_WAIT; a zero window on the ACK of the handshake leaves a
writer without a timer until the reader reads.  Also `NetworkTypesOK` (its parts are
proved for ARP, DHCP and SCTP), `ScoreboardTrue` (its module sends with recursive operators), those of OSPF and of the spanning tree, that `TCPPeers` implements
`ByteStream` where nothing is truncated, and all liveness, which the prover cannot do.

## 6. What is left out of the models

* TCP: header options (MSS, timestamps, window scaling: off by default) and the negotiation
  of SACK, Limited Transmit, ECN and
  the ECN variants of the flavours, keep-alive, the STATUS and queue-limit commands,
  payload objects.  Round-trip measurement and congestion window arithmetic are inputs.
  `TCPPeers` does not fork connections; `TCPDemux` does, without data: SEND is left out
  (LISTEN to SYN_SENT by SEND cannot be reached through `TCPSocket`), one socket listens
  and one connects at a time, and the SYN retransmission limit is not reached before the
  establishment timeout.
* SCTP: user data, and so the waits in SHUTDOWN_PENDING and SHUTDOWN_RECEIVED; several paths
  and heartbeats; bit errors; authentication; address reconfiguration; the indications of
  ESTABLISHED, SHUTDOWN_RECEIVED and PEER_CLOSED.
* ARP: the global cache (`globalARP`) and the address change notification.
* IPv4: ICMP time exceeded, options, hooks, the routing lookup; the width of offsets and
  identifications (`ushort` in the code, naturals in `IPv4Fragments`: an identification
  that wraps is one that is used again, which the model has; an offset wraps only in a
  datagram of more than 65535 bytes, which IPv4 rules out).
* DHCP: several servers, the interface change notifications that abort the simulation,
  the default route; a lease lasts longer than T2.
* OSPF: designated router election, ageing, MTU mismatch, authentication, areas and the
  routing table; routers do not restart.
* STP: unequal priorities, costs, timers and cable delays; the MAC address table beyond
  its fast ageing flag; VLANs; RSTP.

## 7. Plan

1. `TCPRcvQueue`: the region list of `TCPVirtualDataRcvQueue`, refining the set of
   positions used in `TCPConnection`; shares its idea with `IPv4Fragments`.
2. SACK with a limited window and data both ways; the region list of
   `TCPSACKRexmitQueue` refining borders and marks.
3. SCTP data transfer: the gap list against the set of TSNs received, then streams and
   SACKs; the waits in SHUTDOWN_PENDING and SHUTDOWN_RECEIVED follow from it.
4. `IGMPv2` (host and router), `MACAddressTable` with moving stations, `RSTP`.
5. The BGP session FSM; LDP label requests over sessions.

Proofs to come: `NoFault` and `AckedDataWasDelivered` under the hypotheses of `EndsAlwaysAgree`,
`OSPFTimersRight`, `FullMeansSynchronized`, and the step simulation of `ByteStream` by a
receiver.
