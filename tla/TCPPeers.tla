------------------------------ MODULE TCPPeers ------------------------------
(***************************************************************************)
(* Two TCP endpoints of INET and the network between them.  Each endpoint  *)
(* is a connection of TCPConnection with its application; every OMNeT++    *)
(* event - an application command, a segment, a timer - is one action:     *)
(* the handler, performStateTransition(), and the transmission of what the *)
(* handler sent.  The simulation is single-threaded, so a handler runs to  *)
(* its end; the interleaving is that of the events.                        *)
(*                                                                         *)
(* The network (IP, not part of TCP) may reorder segments and, if the      *)
(* constants say so, lose and duplicate them.                              *)
(***************************************************************************)
EXTENDS TCPConnection

CONSTANTS
    ActiveOpeners, PassiveOpeners,  \* endpoints whose application may connect
                                    \* or listen
    Writers, Closers, Aborters,     \* endpoints that may send(), close(), abort()
    CloseStates,    \* connection states in which an application closes
    SendSizes,      \* bytes in one SEND
    Cwnds,          \* congestion windows the flavour may come up with
    MaxData,        \* bound: bytes one application writes
    MaxIss,         \* bound: largest initial sequence number
    NetCap,         \* bound: segments in flight in one direction
    Lossy,          \* the network may lose segments
    SlowReaders,    \* endpoints that may advertise a closed window: another
                    \* TCP stack, whose application reads slowly
    EarlyTimeouts,  \* endpoints whose timers for a retransmission may expire
                    \* while segments are still in flight
    Duplicating     \* the network may deliver a segment more than once

Endpoints == {"A", "B"}

ASSUME PeersAssumption ==
    /\ \A S \in {ActiveOpeners, PassiveOpeners, Writers, Closers, Aborters,
                  SlowReaders, EarlyTimeouts} :
          S \subseteq Endpoints
    /\ CloseStates \subseteq States \ {"INIT", "CLOSED"}
    /\ SendSizes \subseteq Nat \ {0}
    /\ \A w \in Cwnds : w \in Nat /\ w >= MSS
    /\ MaxData \in Nat /\ MaxIss \in Nat /\ NetCap \in Nat
    /\ Lossy \in BOOLEAN /\ Duplicating \in BOOLEAN

VARIABLES
    tcb,    \* tcb[p]: the connection of endpoint p
    net     \* net[p]: the segments in flight to p

vars == <<tcb, net>>

Peer(p) == IF p = "A" THEN "B" ELSE "A"

-----------------------------------------------------------------------------

\* selectInitialSeqNum() takes the clock; the two ends do not share theirs.
IssBase(p) == IF p = "A" THEN 0 ELSE IssStep \div 2

Init == /\ tcb = [p \in Endpoints |-> [NewConnection EXCEPT !.iss = IssBase(p)]]
        /\ net = [p \in Endpoints |-> {}]

\* An error ends the simulation.
Running == \A p \in Endpoints : ~tcb[p].fault

\* The segments of sent that join those in flight: all of them, unless some
\* are lost or there is no room.
Carried(flying, sent) ==
    {kept \in SUBSET sent :
        /\ Cardinality(flying \cup kept) <= NetCap
        /\ \/ Lossy
           \/ kept = sent
           \/ Cardinality(flying \cup sent) > NetCap}

\* What endpoint p sends when its handler sent out.  INET's receiver reads at
\* once and never closes its window; a foreign one may, the handshake over.
Advertised(p, out) ==
    {out} \cup IF p \in SlowReaders
               THEN {{IF "SYN" \in s.flags THEN s ELSE [s EXCEPT !.wnd = 0] :
                          s \in out}}
               ELSE {}

\* A handler took the connection of p to c, and rest is what is still in
\* flight to p.
Handled(p, c, rest) ==
    LET d == PerformStateTransition(c)
    IN  /\ tcb' = [tcb EXCEPT ![p] = [d EXCEPT !.out = {}, !.event = "IGNORE"]]
        /\ \E sent \in Advertised(p, d.out) : \E kept \in Carried(net[Peer(p)], sent) :
              net' = [net EXCEPT ![p] = rest, ![Peer(p)] = @ \cup kept]

-----------------------------------------------------------------------------
(* Application commands, in the order TCPSocket allows them.               *)

Exists(p) == tcb[p].st \notin {"INIT", "CLOSED"}

Written(p) == MaxOf(0, tcb[p].qEnd - (tcb[p].iss + 1))

OpenActive(p) ==
    /\ Running
    /\ p \in ActiveOpeners
    /\ tcb[p].st = "INIT"
    /\ Handled(p, ProcessOpenActive(tcb[p]), net[p])

OpenPassive(p) ==
    /\ Running
    /\ p \in PassiveOpeners
    /\ tcb[p].st = "INIT"
    /\ Handled(p, ProcessOpenPassive(tcb[p]), net[p])

Send(p) ==
    /\ Running
    /\ p \in Writers
    /\ ~tcb[p].appClosed
    /\ \/ tcb[p].st \in SynStates /\ tcb[p].active
       \/ tcb[p].st \in {"ESTABLISHED", "CLOSE_WAIT"}
    /\ \E n \in SendSizes, w \in Cwnds :
          /\ Written(p) + n <= MaxData
          /\ Handled(p, ProcessSend(tcb[p], n, w), net[p])

Close(p) ==
    /\ Running
    /\ p \in Closers
    /\ tcb[p].st \in CloseStates
    /\ ~tcb[p].appClosed
    /\ Handled(p, ProcessClose(tcb[p]), net[p])

Abort(p) ==
    /\ Running
    /\ p \in Aborters
    /\ Exists(p)
    /\ tcb[p].st # "TIME_WAIT"      \* the application was told CLOSED
    /\ Handled(p, ProcessAbort(tcb[p]), net[p])

-----------------------------------------------------------------------------
(* Segments.                                                               *)

SegmentArrives(p) ==
    /\ Running
    /\ tcb[p].st = "LISTEN" => tcb[p].iss + IssStep <= MaxIss
    /\ \E s \in net[p], w \in Cwnds :
          \/ Handled(p, ProcessRcvSegment(tcb[p], s, w), net[p] \ {s})
          \/ Duplicating /\ Handled(p, ProcessRcvSegment(tcb[p], s, w), net[p])

-----------------------------------------------------------------------------
(* Timers.                                                                 *)

Quiet == \A q \in Endpoints : net[q] = {}

TimeoutConnEstab(p) ==
    /\ Running
    /\ "CONN_ESTAB" \in tcb[p].timers
    /\ p \in EarlyTimeouts \/ Quiet
    /\ Handled(p, ProcessTimeoutConnEstab(tcb[p]), net[p])

\* The timeout exceeds the lifetime of any segment.
Timeout2MSL(p) ==
    /\ Running
    /\ "2MSL" \in tcb[p].timers
    /\ Quiet
    /\ Handled(p, ProcessTimeout2MSL(tcb[p]), net[p])

TimeoutSynRexmit(p) ==
    /\ Running
    /\ "SYN_REXMIT" \in tcb[p].timers
    /\ p \in EarlyTimeouts \/ Quiet
    /\ Handled(p, ProcessTimeoutSynRexmit(tcb[p]), net[p])

TimeoutRexmit(p) ==
    /\ Running
    /\ "REXMIT" \in tcb[p].timers
    /\ p \in EarlyTimeouts \/ Quiet
    /\ Handled(p, ProcessRexmitTimer(tcb[p]), net[p])

TimeoutPersist(p) ==
    /\ Running
    /\ "PERSIST" \in tcb[p].timers
    /\ p \in EarlyTimeouts \/ Quiet
    /\ Handled(p, ProcessPersistTimer(tcb[p]), net[p])

TimeoutDelayedAck(p) ==
    /\ Running
    /\ "DELAYED_ACK" \in tcb[p].timers
    /\ Handled(p, ProcessDelayedAckTimer(tcb[p]), net[p])

-----------------------------------------------------------------------------

Command(p) == OpenActive(p) \/ OpenPassive(p) \/ Send(p) \/ Close(p) \/ Abort(p)

Timeout(p) == \/ TimeoutConnEstab(p) \/ Timeout2MSL(p) \/ TimeoutSynRexmit(p)
              \/ TimeoutRexmit(p) \/ TimeoutPersist(p) \/ TimeoutDelayedAck(p)

Next == \E p \in Endpoints : Command(p) \/ SegmentArrives(p) \/ Timeout(p)

Spec == Init /\ [][Next]_vars

\* OMNeT++ delivers every message it has scheduled: segments the network does
\* not lose arrive and timers expire.  Applications promise nothing.  The
\* second half of Fairness is weak fairness too, its ENABLED replaced by the
\* equivalent guard, which TLC evaluates without running a long handler: a
\* handler can always run, and the ones named change the state (a persist
\* probe if there is a byte to send).
CanArrive(p) == Running /\ net[p] # {}
CanRexmit(p) == Running /\ "REXMIT" \in tcb[p].timers /\ (p \in EarlyTimeouts \/ Quiet)
CanProbe(p)  == /\ Running /\ "PERSIST" \in tcb[p].timers /\ (p \in EarlyTimeouts \/ Quiet)
                /\ BytesAvailable(tcb[p], tcb[p].snd_max) > 0

Fairness ==
    \A p \in Endpoints :
        /\ WF_vars(TimeoutConnEstab(p)) /\ WF_vars(TimeoutSynRexmit(p))
        /\ WF_vars(Timeout2MSL(p)) /\ WF_vars(TimeoutDelayedAck(p))
        /\ []<>~CanArrive(p) \/ []<><<SegmentArrives(p)>>_vars
        /\ []<>~CanRexmit(p) \/ []<><<TimeoutRexmit(p)>>_vars
        /\ []<>~CanProbe(p)  \/ []<><<TimeoutPersist(p)>>_vars

FairSpec == Spec /\ Fairness

-----------------------------------------------------------------------------
(* Properties of the two connections.                                      *)

Heard(p) == {tcb[p].app[i] : i \in DOMAIN tcb[p].app}

Synchronized(p) == tcb[p].st \in DataStates

\* Every variable has its type, and no segment is retransmitted more often
\* than the limits say.
TypeOK == /\ tcb = [p \in Endpoints |-> tcb[p]]
          /\ \A p \in Endpoints :
                /\ IsTCB(tcb[p])
                /\ tcb[p].rexmit_count \in 0 .. MAX_REXMIT_COUNT
                /\ tcb[p].syn_rexmit_count \in 0 .. MAX_SYN_REXMIT_COUNT
          /\ net \in [Endpoints -> SUBSET Segment]

\* No handler runs into one of its ASSERTs or cRuntimeErrors, and none
\* schedules a timer that is already scheduled.
NoFault == \A p \in Endpoints : ~tcb[p].fault

\* The two timers of the handshake run exactly during the handshake: it cannot
\* last for ever, and neither timer expires in a state its handler does not
\* expect.
HandshakeIsTimed ==
    \A p \in Endpoints : \A t \in {"CONN_ESTAB", "SYN_REXMIT"} :
        t \in tcb[p].timers <=> tcb[p].st \in SynStates

\* A connection in TIME_WAIT has its timer running: it does not stay.
TimeWaitIsTimed ==
    \A p \in Endpoints : tcb[p].st = "TIME_WAIT" => "2MSL" \in tcb[p].timers

\* The send variables point into the send queue, whatever acknowledgements,
\* retransmissions and probes have moved them: una <= nxt <= max, and max
\* passes the last queued byte only by the FIN that was sent there.
SndVarsOrdered ==
    \A p \in Endpoints :
        LET c == tcb[p]
        IN  Synchronized(p) =>
                /\ c.iss <= c.snd_una
                /\ c.snd_una <= c.snd_nxt /\ c.snd_nxt <= c.snd_max
                /\ c.snd_max <= c.qEnd + 1
                /\ c.snd_max = c.qEnd + 1 => c.send_fin /\ c.snd_fin_seq = c.qEnd

\* Both ends of a synchronized connection number the two streams alike, and no
\* old SYN, ACK or RST of an earlier handshake makes them differ: the SYN of
\* each has been acknowledged, each end expects a byte the other has sent or
\* will send next, and what an end takes for acknowledged the other has
\* received.
EndsAgree ==
    \A p \in Endpoints :
        LET c == tcb[p]
            d == tcb[Peer(p)]
        IN  Synchronized(p) =>
                /\ c.iss < c.snd_una
                /\ Synchronized(Peer(p)) =>
                       d.iss < c.rcv_nxt /\ c.rcv_nxt <= d.snd_max /\ d.snd_una <= c.rcv_nxt

\* A byte that was acknowledged, and so is gone from the send queue, was
\* handed to the application at the other end.
AckedDataWasDelivered ==
    \A p \in Endpoints :
        Synchronized(p) =>
            MinOf(tcb[p].snd_una, tcb[p].qEnd) - (tcb[p].iss + 1)
                <= tcb[Peer(p)].delivered

\* The sender never depends on a segment it cannot ask for again: while bytes
\* are unacknowledged the retransmission timer runs, and while bytes or a FIN
\* wait in the queue that timer or the persist timer does.
SenderHasTimer ==
    \A p \in Endpoints :
        LET c == tcb[p]
        IN  Synchronized(p) =>
                /\ c.snd_una < c.snd_max => "REXMIT" \in c.timers
                /\ c.snd_max < c.qEnd \/ (c.send_fin /\ c.snd_max <= c.snd_fin_seq)
                      => c.timers \cap {"REXMIT", "PERSIST"} # {}

\* The application hears of a connection in the order of its life: established,
\* closed by the peer, an error, closed; each at most once.
IndicationsInOrder ==
    \A p \in Endpoints :
        LET app     == tcb[p].app
            rank(i) == CASE i = "ESTABLISHED" -> 1
                         [] i = "PEER_CLOSED" -> 2
                         [] i = "CLOSED" -> 4
                         [] OTHER -> 3
        IN  \A i, j \in DOMAIN app : i < j => rank(app[i]) < rank(app[j])

\* TCP gives each application the byte stream ByteStream promises: bytes once
\* and in order, however segments overlap, are split, lost or reordered, and no end
\* of stream before the last byte.  The code keeps this only where no segment is cut
\* off by the window (MCStream): one that is keeps its FIN, and then the end of the
\* stream comes too early (NoDataLostAtEOF in MCTCPPeers).
Stream == INSTANCE ByteStream WITH
    Ends    <- Endpoints,
    Other   <- Peer,
    written <- [p \in Endpoints |-> Written(p)],
    ended   <- [p \in Endpoints |-> tcb[p].appClosed],
    read    <- [p \in Endpoints |-> tcb[p].delivered],
    eof     <- [p \in Endpoints |->
                   \/ "PEER_CLOSED" \in Heard(p)
                   \/ tcb[p].app = <<"ESTABLISHED", "CLOSED">>]

StreamSpec == Stream!Spec

\* Whatever the network loses, the bytes written arrive, or the retransmission
\* limit ends the connection.
DataArrives ==
    \A p \in Endpoints : \A k \in 1 .. MaxData :
        Synchronized(p) /\ Written(p) >= k
            ~> tcb[Peer(p)].delivered >= k \/ ~Synchronized(p)

\* When both applications have closed, both FINs get acknowledged or the
\* connections end; only FIN_WAIT_2, which has no timer, and TIME_WAIT (see
\* TimeWaitEnds in MCTCPPeers) may remain.
ClosesComplete ==
    (\A p \in Endpoints : tcb[p].appClosed)
        ~> (\A p \in Endpoints : tcb[p].st \in {"CLOSED", "FIN_WAIT_2", "TIME_WAIT"})

=============================================================================
