--------------------------- MODULE TCPConnection ---------------------------
(***************************************************************************)
(* One TCP connection of INET (transport/tcp): its transmission control    *)
(* block and every event handler of TCPConnection, with the base class of  *)
(* the congestion control flavours (TCPBaseAlg) and the retransmission     *)
(* decisions of the default flavour, TCPTahoe.  A handler is an operator   *)
(* that maps a TCB to the TCB it leaves behind; TCPPeers turns them into   *)
(* actions of two endpoints that talk over a network.                      *)
(*                                                                         *)
(* Data is abstracted to byte positions.  Sequence numbers are unbounded   *)
(* integers: TCPSeq shows that the 32 bit comparisons of the code agree    *)
(* with them while the numbers compared are less than 2^31 apart.  The     *)
(* header options (MSS, SACK, timestamps, window scale), all off by        *)
(* default, are not used.  The congestion window is a parameter w of the   *)
(* handlers that send: the flavours compute it, and no property here       *)
(* depends on how.                                                         *)
(***************************************************************************)
EXTENDS Integers, Sequences, FiniteSets

CONSTANTS
    MSS,                    \* snd_mss, bytes in a full-sized segment
    MaxRcvBuffer,           \* maxRcvBuffer, the advertisedWindow parameter
    MAX_REXMIT_COUNT,       \* retransmissions before the connection is aborted
    MAX_SYN_REXMIT_COUNT,   \* the same for SYN and SYN+ACK
    DUPTHRESH,              \* duplicate ACKs that trigger a fast retransmit
    NagleEnabled,           \* the nagleEnabled parameter
    DelayedAcksEnabled,     \* the delayedAcksEnabled parameter
    IssStep                 \* distance between two initial sequence numbers

ASSUME ConnectionAssumption ==
    /\ MSS \in Nat \ {0}
    /\ MaxRcvBuffer \in Nat \ {0}
    /\ MAX_REXMIT_COUNT \in Nat
    /\ MAX_SYN_REXMIT_COUNT \in Nat
    /\ DUPTHRESH \in Nat \ {0}
    /\ NagleEnabled \in BOOLEAN
    /\ DelayedAcksEnabled \in BOOLEAN
    /\ IssStep \in Nat \ {0}

-----------------------------------------------------------------------------

\* The connection states of the FSM.
SynStates  == {"SYN_SENT", "SYN_RCVD"}
DataStates == {"ESTABLISHED", "CLOSE_WAIT", "LAST_ACK",
               "FIN_WAIT_1", "FIN_WAIT_2", "CLOSING"}
States     == {"INIT", "CLOSED", "LISTEN", "TIME_WAIT"}
                  \cup SynStates \cup DataStates

\* The event codes handlers hand to the FSM.  TIMEOUT_FIN_WAIT_2 is missing:
\* no code schedules finWait2Timer, so the event does not occur.
Events == {"IGNORE", "OPEN_ACTIVE", "OPEN_PASSIVE", "SEND", "CLOSE", "ABORT",
           "RCV_ACK", "RCV_SYN", "RCV_SYN_ACK", "RCV_FIN", "RCV_FIN_ACK",
           "RCV_RST", "RCV_UNEXP_SYN", "TIMEOUT_2MSL", "TIMEOUT_CONN_ESTAB"}

\* Timers of TCPConnection and of TCPBaseAlg.  A set of them tells which are
\* scheduled.
Timers == {"2MSL", "CONN_ESTAB", "SYN_REXMIT",
           "REXMIT", "PERSIST", "DELAYED_ACK"}

\* Variants with a fault, here and below, are named Bad...: PROJECT.json says
\* which property tells each from the definition it follows.
BadHandshakeTimersKeepEstab    == {"SYN_REXMIT"}
BadHandshakeTimersKeepSynRexmit == {"CONN_ESTAB"}

\* The timers that stateEntered() cancels when the handshake is over.
HandshakeTimers == {"CONN_ESTAB", "SYN_REXMIT"}

\* What the connection tells its application, data aside.
Indications == {"ESTABLISHED", "PEER_CLOSED", "CLOSED",
                "CONNECTION_REFUSED", "CONNECTION_RESET", "TIMED_OUT"}

Flags   == {"SYN", "ACK", "FIN", "RST"}
Segment == [flags : SUBSET Flags, seq : Int, ack : Int, len : Nat, wnd : Int]

TCBFields ==
    {"st", "active", "iss", "snd_una", "snd_nxt", "snd_max", "snd_wnd",
     "snd_wl1", "snd_wl2", "qBegin", "qEnd", "rcv_nxt", "rcv_wnd",
     "rq_nxt", "rcvq", "delivered", "send_fin", "snd_fin_seq",
     "fin_ack_rcvd", "fin_rcvd", "rcv_fin_seq", "afterRto", "dupacks",
     "rexmit_count", "syn_rexmit_count", "ack_now", "full_sized",
     "last_ack_sent", "timers", "app", "appClosed", "fault", "out",
     "event"}

\* The type of a TCB, as a predicate: c is a record with these fields.
IsTCB(c) ==
    /\ DOMAIN c = TCBFields
    /\ c.st \in States
    /\ c.active \in BOOLEAN             \* opened actively
    \* send sequence variables
    /\ c.iss \in Int
    /\ c.snd_una \in Int
    /\ c.snd_nxt \in Int
    /\ c.snd_max \in Int
    /\ c.snd_wnd \in Int
    /\ c.snd_wl1 \in Int
    /\ c.snd_wl2 \in Int
    \* send queue: bytes qBegin .. qEnd-1 are held
    /\ c.qBegin \in Int
    /\ c.qEnd \in Int
    \* receive sequence variables and receive queue
    /\ c.rcv_nxt \in Int
    /\ c.rcv_wnd \in Int
    /\ c.rq_nxt \in Int                 \* the queue's own rcv_nxt
    /\ c.rcvq \in SUBSET Int            \* bytes received but not deliverable
    /\ IsFiniteSet(c.rcvq)
    /\ c.delivered \in Int              \* bytes handed to the application
    \* connection tear-down
    /\ c.send_fin \in BOOLEAN
    /\ c.snd_fin_seq \in Int
    /\ c.fin_ack_rcvd \in BOOLEAN
    /\ c.fin_rcvd \in BOOLEAN
    /\ c.rcv_fin_seq \in Int
    \* retransmission and acknowledgement policy
    /\ c.afterRto \in BOOLEAN
    /\ c.dupacks \in Int
    /\ c.rexmit_count \in Int
    /\ c.syn_rexmit_count \in Int
    /\ c.ack_now \in BOOLEAN
    /\ c.full_sized \in Int             \* full_sized_segment_counter
    /\ c.last_ack_sent \in Int
    /\ c.timers \in SUBSET Timers
    \* the connection's environment
    /\ c.app \in Seq(Indications)       \* indications given, in order
    /\ c.appClosed \in BOOLEAN          \* the application called close()
    /\ c.fault \in BOOLEAN              \* an ASSERT or cRuntimeError fired
    \* scratch space of the running handler
    /\ c.out \in SUBSET Segment
    /\ c.event \in Events

\* A connection object as the constructor leaves it.
NewConnection ==
    [st |-> "INIT", active |-> FALSE,
     iss |-> 0, snd_una |-> 0, snd_nxt |-> 0, snd_max |-> 0,
     snd_wnd |-> 0, snd_wl1 |-> 0, snd_wl2 |-> 0, qBegin |-> 0, qEnd |-> 0,
     rcv_nxt |-> 0, rcv_wnd |-> MaxRcvBuffer, rq_nxt |-> 0, rcvq |-> {},
     delivered |-> 0,
     send_fin |-> FALSE, snd_fin_seq |-> 0, fin_ack_rcvd |-> FALSE,
     fin_rcvd |-> FALSE, rcv_fin_seq |-> 0,
     afterRto |-> FALSE, dupacks |-> 0, rexmit_count |-> 0,
     syn_rexmit_count |-> 0, ack_now |-> FALSE, full_sized |-> 0,
     last_ack_sent |-> 0, timers |-> {},
     app |-> << >>, appClosed |-> FALSE, fault |-> FALSE,
     out |-> {}, event |-> "IGNORE"]

-----------------------------------------------------------------------------
(* Helpers.                                                                *)

MinOf(a, b) == IF a <= b THEN a ELSE b
MaxOf(a, b) == IF a >= b THEN a ELSE b

Seg(flags, seq, ack, len, wnd) ==
    [flags |-> flags, seq |-> seq, ack |-> ack, len |-> len, wnd |-> wnd]

SegLen(s) == s.len + (IF "SYN" \in s.flags THEN 1 ELSE 0)
                   + (IF "FIN" \in s.flags THEN 1 ELSE 0)

Emit(c, s)     == [c EXCEPT !.out = @ \cup {s}]
Indicate(c, i) == [c EXCEPT !.app = Append(@, i)]
Event(c, e)    == [c EXCEPT !.event = e]

\* ASSERT(cond) and scheduleAt() of a message that is already scheduled end
\* the simulation with an error.
Require(c, cond) == [c EXCEPT !.fault = @ \/ ~cond]
ScheduleTimeout(c, t) ==
    [c EXCEPT !.fault = @ \/ t \in c.timers, !.timers = @ \cup {t}]
CancelEvents(c, ts) == [c EXCEPT !.timers = @ \ ts]

\* Bytes of the send queue from position seq on.
BytesAvailable(c, seq) == IF seq < c.qEnd THEN c.qEnd - seq ELSE 0

\* discardUpTo() of the send queue.
DiscardUpTo(c, seq) ==
    [c EXCEPT !.qBegin = seq,
              !.fault = @ \/ ~(c.qBegin <= seq /\ seq <= c.qEnd)]

-----------------------------------------------------------------------------
(* Sending.                                                                *)

\* The window to advertise: the free space of the receive queue, or nothing
\* if that is too little (silly window avoidance).
AdvertisedWindow(q) ==
    LET used == Cardinality(q)
        free == IF MaxRcvBuffer > used THEN MaxRcvBuffer - used ELSE 0
    IN  IF free < MaxRcvBuffer \div 4 /\ free < MSS THEN 0 ELSE free

UpdateRcvWnd(c) == [c EXCEPT !.rcv_wnd = AdvertisedWindow(c.rcvq)]

AckSent(c) ==
    [c EXCEPT !.full_sized = 0, !.ack_now = FALSE,
              !.last_ack_sent = c.rcv_nxt, !.timers = @ \ {"DELAYED_ACK"}]

StartRexmitTimer(c) == ScheduleTimeout([c EXCEPT !.rexmit_count = 0], "REXMIT")
RestartRexmitTimer(c) == StartRexmitTimer(CancelEvents(c, {"REXMIT"}))

BadDataSent(c) == IF c.rexmit_count = 0 THEN c ELSE StartRexmitTimer(c)
DataSent(c) == IF "REXMIT" \in c.timers THEN c ELSE StartRexmitTimer(c)

SelectInitialSeqNum(c) ==
    LET i == c.iss + IssStep
    IN  [c EXCEPT !.iss = i, !.snd_una = i, !.snd_nxt = i, !.snd_max = i,
                  !.qBegin = i + 1, !.qEnd = i + 1]

SendSyn(c) ==
    LET d == UpdateRcvWnd([c EXCEPT !.snd_nxt = c.iss + 1,
                                    !.snd_max = c.iss + 1])
    IN  Emit(d, Seg({"SYN"}, c.iss, 0, 0, d.rcv_wnd))

SendSynAck(c) ==
    LET d == UpdateRcvWnd([c EXCEPT !.snd_nxt = c.iss + 1,
                                    !.snd_max = c.iss + 1])
    IN  AckSent(Emit(d, Seg({"SYN", "ACK"}, c.iss, c.rcv_nxt, 0, d.rcv_wnd)))

SendRst(c, seq) == Emit(c, Seg({"RST"}, seq, 0, 0, 0))

SendAck(c) ==
    LET d == UpdateRcvWnd(c)
    IN  AckSent(Emit(d, Seg({"ACK"}, c.snd_nxt, c.rcv_nxt, 0, d.rcv_wnd)))

BadSendFin(c, seq) ==
    LET d == UpdateRcvWnd(c)
        e == Emit(d, Seg({"FIN", "ACK"}, seq, c.rcv_nxt, 0, d.rcv_wnd))
    IN  [AckSent(e) EXCEPT !.snd_nxt = seq + 1]

\* sendFin() sends a bare FIN at snd_nxt; its callers then move snd_nxt and
\* snd_max over it.
SendFin(c, seq) ==
    LET d == UpdateRcvWnd(c)
        e == Emit(d, Seg({"FIN", "ACK"}, seq, c.rcv_nxt, 0, d.rcv_wnd))
    IN  [AckSent(e) EXCEPT !.snd_nxt = seq + 1, !.snd_max = seq + 1]

\* The bytes snd_nxt .. snd_nxt+n-1 in segments, the last one with the FIN or not.
DataSegments(c, n, fin) ==
    {Seg(IF fin /\ off + MSS >= n THEN {"FIN", "ACK"} ELSE {"ACK"},
         c.snd_nxt + off, c.rcv_nxt, MinOf(MSS, n - off), c.rcv_wnd) :
        off \in {o \in 0 .. n-1 : o % MSS = 0}}

\* sendSegment(), called as often as it takes to send n bytes from snd_nxt in
\* segments of at most MSS bytes.  The FIN rides on the segment whose last
\* byte precedes snd_fin_seq.
SendBytes(c, n) ==
    LET d     == UpdateRcvWnd(c)
        next  == c.snd_nxt + n
        fin   == c.send_fin /\ next = c.snd_fin_seq
    IN  [d EXCEPT
           !.snd_nxt  = IF fin THEN next + 1 ELSE next,
           !.afterRto = @ /\ next < c.snd_max,
           !.out      = @ \cup DataSegments(d, n, fin),
           !.fault    = @ \/ ~(c.qBegin <= c.snd_nxt /\ next <= c.qEnd)]

RaiseSndMax(c) == [c EXCEPT !.snd_max = MaxOf(@, c.snd_nxt)]

\* How much sendData() sends from snd_nxt: what the windows allow, in full
\* segments, unless it is a single segment or empties the send queue.
BytesToSend(c, fullSegmentsOnly, w) ==
    LET buffered  == BytesAvailable(c, c.snd_nxt)
        effective == MinOf(c.snd_wnd, w) - (c.snd_nxt - c.snd_una)
        bytes     == MinOf(effective, buffered)
    IN  IF bytes <= 0 \/ (fullSegmentsOnly /\ bytes < MSS) THEN 0
        ELSE IF bytes <= MSS \/ bytes = buffered THEN bytes
        ELSE bytes - (bytes % MSS)

\* sendData(): new data from snd_max, or old data from snd_nxt after an RTO.
SendData(c, fullSegmentsOnly, w) ==
    LET d == IF c.afterRto THEN c ELSE [c EXCEPT !.snd_nxt = c.snd_max]
        n == BytesToSend(d, fullSegmentsOnly, w)
    IN  IF n = 0 THEN d
        ELSE DataSent(AckSent(RaiseSndMax(SendBytes(d, n))))

\* sendProbe(): one byte, whatever the window.
SendProbe(c) ==
    LET d == [c EXCEPT !.snd_nxt = c.snd_max]
    IN  IF BytesAvailable(d, d.snd_nxt) = 0 THEN d
        ELSE DataSent(AckSent(RaiseSndMax(SendBytes(d, 1))))

RetransmitOneSegment(c, atRto) ==
    LET n == MinOf(MinOf(MSS, c.snd_max - c.snd_una),
                   BytesAvailable(c, c.snd_una))
        d == SendBytes([c EXCEPT !.snd_nxt = c.snd_una], n)
    IN  IF n = 0 /\ c.send_fin /\ c.snd_fin_seq = c.qEnd
        THEN SendFin(c, c.qEnd)
        ELSE AckSent([Require(d, n # 0) EXCEPT
                        !.snd_nxt = IF atRto THEN @ ELSE MaxOf(@, c.snd_nxt)])

-----------------------------------------------------------------------------
(* The congestion control flavour: what TCPBaseAlg and TCPTahoe do when the *)
(* connection notifies them.                                               *)

BadPersistTimerNeeded(c) == c.snd_wnd = 0 /\ c.snd_una # c.snd_max
PersistTimerNeeded(c) == c.snd_wnd = 0 /\ "REXMIT" \notin c.timers

ReceivedDataAck(c, w) ==
    LET d == IF c.snd_una = c.snd_max
             THEN CancelEvents(c, {"REXMIT"})
             ELSE RestartRexmitTimer(c)
        e == IF PersistTimerNeeded(d)
             THEN [d EXCEPT !.timers = @ \cup {"PERSIST"}]
             ELSE CancelEvents(d, {"PERSIST"})
    IN  SendData(e, FALSE, w)

ReceivedDuplicateAck(c) ==
    IF c.dupacks = DUPTHRESH THEN RetransmitOneSegment(c, FALSE) ELSE c

\* established(): the active side completes the handshake with an ACK,
\* piggybacked on data if some is queued.
EstablishedActive(c, w) ==
    LET d == SendData(c, FALSE, w)
    IN  IF d.out = c.out THEN SendAck(d) ELSE d

SendCommandInvoked(c, w) ==
    SendData(c, NagleEnabled /\ c.snd_una # c.snd_max, w)

\* receiveSeqChanged(): acknowledge at once, later, or not at all because a
\* data segment has just carried the new rcv_nxt.
ReceiveSeqChanged(c) ==
    IF /\ c.full_sized = 0
       /\ ~c.ack_now
       /\ c.last_ack_sent = c.rcv_nxt
       /\ "DELAYED_ACK" \notin c.timers
    THEN c
    ELSE IF ~DelayedAcksEnabled \/ c.ack_now \/ c.full_sized >= 2
    THEN SendAck(c)
    ELSE [c EXCEPT !.timers = @ \cup {"DELAYED_ACK"}]

-----------------------------------------------------------------------------
(* The finite state machine.                                               *)

\* The state performStateTransition() goes to from c.st on event e.
NextState(c, e) ==
    LET passive == IF c.active THEN "CLOSED" ELSE "LISTEN"
    IN  CASE c.st = "INIT" /\ e = "OPEN_PASSIVE" -> "LISTEN"
          [] c.st = "INIT" /\ e = "OPEN_ACTIVE" -> "SYN_SENT"
          [] c.st = "LISTEN" /\ e = "CLOSE" -> "CLOSED"
          [] c.st = "LISTEN" /\ e = "RCV_SYN" -> "SYN_RCVD"
          [] c.st = "SYN_SENT" /\ e \in {"CLOSE", "TIMEOUT_CONN_ESTAB", "RCV_RST"} -> "CLOSED"
          [] c.st = "SYN_SENT" /\ e = "RCV_SYN_ACK" -> "ESTABLISHED"
          [] c.st = "SYN_SENT" /\ e = "RCV_SYN" -> "SYN_RCVD"
          [] c.st = "SYN_RCVD" /\ e \in {"TIMEOUT_CONN_ESTAB", "RCV_RST"} -> passive
          [] c.st = "SYN_RCVD" /\ e = "RCV_ACK" -> "ESTABLISHED"
          [] c.st \in {"SYN_RCVD", "ESTABLISHED"} /\ e = "CLOSE" -> "FIN_WAIT_1"
          [] c.st \in {"SYN_RCVD", "ESTABLISHED"} /\ e = "RCV_FIN" -> "CLOSE_WAIT"
          [] c.st = "CLOSE_WAIT" /\ e = "CLOSE" -> "LAST_ACK"
          [] c.st = "LAST_ACK" /\ e = "RCV_ACK" -> "CLOSED"
          [] c.st = "FIN_WAIT_1" /\ e = "RCV_FIN" -> "CLOSING"
          [] c.st = "FIN_WAIT_1" /\ e = "RCV_ACK" -> "FIN_WAIT_2"
          [] c.st = "FIN_WAIT_1" /\ e = "RCV_FIN_ACK" -> "TIME_WAIT"
          [] c.st = "FIN_WAIT_2" /\ e = "RCV_FIN" -> "TIME_WAIT"
          [] c.st = "CLOSING" /\ e = "RCV_ACK" -> "TIME_WAIT"
          [] c.st = "TIME_WAIT" /\ e = "TIMEOUT_2MSL" -> "CLOSED"
          [] c.st \in DataStates \cup {"TIME_WAIT"} /\ e = "RCV_RST" -> "CLOSED"
          [] c.st \in DataStates \cup {"TIME_WAIT", "SYN_RCVD"}
                /\ e = "RCV_UNEXP_SYN" -> "CLOSED"
          [] c.st # "INIT" /\ e = "ABORT" -> "CLOSED"
          [] OTHER -> c.st

\* TCP deletes a closed connection.  What outlives it here is the history of
\* its application.
Removed(c) ==
    [NewConnection EXCEPT
        !.st = "CLOSED", !.iss = c.iss, !.qEnd = c.qEnd,
        !.delivered = c.delivered, !.app = c.app,
        !.appClosed = c.appClosed, !.fault = c.fault, !.out = c.out]

BadClosedIsNews(c, old) == c.event # "ABORT"

\* A connection that aborts, or leaves TIME_WAIT, has told its application.
ClosedIsNews(c, old) == old # "TIME_WAIT" /\ c.event # "ABORT"

\* stateEntered(): c is in its new state, old is the one it left.
StateEntered(c, old) ==
    CASE c.st \in {"LISTEN"} \cup (DataStates \ {"CLOSE_WAIT"})
            -> CancelEvents(c, HandshakeTimers)
      [] c.st = "CLOSE_WAIT"
            -> Indicate(CancelEvents(c, HandshakeTimers), "PEER_CLOSED")
      [] c.st = "TIME_WAIT" -> Indicate(c, "CLOSED")
      [] c.st = "CLOSED"
            -> Removed(IF ClosedIsNews(c, old) THEN Indicate(c, "CLOSED") ELSE c)
      [] OTHER -> c

\* performStateTransition() at the end of every handler.  The event stays in
\* the TCB for the caller to clear.
PerformStateTransition(c) ==
    LET next == NextState(c, c.event)
    IN  IF next = c.st THEN c ELSE StateEntered([c EXCEPT !.st = next], c.st)

-----------------------------------------------------------------------------
(* Application commands.                                                   *)

ProcessOpenActive(c) ==
    LET d == SendSyn(SelectInitialSeqNum([c EXCEPT !.active = TRUE]))
        e == [d EXCEPT !.syn_rexmit_count = 0,
                       !.timers = @ \cup {"SYN_REXMIT", "CONN_ESTAB"}]
    IN  Event(e, "OPEN_ACTIVE")

ProcessOpenPassive(c) == Event([c EXCEPT !.active = FALSE], "OPEN_PASSIVE")

\* SEND of n bytes.  SEND in LISTEN, SEND and CLOSE after a CLOSE, and any
\* command to a missing connection are errors TCPSocket keeps from TCP.
ProcessSend(c, n, w) ==
    LET d == Event([c EXCEPT !.qEnd = @ + n], "SEND")
    IN  IF c.st \in {"ESTABLISHED", "CLOSE_WAIT"} THEN SendCommandInvoked(d, w)
        ELSE d

ProcessClose(c) ==
    LET pending == c.snd_max # c.qEnd
        d == [c EXCEPT !.appClosed = TRUE]
        e == [d EXCEPT !.send_fin = TRUE, !.snd_fin_seq = c.qEnd]
    IN  IF c.st \in {"LISTEN", "SYN_SENT"} THEN Event(d, "CLOSE")
        ELSE IF pending THEN e       \* the FIN will follow the last byte
        ELSE Event(RestartRexmitTimer(SendFin(e, c.snd_max)), "CLOSE")

ProcessAbort(c) ==
    LET d == [c EXCEPT !.appClosed = TRUE]
    IN  Event(IF c.st \in {"SYN_RCVD", "ESTABLISHED", "FIN_WAIT_1",
                           "FIN_WAIT_2", "CLOSE_WAIT"}
              THEN SendRst(d, c.snd_nxt) ELSE d, "ABORT")

-----------------------------------------------------------------------------
(* Segment arrival: the steps of RFC 793, "SEGMENT ARRIVES", as            *)
(* processSegment1stThru8th() goes through them.  Every step maps the TCB  *)
(* and the segment to a TCB; c.event is what the FSM will get.             *)

\* First step: is the segment in the receive window?  One past its end will
\* do, and so will any new acknowledgement on a segment without data.
IsSegmentAcceptable(c, s) ==
    LET wndEnd == c.rcv_nxt + c.rcv_wnd
        segEnd == s.seq + s.len
        newAck == /\ c.snd_una < s.ack
                  /\ s.ack <= IF c.afterRto THEN c.snd_max ELSE c.snd_nxt
    IN  IF s.len = 0
        THEN \/ c.rcv_nxt <= s.seq /\ s.seq <= wndEnd
             \/ newAck
        ELSE /\ c.rcv_wnd # 0
             /\ \/ c.rcv_nxt <= s.seq /\ s.seq < wndEnd
                \/ c.rcv_nxt < segEnd /\ segEnd <= wndEnd

\* Second step.
ProcessRst(c) ==
    CASE c.st = "SYN_RCVD" ->
            Event(LET d == [c EXCEPT !.qBegin = c.qEnd]
                  IN  IF c.active THEN Indicate(d, "CONNECTION_REFUSED") ELSE d,
                  "RCV_RST")
      [] c.st \in {"ESTABLISHED", "FIN_WAIT_1", "FIN_WAIT_2", "CLOSE_WAIT"} ->
            Event(Indicate(c, "CONNECTION_RESET"), "RCV_RST")
      [] OTHER -> Event(c, "RCV_RST")

\* updateWndInfo(): pick up the peer's window from a recent enough segment.
UpdateWndInfo(c, s) ==
    IF "ACK" \in s.flags /\ \/ c.snd_wl1 < s.seq
                            \/ c.snd_wl1 = s.seq /\ c.snd_wl2 <= s.ack
                            \/ c.snd_wl2 = s.ack /\ s.wnd > c.snd_wnd
    THEN [c EXCEPT !.snd_wnd = s.wnd, !.snd_wl1 = s.seq, !.snd_wl2 = s.ack]
    ELSE c

InitWndInfo(c, s) ==
    [c EXCEPT !.snd_wnd = s.wnd, !.snd_wl1 = s.seq, !.snd_wl2 = s.ack]

\* Fifth step, processAckInEstabEtc().  dupacks is not counted beyond the
\* first value that no longer triggers anything.
DuplicateAck(c, s) ==
    /\ s.ack = c.snd_una
    /\ s.len = 0
    /\ c.snd_una # c.snd_max

AcksOurFin(c, s) == c.send_fin /\ s.ack = c.snd_fin_seq + 1

ProcessOldAck(c, s) ==
    IF DuplicateAck(c, s)
    THEN ReceivedDuplicateAck(
            UpdateWndInfo([c EXCEPT !.dupacks = MinOf(@ + 1, DUPTHRESH + 1)], s))
    ELSE [c EXCEPT !.dupacks = 0]

ProcessNewAck(c, s, w) ==
    LET d == [c EXCEPT !.snd_una = s.ack, !.snd_nxt = MaxOf(@, s.ack),
                       !.fin_ack_rcvd = @ \/ AcksOurFin(c, s)]
        e == DiscardUpTo(d, IF AcksOurFin(c, s) THEN s.ack - 1 ELSE s.ack)
        f == UpdateWndInfo(e, s)
    IN  IF s.len = 0 /\ c.st # "SYN_RCVD"
        THEN [ReceivedDataAck(f, w) EXCEPT !.dupacks = 0]
        ELSE f

ProcessAck(c, s, w) ==
    IF s.ack <= c.snd_una THEN ProcessOldAck(c, s) ELSE ProcessNewAck(c, s, w)

\* What an acknowledged FIN means to the FSM, and the TIME_WAIT reply.
ProcessFinAcked(c) ==
    CASE c.st = "FIN_WAIT_1" /\ c.fin_ack_rcvd -> Event(c, "RCV_ACK")
      [] c.st = "CLOSING" /\ c.fin_ack_rcvd ->
            Event(ScheduleTimeout(c, "2MSL"), "RCV_ACK")
      [] c.st = "TIME_WAIT" ->
            ScheduleTimeout(CancelEvents(SendAck(c), {"2MSL"}), "2MSL")
      [] OTHER -> c

BadFinReached(c) ==
    IF c.st = "FIN_WAIT_1" /\ c.fin_ack_rcvd
    THEN Event(ScheduleTimeout(c, "2MSL"), "RCV_FIN_ACK") ELSE Event(c, "RCV_FIN")

\* The peer's FIN has just been passed over: the event it causes.
FinReached(c) ==
    CASE c.st = "FIN_WAIT_1" /\ c.fin_ack_rcvd ->
            Event(ScheduleTimeout(c, "2MSL"), "RCV_FIN_ACK")
      [] c.st = "FIN_WAIT_2" -> Event(ScheduleTimeout(c, "2MSL"), "RCV_FIN")
      [] c.st = "TIME_WAIT" ->
            Event(ScheduleTimeout(CancelEvents(c, {"2MSL"}), "2MSL"), "RCV_FIN")
      [] OTHER -> Event(c, "RCV_FIN")

\* truncateSegment(): the part of the segment in the receive window.  The FIN
\* stays on it, whatever is cut off.
Truncate(c, s) ==
    LET first == MaxOf(s.seq, c.rcv_nxt)
        last  == MinOf(s.seq + s.len, c.rcv_nxt + c.rcv_wnd)
    IN  [s EXCEPT !.seq = first, !.len = IF last > first THEN last - first ELSE 0]

BadFirstMissing(q, n) ==
    CHOOSE m \in {n} \cup {b + 1 : b \in q} : \A b \in q \cup {n} : b <= m

\* insertBytesFromSegment(): the first byte from n on that is still missing.
\* The queue itself is kept here as the set of buffered bytes, not as regions.
FirstMissing(q, n) ==
    LET candidates == {m \in n .. n + MaxRcvBuffer :
                          m \notin q /\ \A k \in n .. m-1 : k \in q}
    IN  IF candidates = {} THEN n ELSE CHOOSE m \in candidates : TRUE

HasEnoughSpace(c, s) ==
    LET first == IF \E b \in c.rcvq : b < c.rq_nxt
                 THEN CHOOSE b \in c.rcvq : \A x \in c.rcvq : b <= x
                 ELSE c.rq_nxt
    IN  first <= s.seq /\ s.seq + s.len <= first + MaxRcvBuffer

\* insertBytesFromSegment(): the bytes stay in the queue, and take window, until
\* they are extracted.
Insert(c, s) ==
    LET q    == c.rcvq \cup (s.seq .. s.seq + s.len - 1)
        next == FirstMissing(q, c.rq_nxt)
    IN  [c EXCEPT !.rcvq = q, !.rq_nxt = next, !.rcv_nxt = next]

\* extractBytesUpTo(): what is contiguous goes to the application.
Deliver(c) ==
    LET read == {b \in c.rcvq : b < c.rq_nxt}
    IN  [c EXCEPT !.rcvq = @ \ read, !.delivered = @ + Cardinality(read)]

\* Seventh step for a truncated segment t that fits the receive queue; una is
\* snd_una before the acknowledgement was processed.  What the acknowledgement
\* lets out still advertises the window without the bytes of t.
ProcessText(c, t, una, w) ==
    LET d == Insert(c, t)
        e == IF d.snd_una > una
             THEN [ReceivedDataAck(d, w) EXCEPT !.dupacks = 0]
             ELSE d
        f == Deliver(e)
    IN  IF d.rcv_nxt = c.rcv_nxt THEN SendAck(e)
        ELSE IF f.fin_rcvd /\ f.rcv_nxt = f.rcv_fin_seq
        THEN FinReached([f EXCEPT !.ack_now = TRUE, !.rcv_nxt = @ + 1])
        ELSE f

BadProcessFin(c, s) ==
    IF "FIN" \notin s.flags THEN c
    ELSE FinReached([c EXCEPT !.ack_now = TRUE, !.rcv_nxt = s.seq + s.len + 1])

\* Eighth step.  A FIN above rcv_nxt is remembered for later.
ProcessFin(c, s) ==
    LET finSeq == s.seq + s.len
        d      == [c EXCEPT !.ack_now = TRUE]
    IN  IF "FIN" \notin s.flags THEN c
        ELSE IF c.rcv_nxt = finSeq THEN FinReached([d EXCEPT !.rcv_nxt = @ + 1])
        ELSE [d EXCEPT !.fin_rcvd = TRUE, !.rcv_fin_seq = finSeq]

BadProcessDeferredClose(c, nxt) == c

\* A CLOSE deferred until the send queue is empty happens once the FIN is
\* out; nxt is snd_nxt before the segment was processed.
ProcessDeferredClose(c, nxt) ==
    LET finSent == c.send_fin /\ c.snd_nxt = c.snd_fin_seq + 1
    IN  IF \/ c.st \in {"ESTABLISHED", "SYN_RCVD"} /\ finSent
           \/ c.st = "CLOSE_WAIT" /\ finSent /\ nxt # c.snd_nxt
        THEN Event(c, "CLOSE") ELSE c

\* Steps six to eight, and what follows them.
ProcessTextAndFin(c, s, old, w) ==
    LET text  == /\ s.len > 0
                 /\ c.st \in {"SYN_RCVD", "ESTABLISHED", "FIN_WAIT_1", "FIN_WAIT_2"}
        t     == IF text THEN Truncate(c, s) ELSE s
        d     == IF text
                 THEN [c EXCEPT !.full_sized = IF s.len = MSS THEN @ + 1 ELSE @,
                                !.ack_now = @ \/ s.len = 1,
                                !.fault = @ \/ t.len = 0]
                 ELSE c
        e     == IF text THEN ProcessText(d, t, old.snd_una, w) ELSE d
        f     == ProcessFin(e, t)
        g     == IF f.rcv_nxt # c.rcv_nxt THEN ReceiveSeqChanged(f) ELSE f
    IN  IF text /\ ~HasEnoughSpace(d, t) THEN Event(d, "IGNORE")
        ELSE ProcessDeferredClose(g, old.snd_nxt)

BadAcksOurSynAck(c, s) == s.ack <= c.snd_nxt
AcksOurSynAck(c, s) == c.snd_una <= s.ack /\ s.ack <= c.snd_nxt

ProcessSegment1stThru8th(c, s, w) ==
    LET \* SYN_RCVD: the handshake is complete
        d == IF c.st = "SYN_RCVD"
             THEN Event(Indicate(c, "ESTABLISHED"), "RCV_ACK") ELSE c
        e == IF c.st \in DataStates \cup {"SYN_RCVD"} THEN ProcessAck(d, s, w) ELSE d
    IN  IF ~IsSegmentAcceptable(c, s)
        THEN IF "RST" \in s.flags THEN c ELSE SendAck(c)
        ELSE IF "RST" \in s.flags THEN ProcessRst(c)
        ELSE IF "SYN" \in s.flags
        THEN Event(Indicate(c, "CONNECTION_RESET"), "RCV_UNEXP_SYN")
        ELSE IF "ACK" \notin s.flags THEN c
        ELSE IF c.st = "SYN_RCVD" /\ ~AcksOurSynAck(c, s)
        THEN SendRst(c, s.ack)
        ELSE IF c.st \in DataStates /\ s.ack > c.snd_max
        THEN [SendAck(c) EXCEPT !.dupacks = 0]
        ELSE IF c.st = "LAST_ACK" /\ AcksOurFin(e, s)
        THEN Event(e, "RCV_ACK")
        ELSE ProcessTextAndFin(ProcessFinAcked(e), s, c, w)

\* processSegmentInListen() for a connection that does not fork.
ProcessSegmentInListen(c, s) ==
    LET d == SelectInitialSeqNum(
                [c EXCEPT !.rcv_nxt = s.seq + 1, !.rq_nxt = s.seq + 1, !.rcvq = {}])
        e == SendSynAck(InitWndInfo(d, s))
    IN  IF "RST" \in s.flags THEN c
        ELSE IF "ACK" \in s.flags THEN SendRst(c, s.ack)
        ELSE IF "SYN" \notin s.flags THEN c
        ELSE Event([e EXCEPT !.syn_rexmit_count = 0,
                             !.timers = @ \cup {"SYN_REXMIT", "CONN_ESTAB"}],
                   "RCV_SYN")

AcksOurSyn(c, s) == c.iss < s.ack /\ s.ack <= c.snd_nxt

ProcessSegmentInSynSent(c, s, w) ==
    LET ack  == "ACK" \in s.flags
        d    == [c EXCEPT !.rcv_nxt = s.seq + 1, !.rq_nxt = s.seq + 1, !.rcvq = {}]
        e    == InitWndInfo(DiscardUpTo([d EXCEPT !.snd_una = s.ack], s.ack), s)
        f    == EstablishedActive([e EXCEPT !.ack_now = TRUE], w)
    IN  IF ack /\ ~AcksOurSyn(c, s)
        THEN IF "RST" \in s.flags THEN c ELSE SendRst(c, s.ack)
        ELSE IF "RST" \in s.flags
        THEN IF ack THEN Event(Indicate(c, "CONNECTION_RESET"), "RCV_RST") ELSE c
        ELSE IF "SYN" \notin s.flags THEN c
        ELSE IF ack THEN Event(Indicate(f, "ESTABLISHED"), "RCV_SYN_ACK")
        ELSE \* simultaneous open
             Event([SendSynAck(d) EXCEPT !.syn_rexmit_count = 0,
                                         !.timers = @ \cup {"SYN_REXMIT"}],
                   "RCV_SYN")

\* segmentArrivalWhileClosed(): no connection, the segment is answered with a
\* reset its sender will find acceptable.
SegmentArrivalWhileClosed(c, s) ==
    IF "RST" \in s.flags THEN c
    ELSE IF "ACK" \in s.flags THEN SendRst(c, s.ack)
    ELSE Emit(c, Seg({"RST", "ACK"}, 0, s.seq + SegLen(s), 0, 0))

ProcessRcvSegment(c, s, w) ==
    CASE c.st \in {"INIT", "CLOSED"} -> SegmentArrivalWhileClosed(c, s)
      [] c.st = "LISTEN"   -> ProcessSegmentInListen(c, s)
      [] c.st = "SYN_SENT" -> ProcessSegmentInSynSent(c, s, w)
      [] OTHER             -> ProcessSegment1stThru8th(c, s, w)

-----------------------------------------------------------------------------
(* Timeouts.  OMNeT++ takes the message off the schedule before the        *)
(* handler runs.                                                           *)

ProcessTimeoutConnEstab(c) ==
    LET d == Require(CancelEvents(c, {"CONN_ESTAB"}), c.st \in SynStates)
    IN  Event(IF c.active THEN Indicate(d, "TIMED_OUT") ELSE d, "TIMEOUT_CONN_ESTAB")

ProcessTimeout2MSL(c) ==
    Event(Require(CancelEvents(c, {"2MSL"}), c.st = "TIME_WAIT"), "TIMEOUT_2MSL")

BadSynRexmitsExhausted(c) == c.syn_rexmit_count > MAX_SYN_REXMIT_COUNT + 1
SynRexmitsExhausted(c) == c.syn_rexmit_count > MAX_SYN_REXMIT_COUNT

ProcessTimeoutSynRexmit(c) ==
    LET d == [CancelEvents(c, {"SYN_REXMIT"}) EXCEPT !.syn_rexmit_count = @ + 1]
        e == CASE c.st = "SYN_SENT" -> SendSyn(d)
               [] c.st = "SYN_RCVD" -> SendSynAck(d)
               [] OTHER -> Require(d, FALSE)
    IN  IF SynRexmitsExhausted(d) THEN Event(d, "ABORT")
        ELSE ScheduleTimeout(e, "SYN_REXMIT")

RexmitsExhausted(c) == c.rexmit_count > MAX_REXMIT_COUNT

ProcessRexmitTimer(c) ==
    LET d == [CancelEvents(c, {"REXMIT"}) EXCEPT !.rexmit_count = @ + 1]
        e == [ScheduleTimeout(d, "REXMIT") EXCEPT !.afterRto = TRUE]
    IN  IF RexmitsExhausted(d)
        THEN Event(Indicate(d, "TIMED_OUT"), "ABORT")
        ELSE RetransmitOneSegment(e, TRUE)

ProcessPersistTimer(c) == SendProbe(c)

ProcessDelayedAckTimer(c) ==
    SendAck([CancelEvents(c, {"DELAYED_ACK"}) EXCEPT !.ack_now = TRUE])

=============================================================================
