---------------------------- MODULE TCPPeersProofs ----------------------------
(***************************************************************************)
(* What two TCP endpoints keep for ever, for every value of the constants: *)
(* any segment sizes, buffers, retry limits, applications and network.     *)
(*                                                                         *)
(* The inductive invariant is that between two events every connection     *)
(* Rests: its TCB has its type, its counters their bounds, and its timers  *)
(* run in the states they belong to.  The first part shows that each       *)
(* handler, started at rest, leaves a TCB from which                       *)
(* performStateTransition() comes back to rest; in the second part the     *)
(* handlers become the steps of the specification.  The third part adds    *)
(* what holds of the send variables and goes through the handlers again;   *)
(* the fourth adds what the two ends know of each other.                   *)
(***************************************************************************)
EXTENDS TCPPeers, TLAPS, FiniteSetTheorems

(***************************************************************************)
(* What each operator of TCPConnection does to a TCB: its type, and what   *)
(* it leaves alone.  The lemmas follow the order of the definitions.       *)
(***************************************************************************)

\* The timers that tell how long a connection may stay in a state.
LifeTimers == {"2MSL", "CONN_ESTAB", "SYN_REXMIT"}

\* d is a TCB that differs from c in nothing the FSM looks at, and no more
\* retransmissions are counted.
Keeps(c, d) ==
    /\ IsTCB(d)
    /\ d.st = c.st /\ d.event = c.event
    /\ d.syn_rexmit_count = c.syn_rexmit_count
    /\ d.rexmit_count \in {0, c.rexmit_count}
    /\ \A t \in LifeTimers : t \in d.timers <=> t \in c.timers

LEMMA KeepsRefl == ASSUME NEW c, IsTCB(c) PROVE Keeps(c, c)
BY DEF Keeps

LEMMA KeepsTrans ==
    ASSUME NEW c, NEW d, NEW e, Keeps(c, d), Keeps(d, e) PROVE Keeps(c, e)
BY DEF Keeps

LEMMA KeepsType == ASSUME NEW c, NEW d, Keeps(c, d) PROVE IsTCB(d)
BY DEF Keeps

-----------------------------------------------------------------------------
(* Helpers.                                                                *)

LEMMA ConstantTypes ==
    /\ MSS \in Int /\ MSS > 0 /\ MaxRcvBuffer \in Int /\ DUPTHRESH \in Int
    /\ IssStep \in Int
    /\ NagleEnabled \in BOOLEAN /\ DelayedAcksEnabled \in BOOLEAN
BY ConnectionAssumption

LEMMA MinMaxType ==
    ASSUME NEW a \in Int, NEW b \in Int PROVE MinOf(a, b) \in Int /\ MaxOf(a, b) \in Int
BY DEF MinOf, MaxOf

LEMMA NumberTypes ==
    ASSUME NEW c, IsTCB(c)
    PROVE  /\ c.iss \in Int /\ c.snd_una \in Int /\ c.snd_nxt \in Int
           /\ c.snd_max \in Int /\ c.snd_wnd \in Int /\ c.qBegin \in Int
           /\ c.qEnd \in Int /\ c.rcv_nxt \in Int /\ c.rcv_wnd \in Int
           /\ c.rq_nxt \in Int /\ c.snd_fin_seq \in Int /\ c.rcv_fin_seq \in Int
           /\ c.send_fin \in BOOLEAN
BY DEF IsTCB

LEMMA SegType ==
    ASSUME NEW f \in SUBSET Flags, NEW seq \in Int, NEW ack \in Int,
           NEW len \in Nat, NEW wnd \in Int
    PROVE  Seg(f, seq, ack, len, wnd) \in Segment
BY DEF Seg, Segment

LEMMA EmitOK == ASSUME NEW c, IsTCB(c), NEW s \in Segment PROVE Keeps(c, Emit(c, s))
BY ZenonT(60) DEF Emit, Keeps, IsTCB, TCBFields

LEMMA IndicateOK ==
    ASSUME NEW c, IsTCB(c), NEW i \in Indications PROVE Keeps(c, Indicate(c, i))
<1>1. Append(c.app, i) \in Seq(Indications)
  BY DEF IsTCB
<1> QED  BY ZenonT(60), <1>1 DEF Indicate, Keeps, IsTCB, TCBFields

LEMMA IndicateFacts ==
    ASSUME NEW c, IsTCB(c), NEW i \in Indications
    PROVE  LET d == Indicate(c, i)
           IN  /\ IsTCB(d) /\ d.st = c.st /\ d.timers = c.timers
               /\ d.rexmit_count = c.rexmit_count
               /\ d.syn_rexmit_count = c.syn_rexmit_count
<1>1. Append(c.app, i) \in Seq(Indications)
  BY DEF IsTCB
<1> QED  BY ZenonT(60), <1>1 DEF Indicate, IsTCB, TCBFields

LEMMA EventFacts ==
    ASSUME NEW c, IsTCB(c), NEW e \in Events
    PROVE  LET d == Event(c, e)
           IN  /\ IsTCB(d) /\ d.st = c.st /\ d.timers = c.timers /\ d.event = e
               /\ d.rexmit_count = c.rexmit_count
               /\ d.syn_rexmit_count = c.syn_rexmit_count
BY ZenonT(60) DEF Event, IsTCB, TCBFields

LEMMA RequireOK ==
    ASSUME NEW c, IsTCB(c), NEW b \in BOOLEAN PROVE Keeps(c, Require(c, b))
BY ZenonT(60) DEF Require, Keeps, IsTCB, TCBFields

LEMMA CancelEventsOK ==
    ASSUME NEW c, IsTCB(c), NEW ts, ts \cap LifeTimers = {}
    PROVE  Keeps(c, CancelEvents(c, ts))
BY ZenonT(60) DEF CancelEvents, Keeps, IsTCB, TCBFields, LifeTimers

LEMMA BytesAvailableType ==
    ASSUME NEW c, IsTCB(c), NEW seq \in Int PROVE BytesAvailable(c, seq) \in Nat
<1>1. c.qEnd \in Int
  BY NumberTypes
<1> QED  BY <1>1 DEF BytesAvailable

LEMMA DiscardUpToOK ==
    ASSUME NEW c, IsTCB(c), NEW seq \in Int PROVE Keeps(c, DiscardUpTo(c, seq))
BY ZenonT(60) DEF DiscardUpTo, Keeps, IsTCB, TCBFields

-----------------------------------------------------------------------------
(* Sending.                                                                *)

LEMMA AdvertisedWindowType ==
    ASSUME NEW q, IsFiniteSet(q) PROVE AdvertisedWindow(q) \in Int
<1>1. Cardinality(q) \in Nat
  BY FS_CardinalityType
<1> QED  BY <1>1, ConstantTypes DEF AdvertisedWindow

LEMMA UpdateRcvWndOK == ASSUME NEW c, IsTCB(c) PROVE Keeps(c, UpdateRcvWnd(c))
<1>1. AdvertisedWindow(c.rcvq) \in Int
  BY AdvertisedWindowType DEF IsTCB
<1> QED  BY ZenonT(60), <1>1 DEF UpdateRcvWnd, Keeps, IsTCB, TCBFields

LEMMA AckSentOK == ASSUME NEW c, IsTCB(c) PROVE Keeps(c, AckSent(c))
BY SMTT(30) DEF AckSent, Keeps, IsTCB, TCBFields, LifeTimers

LEMMA StartRexmitTimerOK == ASSUME NEW c, IsTCB(c) PROVE Keeps(c, StartRexmitTimer(c))
BY SMTT(30) DEF StartRexmitTimer, ScheduleTimeout, Keeps, IsTCB, TCBFields, LifeTimers, Timers

LEMMA RestartRexmitTimerOK ==
    ASSUME NEW c, IsTCB(c) PROVE Keeps(c, RestartRexmitTimer(c))
<1>1. Keeps(c, CancelEvents(c, {"REXMIT"}))
  BY CancelEventsOK DEF LifeTimers
<1> QED  BY <1>1, StartRexmitTimerOK, KeepsType, KeepsTrans DEF RestartRexmitTimer

LEMMA DataSentOK == ASSUME NEW c, IsTCB(c) PROVE Keeps(c, DataSent(c))
BY StartRexmitTimerOK, KeepsRefl DEF DataSent

LEMMA SelectInitialSeqNumOK ==
    ASSUME NEW c, IsTCB(c) PROVE Keeps(c, SelectInitialSeqNum(c))
<1>1. c.iss \in Int /\ IssStep \in Int
  BY NumberTypes, ConstantTypes
<1> DEFINE i == c.iss + IssStep
<1>2. i \in Int /\ i + 1 \in Int
  BY <1>1
<1> HIDE DEF i
<1>3. Keeps(c, [c EXCEPT !.iss = i, !.snd_una = i, !.snd_nxt = i, !.snd_max = i,
                         !.qBegin = i + 1, !.qEnd = i + 1])
  BY ZenonT(60), <1>2 DEF Keeps, IsTCB, TCBFields
<1> QED  BY <1>3 DEF SelectInitialSeqNum, i

\* What SendSyn() and SendSynAck() do to snd_nxt and snd_max.
LEMMA SynSentOK ==
    ASSUME NEW c, IsTCB(c)
    PROVE  Keeps(c, UpdateRcvWnd([c EXCEPT !.snd_nxt = c.iss + 1, !.snd_max = c.iss + 1]))
<1> DEFINE b == [c EXCEPT !.snd_nxt = c.iss + 1, !.snd_max = c.iss + 1]
<1>1. Keeps(c, b)
  BY SMTT(30) DEF Keeps, IsTCB, TCBFields
<1> QED  BY <1>1, UpdateRcvWndOK, KeepsType, KeepsTrans

LEMMA SendSynOK == ASSUME NEW c, IsTCB(c) PROVE Keeps(c, SendSyn(c))
<1> DEFINE d == UpdateRcvWnd([c EXCEPT !.snd_nxt = c.iss + 1, !.snd_max = c.iss + 1])
           s == Seg({"SYN"}, c.iss, 0, 0, d.rcv_wnd)
<1>1. Keeps(c, d) /\ IsTCB(d)
  BY SynSentOK, KeepsType
<1> HIDE DEF d
<1>2. s \in Segment
  <2>1. c.iss \in Int /\ d.rcv_wnd \in Int
    BY <1>1 DEF IsTCB
  <2> QED  BY <2>1, SegType DEF Flags
<1>3. Keeps(d, Emit(d, s))
  BY <1>1, <1>2, EmitOK
<1> QED  BY <1>1, <1>3, KeepsTrans DEF SendSyn, d

LEMMA SendSynAckOK == ASSUME NEW c, IsTCB(c) PROVE Keeps(c, SendSynAck(c))
<1> DEFINE d == UpdateRcvWnd([c EXCEPT !.snd_nxt = c.iss + 1, !.snd_max = c.iss + 1])
           s == Seg({"SYN", "ACK"}, c.iss, c.rcv_nxt, 0, d.rcv_wnd)
<1>1. Keeps(c, d) /\ IsTCB(d)
  BY SynSentOK, KeepsType
<1> HIDE DEF d
<1>2. s \in Segment
  <2>1. c.iss \in Int /\ c.rcv_nxt \in Int /\ d.rcv_wnd \in Int
    BY <1>1 DEF IsTCB
  <2> QED  BY <2>1, SegType DEF Flags
<1>3. Keeps(d, Emit(d, s)) /\ IsTCB(Emit(d, s))
  BY <1>1, <1>2, EmitOK, KeepsType
<1>4. Keeps(Emit(d, s), AckSent(Emit(d, s)))
  BY <1>3, AckSentOK
<1> QED  BY <1>1, <1>3, <1>4, KeepsTrans DEF SendSynAck, d

LEMMA SendRstOK == ASSUME NEW c, IsTCB(c), NEW seq \in Int PROVE Keeps(c, SendRst(c, seq))
<1>1. Seg({"RST"}, seq, 0, 0, 0) \in Segment
  BY SegType DEF Flags
<1> QED  BY <1>1, EmitOK DEF SendRst

LEMMA SendAckOK == ASSUME NEW c, IsTCB(c) PROVE Keeps(c, SendAck(c))
<1> DEFINE d == UpdateRcvWnd(c)
           s == Seg({"ACK"}, c.snd_nxt, c.rcv_nxt, 0, d.rcv_wnd)
<1>1. Keeps(c, d) /\ IsTCB(d)
  BY UpdateRcvWndOK, KeepsType
<1> HIDE DEF d
<1>2. s \in Segment
  <2>1. c.snd_nxt \in Int /\ c.rcv_nxt \in Int /\ d.rcv_wnd \in Int
    BY <1>1 DEF IsTCB
  <2> QED  BY <2>1, SegType DEF Flags
<1>3. Keeps(d, Emit(d, s)) /\ IsTCB(Emit(d, s))
  BY <1>1, <1>2, EmitOK, KeepsType
<1>4. Keeps(Emit(d, s), AckSent(Emit(d, s)))
  BY <1>3, AckSentOK
<1> QED  BY <1>1, <1>3, <1>4, KeepsTrans DEF SendAck, d

LEMMA SendFinOK == ASSUME NEW c, IsTCB(c), NEW seq \in Int PROVE Keeps(c, SendFin(c, seq))
<1> DEFINE d == UpdateRcvWnd(c)
           s == Seg({"FIN", "ACK"}, seq, c.rcv_nxt, 0, d.rcv_wnd)
           f == AckSent(Emit(d, s))
<1>1. Keeps(c, d) /\ IsTCB(d)
  BY UpdateRcvWndOK, KeepsType
<1> HIDE DEF d
<1>2. s \in Segment
  <2>1. c.rcv_nxt \in Int /\ d.rcv_wnd \in Int
    BY <1>1 DEF IsTCB
  <2> QED  BY <2>1, SegType DEF Flags
<1>3. Keeps(d, Emit(d, s)) /\ IsTCB(Emit(d, s))
  BY <1>1, <1>2, EmitOK, KeepsType
<1>4. Keeps(Emit(d, s), f) /\ IsTCB(f)
  BY <1>3, AckSentOK, KeepsType
<1>5. Keeps(c, f)
  BY <1>1, <1>3, <1>4, KeepsTrans
<1> HIDE DEF f
<1> DEFINE n == seq + 1
<1>6. n \in Int
  OBVIOUS
<1> HIDE DEF n
<1>7. Keeps(f, [f EXCEPT !.snd_nxt = n, !.snd_max = n])
  BY ZenonT(60), <1>4, <1>6 DEF Keeps, IsTCB, TCBFields
<1> QED  BY <1>5, <1>7, KeepsTrans DEF SendFin, d, f, n

LEMMA DataSegmentsType ==
    ASSUME NEW c, IsTCB(c), NEW n \in Int, NEW fin \in BOOLEAN
    PROVE  DataSegments(c, n, fin) \subseteq Segment
<1> SUFFICES ASSUME NEW off \in 0 .. n - 1
             PROVE  Seg(IF fin /\ off + MSS >= n THEN {"FIN", "ACK"} ELSE {"ACK"},
                        c.snd_nxt + off, c.rcv_nxt, MinOf(MSS, n - off), c.rcv_wnd)
                      \in Segment
  BY DEF DataSegments
<1>1. /\ c.snd_nxt + off \in Int /\ c.rcv_nxt \in Int /\ c.rcv_wnd \in Int
  BY SMTT(30) DEF IsTCB
<1>2. MinOf(MSS, n - off) \in Nat
  BY ConstantTypes DEF MinOf
<1>3. (IF fin /\ off + MSS >= n THEN {"FIN", "ACK"} ELSE {"ACK"}) \in SUBSET Flags
  BY DEF Flags
<1> QED  BY <1>1, <1>2, <1>3, SegType

LEMMA SendBytesOK ==
    ASSUME NEW c, IsTCB(c), NEW n \in Int PROVE Keeps(c, SendBytes(c, n))
<1> DEFINE d    == UpdateRcvWnd(c)
           next == c.snd_nxt + n
           fin  == c.send_fin /\ next = c.snd_fin_seq
           nxt  == IF fin THEN next + 1 ELSE next
           ok   == c.qBegin <= c.snd_nxt /\ next <= c.qEnd
           late == next < c.snd_max
           ds   == DataSegments(d, n, fin)
<1>1. Keeps(c, d) /\ IsTCB(d)
  BY UpdateRcvWndOK, KeepsType
<1>2. fin \in BOOLEAN /\ next \in Int /\ nxt \in Int /\ ok \in BOOLEAN /\ late \in BOOLEAN
  <2>1. c.snd_nxt \in Int /\ c.send_fin \in BOOLEAN
    BY NumberTypes
  <2> QED  BY <2>1
<1> HIDE DEF d, fin
<1>3. ds \subseteq Segment
  BY <1>1, <1>2, DataSegmentsType
<1> HIDE DEF ds, next, nxt, ok, late
<1>4. Keeps(d, [d EXCEPT !.snd_nxt = nxt, !.afterRto = @ /\ late,
                         !.out = @ \cup ds, !.fault = @ \/ ~ok])
  BY ZenonT(60), <1>1, <1>2, <1>3 DEF Keeps, IsTCB, TCBFields
<1> QED  BY <1>1, <1>4, KeepsTrans DEF SendBytes, d, next, fin, nxt, ok, late, ds

LEMMA RaiseSndMaxOK == ASSUME NEW c, IsTCB(c) PROVE Keeps(c, RaiseSndMax(c))
BY ZenonT(60) DEF RaiseSndMax, MaxOf, Keeps, IsTCB, TCBFields

\* SendData() and SendProbe() end alike.
LEMMA SentOK ==
    ASSUME NEW c, IsTCB(c), NEW n \in Int
    PROVE  Keeps(c, DataSent(AckSent(RaiseSndMax(SendBytes(c, n)))))
<1>1. Keeps(c, SendBytes(c, n)) /\ IsTCB(SendBytes(c, n))
  BY SendBytesOK, KeepsType
<1> DEFINE d == SendBytes(c, n)
<1> HIDE DEF d
<1>2. Keeps(d, RaiseSndMax(d)) /\ IsTCB(RaiseSndMax(d))
  BY <1>1, RaiseSndMaxOK, KeepsType DEF d
<1>3. Keeps(RaiseSndMax(d), AckSent(RaiseSndMax(d))) /\ IsTCB(AckSent(RaiseSndMax(d)))
  BY <1>2, AckSentOK, KeepsType
<1>4. Keeps(AckSent(RaiseSndMax(d)), DataSent(AckSent(RaiseSndMax(d))))
  BY <1>3, DataSentOK
<1> QED  BY <1>1, <1>2, <1>3, <1>4, KeepsTrans DEF d

LEMMA BytesToSendType ==
    ASSUME NEW c, IsTCB(c), NEW full \in BOOLEAN, NEW w \in Int
    PROVE  BytesToSend(c, full, w) \in Int
<1> DEFINE a == BytesAvailable(c, c.snd_nxt)
           e == MinOf(c.snd_wnd, w) - (c.snd_nxt - c.snd_una)
           b == MinOf(e, a)
<1>1. /\ c.snd_wnd \in Int /\ c.snd_nxt \in Int /\ c.snd_una \in Int
      /\ MSS \in Int /\ MSS > 0
  BY NumberTypes, ConstantTypes
<1>2. a \in Int
  <2>1. a \in Nat
    BY <1>1, BytesAvailableType
  <2> QED  BY <2>1
<1>3. e \in Int
  <2>1. MinOf(c.snd_wnd, w) \in Int
    BY <1>1, MinMaxType
  <2> QED  BY <1>1, <2>1
<1>4. b \in Int
  BY <1>2, <1>3, MinMaxType
<1> HIDE DEF a, b
<1>5. b - (b % MSS) \in Int
  BY <1>1, <1>4
<1> QED  BY <1>4, <1>5 DEF BytesToSend, a, b

LEMMA MoveSndNxtOK ==
    ASSUME NEW c, IsTCB(c), NEW n \in Int PROVE Keeps(c, [c EXCEPT !.snd_nxt = n])
BY ZenonT(60) DEF Keeps, IsTCB, TCBFields

LEMMA SendDataOK ==
    ASSUME NEW c, IsTCB(c), NEW full \in BOOLEAN, NEW w \in Int
    PROVE  Keeps(c, SendData(c, full, w))
<1> DEFINE d == IF c.afterRto THEN c ELSE [c EXCEPT !.snd_nxt = c.snd_max]
           n == BytesToSend(d, full, w)
<1>1. Keeps(c, d) /\ IsTCB(d)
  BY ZenonT(60), MoveSndNxtOK, KeepsRefl, KeepsType DEF IsTCB
<1> HIDE DEF d
<1>2. n \in Int
  BY <1>1, BytesToSendType
<1> HIDE DEF n
<1>3. Keeps(c, DataSent(AckSent(RaiseSndMax(SendBytes(d, n)))))
  BY <1>1, <1>2, SentOK, KeepsTrans
<1> QED  BY <1>1, <1>3 DEF SendData, d, n

LEMMA SendProbeOK == ASSUME NEW c, IsTCB(c) PROVE Keeps(c, SendProbe(c))
<1> DEFINE d == [c EXCEPT !.snd_nxt = c.snd_max]
<1>1. Keeps(c, d) /\ IsTCB(d)
  BY MoveSndNxtOK, KeepsType DEF IsTCB
<1> HIDE DEF d
<1>2. Keeps(c, DataSent(AckSent(RaiseSndMax(SendBytes(d, 1)))))
  BY <1>1, SentOK, KeepsTrans
<1> QED  BY <1>1, <1>2 DEF SendProbe, d

LEMMA RetransmitOneSegmentOK ==
    ASSUME NEW c, IsTCB(c), NEW atRto \in BOOLEAN
    PROVE  Keeps(c, RetransmitOneSegment(c, atRto))
<1> DEFINE n == MinOf(MinOf(MSS, c.snd_max - c.snd_una), BytesAvailable(c, c.snd_una))
           b == [c EXCEPT !.snd_nxt = c.snd_una]
           d == SendBytes(b, n)
           r == Require(d, n # 0)
<1>1. n \in Int
  <2>1. c.snd_una \in Int /\ c.snd_max - c.snd_una \in Int /\ MSS \in Int
    BY NumberTypes, ConstantTypes
  <2>2. BytesAvailable(c, c.snd_una) \in Int
    BY <2>1, BytesAvailableType
  <2> QED  BY <2>1, <2>2, MinMaxType
<1>2. Keeps(c, b) /\ IsTCB(b)
  BY MoveSndNxtOK, KeepsType DEF IsTCB
<1> HIDE DEF n, b
<1>3. Keeps(b, d) /\ IsTCB(d)
  BY <1>1, <1>2, SendBytesOK, KeepsType
<1> HIDE DEF d
<1>4. Keeps(d, r) /\ IsTCB(r)
  BY <1>3, RequireOK, KeepsType
<1> HIDE DEF r
<1> DEFINE m == IF atRto THEN r.snd_nxt ELSE MaxOf(r.snd_nxt, c.snd_nxt)
           a == [r EXCEPT !.snd_nxt = m]
<1>5. m \in Int
  BY <1>4, NumberTypes, MinMaxType
<1> HIDE DEF m
<1>6. Keeps(r, a) /\ IsTCB(a)
  BY <1>4, <1>5, MoveSndNxtOK, KeepsType
<1>7. Keeps(a, AckSent(a))
  BY <1>6, AckSentOK
<1>8. Keeps(c, AckSent(a))
  BY <1>2, <1>3, <1>4, <1>6, <1>7, KeepsTrans
<1>9. Keeps(c, SendFin(c, c.qEnd))
  BY SendFinOK DEF IsTCB
<1> QED  BY <1>8, <1>9 DEF RetransmitOneSegment, n, b, d, r, m

-----------------------------------------------------------------------------
(* The congestion control flavour.                                         *)

LEMMA SchedulePersistOK ==
    ASSUME NEW c, IsTCB(c) PROVE Keeps(c, [c EXCEPT !.timers = @ \cup {"PERSIST"}])
BY ZenonT(60) DEF Keeps, IsTCB, TCBFields, LifeTimers, Timers

LEMMA ScheduleDelayedAckOK ==
    ASSUME NEW c, IsTCB(c) PROVE Keeps(c, [c EXCEPT !.timers = @ \cup {"DELAYED_ACK"}])
BY ZenonT(60) DEF Keeps, IsTCB, TCBFields, LifeTimers, Timers

LEMMA ReceivedDataAckOK ==
    ASSUME NEW c, IsTCB(c), NEW w \in Int PROVE Keeps(c, ReceivedDataAck(c, w))
<1> DEFINE d == IF c.snd_una = c.snd_max
                THEN CancelEvents(c, {"REXMIT"}) ELSE RestartRexmitTimer(c)
           e == IF PersistTimerNeeded(d)
                THEN [d EXCEPT !.timers = @ \cup {"PERSIST"}]
                ELSE CancelEvents(d, {"PERSIST"})
<1>1. Keeps(c, d) /\ IsTCB(d)
  <2>1. {"REXMIT"} \cap LifeTimers = {}
    BY DEF LifeTimers
  <2> QED  BY <2>1, CancelEventsOK, RestartRexmitTimerOK, KeepsType
<1> HIDE DEF d
<1>2. Keeps(d, e) /\ IsTCB(e)
  <2>1. {"PERSIST"} \cap LifeTimers = {}
    BY DEF LifeTimers
  <2> QED  BY <1>1, <2>1, CancelEventsOK, SchedulePersistOK, KeepsType
<1> HIDE DEF e
<1>3. Keeps(e, SendData(e, FALSE, w))
  BY <1>2, SendDataOK
<1> QED  BY <1>1, <1>2, <1>3, KeepsTrans DEF ReceivedDataAck, d, e

LEMMA ReceivedDuplicateAckOK ==
    ASSUME NEW c, IsTCB(c) PROVE Keeps(c, ReceivedDuplicateAck(c))
BY RetransmitOneSegmentOK, KeepsRefl DEF ReceivedDuplicateAck

LEMMA EstablishedActiveOK ==
    ASSUME NEW c, IsTCB(c), NEW w \in Int PROVE Keeps(c, EstablishedActive(c, w))
<1> DEFINE d == SendData(c, FALSE, w)
<1>1. Keeps(c, d) /\ IsTCB(d)
  BY SendDataOK, KeepsType
<1> HIDE DEF d
<1>2. Keeps(c, SendAck(d))
  BY <1>1, SendAckOK, KeepsTrans
<1> QED  BY <1>1, <1>2 DEF EstablishedActive, d

LEMMA SendCommandInvokedOK ==
    ASSUME NEW c, IsTCB(c), NEW w \in Int PROVE Keeps(c, SendCommandInvoked(c, w))
<1>1. (NagleEnabled /\ c.snd_una # c.snd_max) \in BOOLEAN
  BY ConstantTypes
<1> QED  BY <1>1, SendDataOK DEF SendCommandInvoked

LEMMA ReceiveSeqChangedOK ==
    ASSUME NEW c, IsTCB(c) PROVE Keeps(c, ReceiveSeqChanged(c))
BY SendAckOK, ScheduleDelayedAckOK, KeepsRefl DEF ReceiveSeqChanged

-----------------------------------------------------------------------------
(* Acknowledgements and text.                                              *)

LEMMA UpdateWndInfoOK ==
    ASSUME NEW c, IsTCB(c), NEW s \in Segment PROVE Keeps(c, UpdateWndInfo(c, s))
<1>1. s.wnd \in Int /\ s.seq \in Int /\ s.ack \in Int
  BY DEF Segment
<1>2. Keeps(c, [c EXCEPT !.snd_wnd = s.wnd, !.snd_wl1 = s.seq, !.snd_wl2 = s.ack])
  BY ZenonT(60), <1>1 DEF Keeps, IsTCB, TCBFields
<1> QED  BY <1>2, KeepsRefl DEF UpdateWndInfo

LEMMA InitWndInfoOK ==
    ASSUME NEW c, IsTCB(c), NEW s \in Segment PROVE Keeps(c, InitWndInfo(c, s))
<1>1. s.wnd \in Int /\ s.seq \in Int /\ s.ack \in Int
  BY DEF Segment
<1> QED  BY ZenonT(60), <1>1 DEF InitWndInfo, Keeps, IsTCB, TCBFields

LEMMA SetDupacksOK ==
    ASSUME NEW c, IsTCB(c), NEW n \in Int PROVE Keeps(c, [c EXCEPT !.dupacks = n])
BY ZenonT(60) DEF Keeps, IsTCB, TCBFields

LEMMA ProcessOldAckOK ==
    ASSUME NEW c, IsTCB(c), NEW s \in Segment PROVE Keeps(c, ProcessOldAck(c, s))
<1> DEFINE n == MinOf(c.dupacks + 1, DUPTHRESH + 1)
           d == [c EXCEPT !.dupacks = n]
           u == UpdateWndInfo(d, s)
<1>1. n \in Int
  <2>1. c.dupacks \in Int /\ DUPTHRESH \in Int
    BY ConstantTypes DEF IsTCB
  <2> QED  BY <2>1 DEF MinOf
<1> HIDE DEF n
<1>2. Keeps(c, d) /\ IsTCB(d)
  BY <1>1, SetDupacksOK, KeepsType
<1> HIDE DEF d
<1>3. Keeps(d, u) /\ IsTCB(u)
  BY <1>2, UpdateWndInfoOK, KeepsType
<1> HIDE DEF u
<1>4. Keeps(c, ReceivedDuplicateAck(u))
  BY <1>2, <1>3, ReceivedDuplicateAckOK, KeepsTrans
<1>5. Keeps(c, [c EXCEPT !.dupacks = 0])
  BY SetDupacksOK
<1> QED  BY <1>4, <1>5 DEF ProcessOldAck, u, d, n

LEMMA ProcessNewAckOK ==
    ASSUME NEW c, IsTCB(c), NEW s \in Segment, NEW w \in Int
    PROVE  Keeps(c, ProcessNewAck(c, s, w))
<1> DEFINE x == MaxOf(c.snd_nxt, s.ack)
           b == AcksOurFin(c, s)
           u == IF b THEN s.ack - 1 ELSE s.ack
           d == [c EXCEPT !.snd_una = s.ack, !.snd_nxt = x, !.fin_ack_rcvd = @ \/ b]
           e == DiscardUpTo(d, u)
           f == UpdateWndInfo(e, s)
           r == ReceivedDataAck(f, w)
<1>1. s.ack \in Int /\ x \in Int /\ u \in Int /\ b \in BOOLEAN
  <2>1. s.ack \in Int /\ c.snd_nxt \in Int /\ c.send_fin \in BOOLEAN
    BY NumberTypes DEF Segment
  <2>2. x \in Int
    BY <2>1, MinMaxType
  <2>3. b \in BOOLEAN
    BY <2>1 DEF AcksOurFin
  <2>4. u \in Int
    BY <2>1
  <2> QED  BY <2>1, <2>2, <2>3, <2>4
<1> HIDE DEF x, b, u
<1>2. Keeps(c, d) /\ IsTCB(d)
  BY ZenonT(60), <1>1 DEF Keeps, IsTCB, TCBFields
<1> HIDE DEF d
<1>3. Keeps(d, e) /\ IsTCB(e)
  BY <1>1, <1>2, DiscardUpToOK, KeepsType
<1> HIDE DEF e
<1>4. Keeps(e, f) /\ IsTCB(f)
  BY <1>3, UpdateWndInfoOK, KeepsType
<1> HIDE DEF f
<1>5. Keeps(f, r) /\ IsTCB(r)
  BY <1>4, ReceivedDataAckOK, KeepsType
<1> HIDE DEF r
<1>6. Keeps(r, [r EXCEPT !.dupacks = 0])
  BY <1>5, SetDupacksOK
<1>7. Keeps(c, f) /\ Keeps(c, [r EXCEPT !.dupacks = 0])
  BY <1>2, <1>3, <1>4, <1>5, <1>6, KeepsTrans
<1> QED  BY <1>7 DEF ProcessNewAck, x, b, u, d, e, f, r

LEMMA ProcessAckOK ==
    ASSUME NEW c, IsTCB(c), NEW s \in Segment, NEW w \in Int
    PROVE  Keeps(c, ProcessAck(c, s, w))
BY ProcessOldAckOK, ProcessNewAckOK DEF ProcessAck

LEMMA TruncateType ==
    ASSUME NEW c, IsTCB(c), NEW s \in Segment
    PROVE  /\ Truncate(c, s) \in Segment
           /\ Truncate(c, s).flags = s.flags
<1> DEFINE first == MaxOf(s.seq, c.rcv_nxt)
           last  == MinOf(s.seq + s.len, c.rcv_nxt + c.rcv_wnd)
           n     == IF last > first THEN last - first ELSE 0
<1>1. s.seq \in Int /\ s.len \in Int /\ c.rcv_nxt \in Int /\ c.rcv_wnd \in Int
  BY NumberTypes DEF Segment
<1>2. first \in Int
  BY <1>1, MinMaxType
<1>3. last \in Int
  <2>1. s.seq + s.len \in Int /\ c.rcv_nxt + c.rcv_wnd \in Int
    BY <1>1
  <2> QED  BY <2>1, MinMaxType
<1> HIDE DEF first, last
<1>4. n \in Nat
  BY <1>2, <1>3
<1> HIDE DEF n
<1> QED  BY <1>2, <1>4 DEF Truncate, Segment, first, last, n

LEMMA FirstMissingType ==
    ASSUME NEW q, NEW n \in Int PROVE FirstMissing(q, n) \in Int
<1> DEFINE m == {k \in n .. n + MaxRcvBuffer : k \notin q /\ \A b \in n .. k-1 : b \in q}
<1>1. m \subseteq Int
  BY ConstantTypes
<1> HIDE DEF m
<1>2. (IF m = {} THEN n ELSE CHOOSE k \in m : TRUE) \in Int
  BY <1>1
<1> QED  BY <1>2 DEF FirstMissing, m

LEMMA InsertOK ==
    ASSUME NEW c, IsTCB(c), NEW s \in Segment PROVE Keeps(c, Insert(c, s))
<1> DEFINE new  == s.seq .. s.seq + s.len - 1
           q    == c.rcvq \cup new
           next == FirstMissing(q, c.rq_nxt)
<1>1. s.seq \in Int /\ s.len \in Nat /\ c.rq_nxt \in Int
  BY NumberTypes DEF Segment, IsTCB
<1>2. new \subseteq Int /\ IsFiniteSet(new)
  <2>1. s.seq + s.len - 1 \in Int
    BY <1>1
  <2>2. IsFiniteSet(new)
    BY <1>1, <2>1, FS_Interval
  <2>3. new \subseteq Int
    BY <1>1, <2>1
  <2> QED  BY <2>2, <2>3
<1> HIDE DEF new
<1>3. q \subseteq Int /\ IsFiniteSet(q)
  BY <1>2, FS_Union DEF IsTCB
<1> HIDE DEF q
<1>4. next \in Int
  BY <1>1, FirstMissingType
<1> HIDE DEF next
<1>5. Keeps(c, [c EXCEPT !.rcvq = q, !.rq_nxt = next, !.rcv_nxt = next])
  BY ZenonT(60), <1>3, <1>4 DEF Keeps, IsTCB, TCBFields
<1> QED  BY <1>5 DEF Insert, new, q, next

LEMMA DeliverOK ==
    ASSUME NEW c, IsTCB(c) PROVE Keeps(c, Deliver(c))
<1> DEFINE read == {b \in c.rcvq : b < c.rq_nxt}
           r    == c.rcvq \ read
           n    == c.delivered + Cardinality(read)
<1>1. IsFiniteSet(c.rcvq) /\ c.rcvq \in SUBSET Int
  BY DEF IsTCB
<1>2. Cardinality(read) \in Nat
  <2>1. IsFiniteSet(read)
    BY <1>1, FS_Subset
  <2> QED  BY <2>1, FS_CardinalityType
<1>3. r \in SUBSET Int /\ IsFiniteSet(r)
  BY <1>1, FS_Subset
<1>4. n \in Int
  BY <1>2, NumberTypes DEF IsTCB
<1> HIDE DEF read, r, n
<1>5. Keeps(c, [c EXCEPT !.rcvq = r, !.delivered = n])
  BY ZenonT(60), <1>3, <1>4 DEF Keeps, IsTCB, TCBFields
<1> QED  BY <1>5 DEF Deliver, read, r, n

-----------------------------------------------------------------------------
(* The finite state machine.                                               *)

\* States and events from which performStateTransition() enters TIME_WAIT, or
\* stays there.
Waits(c) ==
    \/ c.st = "FIN_WAIT_1" /\ c.event = "RCV_FIN_ACK"
    \/ c.st = "FIN_WAIT_2" /\ c.event = "RCV_FIN"
    \/ c.st = "CLOSING" /\ c.event = "RCV_ACK"
    \/ c.st = "TIME_WAIT" /\ c.event # "TIMEOUT_2MSL"

\* The rows of the transition table the proofs need.
LEMMA NextStateFacts ==
    ASSUME NEW c, IsTCB(c)
    PROVE  LET n == NextState(c, c.event)
           IN  /\ n \in States
               /\ n # c.st => n # "INIT"
               /\ n # c.st /\ n \in SynStates => c.event \in {"OPEN_ACTIVE", "RCV_SYN"}
               /\ n = "TIME_WAIT" => Waits(c)
               /\ c.event = "IGNORE" => n = c.st
               /\ c.event = "ABORT" /\ c.st # "INIT" => n = "CLOSED"
               /\ c.event = "TIMEOUT_CONN_ESTAB" /\ c.st \in SynStates
                    => n \in {"CLOSED", "LISTEN"}
               /\ c.event = "TIMEOUT_2MSL" /\ c.st # "TIME_WAIT" => n = c.st
               /\ c.event = "TIMEOUT_2MSL" /\ c.st = "TIME_WAIT" => n = "CLOSED"
               /\ c.event = "OPEN_ACTIVE" /\ c.st = "INIT" => n = "SYN_SENT"
               /\ c.event = "OPEN_PASSIVE" /\ c.st = "INIT" => n = "LISTEN"
               /\ c.event = "RCV_SYN" /\ c.st \in {"LISTEN", "SYN_SENT"} => n = "SYN_RCVD"
<1>1. c.st \in States /\ c.event \in Events /\ c.active \in BOOLEAN
  BY DEF IsTCB
<1> DEFINE n == NextState(c, c.event)
<1>2. n \in States
  BY <1>1 DEF NextState, States, SynStates, DataStates
<1>3. n # c.st => n # "INIT"
  BY <1>1 DEF NextState
<1>4. n # c.st /\ n \in SynStates => c.event \in {"OPEN_ACTIVE", "RCV_SYN"}
  BY <1>1 DEF NextState, SynStates
<1>5. n = "TIME_WAIT" => Waits(c)
  BY <1>1 DEF NextState, Waits
<1>6. c.event = "IGNORE" => n = c.st
  BY <1>1 DEF NextState
<1>7. c.event = "ABORT" /\ c.st # "INIT" => n = "CLOSED"
  BY <1>1 DEF NextState
<1>8. c.event = "TIMEOUT_CONN_ESTAB" /\ c.st \in SynStates => n \in {"CLOSED", "LISTEN"}
  BY <1>1 DEF NextState, SynStates
<1>9. /\ c.event = "TIMEOUT_2MSL" /\ c.st # "TIME_WAIT" => n = c.st
      /\ c.event = "TIMEOUT_2MSL" /\ c.st = "TIME_WAIT" => n = "CLOSED"
  BY SMTT(60), <1>1 DEF NextState
<1>10. /\ c.event = "OPEN_ACTIVE" /\ c.st = "INIT" => n = "SYN_SENT"
       /\ c.event = "OPEN_PASSIVE" /\ c.st = "INIT" => n = "LISTEN"
       /\ c.event = "RCV_SYN" /\ c.st \in {"LISTEN", "SYN_SENT"} => n = "SYN_RCVD"
  BY <1>1 DEF NextState
<1> QED  BY <1>2, <1>3, <1>4, <1>5, <1>6, <1>7, <1>8, <1>9, <1>10

\* Between the handlers of a connection this holds.
CountsBounded(c) == /\ c.rexmit_count \in 0 .. MAX_REXMIT_COUNT
                    /\ c.syn_rexmit_count \in 0 .. MAX_SYN_REXMIT_COUNT

HandshakeTimed(c) ==
    \A t \in {"CONN_ESTAB", "SYN_REXMIT"} : t \in c.timers <=> c.st \in SynStates

IdleHasNoTimers(c) == c.st \in {"INIT", "CLOSED"} => c.timers = {}

TimeWaitTimed(c) == c.st = "TIME_WAIT" => "2MSL" \in c.timers

ConnInv(c) == /\ IsTCB(c) /\ CountsBounded(c) /\ HandshakeTimed(c)
              /\ IdleHasNoTimers(c) /\ TimeWaitTimed(c)

\* What a handler must leave behind for performStateTransition() to establish
\* it again.
Ready(d) ==
    LET n == NextState(d, d.event)
    IN  /\ IsTCB(d)
        /\ CountsBounded(d) \/ (n = "CLOSED" /\ d.st # "CLOSED")
        /\ n = d.st => HandshakeTimed(d) /\ IdleHasNoTimers(d)
        /\ n # d.st /\ n \in SynStates => HandshakeTimers \subseteq d.timers
        /\ n = "TIME_WAIT" => "2MSL" \in d.timers
        /\ n # d.st /\ n = "TIME_WAIT" => d.timers \cap HandshakeTimers = {}

LEMMA NewConnectionOK ==
    /\ IsTCB(NewConnection) /\ NewConnection.st = "INIT"
    /\ NewConnection.timers = {} /\ NewConnection.rexmit_count = 0
    /\ NewConnection.syn_rexmit_count = 0
    /\ NewConnection.event = "IGNORE" /\ NewConnection.out = {}
<1>1. IsFiniteSet({}) /\ << >> \in Seq(Indications)
  BY FS_EmptySet
<1> QED
  BY <1>1, ConstantTypes DEF NewConnection, IsTCB, TCBFields, States, Events, Timers

LEMMA RemovedOK == ASSUME NEW c, IsTCB(c) PROVE ConnInv(Removed(c))
<1>1. MAX_REXMIT_COUNT \in Nat /\ MAX_SYN_REXMIT_COUNT \in Nat
  BY ConnectionAssumption
<1> DEFINE n == NewConnection
           r == [n EXCEPT !.st = "CLOSED", !.iss = c.iss, !.qEnd = c.qEnd,
                          !.delivered = c.delivered, !.app = c.app,
                          !.appClosed = c.appClosed, !.fault = c.fault,
                          !.out = c.out]
<1>2. /\ IsTCB(n) /\ n.timers = {} /\ n.rexmit_count = 0 /\ n.syn_rexmit_count = 0
  BY NewConnectionOK
<1> HIDE DEF n
<1>3. IsTCB(r)
  BY ZenonT(30), <1>2 DEF IsTCB, TCBFields, States
<1>4. r.st = "CLOSED" /\ r.timers = {} /\ r.rexmit_count = 0 /\ r.syn_rexmit_count = 0
  BY <1>2 DEF IsTCB, TCBFields
<1> HIDE DEF r
<1>5. ConnInv(r)
  BY <1>1, <1>3, <1>4 DEF ConnInv, CountsBounded, HandshakeTimed, IdleHasNoTimers,
                          TimeWaitTimed, SynStates
<1> QED  BY <1>5 DEF Removed, r, n

LEMMA TransitionOK == ASSUME NEW d, Ready(d) PROVE ConnInv(PerformStateTransition(d))
<1> DEFINE n == NextState(d, d.event)
           x == [d EXCEPT !.st = n]
           y == CancelEvents(x, HandshakeTimers)
<1>1. /\ IsTCB(d) /\ n \in States
      /\ n # d.st => n # "INIT"
      /\ CountsBounded(d) \/ (n = "CLOSED" /\ d.st # "CLOSED")
      /\ n = d.st => HandshakeTimed(d) /\ IdleHasNoTimers(d)
      /\ n # d.st /\ n \in SynStates => HandshakeTimers \subseteq d.timers
      /\ n = "TIME_WAIT" => "2MSL" \in d.timers
      /\ n # d.st /\ n = "TIME_WAIT" => d.timers \cap HandshakeTimers = {}
  BY NextStateFacts DEF Ready
<1> HIDE DEF n
<1>2. CASE n = d.st
  <2>1. ConnInv(d)
    BY <1>1, <1>2 DEF ConnInv, TimeWaitTimed
  <2> QED  BY <1>2, <2>1 DEF PerformStateTransition, n
<1>3. CASE n # d.st
  <2>1. PerformStateTransition(d) = StateEntered(x, d.st)
    BY <1>3 DEF PerformStateTransition, n
  <2>2. /\ IsTCB(x) /\ x.st = n /\ x.timers = d.timers
        /\ x.rexmit_count = d.rexmit_count /\ x.syn_rexmit_count = d.syn_rexmit_count
    BY ZenonT(60), <1>1 DEF IsTCB, TCBFields
  <2> HIDE DEF x
  <2>3. /\ IsTCB(y) /\ y.st = n /\ y.timers = d.timers \ HandshakeTimers
        /\ y.rexmit_count = d.rexmit_count /\ y.syn_rexmit_count = d.syn_rexmit_count
    BY ZenonT(60), <2>2 DEF IsTCB, TCBFields, CancelEvents
  <2> HIDE DEF y
  <2>4. CASE n = "LISTEN" \/ n \in DataStates
    <3>1. n \notin SynStates /\ n \notin {"INIT", "CLOSED", "TIME_WAIT"}
      BY <2>4 DEF SynStates, DataStates
    <3>2. CountsBounded(d)
      BY <1>1, <3>1
    <3>3. ConnInv(y)
      BY <2>3, <3>1, <3>2 DEF ConnInv, CountsBounded, HandshakeTimed, HandshakeTimers,
                              IdleHasNoTimers, TimeWaitTimed
    <3>4. CASE n # "CLOSE_WAIT"
      <4>1. StateEntered(x, d.st) = y
        BY <2>2, <2>4, <3>1, <3>4 DEF StateEntered, y
      <4> QED  BY <2>1, <3>3, <4>1
    <3>5. CASE n = "CLOSE_WAIT"
      <4>1. StateEntered(x, d.st) = Indicate(y, "PEER_CLOSED")
        BY <2>2, <3>5 DEF StateEntered, DataStates, y
      <4> DEFINE z == Indicate(y, "PEER_CLOSED")
      <4>2. /\ IsTCB(z) /\ z.st = n /\ z.timers = y.timers
            /\ z.syn_rexmit_count = d.syn_rexmit_count
            /\ z.rexmit_count = d.rexmit_count
        BY <2>3, IndicateFacts DEF Indications
      <4> HIDE DEF z
      <4>3. ConnInv(z)
        BY <2>3, <3>1, <3>2, <3>3, <4>2 DEF ConnInv, CountsBounded,
           HandshakeTimed, IdleHasNoTimers, TimeWaitTimed
      <4> QED  BY <2>1, <4>1, <4>3 DEF z
    <3> QED  BY <3>4, <3>5
  <2>5. CASE n = "TIME_WAIT"
    <3> DEFINE z == Indicate(x, "CLOSED")
    <3>1. StateEntered(x, d.st) = z
      BY <2>2, <2>5 DEF StateEntered, DataStates
    <3>2. /\ IsTCB(z) /\ z.st = n /\ z.timers = d.timers
          /\ z.syn_rexmit_count = d.syn_rexmit_count /\ z.rexmit_count = d.rexmit_count
      BY <2>2, IndicateFacts DEF Indications
    <3> HIDE DEF z
    <3>3. ConnInv(z)
      BY <1>1, <1>3, <2>5, <3>2 DEF ConnInv, CountsBounded, HandshakeTimed,
         HandshakeTimers, IdleHasNoTimers, TimeWaitTimed, SynStates
    <3> QED  BY <2>1, <3>1, <3>3
  <2>6. CASE n \in SynStates
    <3>1. StateEntered(x, d.st) = x
      BY <2>2, <2>6 DEF StateEntered, DataStates, SynStates
    <3>2. CountsBounded(d)
      BY <1>1, <2>6 DEF SynStates
    <3>3. ConnInv(x)
      BY <1>1, <1>3, <2>2, <2>6, <3>2 DEF ConnInv, CountsBounded, HandshakeTimed,
         HandshakeTimers, IdleHasNoTimers, TimeWaitTimed, SynStates
    <3> QED  BY <2>1, <3>1, <3>3
  <2>7. CASE n = "CLOSED"
    <3> DEFINE z == IF ClosedIsNews(x, d.st) THEN Indicate(x, "CLOSED") ELSE x
    <3>1. StateEntered(x, d.st) = Removed(z)
      BY <2>2, <2>7 DEF StateEntered, DataStates
    <3>2. IsTCB(z)
      BY <2>2, IndicateOK, KeepsType DEF Indications
    <3> QED  BY <2>1, <3>1, <3>2, RemovedOK
  <2> QED  BY <1>1, <1>3, <2>4, <2>5, <2>6, <2>7 DEF States
<1> QED  BY <1>2, <1>3

-----------------------------------------------------------------------------
(* Handlers.  A handler that starts in a state of a connection that exists *)
(* and that the FSM does not enter again leaves d behind where Returns     *)
(* holds of c and d.                                                       *)

Returns(c, d) ==
    /\ IsTCB(d) /\ d.st = c.st
    /\ d.syn_rexmit_count = c.syn_rexmit_count
    /\ d.rexmit_count \in {0, c.rexmit_count}
    /\ \A t \in HandshakeTimers : t \in d.timers <=> t \in c.timers
    /\ d.event \notin {"OPEN_ACTIVE", "RCV_SYN", "TIMEOUT_2MSL"}
    /\ Waits(d) => "2MSL" \in d.timers

Rests(c) == ConnInv(c) /\ c.event = "IGNORE"

Opened(c) == Rests(c) /\ c.st \notin {"INIT", "CLOSED"}

LEMMA ReturnsRefl == ASSUME NEW c, Rests(c) PROVE Returns(c, c)
BY DEF Rests, ConnInv, Returns, Waits, TimeWaitTimed

LEMMA ReturnsKeeps ==
    ASSUME NEW c, NEW d, NEW e, Returns(c, d), Keeps(d, e) PROVE Returns(c, e)
BY DEF Returns, Keeps, Waits, LifeTimers, HandshakeTimers

LEMMA KeepsReturns == ASSUME NEW c, NEW d, Rests(c), Keeps(c, d) PROVE Returns(c, d)
BY ReturnsRefl, ReturnsKeeps

LEMMA ReturnsType == ASSUME NEW c, NEW d, Returns(c, d) PROVE IsTCB(d)
BY DEF Returns

LEMMA ReturnsEvent ==
    ASSUME NEW c, NEW d, Returns(c, d),
           NEW e \in Events \ {"OPEN_ACTIVE", "RCV_SYN", "TIMEOUT_2MSL"},
           Waits(Event(d, e)) => "2MSL" \in d.timers
    PROVE  Returns(c, Event(d, e))
<1>1. /\ IsTCB(Event(d, e)) /\ Event(d, e).st = d.st /\ Event(d, e).event = e
      /\ Event(d, e).timers = d.timers /\ Event(d, e).rexmit_count = d.rexmit_count
      /\ Event(d, e).syn_rexmit_count = d.syn_rexmit_count
  BY ZenonT(60) DEF Returns, Event, IsTCB, TCBFields
<1> QED  BY <1>1 DEF Returns

\* An event that enters no state with a timer of its own.
LEMMA ReturnsHarmlessEvent ==
    ASSUME NEW c, NEW d, Returns(c, d),
           NEW e \in {"IGNORE", "SEND", "CLOSE", "ABORT", "RCV_RST", "RCV_UNEXP_SYN",
                      "RCV_SYN_ACK"}
    PROVE  Returns(c, Event(d, e))
<1>1. Event(d, e).st = d.st /\ Event(d, e).event = e
  BY DEF Returns, IsTCB, TCBFields, Event
<1>2. Waits(Event(d, e)) => "2MSL" \in d.timers
  BY <1>1 DEF Returns, Waits
<1> QED  BY <1>2, ReturnsEvent DEF Events

LEMMA ReturnsSchedule2MSL ==
    ASSUME NEW c, NEW d, Returns(c, d)
    PROVE  LET e == ScheduleTimeout(d, "2MSL")
           IN  Returns(c, e) /\ "2MSL" \in e.timers /\ e.st = d.st
<1> DEFINE e == ScheduleTimeout(d, "2MSL")
<1>1. /\ IsTCB(e) /\ e.st = d.st /\ e.event = d.event
      /\ e.timers = d.timers \cup {"2MSL"} /\ e.rexmit_count = d.rexmit_count
      /\ e.syn_rexmit_count = d.syn_rexmit_count
  BY ZenonT(60) DEF Returns, ScheduleTimeout, IsTCB, TCBFields, Timers
<1> HIDE DEF e
<1>2. Returns(c, e)
  BY <1>1 DEF Returns, Waits, HandshakeTimers
<1> QED  BY <1>1, <1>2 DEF e

\* Restarting the timer of TIME_WAIT.
LEMMA ReturnsRestart2MSL ==
    ASSUME NEW c, NEW d, Returns(c, d)
    PROVE  LET e == ScheduleTimeout(CancelEvents(d, {"2MSL"}), "2MSL")
           IN  Returns(c, e) /\ "2MSL" \in e.timers /\ e.st = d.st
<1> DEFINE x == CancelEvents(d, {"2MSL"})
           e == ScheduleTimeout(x, "2MSL")
<1>1. /\ IsTCB(x) /\ x.st = d.st /\ x.event = d.event
      /\ x.timers = d.timers \ {"2MSL"} /\ x.rexmit_count = d.rexmit_count
      /\ x.syn_rexmit_count = d.syn_rexmit_count
  BY ZenonT(60) DEF Returns, CancelEvents, IsTCB, TCBFields
<1> HIDE DEF x
<1>2. /\ IsTCB(e) /\ e.st = d.st /\ e.event = d.event
      /\ e.timers = x.timers \cup {"2MSL"} /\ e.rexmit_count = d.rexmit_count
      /\ e.syn_rexmit_count = d.syn_rexmit_count
  BY ZenonT(60), <1>1 DEF ScheduleTimeout, IsTCB, TCBFields, Timers
<1> HIDE DEF e
<1>3. Returns(c, e)
  BY <1>1, <1>2 DEF Returns, Waits, HandshakeTimers
<1> QED  BY <1>2, <1>3 DEF e, x

LEMMA ProcessFinAckedReturns ==
    ASSUME NEW c, NEW d, Returns(c, d) PROVE Returns(c, ProcessFinAcked(d))
<1>1. CASE d.st = "FIN_WAIT_1" /\ d.fin_ack_rcvd
  <2>1. Waits(Event(d, "RCV_ACK")) => "2MSL" \in d.timers
    BY <1>1 DEF Waits, Event, Returns, IsTCB, TCBFields
  <2> QED  BY <1>1, <2>1, ReturnsEvent DEF ProcessFinAcked, Events
<1>2. CASE d.st = "CLOSING" /\ d.fin_ack_rcvd
  BY <1>2, ReturnsSchedule2MSL, ReturnsEvent DEF ProcessFinAcked, Events
<1>3. CASE d.st = "TIME_WAIT"
  <2>1. Returns(c, SendAck(d))
    BY ReturnsType, SendAckOK, ReturnsKeeps
  <2> QED  BY <1>3, <2>1, ReturnsRestart2MSL DEF ProcessFinAcked
<1>4. CASE /\ ~(d.st = "FIN_WAIT_1" /\ d.fin_ack_rcvd)
           /\ ~(d.st = "CLOSING" /\ d.fin_ack_rcvd) /\ d.st # "TIME_WAIT"
  BY <1>4 DEF ProcessFinAcked
<1> QED  BY <1>1, <1>2, <1>3, <1>4

LEMMA FinReachedReturns ==
    ASSUME NEW c, NEW d, Returns(c, d) PROVE Returns(c, FinReached(d))
<1>1. CASE d.st = "FIN_WAIT_1" /\ d.fin_ack_rcvd
  BY <1>1, ReturnsSchedule2MSL, ReturnsEvent DEF FinReached, Events
<1>2. CASE d.st = "FIN_WAIT_2"
  BY <1>2, ReturnsSchedule2MSL, ReturnsEvent DEF FinReached, Events
<1>3. CASE d.st = "TIME_WAIT"
  BY <1>3, ReturnsRestart2MSL, ReturnsEvent DEF FinReached, Events
<1>4. CASE /\ ~(d.st = "FIN_WAIT_1" /\ d.fin_ack_rcvd)
           /\ d.st \notin {"FIN_WAIT_2", "TIME_WAIT"}
  <2>1. Waits(Event(d, "RCV_FIN")) => "2MSL" \in d.timers
    BY <1>4 DEF Waits, Event, Returns, IsTCB, TCBFields
  <2> QED  BY <1>4, <2>1, ReturnsEvent DEF FinReached, Events
<1> QED  BY <1>1, <1>2, <1>3, <1>4

\* Passing over a FIN.
LEMMA PassFinOK ==
    ASSUME NEW c, IsTCB(c), NEW n \in Int
    PROVE  Keeps(c, [c EXCEPT !.ack_now = TRUE, !.rcv_nxt = n])
BY ZenonT(60) DEF Keeps, IsTCB, TCBFields

LEMMA ProcessTextReturns ==
    ASSUME NEW r, NEW c, Returns(r, c), NEW t \in Segment, NEW una \in Int, NEW w \in Int
    PROVE  Returns(r, ProcessText(c, t, una, w))
<1> DEFINE d == Insert(c, t)
           a == ReceivedDataAck(d, w)
           e == IF d.snd_una > una THEN [a EXCEPT !.dupacks = 0] ELSE d
           g == Deliver(e)
           n == g.rcv_nxt + 1
           f == [g EXCEPT !.ack_now = TRUE, !.rcv_nxt = n]
<1>1. Returns(r, d) /\ IsTCB(d)
  BY ReturnsType, InsertOK, ReturnsKeeps
<1> HIDE DEF d
<1>2. Returns(r, [a EXCEPT !.dupacks = 0])
  <2>1. Keeps(d, a) /\ IsTCB(a)
    BY <1>1, ReceivedDataAckOK, KeepsType
  <2> HIDE DEF a
  <2>2. Keeps(a, [a EXCEPT !.dupacks = 0])
    BY <2>1, SetDupacksOK
  <2> QED  BY <1>1, <2>1, <2>2, ReturnsKeeps
<1> HIDE DEF a
<1>3. Returns(r, e) /\ IsTCB(e)
  BY <1>1, <1>2, ReturnsType
<1> HIDE DEF e
<1>4. Returns(r, g) /\ IsTCB(g)
  BY <1>3, DeliverOK, ReturnsType, ReturnsKeeps
<1> HIDE DEF g
<1>5. n \in Int
  BY <1>4, NumberTypes
<1> HIDE DEF n
<1>6. Returns(r, f)
  BY <1>4, <1>5, PassFinOK, ReturnsKeeps
<1> HIDE DEF f
<1>7. Returns(r, SendAck(e)) /\ Returns(r, FinReached(f))
  BY <1>3, <1>6, SendAckOK, ReturnsKeeps, FinReachedReturns
<1>8. ProcessText(c, t, una, w) \in {SendAck(e), FinReached(f), g}
  BY DEF ProcessText, d, a, e, g, n, f
<1> QED  BY <1>4, <1>7, <1>8

LEMMA ProcessFinReturns ==
    ASSUME NEW r, NEW c, Returns(r, c), NEW s \in Segment
    PROVE  Returns(r, ProcessFin(c, s))
<1> DEFINE finSeq == s.seq + s.len
           d == [c EXCEPT !.ack_now = TRUE]
           n == c.rcv_nxt + 1
           f == [c EXCEPT !.ack_now = TRUE, !.rcv_nxt = n]
           g == [d EXCEPT !.fin_rcvd = TRUE, !.rcv_fin_seq = finSeq]
<1>1. IsTCB(c)
  BY ReturnsType
<1>2. n \in Int /\ finSeq \in Int
  BY <1>1, NumberTypes DEF Segment
<1> HIDE DEF n, finSeq
<1>3. Keeps(c, f) /\ Keeps(c, g)
  BY SMTT(30), <1>1, <1>2 DEF Keeps, IsTCB, TCBFields
<1>4. [d EXCEPT !.rcv_nxt = @ + 1] = f
  BY <1>1 DEF IsTCB, TCBFields, n
<1>5. Returns(r, g) /\ Returns(r, FinReached(f))
  BY <1>3, ReturnsKeeps, FinReachedReturns
<1>6. ProcessFin(c, s) = c \/ ProcessFin(c, s) = FinReached(f) \/ ProcessFin(c, s) = g
  BY <1>4 DEF ProcessFin, finSeq
<1> QED  BY <1>5, <1>6

LEMMA ProcessDeferredCloseReturns ==
    ASSUME NEW r, NEW c, Returns(r, c), NEW nxt
    PROVE  Returns(r, ProcessDeferredClose(c, nxt))
<1>1. ProcessDeferredClose(c, nxt) \in {c, Event(c, "CLOSE")}
  BY DEF ProcessDeferredClose
<1> QED  BY <1>1, ReturnsHarmlessEvent

LEMMA ProcessTextAndFinReturns ==
    ASSUME NEW r, NEW c, Returns(r, c), NEW s \in Segment, NEW old, IsTCB(old),
           NEW w \in Int
    PROVE  Returns(r, ProcessTextAndFin(c, s, old, w))
<1> DEFINE text == /\ s.len > 0
                   /\ c.st \in {"SYN_RCVD", "ESTABLISHED", "FIN_WAIT_1", "FIN_WAIT_2"}
           t    == IF text THEN Truncate(c, s) ELSE s
           k    == IF s.len = MSS THEN c.full_sized + 1 ELSE c.full_sized
           b    == c.ack_now \/ s.len = 1
           v    == c.fault \/ t.len = 0
           d    == IF text THEN [c EXCEPT !.full_sized = k, !.ack_now = b, !.fault = v]
                   ELSE c
           e    == IF text THEN ProcessText(d, t, old.snd_una, w) ELSE d
           f    == ProcessFin(e, t)
           g    == IF f.rcv_nxt # c.rcv_nxt THEN ReceiveSeqChanged(f) ELSE f
           h    == ProcessDeferredClose(g, old.snd_nxt)
<1>1. IsTCB(c)
  BY ReturnsType
<1>2. t \in Segment /\ old.snd_una \in Int
  BY <1>1, TruncateType, NumberTypes
<1>3. k \in Int /\ b \in BOOLEAN /\ v \in BOOLEAN
  <2>1. c.full_sized \in Int /\ c.ack_now \in BOOLEAN /\ c.fault \in BOOLEAN
    BY <1>1 DEF IsTCB
  <2> QED  BY <2>1
<1>4. ProcessTextAndFin(c, s, old, w) \in {Event(d, "IGNORE"), h}
  BY DEF ProcessTextAndFin
<1> HIDE DEF text, t, k, b, v
<1>5. Keeps(c, d)
  <2>1. Keeps(c, [c EXCEPT !.full_sized = k, !.ack_now = b, !.fault = v])
    BY ZenonT(30), <1>1, <1>3 DEF Keeps, IsTCB, TCBFields
  <2> QED  BY <1>1, <2>1, KeepsRefl
<1>6. Returns(r, d)
  BY <1>5, ReturnsKeeps
<1> HIDE DEF d
<1>7. Returns(r, e)
  BY <1>2, <1>6, ProcessTextReturns
<1> HIDE DEF e
<1>8. Returns(r, f) /\ IsTCB(f)
  BY <1>2, <1>7, ProcessFinReturns, ReturnsType
<1> HIDE DEF f
<1>9. Returns(r, g)
  BY <1>8, ReceiveSeqChangedOK, ReturnsKeeps
<1> HIDE DEF g
<1>10. Returns(r, h)
  BY <1>9, ProcessDeferredCloseReturns
<1> HIDE DEF h
<1> QED  BY <1>4, <1>6, <1>10, ReturnsHarmlessEvent

LEMMA ProcessRstReturns ==
    ASSUME NEW r, NEW c, Returns(r, c) PROVE Returns(r, ProcessRst(c))
<1> DEFINE q == [c EXCEPT !.qBegin = c.qEnd]
           x == IF c.active THEN Indicate(q, "CONNECTION_REFUSED") ELSE q
           y == Indicate(c, "CONNECTION_RESET")
<1>1. IsTCB(c)
  BY ReturnsType
<1>2. Keeps(c, q) /\ IsTCB(q)
  BY ZenonT(60), <1>1, KeepsType DEF Keeps, IsTCB, TCBFields
<1> HIDE DEF q
<1>3. Returns(r, x)
  BY <1>2, IndicateOK, ReturnsKeeps DEF Indications
<1>4. Returns(r, y)
  BY <1>1, IndicateOK, ReturnsKeeps DEF Indications
<1>5. ProcessRst(c) \in {Event(x, "RCV_RST"), Event(y, "RCV_RST"), Event(c, "RCV_RST")}
  BY DEF ProcessRst, q
<1> HIDE DEF x, y
<1> QED  BY <1>3, <1>4, <1>5, ReturnsHarmlessEvent

LEMMA SetDupacksReturns ==
    ASSUME NEW r, NEW c, Rests(r), Keeps(r, c)
    PROVE  Returns(r, [c EXCEPT !.dupacks = 0])
<1>1. Keeps(c, [c EXCEPT !.dupacks = 0])
  BY KeepsType, SetDupacksOK
<1> QED  BY <1>1, KeepsReturns, ReturnsKeeps

LEMMA ProcessSegment1stThru8thReturns ==
    ASSUME NEW c, Opened(c), NEW s \in Segment, NEW w \in Int
    PROVE  Returns(c, ProcessSegment1stThru8th(c, s, w))
<1> DEFINE i == Indicate(c, "ESTABLISHED")
           d == IF c.st = "SYN_RCVD" THEN Event(i, "RCV_ACK") ELSE c
           e == IF c.st \in DataStates \cup {"SYN_RCVD"} THEN ProcessAck(d, s, w) ELSE d
           x == Event(Indicate(c, "CONNECTION_RESET"), "RCV_UNEXP_SYN")
           y == [SendAck(c) EXCEPT !.dupacks = 0]
           z == ProcessTextAndFin(ProcessFinAcked(e), s, c, w)
<1>1. IsTCB(c) /\ Rests(c)
  BY DEF Opened, Rests, ConnInv
<1>2. s.ack \in Int
  BY DEF Segment
<1>3. Returns(c, c) /\ Returns(c, SendAck(c)) /\ Returns(c, ProcessRst(c))
      /\ Returns(c, SendRst(c, s.ack))
  BY <1>1, <1>2, ReturnsRefl, SendAckOK, KeepsReturns, ProcessRstReturns, SendRstOK
<1>4. Returns(c, x)
  <2>1. Returns(c, Indicate(c, "CONNECTION_RESET"))
    BY <1>1, IndicateOK, KeepsReturns DEF Indications
  <2> QED  BY <2>1, ReturnsHarmlessEvent
<1>5. Returns(c, y)
  BY <1>1, SendAckOK, SetDupacksReturns
<1>6. Returns(c, d)
  <2>1. CASE c.st = "SYN_RCVD"
    <3>1. Returns(c, i) /\ i.st = c.st
      BY <1>1, IndicateOK, KeepsReturns DEF Indications, Returns
    <3> HIDE DEF i
    <3>2. ~Waits(Event(i, "RCV_ACK"))
      BY <2>1, <3>1 DEF Waits, Event, Returns, IsTCB, TCBFields
    <3> QED  BY <2>1, <3>1, <3>2, ReturnsEvent DEF Events
  <2>2. CASE c.st # "SYN_RCVD"
    BY <1>3, <2>2
  <2> QED  BY <2>1, <2>2
<1> HIDE DEF d
<1>7. Returns(c, e)
  BY <1>6, ReturnsType, ProcessAckOK, ReturnsKeeps
<1> HIDE DEF e
<1>8. Returns(c, Event(e, "RCV_ACK")) \/ c.st # "LAST_ACK"
  <2>1. c.st = "LAST_ACK" => ~Waits(Event(e, "RCV_ACK"))
    BY <1>7 DEF Waits, Event, Returns, IsTCB, TCBFields
  <2> QED  BY <1>7, <2>1, ReturnsEvent DEF Events
<1>9. Returns(c, z)
  BY <1>1, <1>7, ProcessFinAckedReturns, ProcessTextAndFinReturns
<1>10. \/ ProcessSegment1stThru8th(c, s, w)
             \in {c, SendAck(c), ProcessRst(c), x, SendRst(c, s.ack), y, z}
       \/ c.st = "LAST_ACK" /\ ProcessSegment1stThru8th(c, s, w) = Event(e, "RCV_ACK")
  BY DEF ProcessSegment1stThru8th, d, e
<1> HIDE DEF x, y, z
<1> QED  BY <1>3, <1>4, <1>5, <1>8, <1>9, <1>10

-----------------------------------------------------------------------------
(* Every handler leaves a TCB that is Ready for performStateTransition().  *)

LEMMA ReturnsReady ==
    ASSUME NEW c, Opened(c), NEW d, Returns(c, d) PROVE Ready(d)
<1> DEFINE n == NextState(d, d.event)
<1>1. /\ n # d.st /\ n \in SynStates => d.event \in {"OPEN_ACTIVE", "RCV_SYN"}
      /\ n = "TIME_WAIT" => Waits(d)
  BY ReturnsType, NextStateFacts
<1> HIDE DEF n
<1>2. CountsBounded(d)
  <2>1. /\ d.rexmit_count \in {0, c.rexmit_count}
        /\ d.syn_rexmit_count = c.syn_rexmit_count /\ CountsBounded(c)
    BY DEF Returns, Opened, Rests, ConnInv
  <2> QED  BY <2>1, ConnectionAssumption DEF CountsBounded
<1>3. HandshakeTimed(d) /\ IdleHasNoTimers(d)
  BY DEF Opened, Rests, ConnInv, Returns, HandshakeTimed, HandshakeTimers, IdleHasNoTimers
<1>4. n # d.st => n \notin SynStates
  BY <1>1 DEF Returns
<1>5. n = "TIME_WAIT" => "2MSL" \in d.timers
  BY <1>1 DEF Returns
<1>6. n # d.st /\ n = "TIME_WAIT" => d.timers \cap HandshakeTimers = {}
  <2>1. n # d.st /\ n = "TIME_WAIT" => d.st \notin SynStates
    BY <1>1 DEF Waits, SynStates
  <2> QED  BY <1>3, <2>1 DEF HandshakeTimed, HandshakeTimers
<1>7. IsTCB(d)
  BY ReturnsType
<1> QED  BY <1>2, <1>3, <1>4, <1>5, <1>6, <1>7 DEF Ready, n

LEMMA RestsReady ==
    ASSUME NEW d, ConnInv(d), NextState(d, d.event) = d.st PROVE Ready(d)
BY DEF ConnInv, TimeWaitTimed, Ready

LEMMA ClosesReady ==
    ASSUME NEW d, IsTCB(d), NextState(d, d.event) = "CLOSED", d.st # "CLOSED"
    PROVE  Ready(d)
BY DEF Ready, SynStates

\* Entering the handshake.
LEMMA SynReady ==
    ASSUME NEW d, IsTCB(d), CountsBounded(d), HandshakeTimers \subseteq d.timers,
           NextState(d, d.event) \in SynStates, NextState(d, d.event) # d.st
    PROVE  Ready(d)
BY DEF Ready, SynStates

\* The end of a handler that starts a handshake on event e.
Started(d, ts, e) ==
    Event([d EXCEPT !.syn_rexmit_count = 0, !.timers = @ \cup ts], e)

LEMMA HandshakeStarted ==
    ASSUME NEW c, ConnInv(c), NEW d, Keeps(c, d), NEW ts \in SUBSET Timers,
           NEW e \in {"OPEN_ACTIVE", "RCV_SYN"},
           HandshakeTimers \subseteq c.timers \cup ts
    PROVE  LET x == Started(d, ts, e)
           IN  /\ IsTCB(x) /\ CountsBounded(x) /\ HandshakeTimers \subseteq x.timers
               /\ x.st = c.st /\ x.event = e
<1> DEFINE x == Started(d, ts, e)
           t == d.timers \cup ts
           y == [d EXCEPT !.syn_rexmit_count = 0, !.timers = t]
<1>0. IsTCB(d) /\ t \in SUBSET Timers
  BY DEF Keeps, IsTCB
<1>1. x = Event(y, e) /\ e \in Events
  BY DEF Started, Events
<1> HIDE DEF t, x
<1>2. /\ IsTCB(y) /\ y.st = d.st /\ y.timers = t
      /\ y.rexmit_count = d.rexmit_count /\ y.syn_rexmit_count = 0
  BY SMTT(30), <1>0 DEF IsTCB, TCBFields
<1> HIDE DEF y
<1>3. /\ IsTCB(x) /\ x.st = d.st /\ x.timers = d.timers \cup ts
      /\ x.rexmit_count = d.rexmit_count /\ x.syn_rexmit_count = 0 /\ x.event = e
  BY <1>1, <1>2, EventFacts DEF t
<1>4. CountsBounded(x)
  <2>1. d.rexmit_count \in {0, c.rexmit_count} /\ CountsBounded(c)
    BY DEF Keeps, ConnInv
  <2> QED  BY <1>3, <2>1, ConnectionAssumption DEF CountsBounded
<1>5. HandshakeTimers \subseteq x.timers
  BY <1>3 DEF Keeps, LifeTimers, HandshakeTimers
<1>6. d.st = c.st
  BY DEF Keeps
<1> QED  BY <1>3, <1>4, <1>5, <1>6 DEF x

LEMMA ProcessOpenActiveReady ==
    ASSUME NEW c, Rests(c), c.st = "INIT" PROVE Ready(ProcessOpenActive(c))
<1> DEFINE a == [c EXCEPT !.active = TRUE]
           d == SendSyn(SelectInitialSeqNum(a))
           ts == {"SYN_REXMIT", "CONN_ESTAB"}
           x == Started(d, ts, "OPEN_ACTIVE")
<1>1. ConnInv(c) /\ IsTCB(c)
  BY DEF Rests, ConnInv
<1>2. Keeps(c, a) /\ IsTCB(a)
  BY ZenonT(60), <1>1, KeepsType DEF Keeps, IsTCB, TCBFields
<1> HIDE DEF a
<1>3. Keeps(a, d)
  BY <1>2, SelectInitialSeqNumOK, SendSynOK, KeepsType, KeepsTrans
<1>4. Keeps(c, d)
  BY <1>2, <1>3, KeepsTrans
<1>0. ts \in SUBSET Timers /\ HandshakeTimers \subseteq c.timers \cup ts
  BY DEF Timers, HandshakeTimers
<1> HIDE DEF d, ts
<1>5. /\ IsTCB(x) /\ CountsBounded(x) /\ HandshakeTimers \subseteq x.timers
      /\ x.st = "INIT" /\ x.event = "OPEN_ACTIVE"
  BY <1>0, <1>1, <1>4, HandshakeStarted
<1> HIDE DEF x
<1>6. NextState(x, x.event) = "SYN_SENT"
  BY <1>5, NextStateFacts
<1>7. Ready(x)
  BY <1>5, <1>6, SynReady DEF SynStates
<1> QED  BY <1>7 DEF ProcessOpenActive, Started, x, ts, d, a

LEMMA ProcessOpenPassiveReady ==
    ASSUME NEW c, Rests(c), c.st = "INIT" PROVE Ready(ProcessOpenPassive(c))
<1> DEFINE x == ProcessOpenPassive(c)
<1>1. IsTCB(c) /\ CountsBounded(c)
  BY DEF Rests, ConnInv
<1>2. /\ IsTCB(x) /\ x.st = "INIT" /\ x.event = "OPEN_PASSIVE"
      /\ x.rexmit_count = c.rexmit_count /\ x.syn_rexmit_count = c.syn_rexmit_count
  BY ZenonT(60), <1>1 DEF ProcessOpenPassive, Event, IsTCB, TCBFields, Events
<1> HIDE DEF x
<1>3. NextState(x, x.event) = "LISTEN"
  BY <1>2, NextStateFacts
<1> QED  BY <1>1, <1>2, <1>3 DEF Ready, CountsBounded, SynStates, x

LEMMA ProcessSegmentInListenReady ==
    ASSUME NEW c, Opened(c), c.st = "LISTEN", NEW s \in Segment
    PROVE  Ready(ProcessSegmentInListen(c, s))
<1> DEFINE p == ProcessSegmentInListen(c, s)
           m == s.seq + 1
           a == [c EXCEPT !.rcv_nxt = m, !.rq_nxt = m, !.rcvq = {}]
           d == SelectInitialSeqNum(a)
           e == SendSynAck(InitWndInfo(d, s))
           ts == {"SYN_REXMIT", "CONN_ESTAB"}
           x == Started(e, ts, "RCV_SYN")
<1>1. Rests(c) /\ ConnInv(c) /\ IsTCB(c)
  BY DEF Opened, Rests, ConnInv
<1>2. m \in Int /\ s.ack \in Int
  BY DEF Segment
<1>3. p \in {c, SendRst(c, s.ack), x}
  BY DEF ProcessSegmentInListen, Started
<1>0. ts \in SUBSET Timers /\ HandshakeTimers \subseteq c.timers \cup ts
  BY DEF Timers, HandshakeTimers
<1> HIDE DEF p, m, ts
<1>4. Ready(c) /\ Ready(SendRst(c, s.ack))
  BY <1>1, <1>2, ReturnsRefl, SendRstOK, KeepsReturns, ReturnsReady
<1>5. Keeps(c, a) /\ IsTCB(a)
  <2>1. IsFiniteSet({})
    BY FS_EmptySet
  <2> QED  BY SMTT(30), <1>1, <1>2, <2>1, KeepsType DEF Keeps, IsTCB, TCBFields
<1> HIDE DEF a
<1>6. Keeps(a, d) /\ IsTCB(d)
  BY <1>5, SelectInitialSeqNumOK, KeepsType
<1> HIDE DEF d
<1>7. Keeps(d, e)
  BY <1>6, InitWndInfoOK, SendSynAckOK, KeepsType, KeepsTrans
<1> HIDE DEF e
<1>8. Keeps(c, e)
  BY <1>5, <1>6, <1>7, KeepsTrans
<1>9. /\ IsTCB(x) /\ CountsBounded(x) /\ HandshakeTimers \subseteq x.timers
      /\ x.st = "LISTEN" /\ x.event = "RCV_SYN"
  BY <1>0, <1>1, <1>8, HandshakeStarted
<1> HIDE DEF x
<1>10. NextState(x, x.event) = "SYN_RCVD"
  BY <1>9, NextStateFacts
<1>11. Ready(x)
  BY <1>9, <1>10, SynReady DEF SynStates
<1> QED  BY <1>3, <1>4, <1>11 DEF p

\* The connection after a SYN that came back from the peer.
LEMMA SynReceivedOK ==
    ASSUME NEW c, IsTCB(c), NEW m \in Int
    PROVE  Keeps(c, [c EXCEPT !.rcv_nxt = m, !.rq_nxt = m, !.rcvq = {}])
<1>1. IsFiniteSet({})
  BY FS_EmptySet
<1> QED  BY ZenonT(60), <1>1 DEF Keeps, IsTCB, TCBFields

LEMMA DiscardSynOK ==
    ASSUME NEW c, IsTCB(c), NEW a \in Int
    PROVE  Keeps(c, DiscardUpTo([c EXCEPT !.snd_una = a], a))
<1> DEFINE d == [c EXCEPT !.snd_una = a]
<1>1. Keeps(c, d) /\ IsTCB(d)
  BY ZenonT(60) DEF Keeps, IsTCB, TCBFields
<1> HIDE DEF d
<1>2. Keeps(d, DiscardUpTo(d, a))
  BY <1>1, DiscardUpToOK
<1> QED  BY <1>1, <1>2, KeepsTrans DEF d

LEMMA ProcessSegmentInSynSentReady ==
    ASSUME NEW c, Opened(c), c.st = "SYN_SENT", NEW s \in Segment, NEW w \in Int
    PROVE  Ready(ProcessSegmentInSynSent(c, s, w))
<1> DEFINE p == ProcessSegmentInSynSent(c, s, w)
           m == s.seq + 1
           d == [c EXCEPT !.rcv_nxt = m, !.rq_nxt = m, !.rcvq = {}]
           u == DiscardUpTo([d EXCEPT !.snd_una = s.ack], s.ack)
           e == InitWndInfo(u, s)
           a == [e EXCEPT !.ack_now = TRUE]
           f == EstablishedActive(a, w)
           i == Indicate(c, "CONNECTION_RESET")
           j == Indicate(f, "ESTABLISHED")
           k == SendSynAck(d)
           ts == {"SYN_REXMIT"}
           x == Started(k, ts, "RCV_SYN")
<1>1. Rests(c) /\ ConnInv(c) /\ IsTCB(c)
  BY DEF Opened, Rests, ConnInv
<1>2. m \in Int /\ s.ack \in Int
  BY DEF Segment
<1>3. p \in {c, SendRst(c, s.ack), Event(i, "RCV_RST"), Event(j, "RCV_SYN_ACK"), x}
  BY DEF ProcessSegmentInSynSent, Started
<1> HIDE DEF p, m
<1>4. Returns(c, c) /\ Returns(c, SendRst(c, s.ack))
  BY <1>1, <1>2, ReturnsRefl, SendRstOK, KeepsReturns
<1>5. Returns(c, Event(i, "RCV_RST"))
  BY <1>1, IndicateOK, KeepsReturns, ReturnsHarmlessEvent DEF Indications
<1>6. Keeps(c, d) /\ IsTCB(d)
  BY <1>1, <1>2, SynReceivedOK, KeepsType
<1> HIDE DEF d
<1>7. Keeps(d, u) /\ IsTCB(u)
  BY <1>2, <1>6, DiscardSynOK, KeepsType
<1> HIDE DEF u
<1>8. Keeps(u, e) /\ IsTCB(e)
  BY <1>7, InitWndInfoOK, KeepsType
<1> HIDE DEF e
<1>9. Keeps(e, a) /\ IsTCB(a)
  <2>1. IsTCB(e)
    BY <1>8
  <2>2. IsTCB(a)
    BY ZenonT(60), <2>1 DEF IsTCB, TCBFields
  <2>3. Keeps(e, a)
    BY <2>1, <2>2 DEF Keeps, IsTCB, TCBFields
  <2> QED  BY <2>2, <2>3
<1> HIDE DEF a
<1>10. Keeps(a, f) /\ IsTCB(f)
  BY <1>9, EstablishedActiveOK, KeepsType
<1> HIDE DEF f
<1>11. Keeps(f, j)
  BY <1>10, IndicateOK DEF Indications
<1> HIDE DEF j
<1>12. Keeps(c, j)
  BY <1>6, <1>7, <1>8, <1>9, <1>10, <1>11, KeepsTrans
<1>13. Returns(c, Event(j, "RCV_SYN_ACK"))
  BY <1>1, <1>12, KeepsReturns, ReturnsHarmlessEvent
<1>14. Ready(x)
  <2>1. Keeps(d, k)
    BY <1>6, SendSynAckOK
  <2> HIDE DEF k
  <2>2. Keeps(c, k)
    BY <1>6, <2>1, KeepsTrans
  <2>3. "CONN_ESTAB" \in c.timers
    BY <1>1 DEF ConnInv, HandshakeTimed, SynStates
  <2>4. ts \in SUBSET Timers /\ HandshakeTimers \subseteq c.timers \cup ts
    BY <2>3 DEF Timers, HandshakeTimers
  <2> HIDE DEF ts
  <2>5. /\ IsTCB(x) /\ CountsBounded(x) /\ HandshakeTimers \subseteq x.timers
        /\ x.st = "SYN_SENT" /\ x.event = "RCV_SYN"
    BY <1>1, <2>2, <2>4, HandshakeStarted
  <2> HIDE DEF x
  <2>6. NextState(x, x.event) = "SYN_RCVD"
    BY <2>5, NextStateFacts
  <2> QED  BY <2>5, <2>6, SynReady DEF SynStates
<1> HIDE DEF x, i
<1>15. /\ Ready(c) /\ Ready(SendRst(c, s.ack)) /\ Ready(Event(i, "RCV_RST"))
       /\ Ready(Event(j, "RCV_SYN_ACK"))
  BY <1>4, <1>5, <1>13, ReturnsReady
<1> QED  BY <1>3, <1>14, <1>15 DEF p

LEMMA SegmentArrivalWhileClosedReady ==
    ASSUME NEW c, Rests(c), c.st \in {"INIT", "CLOSED"}, NEW s \in Segment
    PROVE  Ready(SegmentArrivalWhileClosed(c, s))
<1> DEFINE r == SegmentArrivalWhileClosed(c, s)
           g == Seg({"RST", "ACK"}, 0, s.seq + SegLen(s), 0, 0)
<1>1. ConnInv(c) /\ IsTCB(c) /\ c.event = "IGNORE"
  BY DEF Rests, ConnInv
<1>2. g \in Segment
  <2>1. s.seq + SegLen(s) \in Int
    BY DEF Segment, SegLen
  <2> QED  BY <2>1, SegType DEF Flags
<1>3. Keeps(c, SendRst(c, s.ack)) /\ SendRst(c, s.ack).timers = c.timers
  BY <1>1, SendRstOK DEF Segment, SendRst, Emit, IsTCB, TCBFields
<1>4. Keeps(c, Emit(c, g)) /\ Emit(c, g).timers = c.timers
  BY <1>1, <1>2, EmitOK DEF Emit, IsTCB, TCBFields
<1>5. r \in {c, SendRst(c, s.ack), Emit(c, g)}
  BY DEF SegmentArrivalWhileClosed
<1> HIDE DEF r, g
<1>6. Keeps(c, r) /\ r.timers = c.timers
  BY <1>1, <1>3, <1>4, <1>5, KeepsRefl
<1>7. IsTCB(r) /\ CountsBounded(r)
  <2>1. /\ IsTCB(r) /\ r.rexmit_count \in {0, c.rexmit_count}
        /\ r.syn_rexmit_count = c.syn_rexmit_count /\ CountsBounded(c)
    BY <1>1, <1>6 DEF Keeps, ConnInv
  <2> QED  BY <2>1, ConnectionAssumption DEF CountsBounded
<1>8. ConnInv(r)
  BY <1>1, <1>6, <1>7 DEF ConnInv, Keeps, HandshakeTimed, IdleHasNoTimers, TimeWaitTimed
<1>9. NextState(r, r.event) = r.st
  BY <1>1, <1>6, <1>7, NextStateFacts DEF Keeps
<1> QED  BY <1>8, <1>9, RestsReady DEF r

LEMMA ProcessRcvSegmentReady ==
    ASSUME NEW c, Rests(c), NEW s \in Segment, NEW w \in Int
    PROVE  Ready(ProcessRcvSegment(c, s, w))
<1>1. CASE c.st \in {"INIT", "CLOSED"}
  BY <1>1, SegmentArrivalWhileClosedReady DEF ProcessRcvSegment
<1>2. CASE c.st = "LISTEN"
  BY <1>2, ProcessSegmentInListenReady DEF ProcessRcvSegment, Opened
<1>3. CASE c.st = "SYN_SENT"
  BY <1>3, ProcessSegmentInSynSentReady DEF ProcessRcvSegment, Opened
<1>4. CASE c.st \notin {"INIT", "CLOSED", "LISTEN", "SYN_SENT"}
  <2>1. Opened(c)
    BY <1>4 DEF Opened
  <2>2. Ready(ProcessSegment1stThru8th(c, s, w))
    BY <2>1, ProcessSegment1stThru8thReturns, ReturnsReady
  <2> QED  BY <1>4, <2>2 DEF ProcessRcvSegment
<1> QED  BY <1>1, <1>2, <1>3, <1>4

\* Commands to a connection that exists.
LEMMA ProcessSendReady ==
    ASSUME NEW c, Opened(c), NEW n \in Nat, NEW w \in Int
    PROVE  Ready(ProcessSend(c, n, w))
<1> DEFINE q == c.qEnd + n
           a == [c EXCEPT !.qEnd = q]
           d == Event(a, "SEND")
<1>1. Rests(c) /\ IsTCB(c)
  BY DEF Opened, Rests, ConnInv
<1>2. q \in Int
  BY <1>1, NumberTypes
<1>3. ProcessSend(c, n, w) = d \/ ProcessSend(c, n, w) = SendCommandInvoked(d, w)
  BY DEF ProcessSend
<1> HIDE DEF q
<1>4. Keeps(c, a)
  BY ZenonT(60), <1>1, <1>2 DEF Keeps, IsTCB, TCBFields
<1> HIDE DEF a
<1>5. Returns(c, d)
  BY <1>1, <1>4, KeepsReturns, ReturnsHarmlessEvent
<1> HIDE DEF d
<1>6. Returns(c, SendCommandInvoked(d, w))
  BY <1>5, ReturnsType, SendCommandInvokedOK, ReturnsKeeps
<1> QED  BY <1>3, <1>5, <1>6, ReturnsReady

LEMMA ProcessCloseReady == ASSUME NEW c, Opened(c) PROVE Ready(ProcessClose(c))
<1> DEFINE d == [c EXCEPT !.appClosed = TRUE]
           e == [d EXCEPT !.send_fin = TRUE, !.snd_fin_seq = c.qEnd]
           f == RestartRexmitTimer(SendFin(e, c.snd_max))
<1>1. Rests(c) /\ IsTCB(c)
  BY DEF Opened, Rests, ConnInv
<1>2. c.qEnd \in Int /\ c.snd_max \in Int
  BY <1>1, NumberTypes
<1>3. \/ ProcessClose(c) = Event(d, "CLOSE") \/ ProcessClose(c) = e
      \/ ProcessClose(c) = Event(f, "CLOSE")
  BY DEF ProcessClose
<1>4. Keeps(c, d)
  BY ZenonT(60), <1>1 DEF Keeps, IsTCB, TCBFields
<1>5. Keeps(c, e)
  BY ZenonT(60), <1>1, <1>2 DEF Keeps, IsTCB, TCBFields
<1> HIDE DEF d, e
<1>6. Keeps(c, f)
  BY <1>2, <1>5, SendFinOK, RestartRexmitTimerOK, KeepsType, KeepsTrans
<1> HIDE DEF f
<1>7. Returns(c, Event(d, "CLOSE")) /\ Returns(c, e) /\ Returns(c, Event(f, "CLOSE"))
  BY <1>1, <1>4, <1>5, <1>6, KeepsReturns, ReturnsHarmlessEvent
<1> QED  BY <1>3, <1>7, ReturnsReady

LEMMA ProcessAbortReady == ASSUME NEW c, Opened(c) PROVE Ready(ProcessAbort(c))
<1> DEFINE d == [c EXCEPT !.appClosed = TRUE]
<1>1. Rests(c) /\ IsTCB(c)
  BY DEF Opened, Rests, ConnInv
<1>2. \/ ProcessAbort(c) = Event(d, "ABORT")
      \/ ProcessAbort(c) = Event(SendRst(d, c.snd_nxt), "ABORT")
  BY DEF ProcessAbort
<1>3. Keeps(c, d) /\ IsTCB(d)
  BY ZenonT(60), <1>1, KeepsType DEF Keeps, IsTCB, TCBFields
<1> HIDE DEF d
<1>4. Keeps(c, SendRst(d, c.snd_nxt))
  BY <1>1, <1>3, NumberTypes, SendRstOK, KeepsTrans
<1>5. Returns(c, Event(d, "ABORT")) /\ Returns(c, Event(SendRst(d, c.snd_nxt), "ABORT"))
  BY <1>1, <1>3, <1>4, KeepsReturns, ReturnsHarmlessEvent
<1> QED  BY <1>2, <1>5, ReturnsReady

\* Timers.  One that is running belongs to a connection that exists.
LEMMA TimedIsOpened ==
    ASSUME NEW c, Rests(c), NEW t \in c.timers PROVE Opened(c)
BY DEF Rests, ConnInv, IdleHasNoTimers, Opened

LEMMA ProcessTimeoutConnEstabReady ==
    ASSUME NEW c, Rests(c), "CONN_ESTAB" \in c.timers
    PROVE  Ready(ProcessTimeoutConnEstab(c))
<1> DEFINE a == CancelEvents(c, {"CONN_ESTAB"})
           b == c.st \in SynStates
           d == Require(a, b)
           e == IF c.active THEN Indicate(d, "TIMED_OUT") ELSE d
           x == Event(e, "TIMEOUT_CONN_ESTAB")
<1>1. IsTCB(c) /\ CountsBounded(c) /\ c.st \in SynStates
  BY DEF Rests, ConnInv, HandshakeTimed
<1>2. /\ IsTCB(a) /\ a.st = c.st /\ a.rexmit_count = c.rexmit_count
      /\ a.syn_rexmit_count = c.syn_rexmit_count
  BY ZenonT(60), <1>1 DEF CancelEvents, IsTCB, TCBFields
<1> HIDE DEF a
<1>3. b \in BOOLEAN
  OBVIOUS
<1> HIDE DEF b
<1>4. /\ IsTCB(d) /\ d.st = c.st /\ d.rexmit_count = c.rexmit_count
      /\ d.syn_rexmit_count = c.syn_rexmit_count
  BY ZenonT(60), <1>2, <1>3 DEF Require, IsTCB, TCBFields
<1> HIDE DEF d
<1>5. /\ IsTCB(e) /\ e.st = c.st /\ e.rexmit_count = c.rexmit_count
      /\ e.syn_rexmit_count = c.syn_rexmit_count
  BY <1>4, IndicateFacts DEF Indications
<1> HIDE DEF e
<1>6. /\ IsTCB(x) /\ x.st = c.st /\ x.event = "TIMEOUT_CONN_ESTAB"
      /\ x.rexmit_count = c.rexmit_count /\ x.syn_rexmit_count = c.syn_rexmit_count
  BY <1>5, EventFacts DEF Events
<1> HIDE DEF x
<1>7. NextState(x, x.event) \in {"CLOSED", "LISTEN"}
  BY <1>1, <1>6, NextStateFacts
<1>8. Ready(x)
  BY <1>1, <1>6, <1>7 DEF Ready, CountsBounded, SynStates
<1> QED  BY <1>8 DEF ProcessTimeoutConnEstab, x, e, d, b, a

LEMMA ProcessTimeout2MSLReady ==
    ASSUME NEW c, Rests(c), "2MSL" \in c.timers PROVE Ready(ProcessTimeout2MSL(c))
<1> DEFINE a == CancelEvents(c, {"2MSL"})
           b == c.st = "TIME_WAIT"
           d == Require(a, b)
           x == Event(d, "TIMEOUT_2MSL")
<1>1. ConnInv(c) /\ IsTCB(c) /\ c.st \notin {"INIT", "CLOSED"}
  BY TimedIsOpened DEF Opened, Rests, ConnInv
<1>2. /\ IsTCB(a) /\ a.st = c.st /\ a.timers = c.timers \ {"2MSL"}
      /\ a.rexmit_count = c.rexmit_count /\ a.syn_rexmit_count = c.syn_rexmit_count
  BY ZenonT(60), <1>1 DEF CancelEvents, IsTCB, TCBFields
<1> HIDE DEF a
<1>3. b \in BOOLEAN
  OBVIOUS
<1> HIDE DEF b
<1>4. /\ IsTCB(d) /\ d.st = c.st /\ d.timers = c.timers \ {"2MSL"}
      /\ d.rexmit_count = c.rexmit_count /\ d.syn_rexmit_count = c.syn_rexmit_count
  BY ZenonT(60), <1>2, <1>3 DEF Require, IsTCB, TCBFields
<1> HIDE DEF d
<1>5. /\ IsTCB(x) /\ x.st = c.st /\ x.timers = c.timers \ {"2MSL"}
      /\ x.rexmit_count = c.rexmit_count /\ x.syn_rexmit_count = c.syn_rexmit_count
      /\ x.event = "TIMEOUT_2MSL"
  BY <1>4, EventFacts DEF Events
<1> HIDE DEF x
<1>6. Ready(x)
  <2>1. CASE c.st = "TIME_WAIT"
    <3>1. NextState(x, x.event) = "CLOSED"
      BY <1>5, <2>1, NextStateFacts
    <3> QED  BY <1>5, <2>1, <3>1, ClosesReady
  <2>2. CASE c.st # "TIME_WAIT"
    <3>1. NextState(x, x.event) = x.st
      BY <1>5, <2>2, NextStateFacts
    <3>2. ConnInv(x)
      BY <1>1, <1>5, <2>2 DEF ConnInv, CountsBounded, HandshakeTimed, IdleHasNoTimers,
                              TimeWaitTimed
    <3> QED  BY <3>1, <3>2, RestsReady
  <2> QED  BY <2>1, <2>2
<1> QED  BY <1>6 DEF ProcessTimeout2MSL, x, d, b, a

LEMMA ProcessTimeoutSynRexmitReady ==
    ASSUME NEW c, Rests(c), "SYN_REXMIT" \in c.timers
    PROVE  Ready(ProcessTimeoutSynRexmit(c))
<1> DEFINE a == CancelEvents(c, {"SYN_REXMIT"})
           n == c.syn_rexmit_count + 1
           d == [a EXCEPT !.syn_rexmit_count = n]
           e == CASE c.st = "SYN_SENT" -> SendSyn(d)
                  [] c.st = "SYN_RCVD" -> SendSynAck(d)
                  [] OTHER -> Require(d, FALSE)
           x == Event(d, "ABORT")
           y == ScheduleTimeout(e, "SYN_REXMIT")
<1>1. ConnInv(c) /\ IsTCB(c) /\ CountsBounded(c) /\ c.st \in SynStates /\ c.event = "IGNORE"
  BY DEF Rests, ConnInv, HandshakeTimed
<1>2. /\ IsTCB(a) /\ a.st = c.st /\ a.timers = c.timers \ {"SYN_REXMIT"}
      /\ a.rexmit_count = c.rexmit_count /\ a.syn_rexmit_count = c.syn_rexmit_count
      /\ a.event = "IGNORE"
  BY ZenonT(60), <1>1 DEF CancelEvents, IsTCB, TCBFields
<1>3. a.syn_rexmit_count + 1 = n /\ n \in Int
  <2>1. c.syn_rexmit_count \in Int
    BY <1>1 DEF IsTCB
  <2> QED  BY <1>2, <2>1
<1> HIDE DEF a, n
<1>4. /\ IsTCB(d) /\ d.st = c.st /\ d.timers = c.timers \ {"SYN_REXMIT"}
      /\ d.rexmit_count = c.rexmit_count /\ d.syn_rexmit_count = n
      /\ d.event = "IGNORE"
  BY ZenonT(60), <1>2, <1>3 DEF IsTCB, TCBFields
<1>5. ProcessTimeoutSynRexmit(c) = IF SynRexmitsExhausted(d) THEN x ELSE y
  BY <1>3 DEF ProcessTimeoutSynRexmit, a
<1> HIDE DEF d
<1>6. CASE SynRexmitsExhausted(d)
  <2>1. IsTCB(x) /\ x.st = c.st /\ x.event = "ABORT"
    BY <1>4, EventFacts DEF Events
  <2> HIDE DEF x
  <2>2. NextState(x, x.event) = "CLOSED" /\ x.st # "CLOSED"
    BY <1>1, <2>1, NextStateFacts DEF SynStates
  <2> QED  BY <1>5, <1>6, <2>1, <2>2, ClosesReady
<1>7. CASE ~SynRexmitsExhausted(d)
  <2>1. Keeps(d, e)
    BY <1>1, <1>4, SendSynOK, SendSynAckOK DEF SynStates
  <2> HIDE DEF e
  <2>2. /\ IsTCB(e) /\ e.st = c.st /\ e.event = "IGNORE" /\ e.syn_rexmit_count = n
        /\ e.rexmit_count \in {0, c.rexmit_count}
        /\ "CONN_ESTAB" \in e.timers <=> "CONN_ESTAB" \in c.timers
    BY <1>4, <2>1 DEF Keeps, LifeTimers
  <2>3. /\ IsTCB(y) /\ y.st = c.st /\ y.event = "IGNORE" /\ y.syn_rexmit_count = n
        /\ y.rexmit_count \in {0, c.rexmit_count}
        /\ y.timers = e.timers \cup {"SYN_REXMIT"}
    BY SMTT(30), <2>2 DEF ScheduleTimeout, IsTCB, TCBFields, Timers
  <2> HIDE DEF y
  <2>4. n \in 0 .. MAX_SYN_REXMIT_COUNT
    BY <1>1, <1>3, <1>4, <1>7, ConnectionAssumption
       DEF CountsBounded, SynRexmitsExhausted, n
  <2>5. CountsBounded(y)
    BY <1>1, <2>3, <2>4, ConnectionAssumption DEF CountsBounded
  <2>6. ConnInv(y)
    BY <1>1, <2>2, <2>3, <2>5 DEF ConnInv, HandshakeTimed, IdleHasNoTimers,
                                  TimeWaitTimed, SynStates
  <2>7. NextState(y, y.event) = y.st
    BY <2>3, NextStateFacts
  <2> QED  BY <1>5, <1>7, <2>6, <2>7, RestsReady
<1> QED  BY <1>6, <1>7

LEMMA ProcessRexmitTimerReady ==
    ASSUME NEW c, Rests(c), "REXMIT" \in c.timers PROVE Ready(ProcessRexmitTimer(c))
<1> DEFINE a == CancelEvents(c, {"REXMIT"})
           n == c.rexmit_count + 1
           d == [a EXCEPT !.rexmit_count = n]
           i == Indicate(d, "TIMED_OUT")
           x == Event(i, "ABORT")
           s == ScheduleTimeout(d, "REXMIT")
           e == [s EXCEPT !.afterRto = TRUE]
           y == RetransmitOneSegment(e, TRUE)
<1>1. /\ ConnInv(c) /\ IsTCB(c) /\ CountsBounded(c) /\ c.event = "IGNORE"
      /\ c.st \notin {"INIT", "CLOSED"}
  BY TimedIsOpened DEF Opened, Rests, ConnInv
<1>2. /\ IsTCB(a) /\ a.st = c.st /\ a.timers = c.timers \ {"REXMIT"}
      /\ a.rexmit_count = c.rexmit_count /\ a.syn_rexmit_count = c.syn_rexmit_count
      /\ a.event = "IGNORE"
  BY ZenonT(60), <1>1 DEF CancelEvents, IsTCB, TCBFields
<1>3. a.rexmit_count + 1 = n /\ n \in Int
  <2>1. c.rexmit_count \in Int
    BY <1>1 DEF IsTCB
  <2> QED  BY <1>2, <2>1
<1> HIDE DEF a, n
<1>4. /\ IsTCB(d) /\ d.st = c.st /\ d.timers = c.timers \ {"REXMIT"}
      /\ d.rexmit_count = n /\ d.syn_rexmit_count = c.syn_rexmit_count
      /\ d.event = "IGNORE"
  BY ZenonT(60), <1>2, <1>3 DEF IsTCB, TCBFields
<1>5. ProcessRexmitTimer(c) = IF RexmitsExhausted(d) THEN x ELSE y
  BY <1>3 DEF ProcessRexmitTimer, a
<1> HIDE DEF d
<1>6. CASE RexmitsExhausted(d)
  <2>1. IsTCB(i) /\ i.st = c.st
    BY <1>4, IndicateFacts DEF Indications
  <2> HIDE DEF i
  <2>2. IsTCB(x) /\ x.st = c.st /\ x.event = "ABORT"
    BY <2>1, EventFacts DEF Events
  <2> HIDE DEF x
  <2>3. NextState(x, x.event) = "CLOSED" /\ x.st # "CLOSED"
    BY <1>1, <2>2, NextStateFacts
  <2> QED  BY <1>5, <1>6, <2>2, <2>3, ClosesReady
<1>7. CASE ~RexmitsExhausted(d)
  <2>1. /\ IsTCB(s) /\ s.st = c.st /\ s.event = "IGNORE" /\ s.rexmit_count = n
        /\ s.syn_rexmit_count = c.syn_rexmit_count
        /\ s.timers = d.timers \cup {"REXMIT"}
    BY SMTT(30), <1>4 DEF ScheduleTimeout, IsTCB, TCBFields, Timers
  <2> HIDE DEF s
  <2>2. /\ IsTCB(e) /\ e.st = c.st /\ e.event = "IGNORE" /\ e.rexmit_count = n
        /\ e.syn_rexmit_count = c.syn_rexmit_count
        /\ e.timers = d.timers \cup {"REXMIT"}
    BY ZenonT(60), <2>1 DEF IsTCB, TCBFields
  <2> HIDE DEF e
  <2>3. \A t \in LifeTimers : t \in e.timers <=> t \in c.timers
    BY <1>4, <2>2 DEF LifeTimers
  <2>4. n \in 0 .. MAX_REXMIT_COUNT
    BY <1>1, <1>3, <1>4, <1>7, ConnectionAssumption DEF CountsBounded, RexmitsExhausted, n
  <2>5. CountsBounded(e)
    BY <1>1, <2>2, <2>4 DEF CountsBounded
  <2>6. ConnInv(e)
    BY <1>1, <2>2, <2>3, <2>5 DEF ConnInv, HandshakeTimed, IdleHasNoTimers,
                                  TimeWaitTimed, LifeTimers
  <2>7. Opened(e)
    BY <1>1, <2>2, <2>6 DEF Opened, Rests
  <2>8. Returns(e, y)
    BY <2>2, <2>7, RetransmitOneSegmentOK, KeepsReturns DEF Opened
  <2> QED  BY <1>5, <1>7, <2>7, <2>8, ReturnsReady
<1> QED  BY <1>6, <1>7

LEMMA ProcessPersistTimerReady ==
    ASSUME NEW c, Rests(c), "PERSIST" \in c.timers PROVE Ready(ProcessPersistTimer(c))
<1>1. Opened(c) /\ IsTCB(c)
  BY TimedIsOpened DEF Rests, ConnInv
<1>2. Returns(c, SendProbe(c))
  BY <1>1, SendProbeOK, KeepsReturns
<1> QED  BY <1>1, <1>2, ReturnsReady DEF ProcessPersistTimer

LEMMA ProcessDelayedAckTimerReady ==
    ASSUME NEW c, Rests(c), "DELAYED_ACK" \in c.timers
    PROVE  Ready(ProcessDelayedAckTimer(c))
<1> DEFINE a == CancelEvents(c, {"DELAYED_ACK"})
           d == [a EXCEPT !.ack_now = TRUE]
<1>1. Opened(c) /\ IsTCB(c)
  BY TimedIsOpened DEF Rests, ConnInv
<1>2. Keeps(c, a) /\ IsTCB(a)
  <2>1. {"DELAYED_ACK"} \cap LifeTimers = {}
    BY DEF LifeTimers
  <2> QED  BY <1>1, <2>1, CancelEventsOK, KeepsType
<1> HIDE DEF a
<1>3. Keeps(a, d) /\ IsTCB(d)
  <2>1. IsTCB(a)
    BY <1>2, KeepsType
  <2>2. IsTCB(d)
    BY ZenonT(60), <2>1 DEF IsTCB, TCBFields
  <2>3. Keeps(a, d)
    BY <2>1, <2>2 DEF Keeps, IsTCB, TCBFields
  <2> QED  BY <2>2, <2>3
<1> HIDE DEF d
<1>4. Returns(c, SendAck(d))
  BY <1>2, <1>3, SendAckOK, KeepsTrans, KeepsReturns
<1> QED  BY <1>1, <1>4, ReturnsReady DEF ProcessDelayedAckTimer, d, a

-----------------------------------------------------------------------------
(***************************************************************************)
(* The steps of the two endpoints.                                         *)
(***************************************************************************)

PeersInv ==
    /\ tcb = [p \in Endpoints |-> tcb[p]]
    /\ \A p \in Endpoints : Rests(tcb[p])
    /\ net \in [Endpoints -> SUBSET Segment]

LEMMA AdvertisedType ==
    ASSUME NEW p, NEW out \in SUBSET Segment, NEW sent \in Advertised(p, out)
    PROVE  sent \in SUBSET Segment
<1>1. \A s \in out : (IF "SYN" \in s.flags THEN s ELSE [s EXCEPT !.wnd = 0]) \in Segment
  BY DEF Segment
<1> QED  BY <1>1 DEF Advertised

\* The scratch fields of a TCB are cleared after the handler.
LEMMA ClearedRests ==
    ASSUME NEW d, ConnInv(d) PROVE Rests([d EXCEPT !.out = {}, !.event = "IGNORE"])
<1> DEFINE e == [d EXCEPT !.out = {}, !.event = "IGNORE"]
<1>1. /\ IsTCB(e) /\ e.event = "IGNORE" /\ e.st = d.st /\ e.timers = d.timers
      /\ e.rexmit_count = d.rexmit_count /\ e.syn_rexmit_count = d.syn_rexmit_count
  BY ZenonT(60) DEF ConnInv, IsTCB, TCBFields, Events
<1> HIDE DEF e
<1>2. ConnInv(e)
  BY <1>1 DEF ConnInv, CountsBounded, HandshakeTimed, IdleHasNoTimers, TimeWaitTimed
<1> QED  BY <1>1, <1>2 DEF Rests, e

\* One event: a handler that leaves a Ready TCB keeps the invariant.
LEMMA HandledOK ==
    ASSUME PeersInv, NEW p \in Endpoints, NEW c, Ready(c),
           NEW rest \in SUBSET net[p], Handled(p, c, rest)
    PROVE  PeersInv'
<1> DEFINE d == PerformStateTransition(c)
           e == [d EXCEPT !.out = {}, !.event = "IGNORE"]
<1>1. ConnInv(d)
  BY TransitionOK
<1>2. d.out \in SUBSET Segment
  BY <1>1 DEF ConnInv, IsTCB
<1>3. Rests(e)
  BY <1>1, ClearedRests
<1>4. PICK sent \in Advertised(p, d.out) : \E kept \in Carried(net[Peer(p)], sent) :
         net' = [net EXCEPT ![p] = rest, ![Peer(p)] = @ \cup kept]
  BY DEF Handled
<1>5. PICK kept \in Carried(net[Peer(p)], sent) :
         net' = [net EXCEPT ![p] = rest, ![Peer(p)] = @ \cup kept]
  BY <1>4
<1>6. tcb' = [tcb EXCEPT ![p] = e]
  BY DEF Handled
<1> HIDE DEF e, d
<1>7. kept \in SUBSET Segment
  BY <1>2, AdvertisedType DEF Carried
<1>8. net' \in [Endpoints -> SUBSET Segment]
  <2>1. net \in [Endpoints -> SUBSET Segment] /\ Peer(p) \in Endpoints
    BY DEF PeersInv, Peer, Endpoints
  <2>2. rest \in SUBSET Segment /\ net[Peer(p)] \cup kept \in SUBSET Segment
    BY <1>7, <2>1
  <2> QED  BY <1>5, <2>1, <2>2
<1>9. tcb' = [q \in Endpoints |-> tcb'[q]]
  BY <1>6 DEF PeersInv
<1>10. \A q \in Endpoints : Rests(tcb'[q])
  <2>1. \A q \in Endpoints : tcb'[q] = IF q = p THEN e ELSE tcb[q]
    BY <1>6 DEF PeersInv
  <2> QED  BY <1>3, <2>1 DEF PeersInv
<1> QED  BY <1>8, <1>9, <1>10 DEF PeersInv, Rests, ConnInv

LEMMA InitOK == Init => PeersInv
<1> SUFFICES ASSUME Init PROVE PeersInv
  OBVIOUS
<1>1. \A p \in Endpoints : Rests(tcb[p])
  <2> SUFFICES ASSUME NEW p \in Endpoints PROVE Rests(tcb[p])
    OBVIOUS
  <2> DEFINE n == NewConnection
             i == IssBase(p)
             e == [n EXCEPT !.iss = i]
  <2>1. i \in Int
    BY ConnectionAssumption DEF IssBase
  <2>2. /\ IsTCB(n) /\ n.st = "INIT" /\ n.timers = {} /\ n.rexmit_count = 0
        /\ n.syn_rexmit_count = 0 /\ n.event = "IGNORE"
    BY NewConnectionOK
  <2>3. tcb[p] = e
    BY DEF Init
  <2> HIDE DEF n, i
  <2>4. /\ IsTCB(e) /\ e.st = "INIT" /\ e.timers = {} /\ e.rexmit_count = 0
        /\ e.syn_rexmit_count = 0 /\ e.event = "IGNORE"
    BY ZenonT(60), <2>1, <2>2 DEF IsTCB, TCBFields
  <2> HIDE DEF e
  <2>5. Rests(e)
    BY <2>4, ConnectionAssumption DEF Rests, ConnInv, CountsBounded, HandshakeTimed,
       IdleHasNoTimers, TimeWaitTimed, SynStates
  <2> QED  BY <2>3, <2>5
<1>2. tcb = [p \in Endpoints |-> tcb[p]] /\ net \in [Endpoints -> SUBSET Segment]
  BY DEF Init
<1> QED  BY <1>1, <1>2 DEF PeersInv

LEMMA NextOK == PeersInv /\ [Next]_vars => PeersInv'
<1> SUFFICES ASSUME PeersInv, [Next]_vars PROVE PeersInv'
  OBVIOUS
<1>1. CASE UNCHANGED vars
  BY <1>1 DEF vars, PeersInv
<1>2. ASSUME NEW p \in Endpoints, Command(p) \/ SegmentArrives(p) \/ Timeout(p)
      PROVE  PeersInv'
  <2> DEFINE c == tcb[p]
  <2>1. Rests(c) /\ net[p] \in SUBSET Segment
    BY DEF PeersInv
  <2> HIDE DEF c
  <2>2. CASE OpenActive(p)
    BY <2>1, <2>2, ProcessOpenActiveReady, HandledOK DEF OpenActive, c
  <2>3. CASE OpenPassive(p)
    BY <2>1, <2>3, ProcessOpenPassiveReady, HandledOK DEF OpenPassive, c
  <2>4. CASE Send(p)
    <3>1. PICK n \in SendSizes, w \in Cwnds : Handled(p, ProcessSend(c, n, w), net[p])
      BY <2>4 DEF Send, c
    <3>2. n \in Nat /\ w \in Int /\ Opened(c)
      BY <2>1, <2>4, PeersAssumption DEF Send, Opened, SynStates, c
    <3> QED  BY <3>1, <3>2, ProcessSendReady, HandledOK
  <2>5. CASE Close(p)
    <3>1. Opened(c)
      BY <2>1, <2>5, PeersAssumption DEF Close, Opened, c
    <3> QED  BY <2>5, <3>1, ProcessCloseReady, HandledOK DEF Close, c
  <2>6. CASE Abort(p)
    <3>1. Opened(c)
      BY <2>1, <2>6 DEF Abort, Exists, Opened, c
    <3> QED  BY <2>6, <3>1, ProcessAbortReady, HandledOK DEF Abort, c
  <2>7. CASE SegmentArrives(p)
    <3>1. PICK s \in net[p], w \in Cwnds :
             \/ Handled(p, ProcessRcvSegment(c, s, w), net[p] \ {s})
             \/ Handled(p, ProcessRcvSegment(c, s, w), net[p])
      BY <2>7 DEF SegmentArrives, c
    <3>2. s \in Segment /\ w \in Int
      BY <2>1, PeersAssumption
    <3>3. Ready(ProcessRcvSegment(c, s, w))
      BY <2>1, <3>2, ProcessRcvSegmentReady
    <3> QED  BY <3>1, <3>3, HandledOK
  <2>8. CASE TimeoutConnEstab(p)
    BY <2>1, <2>8, ProcessTimeoutConnEstabReady, HandledOK DEF TimeoutConnEstab, c
  <2>9. CASE Timeout2MSL(p)
    BY <2>1, <2>9, ProcessTimeout2MSLReady, HandledOK DEF Timeout2MSL, c
  <2>10. CASE TimeoutSynRexmit(p)
    BY <2>1, <2>10, ProcessTimeoutSynRexmitReady, HandledOK DEF TimeoutSynRexmit, c
  <2>11. CASE TimeoutRexmit(p)
    BY <2>1, <2>11, ProcessRexmitTimerReady, HandledOK DEF TimeoutRexmit, c
  <2>12. CASE TimeoutPersist(p)
    BY <2>1, <2>12, ProcessPersistTimerReady, HandledOK DEF TimeoutPersist, c
  <2>13. CASE TimeoutDelayedAck(p)
    BY <2>1, <2>13, ProcessDelayedAckTimerReady, HandledOK DEF TimeoutDelayedAck, c
  <2> QED  BY <1>2, <2>2, <2>3, <2>4, <2>5, <2>6, <2>7, <2>8, <2>9, <2>10, <2>11, <2>12,
              <2>13 DEF Command, Timeout
<1> QED  BY <1>1, <1>2 DEF Next

LEMMA PeersInvAlways == Spec => []PeersInv
BY InitOK, NextOK, PTL DEF Spec

\* Every variable keeps its type, and a connection is given up before it
\* retransmits a segment, or its SYN, more often than the limits of
\* TCPConnection and TCPBaseAlg allow.
THEOREM TypeOKAlways == Spec => []TypeOK
<1>1. PeersInv => TypeOK
  BY DEF PeersInv, TypeOK, Rests, ConnInv, CountsBounded
<1> QED  BY <1>1, PeersInvAlways, PTL

\* stateEntered() and the handlers keep the connection establishment and the
\* SYN retransmission timer running exactly in SYN_SENT and SYN_RCVD.
THEOREM HandshakeAlwaysTimed == Spec => []HandshakeIsTimed
<1>1. PeersInv => HandshakeIsTimed
  BY DEF PeersInv, HandshakeIsTimed, Rests, ConnInv, HandshakeTimed
<1> QED  BY <1>1, PeersInvAlways, PTL

\* Every way into TIME_WAIT, and every segment that arrives there, leaves the
\* 2MSL timer scheduled.
THEOREM TimeWaitAlwaysTimed == Spec => []TimeWaitIsTimed
<1>1. PeersInv => TimeWaitIsTimed
  BY DEF PeersInv, TimeWaitIsTimed, Rests, ConnInv, TimeWaitTimed
<1> QED  BY <1>1, PeersInvAlways, PTL

-----------------------------------------------------------------------------
(***************************************************************************)
(* The send variables.  Whatever segments arrive, they stay in order and   *)
(* inside the send queue; during the handshake nothing but the SYN is      *)
(* outstanding, and neither the retransmission nor the persist timer runs. *)
(***************************************************************************)

SendTimers == {"REXMIT", "PERSIST"}

\* snd_una <= snd_nxt <= snd_max, in the queue or one past it, over the FIN.
SendOrdered(c) ==
    /\ c.iss <= c.snd_una /\ c.snd_una <= c.snd_nxt /\ c.snd_nxt <= c.snd_max
    /\ c.snd_max <= c.qEnd + 1
    /\ c.snd_max = c.qEnd + 1 => c.send_fin
    /\ c.send_fin => c.snd_fin_seq = c.qEnd /\ c.appClosed /\ c.snd_max # c.qEnd

SynOrdered(c) ==
    /\ SendOrdered(c)
    /\ c.iss < c.qEnd /\ c.snd_nxt = c.iss + 1 /\ c.snd_max = c.iss + 1

\* What holds of the send variables of c in state st.
SendInvAt(c, st) ==
    /\ st \in DataStates => SendOrdered(c)
    /\ st = "INIT" => ~c.send_fin
    /\ st = "LISTEN" => ~c.send_fin /\ ~c.active
    /\ st = "SYN_SENT" => SynOrdered(c) /\ c.active /\ c.snd_una = c.iss /\ ~c.send_fin
    /\ st = "SYN_RCVD" =>
          SynOrdered(c) /\ (~c.active => ~c.send_fin /\ c.qEnd = c.iss + 1)
    /\ st \in {"INIT", "LISTEN"} \cup SynStates => c.timers \cap SendTimers = {}

SendInv(c) == SendInvAt(c, c.st)

\* d is a TCB with the send variables of c.
Alike(c, d) ==
    /\ IsTCB(d)
    /\ d.st = c.st /\ d.active = c.active
    /\ d.iss = c.iss /\ d.snd_una = c.snd_una /\ d.snd_nxt = c.snd_nxt
    /\ d.snd_max = c.snd_max /\ d.qEnd = c.qEnd
    /\ d.send_fin = c.send_fin /\ d.snd_fin_seq = c.snd_fin_seq
    /\ d.appClosed = c.appClosed

\* Its timers for sending are those of c, too, or fewer.
Still(c, d) == Alike(c, d) /\ d.timers \cap SendTimers \subseteq c.timers

LEMMA AlikeRefl == ASSUME NEW c, IsTCB(c) PROVE Still(c, c) /\ Alike(c, c)
BY DEF Alike, Still

LEMMA AlikeTrans ==
    ASSUME NEW c, NEW d, NEW e
    PROVE  /\ Alike(c, d) /\ Alike(d, e) => Alike(c, e)
           /\ Still(c, d) /\ Still(d, e) => Still(c, e)
BY DEF Alike, Still

LEMMA AlikeType ==
    ASSUME NEW c, NEW d PROVE Alike(c, d) \/ Still(c, d) => IsTCB(d) /\ Alike(c, d)
BY DEF Alike, Still

LEMMA AlikeOrdered ==
    ASSUME NEW c, NEW d, Alike(c, d)
    PROVE  /\ SendOrdered(c) => SendOrdered(d)
           /\ SynOrdered(c) => SynOrdered(d)
BY DEF Alike, SendOrdered, SynOrdered

LEMMA StillInv ==
    ASSUME NEW c, NEW d, Still(c, d), NEW st, SendInvAt(c, st) PROVE SendInvAt(d, st)
<1>1. /\ SendOrdered(c) => SendOrdered(d)
      /\ SynOrdered(c) => SynOrdered(d)
  BY AlikeOrdered DEF Still
<1> QED  BY <1>1 DEF Still, Alike, SendInvAt

LEMMA EmitStill == ASSUME NEW c, IsTCB(c), NEW s \in Segment PROVE Still(c, Emit(c, s))
<1>1. IsTCB(Emit(c, s))
  BY EmitOK, KeepsType
<1> QED  BY <1>1 DEF Emit, Still, Alike, IsTCB, TCBFields

LEMMA IndicateStill ==
    ASSUME NEW c, IsTCB(c), NEW i \in Indications PROVE Still(c, Indicate(c, i))
<1>1. IsTCB(Indicate(c, i))
  BY IndicateOK, KeepsType
<1> QED  BY <1>1 DEF Indicate, Still, Alike, IsTCB, TCBFields

LEMMA EventStill ==
    ASSUME NEW c, IsTCB(c), NEW e \in Events
    PROVE  Still(c, Event(c, e)) /\ Event(c, e).event = e
<1>1. IsTCB(Event(c, e))
  BY EventFacts
<1> QED  BY <1>1 DEF Event, Still, Alike, IsTCB, TCBFields

LEMMA RequireStill ==
    ASSUME NEW c, IsTCB(c), NEW b \in BOOLEAN PROVE Still(c, Require(c, b))
<1>1. IsTCB(Require(c, b))
  BY RequireOK, KeepsType
<1> QED  BY <1>1 DEF Require, Still, Alike, IsTCB, TCBFields

LEMMA CancelEventsStill ==
    ASSUME NEW c, IsTCB(c), NEW ts PROVE Still(c, CancelEvents(c, ts))
BY ZenonT(60) DEF CancelEvents, Still, Alike, IsTCB, TCBFields

LEMMA ScheduleTimeoutStill ==
    ASSUME NEW c, IsTCB(c), NEW t \in Timers \ SendTimers
    PROVE  Still(c, ScheduleTimeout(c, t))
BY SMTT(30) DEF ScheduleTimeout, Still, Alike, IsTCB, TCBFields, SendTimers

LEMMA DiscardUpToStill ==
    ASSUME NEW c, IsTCB(c), NEW seq \in Int PROVE Still(c, DiscardUpTo(c, seq))
<1>1. IsTCB(DiscardUpTo(c, seq))
  BY DiscardUpToOK, KeepsType
<1> QED  BY <1>1 DEF DiscardUpTo, Still, Alike, IsTCB, TCBFields

LEMMA UpdateRcvWndStill == ASSUME NEW c, IsTCB(c) PROVE Still(c, UpdateRcvWnd(c))
<1>1. IsTCB(UpdateRcvWnd(c))
  BY UpdateRcvWndOK, KeepsType
<1> QED  BY <1>1 DEF UpdateRcvWnd, Still, Alike, IsTCB, TCBFields

LEMMA AckSentStill == ASSUME NEW c, IsTCB(c) PROVE Still(c, AckSent(c))
<1>1. IsTCB(AckSent(c))
  BY AckSentOK, KeepsType
<1> QED  BY <1>1 DEF AckSent, Still, Alike, IsTCB, TCBFields

LEMMA StartRexmitTimerAlike == ASSUME NEW c, IsTCB(c) PROVE Alike(c, StartRexmitTimer(c))
<1>1. IsTCB(StartRexmitTimer(c))
  BY StartRexmitTimerOK, KeepsType
<1> QED  BY ZenonT(60), <1>1
         DEF StartRexmitTimer, ScheduleTimeout, Alike, IsTCB, TCBFields

LEMMA RestartRexmitTimerAlike ==
    ASSUME NEW c, IsTCB(c) PROVE Alike(c, RestartRexmitTimer(c))
<1>1. Alike(c, CancelEvents(c, {"REXMIT"})) /\ IsTCB(CancelEvents(c, {"REXMIT"}))
  BY CancelEventsStill, AlikeType
<1> QED  BY <1>1, StartRexmitTimerAlike, AlikeTrans DEF RestartRexmitTimer

LEMMA DataSentAlike == ASSUME NEW c, IsTCB(c) PROVE Alike(c, DataSent(c))
BY StartRexmitTimerAlike, AlikeRefl DEF DataSent

LEMMA SetDupacksStill ==
    ASSUME NEW c, IsTCB(c), NEW n \in Int PROVE Still(c, [c EXCEPT !.dupacks = n])
BY ZenonT(60) DEF Still, Alike, IsTCB, TCBFields

LEMMA UpdateWndInfoStill ==
    ASSUME NEW c, IsTCB(c), NEW s \in Segment PROVE Still(c, UpdateWndInfo(c, s))
<1>1. s.wnd \in Int /\ s.seq \in Int /\ s.ack \in Int
  BY DEF Segment
<1>2. Still(c, [c EXCEPT !.snd_wnd = s.wnd, !.snd_wl1 = s.seq, !.snd_wl2 = s.ack])
  BY ZenonT(60), <1>1 DEF Still, Alike, IsTCB, TCBFields
<1> QED  BY <1>2, AlikeRefl DEF UpdateWndInfo

LEMMA InitWndInfoStill ==
    ASSUME NEW c, IsTCB(c), NEW s \in Segment PROVE Still(c, InitWndInfo(c, s))
<1>1. s.wnd \in Int /\ s.seq \in Int /\ s.ack \in Int
  BY DEF Segment
<1> QED  BY ZenonT(60), <1>1 DEF InitWndInfo, Still, Alike, IsTCB, TCBFields

-----------------------------------------------------------------------------

(* Handlers' parts that leave the send variables alone.                    *)

LEMMA SendRstStill ==
    ASSUME NEW c, IsTCB(c), NEW seq \in Int PROVE Still(c, SendRst(c, seq))
<1>1. Seg({"RST"}, seq, 0, 0, 0) \in Segment
  BY SegType DEF Flags
<1> QED  BY <1>1, EmitStill DEF SendRst

LEMMA SendAckStill == ASSUME NEW c, IsTCB(c) PROVE Still(c, SendAck(c))
<1> DEFINE d == UpdateRcvWnd(c)
           s == Seg({"ACK"}, c.snd_nxt, c.rcv_nxt, 0, d.rcv_wnd)
<1>1. Still(c, d) /\ IsTCB(d)
  BY UpdateRcvWndStill, AlikeType
<1> HIDE DEF d
<1>2. s \in Segment
  <2>1. c.snd_nxt \in Int /\ c.rcv_nxt \in Int /\ d.rcv_wnd \in Int
    BY <1>1 DEF IsTCB
  <2> QED  BY <2>1, SegType DEF Flags
<1>3. Still(d, Emit(d, s)) /\ IsTCB(Emit(d, s))
  BY <1>1, <1>2, EmitStill, AlikeType
<1>4. Still(Emit(d, s), AckSent(Emit(d, s)))
  BY <1>3, AckSentStill
<1> QED  BY <1>1, <1>3, <1>4, AlikeTrans DEF SendAck, d

LEMMA ReceiveSeqChangedStill ==
    ASSUME NEW c, IsTCB(c) PROVE Still(c, ReceiveSeqChanged(c))
<1>1. Still(c, [c EXCEPT !.timers = @ \cup {"DELAYED_ACK"}])
  BY ZenonT(60) DEF Still, Alike, IsTCB, TCBFields, SendTimers, Timers
<1> QED  BY <1>1, SendAckStill, AlikeRefl DEF ReceiveSeqChanged

LEMMA InsertStill ==
    ASSUME NEW c, IsTCB(c), NEW s \in Segment PROVE Still(c, Insert(c, s))
<1> DEFINE q    == c.rcvq \cup (s.seq .. s.seq + s.len - 1)
           next == FirstMissing(q, c.rq_nxt)
           d    == [c EXCEPT !.rcvq = q, !.rq_nxt = next, !.rcv_nxt = next]
<1>1. IsTCB(Insert(c, s))
  BY InsertOK, KeepsType
<1>2. Insert(c, s) = d
  BY DEF Insert
<1> HIDE DEF q, next
<1> QED  BY ZenonT(60), <1>1, <1>2 DEF Still, Alike, IsTCB, TCBFields

LEMMA DeliverStill ==
    ASSUME NEW c, IsTCB(c) PROVE Still(c, Deliver(c))
<1> DEFINE read == {b \in c.rcvq : b < c.rq_nxt}
           r    == c.rcvq \ read
           n    == c.delivered + Cardinality(read)
           d    == [c EXCEPT !.rcvq = r, !.delivered = n]
<1>1. IsTCB(Deliver(c))
  BY DeliverOK, KeepsType
<1>2. Deliver(c) = d
  BY DEF Deliver
<1> HIDE DEF n, r
<1> QED  BY ZenonT(60), <1>1, <1>2 DEF Still, Alike, IsTCB, TCBFields

LEMMA PassFinStill ==
    ASSUME NEW c, IsTCB(c), NEW n \in Int
    PROVE  Still(c, [c EXCEPT !.ack_now = TRUE, !.rcv_nxt = n])
BY ZenonT(60) DEF Still, Alike, IsTCB, TCBFields

LEMMA Schedule2MSLStill ==
    ASSUME NEW c, IsTCB(c)
    PROVE  /\ Still(c, ScheduleTimeout(c, "2MSL"))
           /\ Still(c, ScheduleTimeout(CancelEvents(c, {"2MSL"}), "2MSL"))
<1>1. "2MSL" \in Timers \ SendTimers
  BY DEF Timers, SendTimers
<1>2. Still(c, CancelEvents(c, {"2MSL"})) /\ IsTCB(CancelEvents(c, {"2MSL"}))
  BY CancelEventsStill, AlikeType
<1> QED  BY <1>1, <1>2, ScheduleTimeoutStill, AlikeTrans

LEMMA ProcessFinAckedStill ==
    ASSUME NEW c, IsTCB(c)
    PROVE  Still(c, ProcessFinAcked(c)) /\ (c.st = "SYN_RCVD" => ProcessFinAcked(c) = c)
<1> DEFINE d == ScheduleTimeout(c, "2MSL")
           a == SendAck(c)
           b == ScheduleTimeout(CancelEvents(a, {"2MSL"}), "2MSL")
<1>1. Still(c, d) /\ IsTCB(d)
  BY Schedule2MSLStill, AlikeType
<1>2. Still(c, b)
  BY SendAckStill, Schedule2MSLStill, AlikeType, AlikeTrans
<1>3. "RCV_ACK" \in Events
  BY DEF Events
<1>4. Still(c, Event(c, "RCV_ACK")) /\ Still(c, Event(d, "RCV_ACK"))
  BY <1>1, <1>3, EventStill, AlikeTrans
<1>5. ProcessFinAcked(c) \in {Event(c, "RCV_ACK"), Event(d, "RCV_ACK"), b, c}
  BY DEF ProcessFinAcked
<1>6. c.st = "SYN_RCVD" => ProcessFinAcked(c) = c
  BY DEF ProcessFinAcked
<1> QED  BY <1>2, <1>4, <1>5, <1>6, AlikeRefl

LEMMA FinReachedStill ==
    ASSUME NEW c, IsTCB(c)
    PROVE  Still(c, FinReached(c)) /\ (c.st = "SYN_RCVD" => FinReached(c).event = "RCV_FIN")
<1> DEFINE d == ScheduleTimeout(c, "2MSL")
           b == ScheduleTimeout(CancelEvents(c, {"2MSL"}), "2MSL")
<1>1. Still(c, d) /\ IsTCB(d) /\ Still(c, b) /\ IsTCB(b)
  BY Schedule2MSLStill, AlikeType
<1> HIDE DEF d, b
<1>2. "RCV_FIN" \in Events /\ "RCV_FIN_ACK" \in Events
  BY DEF Events
<1>3. /\ Still(c, Event(c, "RCV_FIN")) /\ Still(c, Event(d, "RCV_FIN"))
      /\ Still(c, Event(d, "RCV_FIN_ACK")) /\ Still(c, Event(b, "RCV_FIN"))
  BY <1>1, <1>2, EventStill, AlikeTrans
<1>4. FinReached(c) \in {Event(c, "RCV_FIN"), Event(d, "RCV_FIN"),
                         Event(d, "RCV_FIN_ACK"), Event(b, "RCV_FIN")}
  BY DEF FinReached, d, b
<1>5. c.st = "SYN_RCVD" => FinReached(c) = Event(c, "RCV_FIN")
  BY DEF FinReached
<1>6. Event(c, "RCV_FIN").event = "RCV_FIN"
  BY <1>2, EventStill
<1> QED  BY <1>3, <1>4, <1>5, <1>6

\* What a segment in SYN_RCVD makes the FSM do when the handshake is complete.
HandshakeEnds == {"RCV_ACK", "RCV_FIN", "CLOSE"}

LEMMA ProcessFinStill ==
    ASSUME NEW c, IsTCB(c), NEW s \in Segment
    PROVE  /\ Still(c, ProcessFin(c, s))
           /\ c.st = "SYN_RCVD" /\ c.event \in HandshakeEnds
                => ProcessFin(c, s).event \in HandshakeEnds
<1> DEFINE finSeq == s.seq + s.len
           d == [c EXCEPT !.ack_now = TRUE]
           n == c.rcv_nxt + 1
           f == [c EXCEPT !.ack_now = TRUE, !.rcv_nxt = n]
           g == [d EXCEPT !.fin_rcvd = TRUE, !.rcv_fin_seq = finSeq]
<1>2. n \in Int /\ finSeq \in Int
  BY NumberTypes DEF Segment
<1> HIDE DEF n, finSeq
<1>3. Still(c, f) /\ Still(c, g) /\ g.event = c.event /\ IsTCB(f) /\ f.st = c.st
  BY SMTT(30), <1>2 DEF Still, Alike, IsTCB, TCBFields
<1>4. [d EXCEPT !.rcv_nxt = @ + 1] = f
  BY DEF IsTCB, TCBFields, n
<1>5. Still(c, FinReached(f)) /\ (c.st = "SYN_RCVD" => FinReached(f).event = "RCV_FIN")
  BY <1>3, FinReachedStill, AlikeTrans
<1>6. ProcessFin(c, s) = c \/ ProcessFin(c, s) = FinReached(f) \/ ProcessFin(c, s) = g
  BY <1>4 DEF ProcessFin, finSeq
<1> QED  BY <1>3, <1>5, <1>6, AlikeRefl DEF HandshakeEnds

LEMMA ProcessDeferredCloseStill ==
    ASSUME NEW c, IsTCB(c), NEW nxt
    PROVE  /\ Still(c, ProcessDeferredClose(c, nxt))
           /\ c.event \in HandshakeEnds
                => ProcessDeferredClose(c, nxt).event \in HandshakeEnds
<1>1. ProcessDeferredClose(c, nxt) \in {c, Event(c, "CLOSE")}
  BY DEF ProcessDeferredClose
<1>2. "CLOSE" \in Events
  BY DEF Events
<1> QED  BY <1>1, <1>2, EventStill, AlikeRefl DEF HandshakeEnds

-----------------------------------------------------------------------------
(* Handlers' parts that send.                                              *)

\* d is c after a SYN was sent: it is what is outstanding.
SynOut(c, d) ==
    /\ IsTCB(d)
    /\ d.st = c.st /\ d.active = c.active /\ d.iss = c.iss /\ d.snd_una = c.snd_una
    /\ d.qEnd = c.qEnd /\ d.send_fin = c.send_fin /\ d.snd_fin_seq = c.snd_fin_seq
    /\ d.appClosed = c.appClosed
    /\ d.snd_nxt = c.iss + 1 /\ d.snd_max = c.iss + 1
    /\ d.timers \cap SendTimers \subseteq c.timers

LEMMA SynOutStill ==
    ASSUME NEW c, NEW d, NEW e, SynOut(c, d), Still(d, e) PROVE SynOut(c, e)
BY DEF SynOut, Still, Alike

LEMMA StillSynOut ==
    ASSUME NEW c, NEW d, NEW e, Still(c, d), SynOut(d, e) PROVE SynOut(c, e)
BY DEF SynOut, Still, Alike

LEMMA SynSentSynOut ==
    ASSUME NEW c, IsTCB(c)
    PROVE  SynOut(c, UpdateRcvWnd([c EXCEPT !.snd_nxt = c.iss + 1, !.snd_max = c.iss + 1]))
<1> DEFINE i == c.iss + 1
           b == [c EXCEPT !.snd_nxt = i, !.snd_max = i]
<1>1. i \in Int
  BY NumberTypes
<1> HIDE DEF i
<1>2. /\ IsTCB(b) /\ b.st = c.st /\ b.active = c.active /\ b.iss = c.iss
      /\ b.snd_una = c.snd_una /\ b.qEnd = c.qEnd /\ b.send_fin = c.send_fin
      /\ b.snd_fin_seq = c.snd_fin_seq /\ b.appClosed = c.appClosed
      /\ b.snd_nxt = i /\ b.snd_max = i /\ b.timers = c.timers
  BY SMTT(30), <1>1 DEF IsTCB, TCBFields
<1> HIDE DEF b
<1>3. SynOut(c, b)
  BY <1>2 DEF SynOut, i
<1>4. SynOut(c, UpdateRcvWnd(b))
  BY <1>2, <1>3, UpdateRcvWndStill, SynOutStill
<1> QED  BY <1>4 DEF b, i

LEMMA SendSynOut == ASSUME NEW c, IsTCB(c) PROVE SynOut(c, SendSyn(c))
<1> DEFINE d == UpdateRcvWnd([c EXCEPT !.snd_nxt = c.iss + 1, !.snd_max = c.iss + 1])
           s == Seg({"SYN"}, c.iss, 0, 0, d.rcv_wnd)
<1>1. SynOut(c, d) /\ IsTCB(d)
  BY SynSentSynOut DEF SynOut
<1> HIDE DEF d
<1>2. s \in Segment
  <2>1. c.iss \in Int /\ d.rcv_wnd \in Int
    BY <1>1 DEF IsTCB
  <2> QED  BY <2>1, SegType DEF Flags
<1> HIDE DEF s
<1>3. SynOut(c, Emit(d, s))
  BY <1>1, <1>2, EmitStill, SynOutStill
<1> QED  BY <1>3 DEF SendSyn, d, s

LEMMA SendSynAckOut == ASSUME NEW c, IsTCB(c) PROVE SynOut(c, SendSynAck(c))
<1> DEFINE d == UpdateRcvWnd([c EXCEPT !.snd_nxt = c.iss + 1, !.snd_max = c.iss + 1])
           s == Seg({"SYN", "ACK"}, c.iss, c.rcv_nxt, 0, d.rcv_wnd)
<1>1. SynOut(c, d) /\ IsTCB(d)
  BY SynSentSynOut DEF SynOut
<1> HIDE DEF d
<1>2. s \in Segment
  <2>1. c.iss \in Int /\ c.rcv_nxt \in Int /\ d.rcv_wnd \in Int
    BY <1>1 DEF IsTCB
  <2> QED  BY <2>1, SegType DEF Flags
<1> HIDE DEF s
<1>3. Still(d, Emit(d, s)) /\ IsTCB(Emit(d, s))
  BY <1>1, <1>2, EmitStill, AlikeType
<1>4. Still(d, AckSent(Emit(d, s)))
  BY <1>3, AckSentStill, AlikeTrans
<1>5. SynOut(c, AckSent(Emit(d, s)))
  BY <1>1, <1>4, SynOutStill
<1> QED  BY <1>5 DEF SendSynAck, d, s

\* A new initial sequence number starts the queue behind the SYN.
LEMMA SelectInitialSeqNumSends ==
    ASSUME NEW c, IsTCB(c)
    PROVE  LET d == SelectInitialSeqNum(c)
           IN  /\ IsTCB(d) /\ d.st = c.st /\ d.active = c.active
               /\ d.send_fin = c.send_fin /\ d.timers = c.timers
               /\ d.iss \in Int /\ d.snd_una = d.iss /\ d.qEnd = d.iss + 1
<1> DEFINE i == c.iss + IssStep
           j == i + 1
           d == [c EXCEPT !.iss = i, !.snd_una = i, !.snd_nxt = i, !.snd_max = i,
                          !.qBegin = j, !.qEnd = j]
<1>1. i \in Int /\ j \in Int
  BY NumberTypes, ConstantTypes
<1>2. SelectInitialSeqNum(c) = d /\ IsTCB(SelectInitialSeqNum(c))
  BY SelectInitialSeqNumOK, KeepsType DEF SelectInitialSeqNum
<1> HIDE DEF i, j
<1>3. /\ IsTCB(d) /\ d.st = c.st /\ d.active = c.active
      /\ d.send_fin = c.send_fin /\ d.timers = c.timers
      /\ d.iss = i /\ d.snd_una = i /\ d.qEnd = j
  BY <1>1, <1>2 DEF IsTCB, TCBFields
<1> HIDE DEF d
<1> QED  BY <1>1, <1>2, <1>3 DEF j

\* The send variables once the SYN is out.
LEMMA SynOutOrdered ==
    ASSUME NEW c, IsTCB(c), c.snd_una = c.iss, c.iss < c.qEnd, ~c.send_fin,
           NEW d, SynOut(c, d)
    PROVE  SynOrdered(d)
BY NumberTypes DEF SynOut, SynOrdered, SendOrdered

\* A retransmission of the SYN.
LEMMA SynAgainOrdered ==
    ASSUME NEW c, NEW d, SynOut(c, d), SynOrdered(c) PROVE Still(c, d)
BY DEF SynOut, SynOrdered, Still, Alike

LEMMA SendFinSends ==
    ASSUME NEW c, IsTCB(c), NEW seq \in Int
    PROVE  LET d == SendFin(c, seq)
           IN  /\ IsTCB(d) /\ d.st = c.st /\ d.active = c.active /\ d.iss = c.iss
               /\ d.snd_una = c.snd_una /\ d.qEnd = c.qEnd
               /\ d.send_fin = c.send_fin /\ d.snd_fin_seq = c.snd_fin_seq
               /\ d.appClosed = c.appClosed
               /\ d.snd_nxt = seq + 1 /\ d.snd_max = seq + 1
<1> DEFINE d == UpdateRcvWnd(c)
           s == Seg({"FIN", "ACK"}, seq, c.rcv_nxt, 0, d.rcv_wnd)
           f == AckSent(Emit(d, s))
           n == seq + 1
           g == [f EXCEPT !.snd_nxt = n, !.snd_max = n]
<1>1. Still(c, d) /\ IsTCB(d)
  BY UpdateRcvWndStill, AlikeType
<1>0. SendFin(c, seq) = g
  BY DEF SendFin
<1>6. IsTCB(SendFin(c, seq)) /\ n \in Int
  BY SendFinOK, KeepsType
<1> HIDE DEF d, n
<1>2. s \in Segment
  <2>1. c.rcv_nxt \in Int /\ d.rcv_wnd \in Int
    BY <1>1 DEF IsTCB
  <2> QED  BY <2>1, SegType DEF Flags
<1> HIDE DEF s
<1>3. Still(d, Emit(d, s)) /\ IsTCB(Emit(d, s))
  BY <1>1, <1>2, EmitStill, AlikeType
<1>4. Still(c, f) /\ IsTCB(f)
  BY <1>1, <1>3, AckSentStill, AlikeTrans, AlikeType
<1> HIDE DEF f
<1>5. /\ g.st = f.st /\ g.active = f.active /\ g.iss = f.iss
      /\ g.snd_una = f.snd_una /\ g.qEnd = f.qEnd
      /\ g.send_fin = f.send_fin /\ g.snd_fin_seq = f.snd_fin_seq
      /\ g.appClosed = f.appClosed /\ g.snd_nxt = n /\ g.snd_max = n
  BY <1>4 DEF IsTCB, TCBFields
<1> HIDE DEF g
<1> QED  BY <1>0, <1>4, <1>5, <1>6 DEF Still, Alike, n

\* The FIN behind the last byte of the queue.
LEMMA SendFinOrdered ==
    ASSUME NEW c, IsTCB(c), c.iss <= c.snd_una, c.snd_una <= c.qEnd + 1,
           c.send_fin, c.snd_fin_seq = c.qEnd, c.appClosed
    PROVE  SendOrdered(SendFin(c, c.qEnd))
<1> DEFINE d == SendFin(c, c.qEnd)
<1>1. c.qEnd \in Int
  BY NumberTypes
<1>2. /\ d.iss = c.iss /\ d.snd_una = c.snd_una /\ d.qEnd = c.qEnd
      /\ d.send_fin = c.send_fin /\ d.snd_fin_seq = c.snd_fin_seq
      /\ d.appClosed = c.appClosed
      /\ d.snd_nxt = c.qEnd + 1 /\ d.snd_max = c.qEnd + 1
  BY ZenonT(60), <1>1, SendFinSends
<1> HIDE DEF d
<1>3. SendOrdered(d)
  BY <1>1, <1>2, NumberTypes DEF SendOrdered
<1> QED  BY <1>3 DEF d

\* sendSegment() moves snd_nxt over the bytes it sends and, behind the last,
\* over the FIN.
LEMMA SendBytesSends ==
    ASSUME NEW c, IsTCB(c), NEW n \in Int
    PROVE  LET d == SendBytes(c, n)
           IN  /\ IsTCB(d) /\ d.st = c.st /\ d.active = c.active /\ d.iss = c.iss
               /\ d.snd_una = c.snd_una /\ d.qEnd = c.qEnd /\ d.snd_max = c.snd_max
               /\ d.send_fin = c.send_fin /\ d.snd_fin_seq = c.snd_fin_seq
               /\ d.appClosed = c.appClosed
               /\ d.snd_nxt = IF c.send_fin /\ c.snd_nxt + n = c.snd_fin_seq
                              THEN c.snd_nxt + n + 1 ELSE c.snd_nxt + n
<1> DEFINE u    == UpdateRcvWnd(c)
           next == c.snd_nxt + n
           fin  == c.send_fin /\ next = c.snd_fin_seq
           nxt  == IF fin THEN next + 1 ELSE next
           ok   == c.qBegin <= c.snd_nxt /\ next <= c.qEnd
           late == next < c.snd_max
           ds   == DataSegments(u, n, fin)
           d    == [u EXCEPT !.snd_nxt = nxt, !.afterRto = @ /\ late,
                             !.out = @ \cup ds, !.fault = @ \/ ~ok]
<1>1. Still(c, u) /\ IsTCB(u)
  BY UpdateRcvWndStill, AlikeType
<1>2. SendBytes(c, n) = d /\ IsTCB(SendBytes(c, n))
  BY SendBytesOK, KeepsType DEF SendBytes
<1> HIDE DEF u, ds, ok, late, nxt
<1>3. /\ d.st = u.st /\ d.active = u.active /\ d.iss = u.iss
      /\ d.snd_una = u.snd_una /\ d.qEnd = u.qEnd /\ d.snd_max = u.snd_max
      /\ d.send_fin = u.send_fin /\ d.snd_fin_seq = u.snd_fin_seq
      /\ d.appClosed = u.appClosed /\ d.snd_nxt = nxt
  BY <1>1 DEF IsTCB, TCBFields
<1> HIDE DEF d
<1> QED  BY <1>1, <1>2, <1>3 DEF Still, Alike, nxt

LEMMA RaiseSndMaxSends ==
    ASSUME NEW c, IsTCB(c)
    PROVE  LET d == RaiseSndMax(c)
           IN  /\ IsTCB(d) /\ d.st = c.st /\ d.active = c.active /\ d.iss = c.iss
               /\ d.snd_una = c.snd_una /\ d.qEnd = c.qEnd /\ d.snd_nxt = c.snd_nxt
               /\ d.send_fin = c.send_fin /\ d.snd_fin_seq = c.snd_fin_seq
               /\ d.appClosed = c.appClosed
               /\ d.snd_max = MaxOf(c.snd_max, c.snd_nxt)
<1>1. IsTCB(RaiseSndMax(c))
  BY RaiseSndMaxOK, KeepsType
<1> DEFINE m == MaxOf(c.snd_max, c.snd_nxt)
<1> HIDE DEF m
<1>2. RaiseSndMax(c) = [c EXCEPT !.snd_max = m]
  BY DEF RaiseSndMax, m
<1> QED  BY ZenonT(60), <1>1, <1>2 DEF IsTCB, TCBFields, m

\* Sending n bytes of the queue, and the FIN if they are the last.
LEMMA SentOrdered ==
    ASSUME NEW c, IsTCB(c), SendOrdered(c),
           NEW n \in Int, 0 < n, c.snd_nxt + n <= c.qEnd
    PROVE  SendOrdered(DataSent(AckSent(RaiseSndMax(SendBytes(c, n)))))
<1> DEFINE d == SendBytes(c, n)
           e == RaiseSndMax(d)
           f == AckSent(e)
<1>1. /\ IsTCB(d) /\ d.iss = c.iss
      /\ d.snd_una = c.snd_una /\ d.qEnd = c.qEnd /\ d.snd_max = c.snd_max
      /\ d.send_fin = c.send_fin /\ d.snd_fin_seq = c.snd_fin_seq
      /\ d.appClosed = c.appClosed
      /\ d.snd_nxt = IF c.send_fin /\ c.snd_nxt + n = c.snd_fin_seq
                     THEN c.snd_nxt + n + 1 ELSE c.snd_nxt + n
  BY SendBytesSends
<1> HIDE DEF d
<1>2. /\ IsTCB(e) /\ e.iss = d.iss
      /\ e.snd_una = d.snd_una /\ e.qEnd = d.qEnd /\ e.snd_nxt = d.snd_nxt
      /\ e.send_fin = d.send_fin /\ e.snd_fin_seq = d.snd_fin_seq
      /\ e.appClosed = d.appClosed
      /\ e.snd_max = MaxOf(d.snd_max, d.snd_nxt)
  BY <1>1, RaiseSndMaxSends
<1> HIDE DEF e
<1>3. /\ c.iss \in Int /\ c.snd_una \in Int /\ c.snd_nxt \in Int /\ c.snd_max \in Int
      /\ c.qEnd \in Int /\ c.snd_fin_seq \in Int
  BY NumberTypes
<1>4. SendOrdered(e)
  <2>1. CASE c.send_fin /\ c.snd_nxt + n = c.snd_fin_seq
    <3>1. e.snd_nxt = c.qEnd + 1 /\ e.snd_max = c.qEnd + 1
      BY <1>1, <1>2, <1>3, <2>1 DEF SendOrdered, MaxOf
    <3> QED  BY <1>1, <1>2, <1>3, <2>1, <3>1 DEF SendOrdered
  <2>2. CASE ~(c.send_fin /\ c.snd_nxt + n = c.snd_fin_seq)
    <3>1. e.snd_nxt = c.snd_nxt + n /\ e.snd_max = MaxOf(c.snd_max, c.snd_nxt + n)
      BY <1>1, <1>2, <2>2
    <3> QED  BY <1>1, <1>2, <1>3, <2>2, <3>1 DEF SendOrdered, MaxOf
  <2> QED  BY <2>1, <2>2
<1>5. Alike(e, f) /\ IsTCB(f)
  BY <1>2, AckSentStill, AlikeType
<1> HIDE DEF f
<1>6. Alike(e, DataSent(f))
  BY <1>5, DataSentAlike, AlikeTrans
<1> QED  BY <1>4, <1>6, AlikeOrdered DEF d, e, f

LEMMA BytesToSendBound ==
    ASSUME NEW c, IsTCB(c), NEW full \in BOOLEAN, NEW w \in Int,
           BytesToSend(c, full, w) # 0
    PROVE  LET n == BytesToSend(c, full, w)
           IN  n \in Int /\ 0 < n /\ c.snd_nxt + n <= c.qEnd
<1> DEFINE a == BytesAvailable(c, c.snd_nxt)
           e == MinOf(c.snd_wnd, w) - (c.snd_nxt - c.snd_una)
           b == MinOf(e, a)
<1>1. /\ c.snd_wnd \in Int /\ c.snd_nxt \in Int /\ c.snd_una \in Int /\ c.qEnd \in Int
      /\ MSS \in Int /\ MSS > 0
  BY NumberTypes, ConstantTypes
<1>2. a \in Int
  BY <1>1, BytesAvailableType
<1>3. a > 0 => c.snd_nxt + a = c.qEnd
  BY <1>1 DEF BytesAvailable
<1>4. e \in Int
  <2>1. MinOf(c.snd_wnd, w) \in Int
    BY <1>1, MinMaxType
  <2> QED  BY <1>1, <2>1
<1> HIDE DEF a, e
<1>5. b \in Int /\ b <= a
  BY <1>2, <1>4 DEF MinOf
<1>6. BytesToSend(c, full, w) = IF b <= 0 \/ (full /\ b < MSS) THEN 0
                                ELSE IF b <= MSS \/ b = a THEN b ELSE b - (b % MSS)
  BY DEF BytesToSend, a, e
<1> HIDE DEF b
<1> DEFINE r == b % MSS
<1>7. r \in 0 .. MSS - 1
  BY <1>1, <1>5
<1> HIDE DEF r
<1>8. b > 0 /\ (BytesToSend(c, full, w) = b \/ (b > MSS /\ BytesToSend(c, full, w) = b - r))
  BY <1>1, <1>2, <1>5, <1>6 DEF r
<1>9. 0 < BytesToSend(c, full, w) /\ BytesToSend(c, full, w) <= a
  BY <1>1, <1>2, <1>5, <1>7, <1>8
<1>10. BytesToSend(c, full, w) \in Int
  BY BytesToSendType
<1> HIDE DEF a
<1> QED  BY <1>1, <1>2, <1>3, <1>9, <1>10

\* Where sendData() and sendProbe() begin.
LEMMA FromSndMax ==
    ASSUME NEW c, IsTCB(c), SendOrdered(c)
    PROVE  IsTCB([c EXCEPT !.snd_nxt = c.snd_max])
           /\ SendOrdered([c EXCEPT !.snd_nxt = c.snd_max])
<1> DEFINE m == c.snd_max
           d == [c EXCEPT !.snd_nxt = m]
<1>1. m \in Int /\ c.snd_una \in Int /\ c.snd_nxt \in Int
  BY NumberTypes
<1> HIDE DEF m
<1>2. /\ IsTCB(d) /\ d.iss = c.iss /\ d.snd_una = c.snd_una /\ d.snd_nxt = m
      /\ d.snd_max = c.snd_max /\ d.qEnd = c.qEnd /\ d.send_fin = c.send_fin
      /\ d.snd_fin_seq = c.snd_fin_seq /\ d.appClosed = c.appClosed
  BY ZenonT(60), <1>1 DEF IsTCB, TCBFields
<1> HIDE DEF d
<1>3. SendOrdered(d)
  BY <1>1, <1>2 DEF SendOrdered, m
<1> QED  BY <1>2, <1>3 DEF d, m

LEMMA SendDataOrdered ==
    ASSUME NEW c, IsTCB(c), SendOrdered(c), NEW full \in BOOLEAN, NEW w \in Int
    PROVE  SendOrdered(SendData(c, full, w))
<1> DEFINE d == IF c.afterRto THEN c ELSE [c EXCEPT !.snd_nxt = c.snd_max]
           n == BytesToSend(d, full, w)
<1>1. IsTCB(d) /\ SendOrdered(d)
  BY FromSndMax
<1> HIDE DEF d
<1>2. n # 0 => n \in Int /\ 0 < n /\ d.snd_nxt + n <= d.qEnd
  BY <1>1, BytesToSendBound
<1> HIDE DEF n
<1>3. n # 0 => SendOrdered(DataSent(AckSent(RaiseSndMax(SendBytes(d, n)))))
  BY <1>1, <1>2, SentOrdered
<1> QED  BY <1>1, <1>3 DEF SendData, d, n

LEMMA SendProbeOrdered ==
    ASSUME NEW c, IsTCB(c), SendOrdered(c) PROVE SendOrdered(SendProbe(c))
<1> DEFINE d == [c EXCEPT !.snd_nxt = c.snd_max]
<1>1. IsTCB(d) /\ SendOrdered(d)
  BY FromSndMax
<1> HIDE DEF d
<1>2. d.snd_nxt \in Int /\ d.qEnd \in Int
  BY <1>1, NumberTypes
<1>3. CASE BytesAvailable(d, d.snd_nxt) = 0
  BY <1>1, <1>3 DEF SendProbe, d
<1>4. CASE BytesAvailable(d, d.snd_nxt) # 0
  <2>1. d.snd_nxt + 1 <= d.qEnd
    BY <1>2, <1>4 DEF BytesAvailable
  <2>2. SendOrdered(DataSent(AckSent(RaiseSndMax(SendBytes(d, 1)))))
    BY <1>1, <2>1, SentOrdered
  <2> QED  BY <1>4, <2>2 DEF SendProbe, d
<1> QED  BY <1>3, <1>4

LEMMA MoveSndNxtSends ==
    ASSUME NEW c, IsTCB(c), NEW n \in Int
    PROVE  LET d == [c EXCEPT !.snd_nxt = n]
           IN  /\ IsTCB(d) /\ d.iss = c.iss /\ d.snd_una = c.snd_una /\ d.snd_nxt = n
               /\ d.snd_max = c.snd_max /\ d.qEnd = c.qEnd /\ d.send_fin = c.send_fin
               /\ d.snd_fin_seq = c.snd_fin_seq /\ d.appClosed = c.appClosed
BY ZenonT(60) DEF IsTCB, TCBFields

LEMMA RetransmitOneSegmentOrdered ==
    ASSUME NEW c, IsTCB(c), SendOrdered(c), NEW atRto \in BOOLEAN
    PROVE  SendOrdered(RetransmitOneSegment(c, atRto))
<1> DEFINE n == MinOf(MinOf(MSS, c.snd_max - c.snd_una), BytesAvailable(c, c.snd_una))
           b == [c EXCEPT !.snd_nxt = c.snd_una]
           d == SendBytes(b, n)
           r == Require(d, n # 0)
           m == IF atRto THEN r.snd_nxt ELSE MaxOf(r.snd_nxt, c.snd_nxt)
           a == [r EXCEPT !.snd_nxt = m]
<1>1. /\ c.iss \in Int /\ c.snd_una \in Int /\ c.snd_nxt \in Int /\ c.snd_max \in Int
      /\ c.qEnd \in Int /\ c.snd_fin_seq \in Int /\ MSS \in Int /\ MSS > 0
  BY NumberTypes, ConstantTypes
<1>2. /\ n \in Int /\ 0 <= n /\ c.snd_una + n <= c.snd_max
      /\ n > 0 => c.snd_una + n <= c.qEnd
      /\ n = 0 => c.snd_una = c.snd_max \/ c.qEnd <= c.snd_una
  <2>1. /\ BytesAvailable(c, c.snd_una) \in Int /\ BytesAvailable(c, c.snd_una) >= 0
        /\ BytesAvailable(c, c.snd_una) > 0
             => c.snd_una + BytesAvailable(c, c.snd_una) = c.qEnd
        /\ BytesAvailable(c, c.snd_una) = 0 => c.qEnd <= c.snd_una
    BY <1>1 DEF BytesAvailable
  <2>2. c.snd_max - c.snd_una >= 0
    BY <1>1 DEF SendOrdered
  <2> QED  BY <1>1, <2>1, <2>2 DEF MinOf
<1>3. RetransmitOneSegment(c, atRto) =
        IF n = 0 /\ c.send_fin /\ c.snd_fin_seq = c.qEnd THEN SendFin(c, c.qEnd)
        ELSE AckSent(a)
  BY DEF RetransmitOneSegment
<1>4. CASE n = 0 /\ c.send_fin /\ c.snd_fin_seq = c.qEnd
  <2>1. c.iss <= c.snd_una /\ c.snd_una <= c.qEnd + 1 /\ c.appClosed
    BY <1>1, <1>4 DEF SendOrdered
  <2> QED  BY <1>3, <1>4, <2>1, SendFinOrdered
<1>5. CASE ~(n = 0 /\ c.send_fin /\ c.snd_fin_seq = c.qEnd)
  <2>0. n = 0 => ~c.send_fin
    BY <1>5 DEF SendOrdered
  <2> HIDE DEF n
  <2>1. /\ IsTCB(b) /\ b.iss = c.iss /\ b.snd_una = c.snd_una /\ b.snd_nxt = c.snd_una
        /\ b.snd_max = c.snd_max /\ b.qEnd = c.qEnd /\ b.send_fin = c.send_fin
        /\ b.snd_fin_seq = c.snd_fin_seq /\ b.appClosed = c.appClosed
    BY <1>1, MoveSndNxtSends
  <2> HIDE DEF b
  <2>2. /\ IsTCB(d) /\ d.iss = b.iss
        /\ d.snd_una = b.snd_una /\ d.qEnd = b.qEnd /\ d.snd_max = b.snd_max
        /\ d.send_fin = b.send_fin /\ d.snd_fin_seq = b.snd_fin_seq
        /\ d.appClosed = b.appClosed
        /\ d.snd_nxt = IF b.send_fin /\ b.snd_nxt + n = b.snd_fin_seq
                       THEN b.snd_nxt + n + 1 ELSE b.snd_nxt + n
    BY <1>2, <2>1, SendBytesSends
  <2> HIDE DEF d
  <2>3. Alike(d, r) /\ IsTCB(r)
    BY <2>2, RequireStill, AlikeType
  <2> HIDE DEF r
  <2>4. m \in Int
    BY <2>3, NumberTypes, MinMaxType
  <2>5. c.snd_una <= r.snd_nxt /\ r.snd_nxt <= c.snd_max
    <3>1. CASE c.send_fin /\ c.snd_una + n = c.snd_fin_seq
      <4>1. r.snd_nxt = c.snd_una + n + 1 /\ c.snd_fin_seq = c.qEnd /\ c.snd_max # c.qEnd
        BY <2>1, <2>2, <2>3, <3>1 DEF Alike, SendOrdered
      <4> QED  BY <1>1, <1>2, <3>1, <4>1
    <3>2. CASE ~(c.send_fin /\ c.snd_una + n = c.snd_fin_seq)
      <4>1. r.snd_nxt = c.snd_una + n
        BY <2>1, <2>2, <2>3, <3>2 DEF Alike
      <4> QED  BY <1>1, <1>2, <4>1
    <3> QED  BY <3>1, <3>2
  <2>6. c.snd_una <= m /\ m <= c.snd_max
    <3>1. r.snd_nxt \in Int /\ c.snd_una <= c.snd_nxt /\ c.snd_nxt <= c.snd_max
      BY <2>3, NumberTypes DEF SendOrdered
    <3> QED  BY <1>1, <2>5, <3>1 DEF MaxOf
  <2> HIDE DEF m
  <2>7. /\ IsTCB(a) /\ a.iss = r.iss /\ a.snd_una = r.snd_una /\ a.snd_nxt = m
        /\ a.snd_max = r.snd_max /\ a.qEnd = r.qEnd /\ a.send_fin = r.send_fin
        /\ a.snd_fin_seq = r.snd_fin_seq /\ a.appClosed = r.appClosed
    BY <2>3, <2>4, MoveSndNxtSends
  <2> HIDE DEF a
  <2>8. SendOrdered(a)
    BY <2>1, <2>2, <2>3, <2>6, <2>7 DEF Alike, SendOrdered
  <2>9. SendOrdered(AckSent(a))
    BY <2>7, <2>8, AckSentStill, AlikeOrdered DEF Still
  <2> QED  BY <1>3, <1>5, <2>9
<1> QED  BY <1>4, <1>5

-----------------------------------------------------------------------------
(* Acknowledgements and text.                                              *)

LEMMA ReceivedDataAckOrdered ==
    ASSUME NEW c, IsTCB(c), SendOrdered(c), NEW w \in Int
    PROVE  SendOrdered(ReceivedDataAck(c, w))
<1> DEFINE d == IF c.snd_una = c.snd_max
                THEN CancelEvents(c, {"REXMIT"}) ELSE RestartRexmitTimer(c)
           x == [d EXCEPT !.timers = @ \cup {"PERSIST"}]
           e == IF PersistTimerNeeded(d) THEN x ELSE CancelEvents(d, {"PERSIST"})
<1>1. Alike(c, d) /\ IsTCB(d)
  BY CancelEventsStill, RestartRexmitTimerAlike, AlikeType
<1> HIDE DEF d
<1>2. Alike(d, x)
  <2>1. IsTCB(x)
    BY <1>1, SchedulePersistOK, KeepsType
  <2> QED  BY ZenonT(60), <1>1, <2>1 DEF Alike, IsTCB, TCBFields
<1>3. Alike(c, e) /\ IsTCB(e)
  BY <1>1, <1>2, CancelEventsStill, AlikeTrans, AlikeType
<1> HIDE DEF e
<1>4. SendOrdered(SendData(e, FALSE, w))
  BY <1>3, AlikeOrdered, SendDataOrdered
<1> QED  BY <1>4 DEF ReceivedDataAck, d, e

LEMMA ReceivedDuplicateAckOrdered ==
    ASSUME NEW c, IsTCB(c), SendOrdered(c) PROVE SendOrdered(ReceivedDuplicateAck(c))
BY RetransmitOneSegmentOrdered DEF ReceivedDuplicateAck

LEMMA EstablishedActiveOrdered ==
    ASSUME NEW c, IsTCB(c), SendOrdered(c), NEW w \in Int
    PROVE  SendOrdered(EstablishedActive(c, w))
<1> DEFINE d == SendData(c, FALSE, w)
<1>1. SendOrdered(d) /\ IsTCB(d)
  BY SendDataOrdered, SendDataOK, KeepsType
<1> HIDE DEF d
<1>2. SendOrdered(SendAck(d))
  BY <1>1, SendAckStill, AlikeType, AlikeOrdered
<1> QED  BY <1>1, <1>2 DEF EstablishedActive, d

LEMMA SendCommandInvokedOrdered ==
    ASSUME NEW c, IsTCB(c), SendOrdered(c), NEW w \in Int
    PROVE  SendOrdered(SendCommandInvoked(c, w))
<1>1. (NagleEnabled /\ c.snd_una # c.snd_max) \in BOOLEAN
  BY ConstantTypes
<1> QED  BY <1>1, SendDataOrdered DEF SendCommandInvoked

LEMMA ProcessOldAckOrdered ==
    ASSUME NEW c, IsTCB(c), NEW s \in Segment
    PROVE  /\ SendOrdered(c) => SendOrdered(ProcessOldAck(c, s))
           /\ s.len > 0 => Still(c, ProcessOldAck(c, s))
<1> DEFINE n == MinOf(c.dupacks + 1, DUPTHRESH + 1)
           d == [c EXCEPT !.dupacks = n]
           u == UpdateWndInfo(d, s)
<1>1. n \in Int
  <2>1. c.dupacks \in Int /\ DUPTHRESH \in Int
    BY ConstantTypes DEF IsTCB
  <2> QED  BY <2>1 DEF MinOf
<1>5. /\ DuplicateAck(c, s) => ProcessOldAck(c, s) = ReceivedDuplicateAck(u)
      /\ ~DuplicateAck(c, s) => ProcessOldAck(c, s) = [c EXCEPT !.dupacks = 0]
      /\ s.len > 0 => ~DuplicateAck(c, s)
  BY DEF ProcessOldAck, DuplicateAck
<1> HIDE DEF n
<1>2. Still(c, d) /\ IsTCB(d)
  BY <1>1, SetDupacksStill, AlikeType
<1> HIDE DEF d
<1>3. Still(c, u) /\ IsTCB(u)
  BY <1>2, UpdateWndInfoStill, AlikeTrans, AlikeType
<1> HIDE DEF u
<1>4. SendOrdered(c) => SendOrdered(ReceivedDuplicateAck(u))
  BY <1>3, AlikeType, AlikeOrdered, ReceivedDuplicateAckOrdered
<1>6. Still(c, [c EXCEPT !.dupacks = 0])
  BY SetDupacksStill
<1>7. SendOrdered(c) => SendOrdered([c EXCEPT !.dupacks = 0])
  BY <1>6, AlikeType, AlikeOrdered
<1> QED  BY <1>4, <1>5, <1>6, <1>7

\* A new acknowledgement of what was sent; in SYN_RCVD that is the SYN.
LEMMA ProcessNewAckOrdered ==
    ASSUME NEW c, IsTCB(c), SendOrdered(c), NEW s \in Segment, NEW w \in Int,
           c.snd_una < s.ack, s.ack <= c.snd_max
    PROVE  /\ SendOrdered(ProcessNewAck(c, s, w))
           /\ c.st = "SYN_RCVD" /\ SendInvAt(c, "SYN_RCVD")
                => SendInvAt(ProcessNewAck(c, s, w), "SYN_RCVD")
<1> DEFINE a == s.ack
           x == MaxOf(c.snd_nxt, s.ack)
           b == AcksOurFin(c, s)
           u == IF b THEN s.ack - 1 ELSE s.ack
           d == [c EXCEPT !.snd_una = a, !.snd_nxt = x, !.fin_ack_rcvd = @ \/ b]
           e == DiscardUpTo(d, u)
           f == UpdateWndInfo(e, s)
           r == ReceivedDataAck(f, w)
           z == [r EXCEPT !.dupacks = 0]
<1>0. /\ ProcessNewAck(c, s, w) \in {f, z}
      /\ c.st = "SYN_RCVD" => ProcessNewAck(c, s, w) = f
  BY DEF ProcessNewAck
<1>1. /\ a \in Int /\ c.iss \in Int /\ c.snd_una \in Int /\ c.snd_nxt \in Int
      /\ c.snd_max \in Int /\ c.qEnd \in Int
  BY NumberTypes DEF Segment
<1>2. x \in Int /\ a <= x /\ x <= c.snd_max /\ (c.snd_nxt = c.snd_max => x = c.snd_nxt)
  BY <1>1 DEF MaxOf, SendOrdered
<1>3. b \in BOOLEAN /\ u \in Int
  <2>1. c.send_fin \in BOOLEAN
    BY NumberTypes
  <2>2. b \in BOOLEAN
    BY <2>1 DEF AcksOurFin
  <2> QED  BY <1>1, <2>2
<1>13. c.snd_una < a
  OBVIOUS
<1> HIDE DEF a, x, b, u
<1>4. /\ IsTCB(d) /\ d.st = c.st /\ d.active = c.active
      /\ d.iss = c.iss /\ d.snd_una = a /\ d.snd_nxt = x
      /\ d.snd_max = c.snd_max /\ d.qEnd = c.qEnd /\ d.send_fin = c.send_fin
      /\ d.snd_fin_seq = c.snd_fin_seq /\ d.appClosed = c.appClosed
      /\ d.timers = c.timers
  BY ZenonT(60), <1>1, <1>2, <1>3 DEF IsTCB, TCBFields
<1> HIDE DEF d
<1>5. SendOrdered(d)
  BY <1>1, <1>2, <1>4, <1>13 DEF SendOrdered
<1>6. SendInvAt(c, "SYN_RCVD") => SendInvAt(d, "SYN_RCVD")
  BY <1>1, <1>2, <1>4, <1>5 DEF SendInvAt, SynOrdered, DataStates
<1>7. Still(d, e) /\ IsTCB(e)
  BY <1>3, <1>4, DiscardUpToStill, AlikeType
<1> HIDE DEF e
<1>8. Still(d, f) /\ Alike(d, f) /\ IsTCB(f)
  BY <1>7, UpdateWndInfoStill, AlikeTrans, AlikeType
<1> HIDE DEF f
<1>9. SendOrdered(f) /\ (SendInvAt(c, "SYN_RCVD") => SendInvAt(f, "SYN_RCVD"))
  BY <1>5, <1>6, <1>8, AlikeOrdered, StillInv
<1>10. SendOrdered(r) /\ IsTCB(r)
  BY <1>8, <1>9, ReceivedDataAckOrdered, ReceivedDataAckOK, KeepsType
<1> HIDE DEF r
<1>11. SendOrdered(z)
  BY <1>10, SetDupacksStill, AlikeType, AlikeOrdered
<1> HIDE DEF z
<1> QED  BY <1>0, <1>9, <1>11

LEMMA ProcessAckOrdered ==
    ASSUME NEW c, IsTCB(c), SendOrdered(c), NEW s \in Segment, NEW w \in Int,
           s.ack <= c.snd_max
    PROVE  /\ SendOrdered(ProcessAck(c, s, w))
           /\ c.st = "SYN_RCVD" /\ s.len > 0 /\ SendInvAt(c, "SYN_RCVD")
                => SendInvAt(ProcessAck(c, s, w), "SYN_RCVD")
<1>1. s.ack \in Int /\ c.snd_una \in Int
  BY NumberTypes DEF Segment
<1>2. CASE s.ack <= c.snd_una
  BY <1>2, ProcessOldAckOrdered, StillInv DEF ProcessAck
<1>3. CASE c.snd_una < s.ack
  BY <1>1, <1>3, ProcessNewAckOrdered DEF ProcessAck
<1> QED  BY <1>1, <1>2, <1>3

\* The type of what the text leaves, whatever event the handler has so far.
LEMMA ProcessTextType ==
    ASSUME NEW c, IsTCB(c), NEW t \in Segment, NEW una \in Int, NEW w \in Int
    PROVE  IsTCB(ProcessText(c, t, una, w)) /\ ProcessText(c, t, una, w).st = c.st
<1> DEFINE d == Insert(c, t)
           a == ReceivedDataAck(d, w)
           b == [a EXCEPT !.dupacks = 0]
           e == IF d.snd_una > una THEN b ELSE d
           g == Deliver(e)
           n == g.rcv_nxt + 1
           f == [g EXCEPT !.ack_now = TRUE, !.rcv_nxt = n]
<1>1. IsTCB(d) /\ d.st = c.st
  BY InsertOK DEF Keeps
<1> HIDE DEF d
<1>2. IsTCB(a) /\ a.st = c.st
  BY <1>1, ReceivedDataAckOK DEF Keeps
<1> HIDE DEF a
<1>3. IsTCB(e) /\ e.st = c.st
  BY <1>1, <1>2, SetDupacksOK DEF Keeps
<1> HIDE DEF e
<1>4. IsTCB(g) /\ g.st = c.st
  BY <1>3, DeliverOK DEF Keeps
<1> HIDE DEF g
<1>5. n \in Int
  BY <1>4, NumberTypes
<1> HIDE DEF n
<1>6. IsTCB(f) /\ f.st = c.st
  BY <1>4, <1>5, PassFinOK DEF Keeps
<1> HIDE DEF f
<1>7. /\ IsTCB(SendAck(e)) /\ SendAck(e).st = c.st
      /\ IsTCB(FinReached(f)) /\ FinReached(f).st = c.st
  BY <1>3, <1>6, SendAckStill, FinReachedStill DEF Still, Alike
<1>8. ProcessText(c, t, una, w) \in {SendAck(e), FinReached(f), g}
  BY DEF ProcessText, d, a, b, e, g, n, f
<1> QED  BY <1>4, <1>7, <1>8

LEMMA ProcessTextOrdered ==
    ASSUME NEW c, IsTCB(c), SendOrdered(c),
           NEW t \in Segment, NEW una \in Int, NEW w \in Int
    PROVE  LET r == ProcessText(c, t, una, w)
           IN  /\ SendOrdered(r)
               /\ c.st = "SYN_RCVD" /\ c.event \in HandshakeEnds => r.event \in HandshakeEnds
<1> DEFINE d == Insert(c, t)
           a == ReceivedDataAck(d, w)
           b == [a EXCEPT !.dupacks = 0]
           e == IF d.snd_una > una THEN b ELSE d
           g == Deliver(e)
           n == g.rcv_nxt + 1
           f == [g EXCEPT !.ack_now = TRUE, !.rcv_nxt = n]
<1>1. IsTCB(d) /\ SendOrdered(d) /\ d.st = c.st /\ d.event = c.event
  BY InsertOK, InsertStill, AlikeType, AlikeOrdered DEF Keeps
<1> HIDE DEF d
<1>2. IsTCB(b) /\ SendOrdered(b) /\ b.st = c.st /\ b.event = c.event
  <2>1. IsTCB(a) /\ SendOrdered(a) /\ a.st = c.st /\ a.event = c.event
    BY <1>1, ReceivedDataAckOK, ReceivedDataAckOrdered DEF Keeps
  <2> HIDE DEF a
  <2>2. Keeps(a, b) /\ Still(a, b)
    BY <2>1, SetDupacksOK, SetDupacksStill
  <2> QED  BY <2>1, <2>2, AlikeType, AlikeOrdered DEF Keeps
<1> HIDE DEF b
<1>3. IsTCB(e) /\ SendOrdered(e) /\ e.st = c.st /\ e.event = c.event
  BY <1>1, <1>2
<1> HIDE DEF e
<1>4. IsTCB(g) /\ SendOrdered(g) /\ g.st = c.st /\ g.event = c.event
  BY <1>3, DeliverOK, DeliverStill, AlikeType, AlikeOrdered DEF Keeps
<1> HIDE DEF g
<1>5. n \in Int
  BY <1>4, NumberTypes
<1> HIDE DEF n
<1>6. IsTCB(f) /\ SendOrdered(f) /\ f.st = c.st
  <2>1. Still(g, f)
    BY <1>4, <1>5, PassFinStill
  <2> HIDE DEF f
  <2> QED  BY <1>4, <2>1, AlikeOrdered DEF Still, Alike
<1> HIDE DEF f
<1>7. SendOrdered(SendAck(e)) /\ SendAck(e).event = c.event
  BY <1>3, SendAckOK, SendAckStill, AlikeType, AlikeOrdered DEF Keeps
<1>8. SendOrdered(FinReached(f)) /\ (c.st = "SYN_RCVD" => FinReached(f).event = "RCV_FIN")
  BY <1>6, FinReachedStill, AlikeType, AlikeOrdered
<1>9. ProcessText(c, t, una, w) \in {SendAck(e), FinReached(f), g}
  BY DEF ProcessText, d, a, b, e, g, n, f
<1> QED  BY <1>4, <1>7, <1>8, <1>9 DEF HandshakeEnds

\* Steps six to eight end a handshake, unless the text does not fit.
LEMMA ProcessTextAndFinOrdered ==
    ASSUME NEW c, IsTCB(c), SendOrdered(c), NEW s \in Segment, NEW old, IsTCB(old),
           NEW w \in Int
    PROVE  LET r == ProcessTextAndFin(c, s, old, w)
           IN  /\ SendOrdered(r)
               /\ c.st = "SYN_RCVD" /\ c.event \in HandshakeEnds
                    => \/ r.event \in HandshakeEnds
                       \/ r.event = "IGNORE" /\ s.len > 0 /\ Still(c, r)
<1> DEFINE text == /\ s.len > 0
                   /\ c.st \in {"SYN_RCVD", "ESTABLISHED", "FIN_WAIT_1", "FIN_WAIT_2"}
           t    == IF text THEN Truncate(c, s) ELSE s
           k    == IF s.len = MSS THEN c.full_sized + 1 ELSE c.full_sized
           b    == c.ack_now \/ s.len = 1
           v    == c.fault \/ t.len = 0
           d    == IF text THEN [c EXCEPT !.full_sized = k, !.ack_now = b, !.fault = v]
                   ELSE c
           e    == IF text THEN ProcessText(d, t, old.snd_una, w) ELSE d
           f    == ProcessFin(e, t)
           g    == IF f.rcv_nxt # c.rcv_nxt THEN ReceiveSeqChanged(f) ELSE f
           h    == ProcessDeferredClose(g, old.snd_nxt)
           i    == Event(d, "IGNORE")
<1>2. t \in Segment /\ old.snd_una \in Int
  BY TruncateType, NumberTypes
<1>3. k \in Int /\ b \in BOOLEAN /\ v \in BOOLEAN
  <2>1. c.full_sized \in Int /\ c.ack_now \in BOOLEAN /\ c.fault \in BOOLEAN
    BY DEF IsTCB
  <2> QED  BY <2>1
<1>4. \/ ProcessTextAndFin(c, s, old, w) = i /\ s.len > 0
      \/ ProcessTextAndFin(c, s, old, w) = h
  BY DEF ProcessTextAndFin
<1> HIDE DEF text, t, k, b, v
<1>5. Still(c, d) /\ IsTCB(d) /\ d.st = c.st /\ d.event = c.event
  <2>1. Still(c, [c EXCEPT !.full_sized = k, !.ack_now = b, !.fault = v])
    BY ZenonT(30), <1>3 DEF Still, Alike, IsTCB, TCBFields
  <2>2. [c EXCEPT !.full_sized = k, !.ack_now = b, !.fault = v].event = c.event
    BY DEF IsTCB, TCBFields
  <2> QED  BY <2>1, <2>2, AlikeRefl DEF Still, Alike
<1> HIDE DEF d
<1>6. SendOrdered(d)
  BY <1>5, AlikeType, AlikeOrdered
<1> DEFINE Ends(x) == c.st = "SYN_RCVD" /\ c.event \in HandshakeEnds
                        => x.event \in HandshakeEnds
<1>7. IsTCB(e) /\ e.st = c.st /\ SendOrdered(e) /\ Ends(e)
  <2>1. CASE text
    <3> DEFINE x == ProcessText(d, t, old.snd_una, w)
    <3>1. SendOrdered(x) /\ Ends(x)
      BY <1>2, <1>5, <1>6, ProcessTextOrdered
    <3>2. IsTCB(x) /\ x.st = d.st
      BY <1>2, <1>5, ProcessTextType
    <3> QED  BY <1>5, <2>1, <3>1, <3>2
  <2>2. CASE ~text
    BY <1>5, <1>6, <2>2
  <2> QED  BY <2>1, <2>2
<1> HIDE DEF e
<1>8. IsTCB(f) /\ SendOrdered(f) /\ f.st = c.st /\ Ends(f)
  BY SMTT(60), <1>2, <1>7, ProcessFinStill, AlikeOrdered DEF Still, Alike
<1> HIDE DEF f
<1>9. IsTCB(g) /\ SendOrdered(g) /\ Ends(g)
  BY <1>8, ReceiveSeqChangedStill, ReceiveSeqChangedOK, AlikeType, AlikeOrdered DEF Keeps
<1> HIDE DEF g
<1>10. SendOrdered(h) /\ Ends(h)
  BY <1>9, ProcessDeferredCloseStill, AlikeType, AlikeOrdered
<1> HIDE DEF h
<1>11. Still(c, i) /\ SendOrdered(i) /\ i.event = "IGNORE"
  <2>1. "IGNORE" \in Events
    BY DEF Events
  <2> QED  BY <1>5, <1>6, <2>1, EventStill, AlikeTrans, AlikeType, AlikeOrdered
<1> HIDE DEF i
<1> QED  BY <1>4, <1>10, <1>11

LEMMA ProcessTextAndFinType ==
    ASSUME NEW c, IsTCB(c), NEW s \in Segment, NEW old, IsTCB(old), NEW w \in Int
    PROVE  LET r == ProcessTextAndFin(c, s, old, w) IN IsTCB(r) /\ r.st = c.st
<1> DEFINE text == /\ s.len > 0
                   /\ c.st \in {"SYN_RCVD", "ESTABLISHED", "FIN_WAIT_1", "FIN_WAIT_2"}
           t    == IF text THEN Truncate(c, s) ELSE s
           k    == IF s.len = MSS THEN c.full_sized + 1 ELSE c.full_sized
           b    == c.ack_now \/ s.len = 1
           v    == c.fault \/ t.len = 0
           d    == IF text THEN [c EXCEPT !.full_sized = k, !.ack_now = b, !.fault = v]
                   ELSE c
           e    == IF text THEN ProcessText(d, t, old.snd_una, w) ELSE d
           f    == ProcessFin(e, t)
           g    == IF f.rcv_nxt # c.rcv_nxt THEN ReceiveSeqChanged(f) ELSE f
           h    == ProcessDeferredClose(g, old.snd_nxt)
<1>2. t \in Segment /\ old.snd_una \in Int
  BY TruncateType, NumberTypes
<1>3. k \in Int /\ b \in BOOLEAN /\ v \in BOOLEAN
  <2>1. c.full_sized \in Int /\ c.ack_now \in BOOLEAN /\ c.fault \in BOOLEAN
    BY DEF IsTCB
  <2> QED  BY <2>1
<1>4. ProcessTextAndFin(c, s, old, w) \in {Event(d, "IGNORE"), h}
  BY DEF ProcessTextAndFin
<1> HIDE DEF text, t, k, b, v
<1>5. IsTCB(d) /\ d.st = c.st
  BY ZenonT(90), <1>3 DEF IsTCB, TCBFields
<1> HIDE DEF d
<1>6. IsTCB(e) /\ e.st = c.st
  BY <1>2, <1>5, ProcessTextType
<1> HIDE DEF e
<1>7. IsTCB(f) /\ f.st = c.st
  BY <1>2, <1>6, ProcessFinStill DEF Still, Alike
<1> HIDE DEF f
<1>8. IsTCB(g) /\ g.st = c.st
  BY <1>7, ReceiveSeqChangedStill DEF Still, Alike
<1> HIDE DEF g
<1>9. IsTCB(h) /\ h.st = c.st
  BY <1>8, ProcessDeferredCloseStill DEF Still, Alike
<1> HIDE DEF h
<1>10. IsTCB(Event(d, "IGNORE")) /\ Event(d, "IGNORE").st = c.st
  BY <1>5, EventStill DEF Events, Still, Alike
<1> QED  BY <1>4, <1>9, <1>10

-----------------------------------------------------------------------------
(* The finite state machine and the handlers.                              *)

\* What a handler must leave for performStateTransition() to keep SendInv.
SendReady(d) == IsTCB(d) /\ SendInvAt(d, NextState(d, d.event))

LEMMA SendStateFacts ==
    ASSUME NEW c, IsTCB(c)
    PROVE  LET n == NextState(c, c.event)
           IN  /\ c.st \in {"TIME_WAIT", "CLOSED"} => n \in {"TIME_WAIT", "CLOSED"}
               /\ c.st \in DataStates => n \in DataStates \cup {"TIME_WAIT", "CLOSED"}
               /\ c.st = "SYN_RCVD" /\ c.event \in HandshakeEnds => n \in DataStates
               /\ c.st = "SYN_RCVD" /\ c.event \in {"RCV_RST", "TIMEOUT_CONN_ESTAB"}
                    => n = IF c.active THEN "CLOSED" ELSE "LISTEN"
               /\ c.st = "SYN_RCVD" /\ c.event = "RCV_UNEXP_SYN" => n = "CLOSED"
               /\ c.st = "SYN_SENT" /\ c.event \in {"CLOSE", "RCV_RST", "TIMEOUT_CONN_ESTAB"}
                    => n = "CLOSED"
               /\ c.st = "SYN_SENT" /\ c.event = "RCV_SYN_ACK" => n = "ESTABLISHED"
               /\ c.st = "LISTEN" /\ c.event = "CLOSE" => n = "CLOSED"
               /\ c.event = "SEND" => n = c.st
<1> DEFINE n == NextState(c, c.event)
<1>0. c.st \in States /\ c.event \in Events /\ c.active \in BOOLEAN
  BY DEF IsTCB
<1>1. c.st \in {"TIME_WAIT", "CLOSED"} => n \in {"TIME_WAIT", "CLOSED"}
  BY <1>0 DEF NextState, DataStates
<1>2. c.st \in DataStates => n \in DataStates \cup {"TIME_WAIT", "CLOSED"}
  BY <1>0 DEF NextState, DataStates
<1>3. c.st = "SYN_RCVD" /\ c.event \in HandshakeEnds => n \in DataStates
  BY <1>0 DEF NextState, DataStates, HandshakeEnds
<1>4. /\ c.st = "SYN_RCVD" /\ c.event \in {"RCV_RST", "TIMEOUT_CONN_ESTAB"}
           => n = IF c.active THEN "CLOSED" ELSE "LISTEN"
      /\ c.st = "SYN_RCVD" /\ c.event = "RCV_UNEXP_SYN" => n = "CLOSED"
  BY <1>0 DEF NextState, DataStates
<1>5. /\ c.st = "SYN_SENT" /\ c.event \in {"CLOSE", "RCV_RST", "TIMEOUT_CONN_ESTAB"}
           => n = "CLOSED"
      /\ c.st = "SYN_SENT" /\ c.event = "RCV_SYN_ACK" => n = "ESTABLISHED"
  BY <1>0 DEF NextState
<1>6. c.st = "LISTEN" /\ c.event = "CLOSE" => n = "CLOSED"
  BY <1>0 DEF NextState
<1>7. c.event = "SEND" => n = c.st
  BY <1>0 DEF NextState
<1> QED  BY <1>1, <1>2, <1>3, <1>4, <1>5, <1>6, <1>7

LEMMA TransitionSends ==
    ASSUME NEW d, SendReady(d) PROVE SendInv(PerformStateTransition(d))
<1> DEFINE n == NextState(d, d.event)
           x == [d EXCEPT !.st = n]
           y == CancelEvents(x, HandshakeTimers)
<1>1. IsTCB(d) /\ SendInvAt(d, n) /\ n \in States
  BY NextStateFacts DEF SendReady
<1> HIDE DEF n
<1>2. CASE n = d.st
  BY <1>1, <1>2 DEF PerformStateTransition, SendInv, n
<1>3. CASE n # d.st
  <2>1. PerformStateTransition(d) = StateEntered(x, d.st)
    BY <1>3 DEF PerformStateTransition, n
  <2>2. IsTCB(x) /\ x.st = n /\ SendInvAt(x, n)
    <3>1. /\ IsTCB(x) /\ x.st = n /\ x.active = d.active /\ x.iss = d.iss
          /\ x.snd_una = d.snd_una /\ x.snd_nxt = d.snd_nxt /\ x.snd_max = d.snd_max
          /\ x.qEnd = d.qEnd /\ x.send_fin = d.send_fin
          /\ x.snd_fin_seq = d.snd_fin_seq /\ x.appClosed = d.appClosed
          /\ x.timers = d.timers
      BY ZenonT(60), <1>1 DEF IsTCB, TCBFields
    <3> HIDE DEF x
    <3>2. SendOrdered(d) => SendOrdered(x)
      BY <3>1 DEF SendOrdered
    <3>3. SynOrdered(d) => SynOrdered(x)
      BY <3>1, <3>2 DEF SynOrdered
    <3> QED  BY <1>1, <3>1, <3>2, <3>3 DEF SendInvAt
  <2> HIDE DEF x
  <2>3. Still(x, y) /\ IsTCB(y)
    BY <2>2, CancelEventsStill, AlikeType
  <2> HIDE DEF y
  <2>4. CASE n = "CLOSED"
    <3> DEFINE z == StateEntered(x, d.st)
    <3>1. z = Removed(IF ClosedIsNews(x, d.st) THEN Indicate(x, "CLOSED") ELSE x)
      BY <2>2, <2>4 DEF StateEntered, DataStates
    <3>2. z.st = "CLOSED"
      BY <3>1 DEF Removed, NewConnection
    <3> HIDE DEF z
    <3>3. SendInv(z)
      BY <3>2 DEF SendInv, SendInvAt, DataStates, SynStates
    <3> QED  BY <2>1, <3>3 DEF z
  <2>5. CASE n # "CLOSED"
    <3>1. StateEntered(x, d.st)
            \in {x, y, Indicate(y, "PEER_CLOSED"), Indicate(x, "CLOSED")}
      BY <2>2, <2>5 DEF StateEntered, y
    <3>2. Still(x, Indicate(y, "PEER_CLOSED")) /\ Still(x, Indicate(x, "CLOSED"))
      BY <2>2, <2>3, IndicateStill, AlikeTrans DEF Indications
    <3>3. Still(x, StateEntered(x, d.st))
      BY <2>2, <2>3, <3>1, <3>2, AlikeRefl
    <3>4. SendInvAt(StateEntered(x, d.st), n) /\ StateEntered(x, d.st).st = n
      BY <2>2, <3>3, StillInv DEF Still, Alike
    <3> QED  BY <2>1, <3>4 DEF SendInv
  <2> QED  BY <2>4, <2>5
<1> QED  BY <1>2, <1>3

LEMMA StillReady ==
    ASSUME NEW c, SendInv(c), NEW d, Still(c, d), NextState(d, d.event) = d.st
    PROVE  SendReady(d)
BY StillInv DEF SendInv, SendReady, Still, Alike

LEMMA IgnoredReady ==
    ASSUME NEW c, SendInv(c), c.event = "IGNORE", NEW d, Still(c, d), Keeps(c, d)
    PROVE  SendReady(d)
<1>1. NextState(d, d.event) = d.st
  BY NextStateFacts DEF Keeps
<1> QED  BY <1>1, StillReady

\* In the states of data transfer only the order counts.
LEMMA DataReady ==
    ASSUME NEW d, IsTCB(d), d.st \in DataStates, SendOrdered(d) PROVE SendReady(d)
BY SendStateFacts DEF SendReady, SendInvAt, DataStates, SynStates

\* Afterwards nothing does.
LEMMA DoneReady ==
    ASSUME NEW d, IsTCB(d), d.st \in {"TIME_WAIT", "CLOSED"} PROVE SendReady(d)
BY SendStateFacts DEF SendReady, SendInvAt, DataStates, SynStates

LEMMA ClosesSendReady ==
    ASSUME NEW d, IsTCB(d), NextState(d, d.event) = "CLOSED" PROVE SendReady(d)
BY DEF SendReady, SendInvAt, DataStates, SynStates

\* A handshake that ends.
LEMMA EndsReady ==
    ASSUME NEW d, IsTCB(d), d.st = "SYN_RCVD", d.event \in HandshakeEnds, SendOrdered(d)
    PROVE  SendReady(d)
<1>1. NextState(d, d.event) \in DataStates
  BY SendStateFacts
<1> QED  BY <1>1 DEF SendReady, SendInvAt, DataStates, SynStates

\* A handshake that fails: the passive side listens again.
LEMMA FailsReady ==
    ASSUME NEW c, SendInv(c), c.st = "SYN_RCVD", NEW d, Still(c, d),
           d.event \in {"RCV_RST", "TIMEOUT_CONN_ESTAB"}
    PROVE  SendReady(d)
<1>1. IsTCB(d) /\ d.st = "SYN_RCVD" /\ d.active \in BOOLEAN
  BY DEF Still, Alike, IsTCB
<1>2. NextState(d, d.event) = IF d.active THEN "CLOSED" ELSE "LISTEN"
  BY <1>1, SendStateFacts
<1>3. SendInvAt(d, "SYN_RCVD")
  BY StillInv DEF SendInv
<1> QED  BY <1>1, <1>2, <1>3 DEF SendReady, SendInvAt, DataStates, SynStates

LEMMA ProcessRstStill ==
    ASSUME NEW c, IsTCB(c)
    PROVE  Still(c, ProcessRst(c)) /\ ProcessRst(c).event = "RCV_RST"
<1> DEFINE q == [c EXCEPT !.qBegin = c.qEnd]
           x == IF c.active THEN Indicate(q, "CONNECTION_REFUSED") ELSE q
           y == Indicate(c, "CONNECTION_RESET")
<1>1. Still(c, q) /\ IsTCB(q)
  BY ZenonT(60) DEF Still, Alike, IsTCB, TCBFields
<1> HIDE DEF q
<1>2. Still(c, x) /\ IsTCB(x)
  BY <1>1, IndicateStill, AlikeTrans, AlikeType DEF Indications
<1>3. Still(c, y) /\ IsTCB(y)
  BY IndicateStill, AlikeType DEF Indications
<1>4. ProcessRst(c) \in {Event(x, "RCV_RST"), Event(y, "RCV_RST"), Event(c, "RCV_RST")}
  BY DEF ProcessRst, q
<1> HIDE DEF x, y
<1>5. "RCV_RST" \in Events
  BY DEF Events
<1> QED  BY <1>2, <1>3, <1>4, <1>5, EventStill, AlikeTrans

LEMMA ProcessSegment1stThru8thSends ==
    ASSUME NEW c, Opened(c), SendInv(c), c.st \in DataStates \cup {"SYN_RCVD"},
           NEW s \in Segment, NEW w \in Int
    PROVE  SendReady(ProcessSegment1stThru8th(c, s, w))
<1> DEFINE p == ProcessSegment1stThru8th(c, s, w)
           i == Indicate(c, "ESTABLISHED")
           d == IF c.st = "SYN_RCVD" THEN Event(i, "RCV_ACK") ELSE c
           e == ProcessAck(d, s, w)
           j == Indicate(c, "CONNECTION_RESET")
           x == Event(j, "RCV_UNEXP_SYN")
           a == SendAck(c)
           y == [a EXCEPT !.dupacks = 0]
           u == Event(e, "RCV_ACK")
           k == ProcessFinAcked(e)
           z == ProcessTextAndFin(k, s, c, w)
<1>1. /\ IsTCB(c) /\ c.event = "IGNORE" /\ SendInvAt(c, c.st)
      /\ SendOrdered(c)
  BY DEF Opened, Rests, ConnInv, SendInv, SendInvAt, SynOrdered
<1>2. s.ack \in Int /\ c.snd_nxt \in Int /\ c.snd_max \in Int
  BY <1>1, NumberTypes DEF Segment
<1>3. \/ p \in {c, a, ProcessRst(c), x, SendRst(c, s.ack)}
      \/ p = y /\ c.st \in DataStates
      \/ p = u /\ c.st = "LAST_ACK" /\ s.ack <= c.snd_max
      \/ p = z /\ s.ack <= c.snd_max
  <2>1. c.st = "SYN_RCVD" /\ AcksOurSynAck(c, s) => s.ack <= c.snd_max
    BY <1>1, <1>2 DEF AcksOurSynAck, SendOrdered
  <2>2. ~(s.ack > c.snd_max) => s.ack <= c.snd_max
    BY <1>2
  <2>3. "LAST_ACK" \in DataStates
    BY DEF DataStates
  <2> QED  BY <2>1, <2>2, <2>3 DEF ProcessSegment1stThru8th, d, e
<1> HIDE DEF p
<1>4. Still(c, a) /\ Keeps(c, a) /\ IsTCB(a)
  BY <1>1, SendAckStill, SendAckOK, AlikeType
<1> HIDE DEF a
<1>5. SendReady(c) /\ SendReady(a) /\ SendReady(SendRst(c, s.ack))
  BY <1>1, <1>2, <1>4, AlikeRefl, KeepsRefl, SendRstStill, SendRstOK, IgnoredReady
<1>6. SendReady(y)
  <2>1. Still(a, y) /\ Keeps(a, y)
    BY <1>4, SetDupacksStill, SetDupacksOK
  <2> HIDE DEF y
  <2> QED  BY <1>1, <1>4, <2>1, AlikeTrans, KeepsTrans, IgnoredReady
<1> HIDE DEF y
<1>7. SendReady(ProcessRst(c))
  <2>1. Still(c, ProcessRst(c)) /\ ProcessRst(c).event = "RCV_RST"
    BY <1>1, ProcessRstStill
  <2>2. CASE c.st = "SYN_RCVD"
    BY <2>1, <2>2, FailsReady
  <2>3. CASE c.st \in DataStates
    BY <1>1, <2>1, <2>3, AlikeType, AlikeOrdered, DataReady DEF Alike
  <2> QED  BY <2>2, <2>3
<1>8. SendReady(x)
  <2>1. Still(c, j) /\ IsTCB(j)
    BY <1>1, IndicateStill, AlikeType DEF Indications
  <2> HIDE DEF j
  <2>2. Still(c, x) /\ x.event = "RCV_UNEXP_SYN" /\ IsTCB(x) /\ x.st = c.st
    BY <2>1, EventStill, AlikeTrans DEF Events, Still, Alike
  <2> HIDE DEF x
  <2>3. CASE c.st = "SYN_RCVD"
    BY <2>2, <2>3, SendStateFacts, ClosesSendReady
  <2>4. CASE c.st \in DataStates
    BY <1>1, <2>2, <2>4, AlikeType, AlikeOrdered, DataReady
  <2> QED  BY <2>3, <2>4
<1> HIDE DEF x, j
<1>9. /\ Still(c, d) /\ IsTCB(d) /\ d.st = c.st
      /\ c.st = "SYN_RCVD" => d.event = "RCV_ACK"
  <2>1. Still(c, i) /\ IsTCB(i)
    BY <1>1, IndicateStill, AlikeType DEF Indications
  <2> HIDE DEF i
  <2>2. Still(c, Event(i, "RCV_ACK")) /\ Event(i, "RCV_ACK").event = "RCV_ACK"
    BY <2>1, EventStill, AlikeTrans DEF Events
  <2> QED  BY <1>1, <2>2, AlikeRefl DEF Still, Alike
<1> HIDE DEF d
<1>10. SendOrdered(d) /\ SendInvAt(d, c.st) /\ d.snd_max = c.snd_max
  BY <1>1, <1>9, AlikeOrdered, StillInv DEF Still, Alike
<1>11. ASSUME s.ack <= c.snd_max
       PROVE  /\ IsTCB(e) /\ e.st = c.st /\ e.event = d.event /\ SendOrdered(e)
              /\ c.st = "SYN_RCVD" /\ s.len > 0 => SendInvAt(e, "SYN_RCVD")
  BY <1>9, <1>10, <1>11, ProcessAckOK, ProcessAckOrdered DEF Keeps
<1> HIDE DEF e
<1>12. ASSUME s.ack <= c.snd_max, c.st = "LAST_ACK" PROVE SendReady(u)
  <2>1. Still(e, u)
    BY <1>11, <1>12, EventStill DEF Events
  <2> HIDE DEF u
  <2> QED  BY <1>11, <1>12, <2>1, AlikeOrdered, DataReady DEF Still, Alike, DataStates
<1>13. ASSUME s.ack <= c.snd_max PROVE SendReady(z)
  <2>1. /\ Still(e, k) /\ IsTCB(k) /\ k.st = c.st /\ SendOrdered(k)
        /\ c.st = "SYN_RCVD" => k = e
    BY <1>11, <1>13, ProcessFinAckedStill, AlikeOrdered DEF Still, Alike
  <2> HIDE DEF k
  <2>2. /\ SendOrdered(z)
        /\ c.st = "SYN_RCVD" /\ k.event \in HandshakeEnds
             => \/ z.event \in HandshakeEnds
                \/ z.event = "IGNORE" /\ s.len > 0 /\ Still(k, z)
    BY <1>1, <2>1, ProcessTextAndFinOrdered
  <2>3. IsTCB(z) /\ z.st = c.st
    BY <1>1, <2>1, ProcessTextAndFinType
  <2> HIDE DEF z
  <2>4. CASE c.st \in DataStates
    BY <2>2, <2>3, <2>4, DataReady
  <2>5. CASE c.st = "SYN_RCVD"
    <3>1. k.event \in HandshakeEnds
      BY <1>9, <1>11, <1>13, <2>1, <2>5 DEF HandshakeEnds
    <3>2. CASE z.event \in HandshakeEnds
      BY <2>2, <2>3, <2>5, <3>2, EndsReady
    <3>3. CASE z.event = "IGNORE" /\ s.len > 0 /\ Still(k, z)
      <4>1. SendInvAt(z, "SYN_RCVD")
        BY <1>11, <1>13, <2>1, <2>5, <3>3, StillInv
      <4>2. NextState(z, z.event) = "SYN_RCVD"
        BY <2>3, <2>5, <3>3, NextStateFacts
      <4> QED  BY <2>3, <4>1, <4>2 DEF SendReady
    <3> QED  BY <2>2, <2>5, <3>1, <3>2, <3>3
  <2> QED  BY <2>4, <2>5
<1> HIDE DEF u, k, z
<1> QED  BY <1>3, <1>5, <1>6, <1>7, <1>8, <1>12, <1>13 DEF p

\* The end of a handler that starts a handshake, as Started() is above.
LEMMA StartedStill ==
    ASSUME NEW c, IsTCB(c), NEW ts \in SUBSET (Timers \ SendTimers),
           NEW e \in {"OPEN_ACTIVE", "RCV_SYN"}
    PROVE  Still(c, Started(c, ts, e)) /\ Started(c, ts, e).event = e
<1> DEFINE t == c.timers \cup ts
           y == [c EXCEPT !.syn_rexmit_count = 0, !.timers = t]
<1>1. Started(c, ts, e) = Event(y, e) /\ e \in Events
  BY DEF Started, Events
<1>2. t \in SUBSET Timers /\ t \cap SendTimers \subseteq c.timers
  BY DEF IsTCB
<1> HIDE DEF t
<1>3. Still(c, y) /\ IsTCB(y)
  BY SMTT(30), <1>2 DEF Still, Alike, IsTCB, TCBFields
<1> HIDE DEF y
<1> QED  BY <1>1, <1>3, EventStill, AlikeTrans

LEMMA ProcessOpenActiveSends ==
    ASSUME NEW c, Rests(c), SendInv(c), c.st = "INIT"
    PROVE  SendReady(ProcessOpenActive(c))
<1> DEFINE a  == [c EXCEPT !.active = TRUE]
           b  == SelectInitialSeqNum(a)
           d  == SendSyn(b)
           ts == {"SYN_REXMIT", "CONN_ESTAB"}
           x  == Started(d, ts, "OPEN_ACTIVE")
<1>1. IsTCB(c) /\ SendInvAt(c, "INIT")
  BY DEF Rests, ConnInv, SendInv
<1>2. /\ IsTCB(a) /\ a.st = "INIT" /\ a.active = TRUE /\ a.send_fin = c.send_fin
      /\ a.timers = c.timers
  BY ZenonT(60), <1>1 DEF IsTCB, TCBFields
<1> HIDE DEF a
<1>3. /\ IsTCB(b) /\ b.st = "INIT" /\ b.active = TRUE /\ b.send_fin = c.send_fin
      /\ b.timers = c.timers
      /\ b.iss \in Int /\ b.snd_una = b.iss /\ b.qEnd = b.iss + 1
  BY <1>2, SelectInitialSeqNumSends
<1> HIDE DEF b
<1>4. SynOut(b, d) /\ IsTCB(d)
  BY <1>3, SendSynOut DEF SynOut
<1>0. ts \in SUBSET (Timers \ SendTimers)
  BY DEF Timers, SendTimers
<1> HIDE DEF d, ts
<1>5. SynOut(b, x) /\ x.event = "OPEN_ACTIVE"
  BY <1>0, <1>4, StartedStill, SynOutStill
<1> HIDE DEF x
<1>6. ~b.send_fin /\ b.iss < b.qEnd /\ b.timers \cap SendTimers = {}
  BY <1>1, <1>3 DEF SendInvAt
<1>7. SynOrdered(x)
  BY <1>3, <1>5, <1>6, SynOutOrdered
<1>8. SendInvAt(x, "SYN_SENT")
  BY <1>3, <1>5, <1>6, <1>7 DEF SendInvAt, SynOut, DataStates, SynStates
<1>9. IsTCB(x) /\ NextState(x, x.event) = "SYN_SENT"
  BY <1>3, <1>5, NextStateFacts DEF SynOut
<1>10. SendReady(x)
  BY <1>8, <1>9 DEF SendReady
<1> QED  BY <1>10 DEF ProcessOpenActive, Started, x, ts, d, b, a

LEMMA ProcessOpenPassiveSends ==
    ASSUME NEW c, Rests(c), SendInv(c), c.st = "INIT"
    PROVE  SendReady(ProcessOpenPassive(c))
<1> DEFINE x == ProcessOpenPassive(c)
<1>1. IsTCB(c) /\ SendInvAt(c, "INIT")
  BY DEF Rests, ConnInv, SendInv
<1>2. /\ IsTCB(x) /\ x.st = "INIT" /\ x.event = "OPEN_PASSIVE" /\ x.active = FALSE
      /\ x.send_fin = c.send_fin /\ x.timers = c.timers
  BY ZenonT(60), <1>1 DEF ProcessOpenPassive, Event, IsTCB, TCBFields, Events
<1> HIDE DEF x
<1>3. NextState(x, x.event) = "LISTEN"
  BY <1>2, NextStateFacts
<1>4. SendReady(x)
  BY <1>1, <1>2, <1>3 DEF SendReady, SendInvAt, DataStates, SynStates
<1> QED  BY <1>4 DEF x

\* A SYN in LISTEN, or in SYN_SENT, leads to SYN_RCVD.
LEMMA SynReceivedReady ==
    ASSUME NEW d, IsTCB(d), d.st \in {"LISTEN", "SYN_SENT"}, d.snd_una = d.iss,
           d.iss < d.qEnd, ~d.send_fin, ~d.active => d.qEnd = d.iss + 1,
           d.timers \cap SendTimers = {},
           NEW x, SynOut(d, x), x.event = "RCV_SYN"
    PROVE  SendReady(x)
<1>1. SynOrdered(x)
  BY SynOutOrdered
<1>2. SendInvAt(x, "SYN_RCVD")
  BY <1>1 DEF SendInvAt, SynOut, DataStates, SynStates
<1>3. IsTCB(x) /\ NextState(x, x.event) = "SYN_RCVD"
  BY NextStateFacts DEF SynOut
<1> QED  BY <1>2, <1>3 DEF SendReady

\* What the receive side takes from a SYN.
LEMMA SynReceivedStill ==
    ASSUME NEW c, IsTCB(c), NEW m \in Int
    PROVE  Still(c, [c EXCEPT !.rcv_nxt = m, !.rq_nxt = m, !.rcvq = {}])
<1>1. IsFiniteSet({})
  BY FS_EmptySet
<1> QED  BY ZenonT(60), <1>1 DEF Still, Alike, IsTCB, TCBFields

LEMMA ProcessSegmentInListenSends ==
    ASSUME NEW c, Rests(c), SendInv(c), c.st = "LISTEN", NEW s \in Segment
    PROVE  SendReady(ProcessSegmentInListen(c, s))
<1> DEFINE p  == ProcessSegmentInListen(c, s)
           m  == s.seq + 1
           a  == [c EXCEPT !.rcv_nxt = m, !.rq_nxt = m, !.rcvq = {}]
           d  == SelectInitialSeqNum(a)
           i  == InitWndInfo(d, s)
           e  == SendSynAck(i)
           ts == {"SYN_REXMIT", "CONN_ESTAB"}
           x  == Started(e, ts, "RCV_SYN")
<1>1. IsTCB(c) /\ c.event = "IGNORE" /\ SendInvAt(c, "LISTEN")
  BY DEF Rests, ConnInv, SendInv
<1>2. m \in Int /\ s.ack \in Int
  BY DEF Segment
<1>3. p \in {c, SendRst(c, s.ack), x}
  BY DEF ProcessSegmentInListen, Started
<1>0. ts \in SUBSET (Timers \ SendTimers)
  BY DEF Timers, SendTimers
<1> HIDE DEF p, m, ts
<1>4. SendReady(c) /\ SendReady(SendRst(c, s.ack))
  BY <1>1, <1>2, AlikeRefl, KeepsRefl, SendRstStill, SendRstOK, IgnoredReady
<1>5. Still(c, a) /\ IsTCB(a)
  BY <1>1, <1>2, SynReceivedStill, AlikeType
<1> HIDE DEF a
<1>6. /\ IsTCB(d) /\ d.st = "LISTEN" /\ d.send_fin = c.send_fin
      /\ d.timers \cap SendTimers \subseteq c.timers
      /\ d.iss \in Int /\ d.snd_una = d.iss /\ d.qEnd = d.iss + 1
  BY <1>5, SelectInitialSeqNumSends DEF Still, Alike
<1> HIDE DEF d
<1>7. Still(d, i) /\ IsTCB(i)
  BY <1>6, InitWndInfoStill, AlikeType
<1> HIDE DEF i
<1>8. SynOut(d, e) /\ IsTCB(e)
  BY <1>7, SendSynAckOut, StillSynOut DEF SynOut
<1> HIDE DEF e
<1>9. SynOut(d, x) /\ x.event = "RCV_SYN"
  BY <1>0, <1>8, StartedStill, SynOutStill
<1> HIDE DEF x
<1>10. d.iss < d.qEnd /\ ~d.send_fin /\ d.timers \cap SendTimers = {}
  BY <1>1, <1>6 DEF SendInvAt
<1>11. SendReady(x)
  BY <1>6, <1>9, <1>10, SynReceivedReady
<1> QED  BY <1>3, <1>4, <1>11 DEF p

LEMMA ProcessSegmentInSynSentSends ==
    ASSUME NEW c, Rests(c), SendInv(c), c.st = "SYN_SENT", NEW s \in Segment, NEW w \in Int
    PROVE  SendReady(ProcessSegmentInSynSent(c, s, w))
<1> DEFINE p  == ProcessSegmentInSynSent(c, s, w)
           m  == s.seq + 1
           d  == [c EXCEPT !.rcv_nxt = m, !.rq_nxt = m, !.rcvq = {}]
           ac == s.ack
           o  == [d EXCEPT !.snd_una = ac]
           u  == DiscardUpTo(o, s.ack)
           e  == InitWndInfo(u, s)
           a  == [e EXCEPT !.ack_now = TRUE]
           f  == EstablishedActive(a, w)
           i  == Indicate(c, "CONNECTION_RESET")
           j  == Indicate(f, "ESTABLISHED")
           k  == SendSynAck(d)
           ts == {"SYN_REXMIT"}
           x  == Started(k, ts, "RCV_SYN")
           y  == Event(j, "RCV_SYN_ACK")
           z  == Event(i, "RCV_RST")
<1>1. IsTCB(c) /\ c.event = "IGNORE" /\ SendInvAt(c, "SYN_SENT")
  BY DEF Rests, ConnInv, SendInv
<1>2. m \in Int /\ ac \in Int /\ ac = s.ack
  BY DEF Segment
<1>3. p \in {c, SendRst(c, s.ack), z, x} \/ (p = y /\ AcksOurSyn(c, s))
  BY DEF ProcessSegmentInSynSent, Started
<1>0. ts \in SUBSET (Timers \ SendTimers)
  BY DEF Timers, SendTimers
<1> HIDE DEF p, m, ts, ac
<1>4. SendReady(c) /\ SendReady(SendRst(c, s.ack))
  BY <1>1, <1>2, AlikeRefl, KeepsRefl, SendRstStill, SendRstOK, IgnoredReady
<1>5. SendReady(z)
  <2>1. Still(c, i) /\ IsTCB(i)
    BY <1>1, IndicateStill, AlikeType DEF Indications
  <2> HIDE DEF i
  <2>2. IsTCB(z) /\ z.st = "SYN_SENT" /\ z.event = "RCV_RST"
    BY <2>1, EventStill DEF Events, Still, Alike
  <2> HIDE DEF z
  <2> QED  BY <2>2, SendStateFacts, ClosesSendReady
<1> HIDE DEF z, i
<1>6. Still(c, d) /\ IsTCB(d)
  BY <1>1, <1>2, SynReceivedStill, AlikeType
<1> HIDE DEF d
<1>7. /\ d.st = "SYN_SENT" /\ d.active /\ ~d.send_fin /\ d.snd_una = d.iss
      /\ SynOrdered(d) /\ d.timers \cap SendTimers = {}
  BY <1>1, <1>6, StillInv DEF SendInvAt, SynStates, Still, Alike
<1>8. SendReady(x)
  <2>1. SynOut(d, k) /\ IsTCB(k)
    BY <1>6, SendSynAckOut DEF SynOut
  <2> HIDE DEF k
  <2>2. SynOut(d, x) /\ x.event = "RCV_SYN"
    BY <1>0, <2>1, StartedStill, SynOutStill
  <2> HIDE DEF x
  <2> QED  BY <1>6, <1>7, <2>2, SynReceivedReady DEF SynOrdered
<1> HIDE DEF x, k
<1>9. ASSUME AcksOurSyn(c, s) PROVE SendReady(y)
  <2>1. /\ d.iss \in Int /\ d.snd_nxt \in Int /\ d.snd_max \in Int /\ d.qEnd \in Int
        /\ d.iss < ac /\ ac <= d.snd_nxt
    BY <1>2, <1>6, <1>9, NumberTypes DEF AcksOurSyn, Still, Alike
  <2>2. /\ IsTCB(o) /\ o.st = "SYN_SENT" /\ o.iss = d.iss /\ o.snd_una = ac
        /\ o.snd_nxt = d.snd_nxt /\ o.snd_max = d.snd_max /\ o.qEnd = d.qEnd
        /\ o.send_fin = d.send_fin /\ o.snd_fin_seq = d.snd_fin_seq
        /\ o.appClosed = d.appClosed
    BY ZenonT(60), <1>2, <1>6, <1>7 DEF IsTCB, TCBFields
  <2> HIDE DEF o
  <2>3. SendOrdered(o)
    BY <1>2, <1>7, <2>1, <2>2 DEF SynOrdered, SendOrdered
  <2>4. Still(o, u) /\ IsTCB(u)
    BY <1>2, <2>2, DiscardUpToStill, AlikeType
  <2> HIDE DEF u
  <2>5. Still(o, e) /\ IsTCB(e)
    BY <2>4, InitWndInfoStill, AlikeTrans, AlikeType
  <2> HIDE DEF e
  <2>6. Still(e, a)
    BY ZenonT(60), <2>5 DEF Still, Alike, IsTCB, TCBFields
  <2> HIDE DEF a
  <2>7. IsTCB(a) /\ SendOrdered(a) /\ a.st = "SYN_SENT"
    BY <2>2, <2>3, <2>5, <2>6, AlikeOrdered DEF Still, Alike
  <2>8. IsTCB(f) /\ SendOrdered(f) /\ f.st = "SYN_SENT"
    BY <2>7, EstablishedActiveOK, EstablishedActiveOrdered DEF Keeps
  <2> HIDE DEF f
  <2>9. Still(f, j) /\ IsTCB(j)
    BY <2>8, IndicateStill, AlikeType DEF Indications
  <2> HIDE DEF j
  <2>10. Still(f, y) /\ y.event = "RCV_SYN_ACK"
    BY <2>9, EventStill, AlikeTrans DEF Events
  <2> HIDE DEF y
  <2>11. IsTCB(y) /\ y.st = "SYN_SENT" /\ SendOrdered(y)
    BY <2>8, <2>10, AlikeOrdered DEF Still, Alike
  <2>12. NextState(y, y.event) = "ESTABLISHED"
    BY <2>10, <2>11, SendStateFacts
  <2> QED  BY <2>11, <2>12 DEF SendReady, SendInvAt, SynStates
<1> HIDE DEF y
<1> QED  BY <1>3, <1>4, <1>5, <1>8, <1>9 DEF p

LEMMA SegmentArrivalWhileClosedSends ==
    ASSUME NEW c, Rests(c), SendInv(c), c.st \in {"INIT", "CLOSED"}, NEW s \in Segment
    PROVE  SendReady(SegmentArrivalWhileClosed(c, s))
<1> DEFINE r == SegmentArrivalWhileClosed(c, s)
           g == Seg({"RST", "ACK"}, 0, s.seq + SegLen(s), 0, 0)
<1>1. IsTCB(c) /\ c.event = "IGNORE" /\ s.ack \in Int
  BY DEF Rests, ConnInv, Segment
<1>2. g \in Segment
  <2>1. s.seq + SegLen(s) \in Int
    BY DEF Segment, SegLen
  <2> QED  BY <2>1, SegType DEF Flags
<1>3. r \in {c, SendRst(c, s.ack), Emit(c, g)}
  BY DEF SegmentArrivalWhileClosed
<1> HIDE DEF r, g
<1>4. /\ SendReady(c) /\ SendReady(SendRst(c, s.ack)) /\ SendReady(Emit(c, g))
  BY <1>1, <1>2, AlikeRefl, KeepsRefl, SendRstStill, SendRstOK, EmitStill, EmitOK,
     IgnoredReady
<1> QED  BY <1>3, <1>4 DEF r

LEMMA ProcessRcvSegmentSends ==
    ASSUME NEW c, Rests(c), SendInv(c), NEW s \in Segment, NEW w \in Int
    PROVE  SendReady(ProcessRcvSegment(c, s, w))
<1>1. CASE c.st \in {"INIT", "CLOSED"}
  BY <1>1, SegmentArrivalWhileClosedSends DEF ProcessRcvSegment
<1>2. CASE c.st = "LISTEN"
  BY <1>2, ProcessSegmentInListenSends DEF ProcessRcvSegment
<1>3. CASE c.st = "SYN_SENT"
  BY <1>3, ProcessSegmentInSynSentSends DEF ProcessRcvSegment
<1>4. CASE c.st \notin {"INIT", "CLOSED", "LISTEN", "SYN_SENT"}
  <2> DEFINE p == ProcessSegment1stThru8th(c, s, w)
  <2>0. ProcessRcvSegment(c, s, w) = p
    BY <1>4 DEF ProcessRcvSegment
  <2>1. Opened(c) /\ c.st \in States
    BY <1>4 DEF Opened, Rests, ConnInv, IsTCB
  <2>2. IsTCB(p) /\ p.st = c.st
    BY <2>1, ProcessSegment1stThru8thReturns DEF Returns
  <2>3. c.st \in DataStates \cup {"SYN_RCVD"} => SendReady(p)
    BY <2>1, ProcessSegment1stThru8thSends
  <2> HIDE DEF p
  <2>4. c.st = "TIME_WAIT" => SendReady(p)
    BY <2>2, DoneReady
  <2> QED  BY <1>4, <2>0, <2>1, <2>3, <2>4 DEF States, SynStates
<1> QED  BY <1>1, <1>2, <1>3, <1>4

LEMMA ProcessSendSends ==
    ASSUME NEW c, Rests(c), SendInv(c), ~c.appClosed,
           \/ c.st \in SynStates /\ c.active
           \/ c.st \in {"ESTABLISHED", "CLOSE_WAIT"},
           NEW n \in Nat, NEW w \in Int
    PROVE  SendReady(ProcessSend(c, n, w))
<1> DEFINE q == c.qEnd + n
           a == [c EXCEPT !.qEnd = q]
           d == Event(a, "SEND")
           r == SendCommandInvoked(d, w)
<1>1. /\ IsTCB(c) /\ SendInvAt(c, c.st)
      /\ c.iss \in Int /\ c.snd_max \in Int /\ c.qEnd \in Int
  BY NumberTypes DEF Rests, ConnInv, SendInv
<1>2. q \in Int /\ c.qEnd <= q
  BY <1>1
<1>3. ProcessSend(c, n, w) = IF c.st \in {"ESTABLISHED", "CLOSE_WAIT"} THEN r ELSE d
  BY DEF ProcessSend
<1> HIDE DEF q
<1>4. /\ IsTCB(a) /\ a.st = c.st /\ a.active = c.active /\ a.iss = c.iss
      /\ a.snd_una = c.snd_una /\ a.snd_nxt = c.snd_nxt /\ a.snd_max = c.snd_max
      /\ a.qEnd = q /\ a.send_fin = c.send_fin /\ a.snd_fin_seq = c.snd_fin_seq
      /\ a.appClosed = c.appClosed /\ a.timers = c.timers
  BY ZenonT(60), <1>1, <1>2 DEF IsTCB, TCBFields
<1> HIDE DEF a
<1>5. SendOrdered(c) => SendOrdered(a) /\ ~c.send_fin
  BY <1>1, <1>2, <1>4 DEF SendOrdered
<1>6. Still(a, d) /\ d.event = "SEND" /\ IsTCB(d) /\ d.st = c.st
  BY <1>4, EventStill DEF Events, Still, Alike
<1> HIDE DEF d
<1>7. CASE c.st \in {"ESTABLISHED", "CLOSE_WAIT"}
  <2>1. c.st \in DataStates
    BY <1>7 DEF DataStates
  <2>2. SendOrdered(d)
    BY <1>1, <1>5, <1>6, <2>1, AlikeOrdered DEF SendInvAt, Still
  <2>3. IsTCB(r) /\ r.st = c.st /\ SendOrdered(r)
    BY <1>6, <2>2, SendCommandInvokedOK, SendCommandInvokedOrdered DEF Keeps
  <2> HIDE DEF r
  <2> QED  BY <1>3, <1>7, <2>1, <2>3, DataReady
<1>8. CASE c.st \in SynStates /\ c.active
  <2>1. SynOrdered(c) /\ c.st \notin DataStates
    BY <1>1, <1>8 DEF SendInvAt, SynStates, DataStates
  <2>2. SynOrdered(a)
    BY <1>1, <1>2, <1>4, <1>5, <2>1 DEF SynOrdered
  <2>3. SendInvAt(a, c.st)
    BY <1>1, <1>4, <1>8, <2>1, <2>2 DEF SendInvAt, SynStates
  <2>4. SendInvAt(d, c.st) /\ NextState(d, d.event) = c.st
    BY <1>6, <2>3, StillInv, SendStateFacts
  <2>5. c.st \notin {"ESTABLISHED", "CLOSE_WAIT"}
    BY <1>8 DEF SynStates
  <2> QED  BY <1>3, <1>6, <2>4, <2>5 DEF SendReady
<1> QED  BY <1>7, <1>8

LEMMA ProcessCloseSends ==
    ASSUME NEW c, Opened(c), SendInv(c), ~c.appClosed PROVE SendReady(ProcessClose(c))
<1> DEFINE d == [c EXCEPT !.appClosed = TRUE]
           e == [d EXCEPT !.send_fin = TRUE, !.snd_fin_seq = c.qEnd]
           s == SendFin(e, c.snd_max)
           f == RestartRexmitTimer(s)
           x == Event(d, "CLOSE")
           y == Event(f, "CLOSE")
<1>1. /\ IsTCB(c) /\ SendInvAt(c, c.st) /\ c.event = "IGNORE"
      /\ c.st \notin {"INIT", "CLOSED"} /\ c.st \in States
      /\ c.iss \in Int /\ c.snd_max \in Int /\ c.qEnd \in Int
  BY NumberTypes DEF Opened, Rests, ConnInv, SendInv, IsTCB
<1>2. ProcessClose(c) = IF c.st \in {"LISTEN", "SYN_SENT"} THEN x
                        ELSE IF c.snd_max # c.qEnd THEN e ELSE y
  BY DEF ProcessClose
<1>3. IsTCB(d) /\ d.st = c.st
  BY ZenonT(60), <1>1 DEF IsTCB, TCBFields
<1>4. /\ IsTCB(e) /\ e.st = c.st /\ e.active = c.active /\ e.iss = c.iss
      /\ e.snd_una = c.snd_una /\ e.snd_nxt = c.snd_nxt /\ e.snd_max = c.snd_max
      /\ e.qEnd = c.qEnd /\ e.send_fin = TRUE /\ e.snd_fin_seq = c.qEnd
      /\ e.appClosed = TRUE /\ e.timers = c.timers /\ e.event = "IGNORE"
  BY ZenonT(60), <1>1 DEF IsTCB, TCBFields
<1> HIDE DEF d, e
<1>5. IsTCB(s) /\ s.st = c.st
  BY <1>1, <1>4, SendFinSends
<1>6. SendOrdered(c) /\ c.snd_max = c.qEnd => SendOrdered(s)
  <2>1. SendOrdered(c) /\ c.snd_max = c.qEnd =>
          e.iss <= e.snd_una /\ e.snd_una <= e.qEnd + 1
    BY <1>1, <1>4, NumberTypes DEF SendOrdered
  <2> QED  BY <1>4, <2>1, SendFinOrdered
<1> HIDE DEF s
<1>7. Alike(s, f) /\ IsTCB(f)
  BY <1>5, RestartRexmitTimerAlike, AlikeType
<1> HIDE DEF f
<1>8. Alike(s, y) /\ IsTCB(y) /\ y.event = "CLOSE" /\ y.st = c.st
  BY <1>5, <1>7, EventStill, AlikeTrans DEF Events, Still, Alike
<1> HIDE DEF y
<1>9. IsTCB(x) /\ x.event = "CLOSE" /\ x.st = c.st
  BY <1>3, EventStill DEF Events, Still, Alike
<1> HIDE DEF x
<1>10. CASE c.st \in {"LISTEN", "SYN_SENT"}
  BY <1>2, <1>9, <1>10, SendStateFacts, ClosesSendReady
<1>11. CASE c.st \in DataStates
  <2>1. c.st \notin {"LISTEN", "SYN_SENT"} /\ SendOrdered(c)
    BY <1>1, <1>11 DEF DataStates, SendInvAt
  <2>2. CASE c.snd_max # c.qEnd
    <3>1. SendOrdered(e)
      BY <1>4, <2>1, <2>2 DEF SendOrdered
    <3> QED  BY <1>2, <1>4, <1>11, <2>1, <2>2, <3>1, DataReady
  <2>3. CASE c.snd_max = c.qEnd
    <3>1. SendOrdered(y)
      BY <1>6, <1>8, <2>1, <2>3, AlikeOrdered
    <3> QED  BY <1>2, <1>8, <1>11, <2>1, <2>3, <3>1, DataReady
  <2> QED  BY <2>2, <2>3
<1>12. CASE c.st = "SYN_RCVD"
  <2>1. SynOrdered(c) /\ SendOrdered(c) /\ c.timers \cap SendTimers = {}
    BY <1>1, <1>12 DEF SendInvAt, SynStates, SynOrdered
  <2>2. CASE c.snd_max # c.qEnd
    <3>1. c.active
      BY <1>1, <1>12, <2>1, <2>2 DEF SendInvAt, SynOrdered
    <3>2. SendOrdered(e)
      BY <1>4, <2>1, <2>2 DEF SendOrdered
    <3>3. SynOrdered(e)
      BY <1>4, <2>1, <3>2 DEF SynOrdered
    <3>4. SendInvAt(e, "SYN_RCVD")
      BY <1>4, <2>1, <3>1, <3>3 DEF SendInvAt, DataStates
    <3>5. NextState(e, e.event) = "SYN_RCVD"
      BY <1>4, <1>12, NextStateFacts
    <3> QED  BY <1>2, <1>4, <1>12, <2>2, <3>4, <3>5 DEF SendReady
  <2>3. CASE c.snd_max = c.qEnd
    <3>1. SendOrdered(y)
      BY <1>6, <1>8, <2>1, <2>3, AlikeOrdered
    <3> QED  BY <1>2, <1>8, <1>12, <2>3, <3>1, EndsReady DEF HandshakeEnds
  <2> QED  BY <2>2, <2>3
<1>13. CASE c.st = "TIME_WAIT"
  BY <1>2, <1>4, <1>8, <1>13, DoneReady
<1> QED  BY <1>1, <1>10, <1>11, <1>12, <1>13 DEF States, SynStates

LEMMA ProcessAbortSends == ASSUME NEW c, Opened(c) PROVE SendReady(ProcessAbort(c))
<1> DEFINE d == [c EXCEPT !.appClosed = TRUE]
           r == SendRst(d, c.snd_nxt)
<1>1. IsTCB(c) /\ c.st # "INIT" /\ c.snd_nxt \in Int
  BY NumberTypes DEF Opened, Rests, ConnInv
<1>2. ProcessAbort(c) \in {Event(d, "ABORT"), Event(r, "ABORT")}
  BY DEF ProcessAbort
<1>3. IsTCB(d) /\ d.st = c.st
  BY ZenonT(60), <1>1 DEF IsTCB, TCBFields
<1> HIDE DEF d
<1>4. IsTCB(r) /\ r.st = c.st
  BY <1>1, <1>3, SendRstStill DEF Still, Alike
<1> HIDE DEF r
<1>5. ASSUME NEW x, IsTCB(x), x.st = c.st PROVE SendReady(Event(x, "ABORT"))
  <2> DEFINE y == Event(x, "ABORT")
  <2>1. IsTCB(y) /\ y.st # "INIT" /\ y.event = "ABORT"
    BY <1>1, <1>5, EventFacts DEF Events
  <2> HIDE DEF y
  <2>2. SendReady(y)
    BY <2>1, NextStateFacts, ClosesSendReady
  <2> QED  BY <2>2 DEF y
<1> QED  BY <1>2, <1>3, <1>4, <1>5

LEMMA ProcessTimeoutConnEstabSends ==
    ASSUME NEW c, Rests(c), SendInv(c), "CONN_ESTAB" \in c.timers
    PROVE  SendReady(ProcessTimeoutConnEstab(c))
<1> DEFINE a == CancelEvents(c, {"CONN_ESTAB"})
           b == c.st \in SynStates
           d == Require(a, b)
           e == IF c.active THEN Indicate(d, "TIMED_OUT") ELSE d
           x == Event(e, "TIMEOUT_CONN_ESTAB")
<1>1. IsTCB(c) /\ c.st \in SynStates
  BY DEF Rests, ConnInv, HandshakeTimed
<1>2. Still(c, a) /\ IsTCB(a)
  BY <1>1, CancelEventsStill, AlikeType
<1> HIDE DEF a
<1>3. Still(c, d) /\ IsTCB(d)
  <2>1. b \in BOOLEAN
    OBVIOUS
  <2> HIDE DEF b
  <2>2. Still(a, d)
    BY <1>2, <2>1, RequireStill
  <2> QED  BY <1>2, <2>2, AlikeTrans, AlikeType
<1> HIDE DEF d
<1>4. Still(c, e) /\ IsTCB(e)
  BY <1>3, IndicateStill, AlikeTrans, AlikeType DEF Indications
<1> HIDE DEF e
<1>5. Still(c, x) /\ IsTCB(x) /\ x.st = c.st /\ x.event = "TIMEOUT_CONN_ESTAB"
  BY <1>4, EventStill, AlikeTrans DEF Events, Still, Alike
<1> HIDE DEF x
<1>6. c.st = "SYN_SENT" => SendReady(x)
  BY <1>5, SendStateFacts, ClosesSendReady
<1>7. c.st = "SYN_RCVD" => SendReady(x)
  BY <1>5, FailsReady
<1> QED  BY <1>1, <1>6, <1>7 DEF SynStates, ProcessTimeoutConnEstab, x, e, d, a

LEMMA ProcessTimeout2MSLSends ==
    ASSUME NEW c, Rests(c), SendInv(c) PROVE SendReady(ProcessTimeout2MSL(c))
<1> DEFINE a == CancelEvents(c, {"2MSL"})
           b == c.st = "TIME_WAIT"
           d == Require(a, b)
           x == Event(d, "TIMEOUT_2MSL")
<1>1. IsTCB(c)
  BY DEF Rests, ConnInv
<1>2. Still(c, a) /\ IsTCB(a)
  BY <1>1, CancelEventsStill, AlikeType
<1> HIDE DEF a
<1>3. Still(c, d) /\ IsTCB(d)
  <2>1. b \in BOOLEAN
    OBVIOUS
  <2> HIDE DEF b
  <2>2. Still(a, d)
    BY <1>2, <2>1, RequireStill
  <2> QED  BY <1>2, <2>2, AlikeTrans, AlikeType
<1> HIDE DEF d
<1>4. Still(c, x) /\ IsTCB(x) /\ x.st = c.st /\ x.event = "TIMEOUT_2MSL"
  BY <1>3, EventStill, AlikeTrans DEF Events, Still, Alike
<1> HIDE DEF x
<1>5. SendReady(x)
  <2>1. CASE c.st = "TIME_WAIT"
    BY <1>4, <2>1, DoneReady
  <2>2. CASE c.st # "TIME_WAIT"
    BY <1>4, <2>2, NextStateFacts, StillReady
  <2> QED  BY <2>1, <2>2
<1> QED  BY <1>5 DEF ProcessTimeout2MSL, x, d, a

LEMMA ProcessTimeoutSynRexmitSends ==
    ASSUME NEW c, Rests(c), SendInv(c), "SYN_REXMIT" \in c.timers
    PROVE  SendReady(ProcessTimeoutSynRexmit(c))
<1> DEFINE a == CancelEvents(c, {"SYN_REXMIT"})
           n == a.syn_rexmit_count + 1
           d == [a EXCEPT !.syn_rexmit_count = n]
           e == CASE c.st = "SYN_SENT" -> SendSyn(d)
                  [] c.st = "SYN_RCVD" -> SendSynAck(d)
                  [] OTHER -> Require(d, FALSE)
           x == Event(d, "ABORT")
           y == ScheduleTimeout(e, "SYN_REXMIT")
<1>1. IsTCB(c) /\ c.st \in SynStates /\ c.event = "IGNORE" /\ SynOrdered(c)
  BY DEF Rests, ConnInv, HandshakeTimed, SendInv, SendInvAt, SynStates
<1>2. Still(c, a) /\ IsTCB(a) /\ a.event = "IGNORE"
  <2>1. Still(c, a) /\ IsTCB(a)
    BY <1>1, CancelEventsStill, AlikeType
  <2>2. a.event = "IGNORE"
    BY <1>1 DEF CancelEvents, IsTCB, TCBFields
  <2> QED  BY <2>1, <2>2
<1>3. ProcessTimeoutSynRexmit(c) = IF SynRexmitsExhausted(d) THEN x ELSE y
  BY DEF ProcessTimeoutSynRexmit
<1> HIDE DEF a
<1>4. n \in Int
  <2>1. a.syn_rexmit_count \in Int
    BY <1>2 DEF IsTCB
  <2> QED  BY <2>1
<1> HIDE DEF n
<1>5. Still(a, d) /\ IsTCB(d) /\ d.event = "IGNORE"
  BY ZenonT(60), <1>2, <1>4 DEF Still, Alike, IsTCB, TCBFields
<1> HIDE DEF d
<1>6. Still(c, d) /\ d.st = c.st /\ SynOrdered(d)
  BY <1>1, <1>2, <1>5, AlikeTrans, AlikeOrdered DEF Still, Alike
<1>7. SendReady(x)
  <2>1. IsTCB(x) /\ x.st # "INIT" /\ x.event = "ABORT"
    BY <1>1, <1>5, <1>6, EventFacts DEF Events, SynStates
  <2> HIDE DEF x
  <2> QED  BY <2>1, NextStateFacts, ClosesSendReady
<1> HIDE DEF x
<1>8. SendReady(y)
  <2>1. SynOut(d, e) /\ Keeps(d, e)
    BY <1>1, <1>5, SendSynOut, SendSynAckOut, SendSynOK, SendSynAckOK DEF SynStates
  <2> HIDE DEF e
  <2>2. Still(d, e) /\ IsTCB(e) /\ e.event = "IGNORE"
    BY <1>5, <1>6, <2>1, SynAgainOrdered, AlikeType DEF Keeps
  <2>3. Still(e, y)
    BY <2>2, ScheduleTimeoutStill DEF Timers, SendTimers
  <2>4. y.event = "IGNORE"
    BY <2>2 DEF ScheduleTimeout, IsTCB, TCBFields
  <2> HIDE DEF y
  <2>5. Still(c, y) /\ IsTCB(y)
    BY <1>6, <2>2, <2>3, AlikeTrans, AlikeType
  <2>6. NextState(y, y.event) = y.st
    BY <2>4, <2>5, NextStateFacts
  <2> QED  BY <2>5, <2>6, StillReady
<1> HIDE DEF y
<1> QED  BY <1>3, <1>7, <1>8

\* The retransmission and the persist timer belong to states where data flows.
LEMMA SendTimed ==
    ASSUME NEW c, Rests(c), SendInv(c), NEW t \in SendTimers, t \in c.timers
    PROVE  c.st \in DataStates \cup {"TIME_WAIT"}
<1>1. c.st \in States /\ c.st # "CLOSED"
  BY DEF Rests, ConnInv, IsTCB, IdleHasNoTimers
<1>2. c.st \notin {"INIT", "LISTEN"} \cup SynStates
  BY DEF SendInv, SendInvAt
<1> QED  BY <1>1, <1>2 DEF States

LEMMA ProcessRexmitTimerSends ==
    ASSUME NEW c, Rests(c), SendInv(c), "REXMIT" \in c.timers
    PROVE  SendReady(ProcessRexmitTimer(c))
<1> DEFINE a == CancelEvents(c, {"REXMIT"})
           n == a.rexmit_count + 1
           d == [a EXCEPT !.rexmit_count = n]
           i == Indicate(d, "TIMED_OUT")
           x == Event(i, "ABORT")
           s == ScheduleTimeout(d, "REXMIT")
           e == [s EXCEPT !.afterRto = TRUE]
           y == RetransmitOneSegment(e, TRUE)
<1>1. IsTCB(c) /\ c.st \in DataStates \cup {"TIME_WAIT"} /\ SendInvAt(c, c.st)
  BY SendTimed DEF Rests, ConnInv, SendInv, SendTimers
<1>2. Alike(c, a) /\ IsTCB(a)
  BY <1>1, CancelEventsStill, AlikeType
<1>3. ProcessRexmitTimer(c) \in {x, y}
  BY DEF ProcessRexmitTimer
<1> HIDE DEF a
<1>4. n \in Int
  <2>1. a.rexmit_count \in Int
    BY <1>2 DEF IsTCB
  <2> QED  BY <2>1
<1> HIDE DEF n
<1>5. Alike(a, d) /\ IsTCB(d)
  BY ZenonT(60), <1>2, <1>4 DEF Alike, IsTCB, TCBFields
<1> HIDE DEF d
<1>6. Alike(d, s) /\ IsTCB(s)
  <2> DEFINE b == d.fault \/ "REXMIT" \in d.timers
             u == d.timers \cup {"REXMIT"}
  <2>1. IsTCB(d) /\ b \in BOOLEAN /\ u \in SUBSET Timers
    BY <1>5 DEF IsTCB, Timers
  <2>2. s = [d EXCEPT !.fault = b, !.timers = u]
    BY DEF ScheduleTimeout
  <2> HIDE DEF b, u, s
  <2>3. IsTCB(s)
    BY ZenonT(60), <2>1, <2>2 DEF IsTCB, TCBFields
  <2>4. Alike(d, s)
    BY ZenonT(60), <2>1, <2>2 DEF Alike, IsTCB, TCBFields
  <2> QED  BY <2>3, <2>4
<1> HIDE DEF s
<1>7. Alike(s, e) /\ IsTCB(e)
  BY ZenonT(60), <1>6 DEF Alike, IsTCB, TCBFields
<1> HIDE DEF e
<1>8. Alike(c, e)
  BY <1>2, <1>5, <1>6, <1>7, AlikeTrans
<1>9. IsTCB(y) /\ y.st = c.st /\ (SendOrdered(c) => SendOrdered(y))
  BY <1>7, <1>8, RetransmitOneSegmentOK, RetransmitOneSegmentOrdered, AlikeOrdered
     DEF Keeps, Alike
<1> HIDE DEF y
<1>10. SendReady(y)
  BY <1>1, <1>9, DataReady, DoneReady DEF SendInvAt
<1>11. SendReady(x)
  <2>1. Still(d, i) /\ IsTCB(i)
    BY <1>5, IndicateStill, AlikeType DEF Indications
  <2> HIDE DEF i
  <2>2. IsTCB(x) /\ x.event = "ABORT" /\ x.st # "INIT"
    BY <1>1, <1>2, <1>5, <2>1, EventStill DEF Events, Still, Alike, DataStates
  <2> HIDE DEF x
  <2> QED  BY <2>2, NextStateFacts, ClosesSendReady
<1> HIDE DEF x
<1> QED  BY <1>3, <1>10, <1>11

LEMMA ProcessPersistTimerSends ==
    ASSUME NEW c, Rests(c), SendInv(c), "PERSIST" \in c.timers
    PROVE  SendReady(ProcessPersistTimer(c))
<1> DEFINE y == SendProbe(c)
<1>1. IsTCB(c) /\ c.st \in DataStates \cup {"TIME_WAIT"} /\ SendInvAt(c, c.st)
  BY SendTimed DEF Rests, ConnInv, SendInv, SendTimers
<1>2. IsTCB(y) /\ y.st = c.st /\ (SendOrdered(c) => SendOrdered(y))
  BY <1>1, SendProbeOK, SendProbeOrdered DEF Keeps
<1> HIDE DEF y
<1>3. SendReady(y)
  BY <1>1, <1>2, DataReady, DoneReady DEF SendInvAt
<1> QED  BY <1>3 DEF ProcessPersistTimer, y

LEMMA ProcessDelayedAckTimerSends ==
    ASSUME NEW c, Rests(c), SendInv(c) PROVE SendReady(ProcessDelayedAckTimer(c))
<1> DEFINE a == CancelEvents(c, {"DELAYED_ACK"})
           d == [a EXCEPT !.ack_now = TRUE]
           y == SendAck(d)
<1>1. IsTCB(c) /\ c.event = "IGNORE"
  BY DEF Rests, ConnInv
<1>2. Still(c, a) /\ Keeps(c, a) /\ IsTCB(a)
  <2>1. {"DELAYED_ACK"} \cap LifeTimers = {}
    BY DEF LifeTimers
  <2> QED  BY <1>1, <2>1, CancelEventsStill, CancelEventsOK, KeepsType
<1> HIDE DEF a
<1>3. IsTCB(d) /\ Still(a, d) /\ Keeps(a, d)
  <2>1. IsTCB(a)
    BY <1>2, KeepsType
  <2>2. IsTCB(d)
    BY ZenonT(60), <2>1 DEF IsTCB, TCBFields
  <2>3. Keeps(a, d) /\ Still(a, d)
    BY <2>1, <2>2 DEF Keeps, Still, Alike, IsTCB, TCBFields
  <2> QED  BY <2>2, <2>3
<1> HIDE DEF d
<1>4. Still(d, y) /\ Keeps(d, y)
  BY <1>3, SendAckStill, SendAckOK
<1> HIDE DEF y
<1>5. Still(c, y) /\ Keeps(c, y)
  BY <1>2, <1>3, <1>4, AlikeTrans, KeepsTrans
<1>6. SendReady(y)
  BY <1>1, <1>5, IgnoredReady
<1> QED  BY <1>6 DEF ProcessDelayedAckTimer, y, d, a

-----------------------------------------------------------------------------
(* The steps of the two endpoints.                                         *)

LEMMA TransitionType == ASSUME NEW d, IsTCB(d) PROVE IsTCB(PerformStateTransition(d))
<1> DEFINE n == NextState(d, d.event)
           x == [d EXCEPT !.st = n]
           y == CancelEvents(x, HandshakeTimers)
           i == Indicate(y, "PEER_CLOSED")
           j == Indicate(x, "CLOSED")
<1>1. n \in States
  BY NextStateFacts
<1>2. PerformStateTransition(d) \in {d, StateEntered(x, d.st)}
  BY DEF PerformStateTransition
<1>3. StateEntered(x, d.st) \in {x, y, i, j, Removed(x), Removed(j)}
  BY DEF StateEntered
<1> HIDE DEF n
<1>4. IsTCB(x)
  BY ZenonT(60), <1>1 DEF IsTCB, TCBFields
<1> HIDE DEF x
<1>5. IsTCB(y)
  BY <1>4, CancelEventsStill, AlikeType
<1> HIDE DEF y
<1>6. IsTCB(i) /\ IsTCB(j)
  BY <1>4, <1>5, IndicateFacts DEF Indications
<1> HIDE DEF i, j
<1>7. IsTCB(Removed(x)) /\ IsTCB(Removed(j))
  BY <1>4, <1>6, RemovedOK DEF ConnInv
<1> QED  BY <1>2, <1>3, <1>4, <1>5, <1>6, <1>7

SendingInv == \A p \in Endpoints : SendInv(tcb[p])

LEMMA HandledSends ==
    ASSUME PeersInv, SendingInv, NEW p \in Endpoints, NEW c, SendReady(c), NEW rest,
           Handled(p, c, rest)
    PROVE  SendingInv'
<1> DEFINE d == PerformStateTransition(c)
           e == [d EXCEPT !.out = {}, !.event = "IGNORE"]
<1>1. SendInv(d)
  BY TransitionSends
<1>2. tcb' = [tcb EXCEPT ![p] = e]
  BY DEF Handled
<1>3. IsTCB(d)
  BY TransitionType DEF SendReady
<1> HIDE DEF d
<1>4. Still(d, e) /\ e.st = d.st
  BY ZenonT(60), <1>3 DEF Still, Alike, IsTCB, TCBFields, Events
<1> HIDE DEF e
<1>5. SendInv(e)
  BY <1>1, <1>4, StillInv DEF SendInv
<1>6. \A q \in Endpoints : tcb'[q] = IF q = p THEN e ELSE tcb[q]
  BY <1>2 DEF PeersInv
<1> QED  BY <1>5, <1>6 DEF SendingInv

LEMMA InitSends == Init => SendingInv
<1> SUFFICES ASSUME Init, NEW p \in Endpoints PROVE SendInv(tcb[p])
  BY DEF SendingInv
<1> DEFINE n == NewConnection
           i == IssBase(p)
<1>1. IsTCB(n) /\ n.st = "INIT" /\ n.timers = {} /\ ~n.send_fin
  BY NewConnectionOK DEF NewConnection
<1>2. tcb[p] = [n EXCEPT !.iss = i]
  BY DEF Init
<1> HIDE DEF n, i
<1>3. tcb[p].st = "INIT" /\ tcb[p].timers = {} /\ ~tcb[p].send_fin
  BY <1>1, <1>2 DEF IsTCB, TCBFields
<1> QED  BY <1>3 DEF SendInv, SendInvAt, DataStates, SynStates

LEMMA NextSends == PeersInv /\ SendingInv /\ [Next]_vars => SendingInv'
<1> SUFFICES ASSUME PeersInv, SendingInv, [Next]_vars PROVE SendingInv'
  OBVIOUS
<1>1. CASE UNCHANGED vars
  BY <1>1 DEF vars, SendingInv
<1>2. ASSUME NEW p \in Endpoints, Command(p) \/ SegmentArrives(p) \/ Timeout(p)
      PROVE  SendingInv'
  <2> DEFINE c == tcb[p]
  <2>1. Rests(c) /\ SendInv(c) /\ net[p] \in SUBSET Segment
    BY DEF PeersInv, SendingInv
  <2> HIDE DEF c
  <2>2. CASE OpenActive(p)
    BY <2>1, <2>2, ProcessOpenActiveSends, HandledSends DEF OpenActive, c
  <2>3. CASE OpenPassive(p)
    BY <2>1, <2>3, ProcessOpenPassiveSends, HandledSends DEF OpenPassive, c
  <2>4. CASE Send(p)
    <3>1. PICK n \in SendSizes, w \in Cwnds : Handled(p, ProcessSend(c, n, w), net[p])
      BY <2>4 DEF Send, c
    <3>2. /\ n \in Nat /\ w \in Int /\ ~c.appClosed
          /\ \/ c.st \in SynStates /\ c.active
             \/ c.st \in {"ESTABLISHED", "CLOSE_WAIT"}
      BY <2>4, PeersAssumption DEF Send, c
    <3>3. SendReady(ProcessSend(c, n, w))
      BY <2>1, <3>2, ProcessSendSends
    <3> QED  BY <3>1, <3>3, HandledSends
  <2>5. CASE Close(p)
    <3>1. Opened(c) /\ ~c.appClosed
      BY <2>1, <2>5, PeersAssumption DEF Close, Opened, c
    <3> QED  BY <2>1, <2>5, <3>1, ProcessCloseSends, HandledSends DEF Close, c
  <2>6. CASE Abort(p)
    <3>1. Opened(c)
      BY <2>1, <2>6 DEF Abort, Exists, Opened, c
    <3> QED  BY <2>6, <3>1, ProcessAbortSends, HandledSends DEF Abort, c
  <2>7. CASE SegmentArrives(p)
    <3>1. PICK s \in net[p], w \in Cwnds :
             \/ Handled(p, ProcessRcvSegment(c, s, w), net[p] \ {s})
             \/ Handled(p, ProcessRcvSegment(c, s, w), net[p])
      BY <2>7 DEF SegmentArrives, c
    <3>2. s \in Segment /\ w \in Int
      BY <2>1, PeersAssumption
    <3>3. SendReady(ProcessRcvSegment(c, s, w))
      BY <2>1, <3>2, ProcessRcvSegmentSends
    <3> QED  BY <3>1, <3>3, HandledSends
  <2>8. CASE TimeoutConnEstab(p)
    BY <2>1, <2>8, ProcessTimeoutConnEstabSends, HandledSends DEF TimeoutConnEstab, c
  <2>9. CASE Timeout2MSL(p)
    BY <2>1, <2>9, ProcessTimeout2MSLSends, HandledSends DEF Timeout2MSL, c
  <2>10. CASE TimeoutSynRexmit(p)
    BY <2>1, <2>10, ProcessTimeoutSynRexmitSends, HandledSends DEF TimeoutSynRexmit, c
  <2>11. CASE TimeoutRexmit(p)
    BY <2>1, <2>11, ProcessRexmitTimerSends, HandledSends DEF TimeoutRexmit, c
  <2>12. CASE TimeoutPersist(p)
    BY <2>1, <2>12, ProcessPersistTimerSends, HandledSends DEF TimeoutPersist, c
  <2>13. CASE TimeoutDelayedAck(p)
    BY <2>1, <2>13, ProcessDelayedAckTimerSends, HandledSends DEF TimeoutDelayedAck, c
  <2> QED  BY <1>2, <2>2, <2>3, <2>4, <2>5, <2>6, <2>7, <2>8, <2>9, <2>10, <2>11, <2>12,
              <2>13 DEF Command, Timeout
<1> QED  BY <1>1, <1>2 DEF Next

\* Whatever segments arrive, in whatever order, acknowledgements, text, SYN and
\* segment retransmissions, probes and deferred FINs leave the send variables
\* in order and inside the send queue: processAckInEstabEtc() never moves
\* snd_una past snd_max, and sendData(), retransmitOneSegment() and
\* sendProbe() send nothing behind the FIN.
THEOREM SndVarsAlwaysOrdered == Spec => []SndVarsOrdered
<1>1. SendingInv => SndVarsOrdered
  BY DEF SendingInv, SendInv, SendInvAt, SendOrdered, SndVarsOrdered, Synchronized
<1>2. Init => SendingInv
  BY InitSends
<1>3. PeersInv /\ SendingInv /\ [Next]_vars => SendingInv'
  BY NextSends
<1> QED  BY <1>1, <1>2, <1>3, PeersInvAlways, PTL DEF Spec

-----------------------------------------------------------------------------
(***************************************************************************)
(* What the two ends know of each other.  First the handlers' parts once   *)
(* more: what they send says no more than the connection knows, and what   *)
(* they receive they take from the segment.  Then an invariant of a pair   *)
(* of connections, and the segments between them: each expects, and takes  *)
(* for acknowledged, what the other can answer for.                        *)
(***************************************************************************)

\* d has the receive side of c.
SameRcv(c, d) ==
    /\ d.rcv_nxt = c.rcv_nxt /\ d.rq_nxt = c.rq_nxt /\ d.rcvq = c.rcvq
    /\ d.fin_rcvd = c.fin_rcvd /\ d.rcv_fin_seq = c.rcv_fin_seq

\* d sent nothing after c, and received nothing.
Idle(c, d) == SameRcv(c, d) /\ d.out = c.out

\* A segment that c sends after its SYN, and before it is d, has the next
\* byte c expects at that moment.
Says(s, c, d) ==
    /\ "ACK" \in s.flags /\ "SYN" \notin s.flags /\ "RST" \notin s.flags
    /\ c.rcv_nxt <= s.ack /\ s.ack <= d.rcv_nxt
    /\ "FIN" \in s.flags => d.send_fin

\* c became d: what it expects, and what it has sent, only grew, and the
\* segments it sent say so.
Talks(c, d) ==
    /\ IsTCB(d)
    /\ d.st = c.st /\ d.active = c.active /\ d.iss = c.iss /\ d.send_fin = c.send_fin
    /\ c.rcv_nxt <= d.rcv_nxt
    /\ \A s \in d.out \ c.out : Says(s, c, d)
    /\ SendOrdered(c) =>
          /\ SendOrdered(d) /\ c.snd_max <= d.snd_max
          /\ \A s \in d.out \ c.out : s.seq + SegLen(s) <= d.snd_max

\* Here it received nothing.
Sends(c, d) == Talks(c, d) /\ SameRcv(c, d) /\ d.snd_una = c.snd_una

LEMMA IdleTrans ==
    ASSUME NEW c, NEW d, NEW e, Idle(c, d), Idle(d, e) PROVE Idle(c, e)
BY DEF Idle, SameRcv

LEMMA IdleSends ==
    ASSUME NEW c, IsTCB(c), NEW d, Alike(c, d), Idle(c, d) PROVE Sends(c, d)
<1>1. c.rcv_nxt \in Int /\ c.snd_max \in Int
  BY NumberTypes
<1>2. SendOrdered(c) => SendOrdered(d)
  BY AlikeOrdered
<1> QED  BY <1>1, <1>2 DEF Sends, Talks, Alike, Idle, SameRcv

LEMMA TalksTrans ==
    ASSUME NEW c, IsTCB(c), NEW d, NEW e, Talks(c, d), Talks(d, e) PROVE Talks(c, e)
<1>1. /\ c.rcv_nxt \in Int /\ d.rcv_nxt \in Int /\ e.rcv_nxt \in Int
      /\ c.snd_max \in Int /\ d.snd_max \in Int /\ e.snd_max \in Int
      /\ d.out \in SUBSET Segment /\ e.out \in SUBSET Segment
  BY NumberTypes DEF Talks, IsTCB
<1>2. \A s \in Segment : s.ack \in Int /\ s.seq + SegLen(s) \in Int
  BY DEF Segment, SegLen
<1>3. ASSUME NEW s \in e.out \ c.out PROVE Says(s, c, e)
  BY <1>1, <1>2, <1>3 DEF Talks, Says
<1>4. ASSUME SendOrdered(c)
      PROVE  /\ SendOrdered(e) /\ c.snd_max <= e.snd_max
             /\ \A s \in e.out \ c.out : s.seq + SegLen(s) <= e.snd_max
  BY <1>1, <1>2, <1>4 DEF Talks
<1> QED  BY <1>1, <1>3, <1>4 DEF Talks

LEMMA SendsTrans ==
    ASSUME NEW c, IsTCB(c), NEW d, NEW e, Sends(c, d), Sends(d, e) PROVE Sends(c, e)
BY TalksTrans DEF Sends, SameRcv

LEMMA SendsRefl == ASSUME NEW c, IsTCB(c) PROVE Sends(c, c) /\ Talks(c, c)
<1>1. Sends(c, c)
  BY IdleSends, AlikeRefl DEF Idle, SameRcv
<1> QED  BY <1>1 DEF Sends

LEMMA SendsType == ASSUME NEW c, NEW d, Sends(c, d) PROVE IsTCB(d) /\ Talks(c, d)
BY DEF Sends, Talks

-----------------------------------------------------------------------------
(* Helpers that send nothing.                                              *)

LEMMA IndicateSends ==
    ASSUME NEW c, IsTCB(c), NEW i \in Indications PROVE Sends(c, Indicate(c, i))
<1>1. Idle(c, Indicate(c, i))
  BY ZenonT(60) DEF Indicate, Idle, SameRcv, IsTCB, TCBFields
<1> QED  BY <1>1, IndicateStill, AlikeType, IdleSends

LEMMA EventSends ==
    ASSUME NEW c, IsTCB(c), NEW e \in Events PROVE Sends(c, Event(c, e))
<1>1. Idle(c, Event(c, e))
  BY ZenonT(60) DEF Event, Idle, SameRcv, IsTCB, TCBFields
<1> QED  BY <1>1, EventStill, AlikeType, IdleSends

LEMMA RequireSends ==
    ASSUME NEW c, IsTCB(c), NEW b \in BOOLEAN PROVE Sends(c, Require(c, b))
<1>1. Idle(c, Require(c, b))
  BY ZenonT(60) DEF Require, Idle, SameRcv, IsTCB, TCBFields
<1> QED  BY <1>1, RequireStill, AlikeType, IdleSends

LEMMA CancelEventsSends ==
    ASSUME NEW c, IsTCB(c), NEW ts PROVE Sends(c, CancelEvents(c, ts))
<1>1. Idle(c, CancelEvents(c, ts))
  BY ZenonT(60) DEF CancelEvents, Idle, SameRcv, IsTCB, TCBFields
<1> QED  BY <1>1, CancelEventsStill, AlikeType, IdleSends

LEMMA ScheduleTimeoutIdle ==
    ASSUME NEW c, IsTCB(c), NEW t PROVE Idle(c, ScheduleTimeout(c, t))
BY ZenonT(60) DEF ScheduleTimeout, Idle, SameRcv, IsTCB, TCBFields

LEMMA DiscardUpToIdle ==
    ASSUME NEW c, IsTCB(c), NEW seq PROVE Idle(c, DiscardUpTo(c, seq))
BY ZenonT(60) DEF DiscardUpTo, Idle, SameRcv, IsTCB, TCBFields

LEMMA UpdateRcvWndIdle == ASSUME NEW c, IsTCB(c) PROVE Idle(c, UpdateRcvWnd(c))
BY ZenonT(60) DEF UpdateRcvWnd, Idle, SameRcv, IsTCB, TCBFields

LEMMA AckSentIdle == ASSUME NEW c, IsTCB(c) PROVE Idle(c, AckSent(c))
BY ZenonT(60) DEF AckSent, Idle, SameRcv, IsTCB, TCBFields

LEMMA SetDupacksSends ==
    ASSUME NEW c, IsTCB(c), NEW n \in Int PROVE Sends(c, [c EXCEPT !.dupacks = n])
<1> DEFINE d == [c EXCEPT !.dupacks = n]
<1>1. Idle(c, d)
  BY ZenonT(60) DEF Idle, SameRcv, IsTCB, TCBFields
<1>2. Alike(c, d)
  BY SetDupacksStill, AlikeType
<1> HIDE DEF d
<1> QED  BY <1>1, <1>2, IdleSends DEF d

LEMMA UpdateWndInfoSends ==
    ASSUME NEW c, IsTCB(c), NEW s \in Segment PROVE Sends(c, UpdateWndInfo(c, s))
<1>1. Idle(c, [c EXCEPT !.snd_wnd = s.wnd, !.snd_wl1 = s.seq, !.snd_wl2 = s.ack])
  BY ZenonT(60) DEF Idle, SameRcv, IsTCB, TCBFields
<1>2. Idle(c, UpdateWndInfo(c, s))
  BY <1>1 DEF UpdateWndInfo, Idle, SameRcv
<1> QED  BY <1>2, UpdateWndInfoStill, AlikeType, IdleSends

LEMMA InitWndInfoIdle ==
    ASSUME NEW c, IsTCB(c), NEW s PROVE Idle(c, InitWndInfo(c, s))
BY ZenonT(60) DEF InitWndInfo, Idle, SameRcv, IsTCB, TCBFields

LEMMA StartRexmitTimerIdle ==
    ASSUME NEW c, IsTCB(c) PROVE Idle(c, StartRexmitTimer(c))
<1> DEFINE d == [c EXCEPT !.rexmit_count = 0]
<1>1. Idle(c, d)
  BY ZenonT(60) DEF Idle, SameRcv, IsTCB, TCBFields
<1>2. IsTCB(d)
  BY SMTT(60) DEF IsTCB, TCBFields
<1> HIDE DEF d
<1> QED  BY <1>1, <1>2, ScheduleTimeoutIdle, IdleTrans DEF StartRexmitTimer, d

LEMMA StartRexmitTimerSends ==
    ASSUME NEW c, IsTCB(c) PROVE Sends(c, StartRexmitTimer(c))
BY StartRexmitTimerIdle, StartRexmitTimerAlike, IdleSends

LEMMA RestartRexmitTimerSends ==
    ASSUME NEW c, IsTCB(c) PROVE Sends(c, RestartRexmitTimer(c))
<1>1. Sends(c, CancelEvents(c, {"REXMIT"})) /\ IsTCB(CancelEvents(c, {"REXMIT"}))
  BY CancelEventsSends, SendsType
<1> QED  BY <1>1, StartRexmitTimerSends, SendsTrans DEF RestartRexmitTimer

LEMMA DataSentSends == ASSUME NEW c, IsTCB(c) PROVE Sends(c, DataSent(c))
BY StartRexmitTimerSends, SendsRefl DEF DataSent

LEMMA AckSentSends == ASSUME NEW c, IsTCB(c) PROVE Sends(c, AckSent(c))
BY AckSentIdle, AckSentStill, AlikeType, IdleSends

LEMMA UpdateRcvWndSends == ASSUME NEW c, IsTCB(c) PROVE Sends(c, UpdateRcvWnd(c))
BY UpdateRcvWndIdle, UpdateRcvWndStill, AlikeType, IdleSends

LEMMA Schedule2MSLSends ==
    ASSUME NEW c, IsTCB(c)
    PROVE  /\ Sends(c, ScheduleTimeout(c, "2MSL"))
           /\ Sends(c, ScheduleTimeout(CancelEvents(c, {"2MSL"}), "2MSL"))
<1> DEFINE d == CancelEvents(c, {"2MSL"})
<1>1. "2MSL" \in Timers \ SendTimers
  BY DEF Timers, SendTimers
<1>2. Sends(c, d) /\ IsTCB(d)
  BY CancelEventsSends, SendsType
<1> HIDE DEF d
<1>3. Sends(c, ScheduleTimeout(c, "2MSL")) /\ Sends(d, ScheduleTimeout(d, "2MSL"))
  BY <1>1, <1>2, ScheduleTimeoutIdle, ScheduleTimeoutStill, AlikeType, IdleSends
<1>4. Sends(c, ScheduleTimeout(d, "2MSL"))
  BY <1>2, <1>3, SendsTrans
<1> QED  BY <1>3, <1>4 DEF d

-----------------------------------------------------------------------------
(* Helpers that send.                                                      *)

LEMMA EmitSends ==
    ASSUME NEW c, IsTCB(c), NEW s \in Segment, Says(s, c, c),
           SendOrdered(c) => s.seq + SegLen(s) <= c.snd_max
    PROVE  Sends(c, Emit(c, s))
<1> DEFINE d == Emit(c, s)
<1>1. SameRcv(c, d) /\ d.out = c.out \cup {s}
  BY ZenonT(60) DEF Emit, SameRcv, IsTCB, TCBFields
<1>2. Alike(c, d)
  BY EmitStill, AlikeType
<1> HIDE DEF d
<1>3. SendOrdered(c) => SendOrdered(d)
  BY <1>2, AlikeOrdered
<1>4. c.rcv_nxt \in Int /\ c.snd_max \in Int
  BY NumberTypes
<1>5. \A x \in d.out \ c.out : x = s
  BY <1>1
<1>6. Says(s, c, d)
  BY <1>1, <1>2 DEF Says, SameRcv, Alike
<1>7. Sends(c, d)
  BY <1>1, <1>2, <1>3, <1>4, <1>5, <1>6 DEF Sends, Talks, SameRcv, Alike
<1> QED  BY <1>7 DEF d

LEMMA SendAckSends == ASSUME NEW c, IsTCB(c) PROVE Sends(c, SendAck(c))
<1> DEFINE d == UpdateRcvWnd(c)
           s == Seg({"ACK"}, c.snd_nxt, c.rcv_nxt, 0, d.rcv_wnd)
           f == Emit(d, s)
<1>1. Sends(c, d) /\ Alike(c, d) /\ IsTCB(d)
  BY UpdateRcvWndSends, UpdateRcvWndStill, AlikeType
<1> HIDE DEF d
<1>2. c.snd_nxt \in Int /\ c.rcv_nxt \in Int /\ d.rcv_wnd \in Int
  BY <1>1, NumberTypes DEF IsTCB
<1>3. s \in Segment
  BY <1>2, SegType DEF Flags
<1>4. /\ s.flags = {"ACK"} /\ s.ack = c.rcv_nxt /\ s.seq + SegLen(s) = c.snd_nxt
  BY <1>2 DEF Seg, SegLen
<1> HIDE DEF s
<1>5. Says(s, d, d) /\ (SendOrdered(d) => s.seq + SegLen(s) <= d.snd_max)
  BY <1>1, <1>2, <1>4 DEF Says, Sends, SameRcv, SendOrdered, Alike
<1>6. Sends(d, f) /\ IsTCB(f)
  BY <1>1, <1>3, <1>5, EmitSends, SendsType
<1> HIDE DEF f
<1>7. Sends(f, AckSent(f))
  BY <1>6, AckSentSends
<1>8. Sends(c, AckSent(f))
  BY <1>1, <1>6, <1>7, SendsTrans
<1> QED  BY <1>8 DEF SendAck, d, s, f

\* The FIN sendFin() sends, whatever the send variables are before.
LEMMA SendFinSays ==
    ASSUME NEW c, IsTCB(c), NEW seq \in Int, c.send_fin
    PROVE  LET d == SendFin(c, seq)
           IN  /\ SameRcv(c, d)
               /\ \A s \in d.out \ c.out : Says(s, c, d) /\ s.seq + SegLen(s) = seq + 1
<1> DEFINE d == UpdateRcvWnd(c)
           s == Seg({"FIN", "ACK"}, seq, c.rcv_nxt, 0, d.rcv_wnd)
           e == Emit(d, s)
           f == AckSent(e)
           n == seq + 1
           g == [f EXCEPT !.snd_nxt = n, !.snd_max = n]
<1>1. Idle(c, d) /\ IsTCB(d)
  BY UpdateRcvWndIdle, UpdateRcvWndStill, AlikeType
<1>0. SendFin(c, seq) = g
  BY DEF SendFin
<1> HIDE DEF d
<1>2. c.rcv_nxt \in Int /\ d.rcv_wnd \in Int
  BY <1>1, NumberTypes DEF IsTCB
<1>3. s \in Segment
  BY <1>2, SegType DEF Flags
<1>4. s.flags = {"FIN", "ACK"} /\ s.ack = c.rcv_nxt /\ s.seq + SegLen(s) = n
  BY <1>2 DEF Seg, SegLen
<1> HIDE DEF s, n
<1>5. SameRcv(d, e) /\ e.out = d.out \cup {s} /\ IsTCB(e)
  <2>1. SameRcv(d, e) /\ e.out = d.out \cup {s}
    BY ZenonT(60), <1>1 DEF Emit, SameRcv, IsTCB, TCBFields
  <2>2. IsTCB(e)
    BY <1>1, <1>3, EmitStill, AlikeType
  <2> QED  BY <2>1, <2>2
<1> HIDE DEF e
<1>6. Idle(e, f) /\ IsTCB(f)
  BY <1>5, AckSentIdle, AckSentStill, AlikeType
<1> HIDE DEF f
<1>7. Idle(f, g)
  BY ZenonT(60), <1>6 DEF Idle, SameRcv, IsTCB, TCBFields
<1> HIDE DEF g
<1>8. SameRcv(c, g) /\ g.out = c.out \cup {s}
  BY <1>1, <1>5, <1>6, <1>7 DEF Idle, SameRcv
<1>9. g.send_fin
  BY <1>0, SendFinSends
<1>10. Says(s, c, g) /\ s.seq + SegLen(s) = n
  BY <1>2, <1>4, <1>8, <1>9 DEF Says, SameRcv
<1> QED  BY <1>0, <1>8, <1>10 DEF n

\* The segments of sendSegment() end before the snd_nxt they leave.
LEMMA SendBytesSays ==
    ASSUME NEW c, IsTCB(c), NEW n \in Int
    PROVE  LET d == SendBytes(c, n)
           IN  /\ SameRcv(c, d)
               /\ \A s \in d.out \ c.out : Says(s, c, d) /\ s.seq + SegLen(s) <= d.snd_nxt
<1> DEFINE u    == UpdateRcvWnd(c)
           next == c.snd_nxt + n
           fin  == c.send_fin /\ next = c.snd_fin_seq
           nxt  == IF fin THEN next + 1 ELSE next
           ok   == c.qBegin <= c.snd_nxt /\ next <= c.qEnd
           late == next < c.snd_max
           ds   == DataSegments(u, n, fin)
           d    == [u EXCEPT !.snd_nxt = nxt, !.afterRto = @ /\ late,
                             !.out = @ \cup ds, !.fault = @ \/ ~ok]
<1>1. /\ Idle(c, u) /\ IsTCB(u) /\ Alike(c, u)
  BY UpdateRcvWndIdle, UpdateRcvWndStill, AlikeType
<1>2. SendBytes(c, n) = d
  BY DEF SendBytes
<1> HIDE DEF u
<1>3. /\ c.snd_nxt \in Int /\ c.rcv_nxt \in Int /\ MSS \in Int /\ MSS > 0
      /\ u.snd_nxt = c.snd_nxt /\ u.rcv_nxt = c.rcv_nxt
  BY <1>1, NumberTypes, ConstantTypes DEF Alike, Idle, SameRcv
<1>4. ASSUME NEW s \in ds
      PROVE  /\ s.ack = c.rcv_nxt /\ s.seq + SegLen(s) <= nxt
             /\ s.flags = {"ACK"} \/ (s.flags = {"FIN", "ACK"} /\ fin)
  <2>1. PICK off \in 0 .. n - 1 :
           s = Seg(IF fin /\ off + MSS >= n THEN {"FIN", "ACK"} ELSE {"ACK"},
                   u.snd_nxt + off, u.rcv_nxt, MinOf(MSS, n - off), u.rcv_wnd)
    BY <1>4 DEF DataSegments
  <2> DEFINE m == MinOf(MSS, n - off)
  <2>2. m \in Int /\ off + m <= n /\ off \in Int
    BY <1>3 DEF MinOf
  <2>3. /\ s.ack = c.rcv_nxt /\ s.seq = c.snd_nxt + off /\ s.len = m
        /\ s.flags = {"ACK"} \/ (s.flags = {"FIN", "ACK"} /\ fin)
    BY <1>3, <2>1 DEF Seg
  <2> HIDE DEF m
  <2>4. CASE s.flags = {"ACK"}
    <3>1. SegLen(s) = m
      BY <2>2, <2>3, <2>4 DEF SegLen
    <3> QED  BY <1>3, <2>2, <2>3, <3>1
  <2>5. CASE s.flags = {"FIN", "ACK"} /\ fin
    <3>1. SegLen(s) = m + 1
      BY <2>2, <2>3, <2>5 DEF SegLen
    <3> QED  BY <1>3, <2>2, <2>3, <2>5, <3>1
  <2> QED  BY <2>3, <2>4, <2>5
<1>5. fin => c.send_fin
  OBVIOUS
<1> HIDE DEF ds, ok, late, nxt, fin
<1>6. /\ SameRcv(u, d) /\ d.out = u.out \cup ds /\ d.snd_nxt = nxt
      /\ d.send_fin = u.send_fin
  BY ZenonT(60), <1>1 DEF SameRcv, IsTCB, TCBFields
<1> HIDE DEF d
<1>7. SameRcv(c, d) /\ d.out = c.out \cup ds /\ d.send_fin = c.send_fin
  BY <1>1, <1>6 DEF Idle, SameRcv, Alike
<1>8. ASSUME NEW s \in d.out \ c.out
      PROVE  Says(s, c, d) /\ s.seq + SegLen(s) <= d.snd_nxt
  <2>1. /\ s.ack = c.rcv_nxt /\ s.seq + SegLen(s) <= nxt
        /\ s.flags = {"ACK"} \/ (s.flags = {"FIN", "ACK"} /\ fin)
    BY <1>4, <1>7, <1>8
  <2>2. d.rcv_nxt = c.rcv_nxt
    BY <1>7 DEF SameRcv
  <2> QED  BY <1>3, <1>5, <1>6, <1>7, <2>1, <2>2 DEF Says
<1> QED  BY <1>2, <1>7, <1>8

LEMMA MoveSndNxtSame ==
    ASSUME NEW c, IsTCB(c), NEW n \in Int
    PROVE  LET d == [c EXCEPT !.snd_nxt = n]
           IN  /\ Idle(c, d) /\ IsTCB(d) /\ d.st = c.st /\ d.active = c.active
               /\ d.iss = c.iss /\ d.snd_una = c.snd_una /\ d.snd_max = c.snd_max
               /\ d.send_fin = c.send_fin
BY ZenonT(60) DEF Idle, SameRcv, IsTCB, TCBFields

LEMMA MoveSndNxtIdle ==
    ASSUME NEW c, IsTCB(c), NEW n \in Int,
           SendOrdered(c) => SendOrdered([c EXCEPT !.snd_nxt = n])
    PROVE  Sends(c, [c EXCEPT !.snd_nxt = n])
<1> DEFINE d == [c EXCEPT !.snd_nxt = n]
<1>1. /\ Idle(c, d) /\ IsTCB(d) /\ d.st = c.st /\ d.active = c.active
      /\ d.iss = c.iss /\ d.snd_una = c.snd_una /\ d.snd_max = c.snd_max
      /\ d.send_fin = c.send_fin
  BY MoveSndNxtSame
<1>2. c.rcv_nxt \in Int /\ c.snd_max \in Int
  BY NumberTypes
<1> HIDE DEF d
<1>3. SendOrdered(c) => SendOrdered(d)
  BY DEF d
<1>4. Sends(c, d)
  BY <1>1, <1>2, <1>3 DEF Sends, Talks, Idle, SameRcv
<1> QED  BY <1>4 DEF d

LEMMA RaiseSndMaxIdle == ASSUME NEW c, IsTCB(c) PROVE Idle(c, RaiseSndMax(c))
BY ZenonT(60) DEF RaiseSndMax, Idle, SameRcv, IsTCB, TCBFields

LEMMA SentSends ==
    ASSUME NEW c, IsTCB(c), NEW n \in Int, 0 < n, c.snd_nxt + n <= c.qEnd
    PROVE  Sends(c, DataSent(AckSent(RaiseSndMax(SendBytes(c, n)))))
<1> DEFINE d == SendBytes(c, n)
           e == RaiseSndMax(d)
           f == AckSent(e)
           g == DataSent(f)
<1>1. /\ IsTCB(d) /\ d.st = c.st /\ d.active = c.active /\ d.iss = c.iss
      /\ d.snd_una = c.snd_una /\ d.snd_max = c.snd_max /\ d.send_fin = c.send_fin
      /\ SameRcv(c, d)
      /\ \A s \in d.out \ c.out : Says(s, c, d) /\ s.seq + SegLen(s) <= d.snd_nxt
  BY SendBytesSends, SendBytesSays
<1>0. SendOrdered(c) => SendOrdered(g)
  BY SentOrdered
<1> HIDE DEF d
<1>2. /\ IsTCB(e) /\ e.st = d.st /\ e.active = d.active /\ e.iss = d.iss
      /\ e.snd_una = d.snd_una /\ e.send_fin = d.send_fin
      /\ e.snd_max = MaxOf(d.snd_max, d.snd_nxt) /\ Idle(d, e)
  BY <1>1, RaiseSndMaxSends, RaiseSndMaxIdle
<1> HIDE DEF e
<1>3. Sends(e, g) /\ Alike(e, g) /\ Idle(e, f)
  BY <1>2, AckSentSends, AckSentStill, AckSentIdle, SendsType, DataSentSends,
     DataSentAlike, SendsTrans, AlikeTrans DEF Still
<1>4. g.out = f.out
  <2>1. IsTCB(f)
    BY <1>2, AckSentStill, AlikeType
  <2> QED  BY <2>1, StartRexmitTimerIdle DEF DataSent, Idle
<1>5. g.out = d.out
  BY <1>2, <1>3, <1>4 DEF Idle
<1> HIDE DEF f, g
<1>6. /\ c.snd_max \in Int /\ d.snd_nxt \in Int /\ c.rcv_nxt \in Int
      /\ g.snd_max = MaxOf(c.snd_max, d.snd_nxt)
  BY <1>1, <1>2, <1>3, NumberTypes DEF Alike
<1>7. SameRcv(c, g) /\ g.send_fin = d.send_fin
  BY <1>1, <1>2, <1>3 DEF Sends, Idle, SameRcv, Alike
<1>8. ASSUME NEW s \in g.out \ c.out
      PROVE  Says(s, c, g) /\ s.seq + SegLen(s) <= g.snd_max
  <2>1. /\ Says(s, c, d) /\ s.seq + SegLen(s) <= d.snd_nxt
    BY <1>1, <1>5, <1>8
  <2>2. s \in Segment /\ d.rcv_nxt = c.rcv_nxt /\ g.rcv_nxt = c.rcv_nxt
    BY <1>1, <1>5, <1>7, <1>8 DEF IsTCB, SameRcv
  <2>3. s.seq + SegLen(s) \in Int
    BY <2>2 DEF Segment, SegLen
  <2> QED  BY <1>6, <1>7, <2>1, <2>2, <2>3 DEF Says, MaxOf
<1>9. c.snd_max <= g.snd_max /\ c.rcv_nxt <= g.rcv_nxt
  BY <1>6, <1>7 DEF MaxOf, SameRcv
<1>10. Sends(c, g)
  BY <1>0, <1>1, <1>2, <1>3, <1>7, <1>8, <1>9 DEF Sends, Talks, Alike
<1> QED  BY <1>10 DEF d, e, f, g

LEMMA FromSndMaxSends ==
    ASSUME NEW c, IsTCB(c)
    PROVE  LET d == [c EXCEPT !.snd_nxt = c.snd_max] IN Sends(c, d) /\ IsTCB(d)
<1> DEFINE m == c.snd_max
           d == [c EXCEPT !.snd_nxt = m]
<1>1. m \in Int
  BY NumberTypes
<1>2. SendOrdered(c) => SendOrdered(d)
  BY FromSndMax
<1> HIDE DEF m
<1>3. Sends(c, d)
  BY <1>1, <1>2, MoveSndNxtIdle
<1> HIDE DEF d
<1>4. IsTCB(d)
  BY <1>3, SendsType
<1> QED  BY <1>3, <1>4 DEF d, m

LEMMA SendDataSends ==
    ASSUME NEW c, IsTCB(c), NEW full \in BOOLEAN, NEW w \in Int
    PROVE  Sends(c, SendData(c, full, w))
<1> DEFINE d == IF c.afterRto THEN c ELSE [c EXCEPT !.snd_nxt = c.snd_max]
           n == BytesToSend(d, full, w)
           e == DataSent(AckSent(RaiseSndMax(SendBytes(d, n))))
<1>1. Sends(c, d) /\ IsTCB(d)
  BY FromSndMaxSends, SendsRefl
<1> HIDE DEF d
<1>2. n # 0 => n \in Int /\ 0 < n /\ d.snd_nxt + n <= d.qEnd
  BY <1>1, BytesToSendBound
<1>3. SendData(c, full, w) = IF n = 0 THEN d ELSE e
  BY DEF SendData, d
<1> HIDE DEF n
<1>4. n # 0 => Sends(d, e)
  BY <1>1, <1>2, SentSends
<1> HIDE DEF e
<1> QED  BY <1>1, <1>3, <1>4, SendsTrans

LEMMA SendProbeSends == ASSUME NEW c, IsTCB(c) PROVE Sends(c, SendProbe(c))
<1> DEFINE d == [c EXCEPT !.snd_nxt = c.snd_max]
           e == DataSent(AckSent(RaiseSndMax(SendBytes(d, 1))))
<1>1. Sends(c, d) /\ IsTCB(d)
  BY FromSndMaxSends
<1> HIDE DEF d
<1>2. d.snd_nxt \in Int /\ d.qEnd \in Int
  BY <1>1, NumberTypes
<1>3. SendProbe(c) = IF BytesAvailable(d, d.snd_nxt) = 0 THEN d ELSE e
  BY DEF SendProbe, d
<1>4. BytesAvailable(d, d.snd_nxt) # 0 => d.snd_nxt + 1 <= d.qEnd
  BY <1>2 DEF BytesAvailable
<1>5. BytesAvailable(d, d.snd_nxt) # 0 => Sends(d, e)
  BY <1>1, <1>4, SentSends
<1> HIDE DEF e
<1> QED  BY <1>1, <1>3, <1>5, SendsTrans

\* A FIN sent again, or sent for the first time.
LEMMA SendFinAgainSends ==
    ASSUME NEW c, IsTCB(c), c.send_fin PROVE Sends(c, SendFin(c, c.qEnd))
<1> DEFINE d == SendFin(c, c.qEnd)
<1>1. /\ c.iss \in Int /\ c.snd_una \in Int /\ c.snd_nxt \in Int /\ c.snd_max \in Int
      /\ c.qEnd \in Int /\ c.rcv_nxt \in Int
  BY NumberTypes
<1>2. /\ IsTCB(d) /\ d.st = c.st /\ d.active = c.active /\ d.iss = c.iss
      /\ d.snd_una = c.snd_una /\ d.send_fin = c.send_fin /\ d.snd_max = c.qEnd + 1
  BY ZenonT(60), <1>1, SendFinSends
<1>3. /\ SameRcv(c, d)
      /\ \A s \in d.out \ c.out : Says(s, c, d) /\ s.seq + SegLen(s) = c.qEnd + 1
  BY <1>1, SendFinSays
<1>4. ASSUME SendOrdered(c) PROVE SendOrdered(d) /\ c.snd_max <= d.snd_max
  <2>1. /\ c.iss <= c.snd_una /\ c.snd_una <= c.qEnd + 1 /\ c.snd_fin_seq = c.qEnd
        /\ c.appClosed /\ c.snd_max <= c.qEnd + 1
    BY <1>1, <1>4 DEF SendOrdered
  <2> QED  BY <1>2, <2>1, SendFinOrdered
<1> HIDE DEF d
<1>5. \A s \in d.out \ c.out : Says(s, c, d) /\ s.seq + SegLen(s) <= d.snd_max
  BY <1>1, <1>2, <1>3
<1>6. Sends(c, d)
  BY <1>1, <1>2, <1>3, <1>4, <1>5 DEF Sends, Talks, SameRcv
<1> QED  BY <1>6 DEF d

LEMMA RetransmitOneSegmentSends ==
    ASSUME NEW c, IsTCB(c), NEW atRto \in BOOLEAN
    PROVE  Sends(c, RetransmitOneSegment(c, atRto))
<1> DEFINE n == MinOf(MinOf(MSS, c.snd_max - c.snd_una), BytesAvailable(c, c.snd_una))
           b == [c EXCEPT !.snd_nxt = c.snd_una]
           d == SendBytes(b, n)
           r == Require(d, n # 0)
           m == IF atRto THEN r.snd_nxt ELSE MaxOf(r.snd_nxt, c.snd_nxt)
           a == [r EXCEPT !.snd_nxt = m]
           z == AckSent(a)
<1>1. /\ c.iss \in Int /\ c.snd_una \in Int /\ c.snd_nxt \in Int /\ c.snd_max \in Int
      /\ c.qEnd \in Int /\ c.snd_fin_seq \in Int /\ c.rcv_nxt \in Int
      /\ MSS \in Int /\ MSS > 0
  BY NumberTypes, ConstantTypes
<1>2. /\ n \in Int
      /\ SendOrdered(c) => 0 <= n /\ c.snd_una + n <= c.snd_max
      /\ n > 0 => c.snd_una + n <= c.qEnd
  <2>1. /\ BytesAvailable(c, c.snd_una) \in Int /\ BytesAvailable(c, c.snd_una) >= 0
        /\ BytesAvailable(c, c.snd_una) > 0
             => c.snd_una + BytesAvailable(c, c.snd_una) = c.qEnd
    BY <1>1 DEF BytesAvailable
  <2>2. SendOrdered(c) => c.snd_max - c.snd_una >= 0
    BY <1>1 DEF SendOrdered
  <2> QED  BY <1>1, <2>1, <2>2 DEF MinOf
<1>3. RetransmitOneSegment(c, atRto) =
        IF n = 0 /\ c.send_fin /\ c.snd_fin_seq = c.qEnd THEN SendFin(c, c.qEnd) ELSE z
  BY DEF RetransmitOneSegment
<1>0. SendOrdered(c) => SendOrdered(RetransmitOneSegment(c, atRto))
  BY RetransmitOneSegmentOrdered
<1>4. CASE n = 0 /\ c.send_fin /\ c.snd_fin_seq = c.qEnd
  BY <1>3, <1>4, SendFinAgainSends
<1>5. CASE ~(n = 0 /\ c.send_fin /\ c.snd_fin_seq = c.qEnd)
  <2>0. SendOrdered(c) => SendOrdered(z)
    BY <1>0, <1>3, <1>5
  <2> HIDE DEF n
  <2>1. /\ Idle(c, b) /\ IsTCB(b) /\ b.st = c.st /\ b.active = c.active
        /\ b.iss = c.iss /\ b.snd_una = c.snd_una /\ b.snd_max = c.snd_max
        /\ b.send_fin = c.send_fin /\ b.snd_nxt = c.snd_una
        /\ b.snd_fin_seq = c.snd_fin_seq
    BY <1>1, MoveSndNxtSame, MoveSndNxtSends
  <2> HIDE DEF b
  <2>2. /\ IsTCB(d) /\ d.st = b.st /\ d.active = b.active /\ d.iss = b.iss
        /\ d.snd_una = b.snd_una /\ d.snd_max = b.snd_max /\ d.send_fin = b.send_fin
        /\ d.snd_nxt = IF b.send_fin /\ b.snd_nxt + n = b.snd_fin_seq
                       THEN b.snd_nxt + n + 1 ELSE b.snd_nxt + n
        /\ SameRcv(b, d)
        /\ \A s \in d.out \ b.out : Says(s, b, d) /\ s.seq + SegLen(s) <= d.snd_nxt
    BY <1>2, <2>1, SendBytesSends, SendBytesSays
  <2> HIDE DEF d
  <2>3. Sends(d, r) /\ Idle(d, r) /\ IsTCB(r) /\ Alike(d, r)
    <3>1. (n # 0) \in BOOLEAN
      OBVIOUS
    <3>2. Idle(d, r)
      BY ZenonT(60), <2>2 DEF Require, Idle, SameRcv, IsTCB, TCBFields
    <3> QED  BY <2>2, <3>1, <3>2, RequireSends, RequireStill, AlikeType
  <2> HIDE DEF r
  <2>4. m \in Int
    BY <1>1, <2>3, NumberTypes, MinMaxType
  <2> HIDE DEF m
  <2>5. /\ Idle(r, a) /\ IsTCB(a) /\ a.st = r.st /\ a.active = r.active
        /\ a.iss = r.iss /\ a.snd_una = r.snd_una /\ a.snd_max = r.snd_max
        /\ a.send_fin = r.send_fin
    BY <2>3, <2>4, MoveSndNxtSame
  <2> HIDE DEF a
  <2>6. Idle(a, z) /\ Alike(a, z) /\ IsTCB(z)
    BY <2>5, AckSentIdle, AckSentStill, AlikeType
  <2> HIDE DEF z
  <2>7. /\ SameRcv(c, z) /\ z.out = d.out /\ b.out = c.out /\ z.send_fin = d.send_fin
        /\ z.st = c.st /\ z.active = c.active /\ z.iss = c.iss
        /\ z.snd_una = c.snd_una /\ z.snd_max = c.snd_max /\ z.send_fin = c.send_fin
    BY <2>1, <2>2, <2>3, <2>5, <2>6 DEF Idle, SameRcv, Alike
  <2>8. SendOrdered(c) => d.snd_nxt <= c.snd_max
    <3> SUFFICES ASSUME SendOrdered(c) PROVE d.snd_nxt <= c.snd_max
      OBVIOUS
    <3>1. CASE c.send_fin /\ c.snd_una + n = c.snd_fin_seq
      <4>1. d.snd_nxt = c.snd_una + n + 1 /\ c.snd_fin_seq = c.qEnd /\ c.snd_max # c.qEnd
        BY <2>1, <2>2, <3>1 DEF SendOrdered
      <4> QED  BY <1>1, <1>2, <3>1, <4>1
    <3>2. CASE ~(c.send_fin /\ c.snd_una + n = c.snd_fin_seq)
      <4>1. d.snd_nxt = c.snd_una + n
        BY <2>1, <2>2, <3>2
      <4> QED  BY <1>2, <4>1
    <3> QED  BY <3>1, <3>2
  <2>9. ASSUME NEW s \in z.out \ c.out
        PROVE  Says(s, c, z) /\ (SendOrdered(c) => s.seq + SegLen(s) <= z.snd_max)
    <3>1. Says(s, b, d) /\ s.seq + SegLen(s) <= d.snd_nxt /\ s \in Segment
      BY <2>2, <2>7, <2>9 DEF IsTCB
    <3>2. b.rcv_nxt = c.rcv_nxt /\ d.rcv_nxt = c.rcv_nxt /\ z.rcv_nxt = c.rcv_nxt
      BY <2>1, <2>2, <2>7 DEF Idle, SameRcv
    <3>3. s.seq + SegLen(s) \in Int /\ d.snd_nxt \in Int
      BY <2>2, <3>1, NumberTypes DEF Segment, SegLen
    <3> QED  BY <1>1, <2>7, <2>8, <3>1, <3>2, <3>3 DEF Says
  <2>10. Sends(c, z)
    BY <1>1, <2>0, <2>6, <2>7, <2>9 DEF Sends, Talks, SameRcv
  <2> QED  BY <1>3, <1>5, <2>10
<1> QED  BY <1>4, <1>5

LEMMA SchedulePersistSends ==
    ASSUME NEW c, IsTCB(c) PROVE Sends(c, [c EXCEPT !.timers = @ \cup {"PERSIST"}])
<1> DEFINE d == [c EXCEPT !.timers = @ \cup {"PERSIST"}]
<1>1. Idle(c, d)
  BY ZenonT(60) DEF Idle, SameRcv, IsTCB, TCBFields
<1>2. IsTCB(d)
  BY SchedulePersistOK, KeepsType
<1>3. Alike(c, d)
  BY ZenonT(60), <1>2 DEF Alike, IsTCB, TCBFields
<1> HIDE DEF d
<1> QED  BY <1>1, <1>3, IdleSends DEF d

LEMMA ReceivedDataAckSends ==
    ASSUME NEW c, IsTCB(c), NEW w \in Int PROVE Sends(c, ReceivedDataAck(c, w))
<1> DEFINE d == IF c.snd_una = c.snd_max
                THEN CancelEvents(c, {"REXMIT"}) ELSE RestartRexmitTimer(c)
           x == [d EXCEPT !.timers = @ \cup {"PERSIST"}]
           e == IF PersistTimerNeeded(d) THEN x ELSE CancelEvents(d, {"PERSIST"})
           f == SendData(e, FALSE, w)
<1>1. Sends(c, d) /\ IsTCB(d)
  BY CancelEventsSends, RestartRexmitTimerSends, SendsType
<1>0. ReceivedDataAck(c, w) = f
  BY DEF ReceivedDataAck
<1> HIDE DEF d
<1>2. Sends(d, e) /\ IsTCB(e)
  BY <1>1, SchedulePersistSends, CancelEventsSends, SendsType
<1> HIDE DEF e
<1>3. Sends(e, f)
  BY <1>2, SendDataSends
<1> HIDE DEF f
<1> QED  BY <1>0, <1>1, <1>2, <1>3, SendsTrans

LEMMA ReceivedDuplicateAckSends ==
    ASSUME NEW c, IsTCB(c) PROVE Sends(c, ReceivedDuplicateAck(c))
BY RetransmitOneSegmentSends, SendsRefl DEF ReceivedDuplicateAck

LEMMA EstablishedActiveSends ==
    ASSUME NEW c, IsTCB(c), NEW w \in Int
    PROVE  Sends(c, EstablishedActive(c, w))
<1> DEFINE d == SendData(c, FALSE, w)
<1>1. Sends(c, d) /\ IsTCB(d)
  BY SendDataSends, SendsType
<1>2. EstablishedActive(c, w) \in {d, SendAck(d)}
  BY DEF EstablishedActive
<1> HIDE DEF d
<1>3. Sends(c, SendAck(d))
  BY <1>1, SendAckSends, SendsTrans
<1> QED  BY <1>1, <1>2, <1>3

LEMMA SendCommandInvokedSends ==
    ASSUME NEW c, IsTCB(c), NEW w \in Int PROVE Sends(c, SendCommandInvoked(c, w))
<1>1. (NagleEnabled /\ c.snd_una # c.snd_max) \in BOOLEAN
  BY ConstantTypes
<1> QED  BY <1>1, SendDataSends DEF SendCommandInvoked

LEMMA ReceiveSeqChangedSends ==
    ASSUME NEW c, IsTCB(c) PROVE Sends(c, ReceiveSeqChanged(c))
<1> DEFINE d == [c EXCEPT !.timers = @ \cup {"DELAYED_ACK"}]
<1>1. Idle(c, d)
  BY ZenonT(60) DEF Idle, SameRcv, IsTCB, TCBFields
<1>2. Alike(c, d)
  BY ZenonT(60) DEF Alike, IsTCB, TCBFields, Timers
<1>3. ReceiveSeqChanged(c) \in {c, SendAck(c), d}
  BY DEF ReceiveSeqChanged
<1> HIDE DEF d
<1>4. Sends(c, d)
  BY <1>1, <1>2, IdleSends
<1> QED  BY <1>3, <1>4, SendAckSends, SendsRefl

LEMMA ProcessOldAckSends ==
    ASSUME NEW c, IsTCB(c), NEW s \in Segment PROVE Sends(c, ProcessOldAck(c, s))
<1> DEFINE n == MinOf(c.dupacks + 1, DUPTHRESH + 1)
           d == [c EXCEPT !.dupacks = n]
           u == UpdateWndInfo(d, s)
           x == ReceivedDuplicateAck(u)
           z == [c EXCEPT !.dupacks = 0]
<1>1. n \in Int
  <2>1. c.dupacks \in Int /\ DUPTHRESH \in Int
    BY ConstantTypes DEF IsTCB
  <2> QED  BY <2>1 DEF MinOf
<1>2. ProcessOldAck(c, s) \in {x, z}
  BY DEF ProcessOldAck
<1> HIDE DEF n
<1>3. Sends(c, d) /\ IsTCB(d)
  BY <1>1, SetDupacksSends, SendsType
<1> HIDE DEF d
<1>4. Sends(d, u) /\ IsTCB(u)
  BY <1>3, UpdateWndInfoSends, SendsType
<1> HIDE DEF u
<1>5. Sends(u, x)
  BY <1>4, ReceivedDuplicateAckSends
<1>6. Sends(c, z)
  BY SetDupacksSends
<1> HIDE DEF x, z
<1> QED  BY <1>2, <1>3, <1>4, <1>5, <1>6, SendsTrans

\* An acknowledgement moves snd_una to what it acknowledges.
LEMMA ProcessNewAckTalks ==
    ASSUME NEW c, IsTCB(c), SendOrdered(c), NEW s \in Segment, NEW w \in Int,
           c.snd_una < s.ack, s.ack <= c.snd_max
    PROVE  LET r == ProcessNewAck(c, s, w)
           IN  Talks(c, r) /\ SameRcv(c, r) /\ r.snd_una = s.ack
<1> DEFINE a == s.ack
           x == MaxOf(c.snd_nxt, s.ack)
           b == AcksOurFin(c, s)
           u == IF b THEN s.ack - 1 ELSE s.ack
           d == [c EXCEPT !.snd_una = a, !.snd_nxt = x, !.fin_ack_rcvd = @ \/ b]
           e == DiscardUpTo(d, u)
           f == UpdateWndInfo(e, s)
           r == ReceivedDataAck(f, w)
           z == [r EXCEPT !.dupacks = 0]
<1>0. ProcessNewAck(c, s, w) \in {f, z}
  BY DEF ProcessNewAck
<1>1. /\ a \in Int /\ c.iss \in Int /\ c.snd_una \in Int /\ c.snd_nxt \in Int
      /\ c.snd_max \in Int /\ c.qEnd \in Int /\ c.rcv_nxt \in Int
  BY NumberTypes DEF Segment
<1>2. x \in Int /\ a <= x /\ x <= c.snd_max
  BY <1>1 DEF MaxOf, SendOrdered
<1>3. b \in BOOLEAN /\ u \in Int
  <2>1. c.send_fin \in BOOLEAN
    BY NumberTypes
  <2>2. b \in BOOLEAN
    BY <2>1 DEF AcksOurFin
  <2> QED  BY <1>1, <2>2
<1>13. c.snd_una < a /\ a = s.ack
  OBVIOUS
<1> HIDE DEF a, x, b, u
<1>4. /\ IsTCB(d) /\ d.st = c.st /\ d.active = c.active
      /\ d.iss = c.iss /\ d.snd_una = a /\ d.snd_nxt = x
      /\ d.snd_max = c.snd_max /\ d.qEnd = c.qEnd /\ d.send_fin = c.send_fin
      /\ d.snd_fin_seq = c.snd_fin_seq /\ d.appClosed = c.appClosed
  BY ZenonT(60), <1>1, <1>2, <1>3 DEF IsTCB, TCBFields
<1>5. Idle(c, d)
  BY ZenonT(60) DEF Idle, SameRcv, IsTCB, TCBFields
<1> HIDE DEF d
<1>6. SendOrdered(d)
  BY <1>1, <1>2, <1>4, <1>13 DEF SendOrdered
<1>7. Talks(c, d) /\ SameRcv(c, d)
  BY <1>1, <1>4, <1>5, <1>6 DEF Talks, Idle, SameRcv
<1>8. Idle(d, e) /\ Alike(d, e) /\ IsTCB(e)
  BY <1>3, <1>4, DiscardUpToIdle, DiscardUpToStill, AlikeType
<1>9. Sends(d, e)
  BY <1>4, <1>8, IdleSends
<1> HIDE DEF e
<1>10. Sends(d, f) /\ IsTCB(f)
  BY <1>4, <1>8, <1>9, UpdateWndInfoSends, SendsTrans, SendsType
<1> HIDE DEF f
<1>11. Sends(f, r) /\ IsTCB(r)
  BY <1>10, ReceivedDataAckSends, SendsType
<1> HIDE DEF r
<1>12. Sends(d, z)
  BY <1>4, <1>10, <1>11, SetDupacksSends, SendsTrans
<1> HIDE DEF z
<1>14. ASSUME NEW y, Sends(d, y)
       PROVE  Talks(c, y) /\ SameRcv(c, y) /\ y.snd_una = s.ack
  BY <1>4, <1>7, <1>13, <1>14, TalksTrans DEF Sends, SameRcv
<1> QED  BY <1>0, <1>10, <1>12, <1>14

LEMMA ProcessAckTalks ==
    ASSUME NEW c, IsTCB(c), SendOrdered(c), NEW s \in Segment, NEW w \in Int,
           s.ack <= c.snd_max
    PROVE  LET r == ProcessAck(c, s, w)
           IN  /\ Talks(c, r) /\ SameRcv(c, r)
               /\ r.snd_una = IF s.ack <= c.snd_una THEN c.snd_una ELSE s.ack
<1>1. s.ack \in Int /\ c.snd_una \in Int
  BY NumberTypes DEF Segment
<1>2. CASE s.ack <= c.snd_una
  BY <1>2, ProcessOldAckSends DEF ProcessAck, Sends
<1>3. CASE ~(s.ack <= c.snd_una)
  BY <1>1, <1>3, ProcessNewAckTalks DEF ProcessAck
<1> QED  BY <1>2, <1>3

LEMMA ProcessFinAckedSends ==
    ASSUME NEW c, IsTCB(c) PROVE Sends(c, ProcessFinAcked(c))
<1> DEFINE d == ScheduleTimeout(c, "2MSL")
           a == SendAck(c)
           b == ScheduleTimeout(CancelEvents(a, {"2MSL"}), "2MSL")
           x == Event(c, "RCV_ACK")
           y == Event(d, "RCV_ACK")
<1>1. Sends(c, d) /\ IsTCB(d)
  BY Schedule2MSLSends, SendsType
<1>2. Sends(c, a) /\ IsTCB(a)
  BY SendAckSends, SendsType
<1>3. ProcessFinAcked(c) \in {x, y, b, c}
  BY DEF ProcessFinAcked
<1> HIDE DEF a, d
<1>4. Sends(c, b)
  BY <1>2, Schedule2MSLSends, SendsTrans
<1>5. "RCV_ACK" \in Events
  BY DEF Events
<1>6. Sends(c, x) /\ Sends(c, y)
  BY <1>1, <1>5, EventSends, SendsTrans
<1> HIDE DEF b, x, y
<1> QED  BY <1>3, <1>4, <1>6, SendsRefl

LEMMA FinReachedSends ==
    ASSUME NEW c, IsTCB(c)
    PROVE  /\ Sends(c, FinReached(c))
           /\ c.st \notin {"FIN_WAIT_1", "FIN_WAIT_2", "TIME_WAIT"}
                => FinReached(c).event = "RCV_FIN"
<1> DEFINE d == ScheduleTimeout(c, "2MSL")
           b == ScheduleTimeout(CancelEvents(c, {"2MSL"}), "2MSL")
<1>1. Sends(c, d) /\ IsTCB(d) /\ Sends(c, b) /\ IsTCB(b)
  BY Schedule2MSLSends, SendsType
<1>4. FinReached(c) \in {Event(c, "RCV_FIN"), Event(d, "RCV_FIN"),
                         Event(d, "RCV_FIN_ACK"), Event(b, "RCV_FIN")}
  BY DEF FinReached
<1> HIDE DEF d, b
<1>2. "RCV_FIN" \in Events /\ "RCV_FIN_ACK" \in Events
  BY DEF Events
<1>3. /\ Sends(c, Event(c, "RCV_FIN")) /\ Sends(c, Event(d, "RCV_FIN"))
      /\ Sends(c, Event(d, "RCV_FIN_ACK")) /\ Sends(c, Event(b, "RCV_FIN"))
  BY <1>1, <1>2, EventSends, SendsTrans
<1>5. c.st \notin {"FIN_WAIT_1", "FIN_WAIT_2", "TIME_WAIT"}
        => FinReached(c) = Event(c, "RCV_FIN")
  BY DEF FinReached
<1>6. Event(c, "RCV_FIN").event = "RCV_FIN"
  BY <1>2, EventStill
<1> QED  BY <1>3, <1>4, <1>5, <1>6

-----------------------------------------------------------------------------
(* Text and FIN.                                                           *)

\* What c received ends before n.
RcvIn(c, n) ==
    /\ c.rcv_nxt <= n /\ c.rq_nxt <= n
    /\ \A b \in c.rcvq : b < n
    /\ c.fin_rcvd => c.rcv_fin_seq < n

FinWaits == {"FIN_WAIT_1", "FIN_WAIT_2", "TIME_WAIT"}

\* c became d with what it took from segment s: nothing behind its end, no FIN
\* it does not have, and the event of a FIN that was passed over.
Receives(c, d, s) ==
    /\ Talks(c, d) /\ d.snd_una = c.snd_una
    /\ c.rq_nxt <= c.rcv_nxt => d.rq_nxt <= d.rcv_nxt
    /\ \A n \in Int : s.seq + SegLen(s) <= n /\ RcvIn(c, n) => RcvIn(d, n)
    /\ "FIN" \notin s.flags /\ ~c.fin_rcvd
          => ~d.fin_rcvd /\ (c.rcv_nxt = c.rq_nxt => d.rcv_nxt = d.rq_nxt)
    /\ c.st \notin FinWaits =>
          /\ c.event = "RCV_FIN" => d.event = "RCV_FIN"
          /\ c.rcv_nxt = c.rq_nxt => d.rcv_nxt = d.rq_nxt \/ d.event = "RCV_FIN"
          /\ d.event \in {c.event, "RCV_FIN"}

LEMMA SendsReceives ==
    ASSUME NEW c, NEW d, Sends(c, d), d.event = c.event, NEW s PROVE Receives(c, d, s)
BY DEF Sends, SameRcv, Receives, RcvIn

LEMMA ReceivesTrans ==
    ASSUME NEW c, IsTCB(c), NEW d, NEW e, NEW s, Receives(c, d, s), Receives(d, e, s)
    PROVE  Receives(c, e, s)
<1>1. Talks(c, e) /\ d.st = c.st
  BY TalksTrans DEF Receives, Talks
<1>2. \A n \in Int : s.seq + SegLen(s) <= n /\ RcvIn(c, n) => RcvIn(e, n)
  BY DEF Receives
<1>3. "FIN" \notin s.flags /\ ~c.fin_rcvd
        => ~e.fin_rcvd /\ (c.rcv_nxt = c.rq_nxt => e.rcv_nxt = e.rq_nxt)
  BY DEF Receives
<1>4. c.st \notin FinWaits =>
        /\ c.event = "RCV_FIN" => e.event = "RCV_FIN"
        /\ c.rcv_nxt = c.rq_nxt => e.rcv_nxt = e.rq_nxt \/ e.event = "RCV_FIN"
        /\ e.event \in {c.event, "RCV_FIN"}
  BY <1>1 DEF Receives
<1>5. e.snd_una = c.snd_una /\ (c.rq_nxt <= c.rcv_nxt => e.rq_nxt <= e.rcv_nxt)
  BY DEF Receives
<1> QED  BY <1>1, <1>2, <1>3, <1>4, <1>5 DEF Receives

\* The part of a segment in the receive window does not reach further.
LEMMA TruncateBound ==
    ASSUME NEW c, IsTCB(c), NEW s \in Segment, s.len > 0, c.rcv_nxt < s.seq + s.len
    PROVE  LET t == Truncate(c, s)
           IN  /\ t \in Segment /\ t.flags = s.flags
               /\ t.seq + SegLen(t) <= s.seq + SegLen(s)
<1> DEFINE first == MaxOf(s.seq, c.rcv_nxt)
           last  == MinOf(s.seq + s.len, c.rcv_nxt + c.rcv_wnd)
           n     == IF last > first THEN last - first ELSE 0
           t     == Truncate(c, s)
<1>1. s.seq \in Int /\ s.len \in Int /\ c.rcv_nxt \in Int /\ c.rcv_wnd \in Int
  BY NumberTypes DEF Segment
<1>2. first \in Int /\ last \in Int /\ first <= s.seq + s.len /\ last <= s.seq + s.len
  BY <1>1 DEF MaxOf, MinOf
<1> HIDE DEF first, last
<1>3. n \in Int /\ first + n <= s.seq + s.len
  BY <1>1, <1>2
<1> HIDE DEF n
<1>4. t = [s EXCEPT !.seq = first, !.len = n]
  BY DEF Truncate, first, last, n
<1>5. t.seq = first /\ t.len = n /\ t.flags = s.flags
  BY <1>4 DEF Segment
<1>6. t \in Segment
  BY TruncateType
<1> HIDE DEF t
<1>7. t.seq + SegLen(t) <= s.seq + SegLen(s)
  BY <1>1, <1>2, <1>3, <1>5 DEF SegLen
<1> QED  BY <1>5, <1>6, <1>7 DEF t

LEMMA FirstMissingBound ==
    ASSUME NEW q, NEW n \in Int
    PROVE  LET m == FirstMissing(q, n) IN m \in Int /\ n <= m /\ (m = n \/ m - 1 \in q)
<1> DEFINE cs == {m \in n .. n + MaxRcvBuffer : m \notin q /\ \A k \in n .. m-1 : k \in q}
           m  == FirstMissing(q, n)
<1>1. m = IF cs = {} THEN n ELSE CHOOSE x \in cs : TRUE
  BY DEF FirstMissing
<1>2. MaxRcvBuffer \in Int
  BY ConstantTypes
<1>3. CASE cs = {}
  BY <1>1, <1>3
<1>4. CASE cs # {}
  <2>1. m \in cs
    BY <1>1, <1>4
  <2>2. m \in Int /\ n <= m /\ \A k \in n .. m-1 : k \in q
    BY <1>2, <2>1
  <2> HIDE DEF m
  <2>3. m = n \/ m - 1 \in n .. m-1
    BY <2>2
  <2> QED  BY <2>2, <2>3 DEF m
<1> QED  BY <1>3, <1>4

LEMMA InsertReceives ==
    ASSUME NEW c, IsTCB(c), NEW s \in Segment, c.rcv_nxt = c.rq_nxt
    PROVE  Receives(c, Insert(c, s), s)
<1>a. s.seq \in Int /\ s.len \in Int
  BY DEF Segment
<1>b. s.len <= SegLen(s)
  BY <1>a DEF SegLen
<1>c. c.rcvq \in SUBSET Int
  BY DEF IsTCB
<1> DEFINE q    == c.rcvq \cup (s.seq .. s.seq + s.len - 1)
           next == FirstMissing(q, c.rq_nxt)
           d    == [c EXCEPT !.rcvq = q, !.rq_nxt = next, !.rcv_nxt = next]
           e    == Insert(c, s)
<1>1. e = d
  BY DEF Insert
<1>2. /\ c.rq_nxt \in Int /\ c.rcv_nxt \in Int /\ c.snd_max \in Int
      /\ c.rcvq \in SUBSET Int /\ s.seq \in Int /\ s.len \in Int
      /\ s.len <= SegLen(s)
  BY ONLY NumberTypes, IsTCB(c), <1>a, <1>b, <1>c
<1>3. next \in Int /\ c.rq_nxt <= next /\ (next = c.rq_nxt \/ next - 1 \in q)
  BY <1>2, FirstMissingBound
<1>5. ASSUME NEW b \in q, NEW n \in Int, s.seq + SegLen(s) <= n, RcvIn(c, n) PROVE b < n
  <2>1. SegLen(s) \in Int
    BY <1>2 DEF SegLen
  <2> QED  BY <1>2, <1>5, <2>1 DEF RcvIn
<1>6. Alike(c, e) /\ e.event = c.event
  BY InsertStill, InsertOK, AlikeType DEF Keeps
<1>7. q \subseteq Int
  BY <1>2
<1> HIDE DEF q, next, e
<1>8. /\ e.rcvq = q /\ e.rq_nxt = next /\ e.rcv_nxt = next /\ e.fin_rcvd = c.fin_rcvd
      /\ e.rcv_fin_seq = c.rcv_fin_seq /\ e.out = c.out
  BY ZenonT(60), <1>1 DEF IsTCB, TCBFields
<1>9. ASSUME NEW n \in Int, s.seq + SegLen(s) <= n, RcvIn(c, n) PROVE RcvIn(e, n)
  <2>1. next <= n
    <3>1. CASE next = c.rq_nxt
      BY <1>9, <3>1 DEF RcvIn
    <3>2. CASE next - 1 \in q
      BY <1>3, <1>5, <1>9, <3>2
    <3> QED  BY <1>3, <3>1, <3>2
  <2>2. \A b \in q : b < n
    BY <1>5, <1>9
  <2> QED  BY <1>8, <1>9, <2>1, <2>2 DEF RcvIn
<1>10. SendOrdered(c) => SendOrdered(e)
  BY <1>6, AlikeOrdered
<1>11. Talks(c, e)
  BY <1>2, <1>3, <1>6, <1>8, <1>10 DEF Talks, Alike
<1>12. e.rq_nxt <= e.rcv_nxt
  BY <1>3, <1>8
<1> QED  BY <1>6, <1>8, <1>9, <1>11, <1>12 DEF Receives, Alike, e

LEMMA DeliverReceives ==
    ASSUME NEW c, IsTCB(c), NEW s PROVE Receives(c, Deliver(c), s)
<1> DEFINE read == {b \in c.rcvq : b < c.rq_nxt}
           r    == c.rcvq \ read
           n    == c.delivered + Cardinality(read)
           d    == [c EXCEPT !.rcvq = r, !.delivered = n]
           e    == Deliver(c)
<1>1. e = d
  BY DEF Deliver
<1>2. Alike(c, e) /\ e.event = c.event
  BY DeliverStill, DeliverOK, AlikeType DEF Keeps
<1>3. r \subseteq c.rcvq /\ c.rcv_nxt \in Int
  BY NumberTypes
<1> HIDE DEF n, r, e
<1>4. /\ e.rcvq = r /\ e.rq_nxt = c.rq_nxt /\ e.rcv_nxt = c.rcv_nxt
      /\ e.fin_rcvd = c.fin_rcvd /\ e.rcv_fin_seq = c.rcv_fin_seq /\ e.out = c.out
  BY ZenonT(60), <1>1 DEF IsTCB, TCBFields
<1>5. SendOrdered(c) => SendOrdered(e) /\ c.snd_max <= e.snd_max
  BY <1>2, AlikeOrdered, NumberTypes DEF Alike
<1>6. Talks(c, e)
  BY <1>2, <1>3, <1>4, <1>5 DEF Talks, Alike
<1> QED  BY <1>2, <1>3, <1>4, <1>6 DEF Receives, RcvIn, Alike, e

\* A FIN that comes with s, or came before, is passed over.
LEMMA PassFinReceives ==
    ASSUME NEW c, IsTCB(c), NEW s \in Segment, "FIN" \in s.flags \/ c.fin_rcvd,
           \A n \in Int : s.seq + SegLen(s) <= n /\ RcvIn(c, n) => c.rcv_nxt + 1 <= n
    PROVE  Receives(c, FinReached([c EXCEPT !.ack_now = TRUE, !.rcv_nxt = c.rcv_nxt + 1]), s)
<1> DEFINE m == c.rcv_nxt + 1
           f == [c EXCEPT !.ack_now = TRUE, !.rcv_nxt = m]
           r == FinReached(f)
<1>1. /\ m \in Int /\ c.rcv_nxt \in Int /\ c.rq_nxt \in Int /\ c.snd_max \in Int
      /\ c.rcv_nxt <= m /\ (c.rq_nxt <= c.rcv_nxt => c.rq_nxt <= m)
  BY NumberTypes
<1>0. \A n \in Int : s.seq + SegLen(s) <= n /\ RcvIn(c, n) => m <= n
  OBVIOUS
<1> HIDE DEF m, r
<1>2. Alike(c, f)
  BY <1>1, PassFinStill, AlikeType
<1>3. /\ f.rcv_nxt = m /\ f.rq_nxt = c.rq_nxt /\ f.rcvq = c.rcvq
      /\ f.fin_rcvd = c.fin_rcvd /\ f.rcv_fin_seq = c.rcv_fin_seq /\ f.out = c.out
  BY ZenonT(60) DEF IsTCB, TCBFields
<1> HIDE DEF f
<1>4. IsTCB(f) /\ (SendOrdered(c) => SendOrdered(f)) /\ f.st = c.st
  BY <1>2, AlikeOrdered DEF Alike
<1>5. Talks(c, f)
  BY <1>1, <1>2, <1>3, <1>4 DEF Talks, Alike
<1>6. Sends(f, r) /\ (c.st \notin FinWaits => r.event = "RCV_FIN")
  BY <1>4, FinReachedSends DEF FinWaits, r
<1>7. Talks(c, r) /\ r.snd_una = c.snd_una /\ SameRcv(f, r)
  BY <1>2, <1>5, <1>6, TalksTrans DEF Sends, Alike
<1>8. ASSUME NEW n \in Int, s.seq + SegLen(s) <= n, RcvIn(c, n) PROVE RcvIn(r, n)
  BY <1>0, <1>3, <1>7, <1>8 DEF RcvIn, SameRcv
<1>9. Receives(c, r, s)
  BY <1>1, <1>3, <1>6, <1>7, <1>8 DEF Receives, SameRcv
<1> QED  BY <1>9 DEF r, f, m

LEMMA SetDupacksReceives ==
    ASSUME NEW c, IsTCB(c), NEW s PROVE Receives(c, [c EXCEPT !.dupacks = 0], s)
<1> DEFINE d == [c EXCEPT !.dupacks = 0]
<1>1. Sends(c, d)
  BY SetDupacksSends
<1>2. d.event = c.event
  BY ZenonT(60) DEF IsTCB, TCBFields
<1> HIDE DEF d
<1> QED  BY <1>1, <1>2, SendsReceives DEF d

LEMMA ProcessTextReceives ==
    ASSUME NEW c, IsTCB(c), NEW t \in Segment, NEW una \in Int, NEW w \in Int,
           c.rcv_nxt = c.rq_nxt
    PROVE  Receives(c, ProcessText(c, t, una, w), t)
<1> DEFINE d == Insert(c, t)
           a == ReceivedDataAck(d, w)
           b == [a EXCEPT !.dupacks = 0]
           e == IF d.snd_una > una THEN b ELSE d
           g == Deliver(e)
           f == [g EXCEPT !.ack_now = TRUE, !.rcv_nxt = g.rcv_nxt + 1]
           x == SendAck(e)
           y == FinReached(f)
<1>1. Receives(c, d, t) /\ IsTCB(d)
  BY InsertReceives DEF Receives, Talks
<1>2. \/ ProcessText(c, t, una, w) \in {x, g}
      \/ ProcessText(c, t, una, w) = y /\ g.fin_rcvd /\ g.rcv_nxt = g.rcv_fin_seq
  BY DEF ProcessText
<1> HIDE DEF d
<1>3. Receives(d, a, t) /\ IsTCB(a)
  BY <1>1, ReceivedDataAckSends, ReceivedDataAckOK, SendsReceives DEF Keeps
<1> HIDE DEF a
<1>4. Receives(c, e, t) /\ IsTCB(e)
  <2>1. Receives(c, b, t) /\ IsTCB(b)
    <3>1. Receives(a, b, t)
      BY <1>3, SetDupacksReceives
    <3> HIDE DEF b
    <3>2. Receives(c, a, t)
      BY <1>1, <1>3, ReceivesTrans
    <3>3. IsTCB(b)
      BY <3>1 DEF Receives, Talks
    <3> QED  BY <1>3, <3>1, <3>2, <3>3, ReceivesTrans
  <2> HIDE DEF b
  <2> QED  BY <1>1, <2>1
<1> HIDE DEF e
<1>5. Receives(e, g, t) /\ IsTCB(g)
  BY <1>4, DeliverReceives DEF Receives, Talks
<1> HIDE DEF g
<1>6. Receives(c, g, t)
  BY <1>4, <1>5, ReceivesTrans
<1>7. Receives(e, x, t)
  BY <1>4, SendAckSends, SendAckOK, SendsReceives DEF Keeps
<1>8. g.fin_rcvd /\ g.rcv_nxt = g.rcv_fin_seq => Receives(g, y, t)
  <2> SUFFICES ASSUME g.fin_rcvd, g.rcv_nxt = g.rcv_fin_seq PROVE Receives(g, y, t)
    OBVIOUS
  <2>1. g.rcv_fin_seq \in Int
    BY <1>5 DEF IsTCB
  <2>2. \A n \in Int : t.seq + SegLen(t) <= n /\ RcvIn(g, n) => g.rcv_nxt + 1 <= n
    BY <2>1 DEF RcvIn
  <2> HIDE DEF y
  <2> QED  BY <1>5, <2>2, PassFinReceives DEF y, f
<1> HIDE DEF x, y
<1> QED  BY <1>2, <1>4, <1>7, <1>8, <1>6, ReceivesTrans

LEMMA ProcessFinReceives ==
    ASSUME NEW c, IsTCB(c), NEW s \in Segment
    PROVE  /\ Receives(c, ProcessFin(c, s), s)
           /\ "FIN" \notin s.flags => ProcessFin(c, s) = c
<1> DEFINE finSeq == s.seq + s.len
           d == [c EXCEPT !.ack_now = TRUE]
           f == [c EXCEPT !.ack_now = TRUE, !.rcv_nxt = c.rcv_nxt + 1]
           g == [d EXCEPT !.fin_rcvd = TRUE, !.rcv_fin_seq = finSeq]
<1>1. /\ finSeq \in Int /\ c.rcv_nxt \in Int /\ c.snd_max \in Int
      /\ "FIN" \in s.flags => SegLen(s) \in Int /\ finSeq < s.seq + SegLen(s)
      /\ s.seq + SegLen(s) \in Int
  BY NumberTypes DEF Segment, SegLen
<1>2. [d EXCEPT !.rcv_nxt = @ + 1] = f
  BY DEF IsTCB, TCBFields
<1>3. /\ "FIN" \notin s.flags => ProcessFin(c, s) = c
      /\ "FIN" \in s.flags /\ c.rcv_nxt = finSeq => ProcessFin(c, s) = FinReached(f)
      /\ "FIN" \in s.flags /\ c.rcv_nxt # finSeq => ProcessFin(c, s) = g
  BY <1>2 DEF ProcessFin
<1>4. CASE "FIN" \notin s.flags
  <2>1. Receives(c, c, s)
    BY SendsRefl, SendsReceives
  <2> QED  BY <1>3, <1>4, <2>1
<1>5. CASE "FIN" \in s.flags /\ c.rcv_nxt = finSeq
  <2>1. \A n \in Int : s.seq + SegLen(s) <= n /\ RcvIn(c, n) => c.rcv_nxt + 1 <= n
    BY <1>1, <1>5
  <2> HIDE DEF finSeq, f
  <2>2. Receives(c, FinReached(f), s)
    BY <1>5, <2>1, PassFinReceives DEF f
  <2> QED  BY <1>3, <1>5, <2>2
<1>6. CASE "FIN" \in s.flags /\ c.rcv_nxt # finSeq
  <2>1. \A n \in Int : s.seq + SegLen(s) <= n => finSeq < n
    BY <1>1, <1>6
  <2> HIDE DEF finSeq
  <2>2. /\ g.rcv_nxt = c.rcv_nxt /\ g.rq_nxt = c.rq_nxt /\ g.rcvq = c.rcvq
        /\ g.rcv_fin_seq = finSeq /\ g.out = c.out /\ g.event = c.event
    BY ZenonT(60) DEF IsTCB, TCBFields
  <2>3. Alike(c, g)
    BY SMTT(60), <1>1 DEF Alike, IsTCB, TCBFields
  <2> HIDE DEF g
  <2>4. SendOrdered(c) => SendOrdered(g)
    BY <2>3, AlikeOrdered
  <2>5. Talks(c, g)
    BY <1>1, <2>2, <2>3, <2>4 DEF Talks, Alike
  <2>6. Receives(c, g, s)
    BY <1>6, <2>1, <2>2, <2>3, <2>5 DEF Receives, RcvIn, Alike
  <2> QED  BY <1>3, <1>6, <2>6
<1> QED  BY <1>3, <1>4, <1>5, <1>6

\* The bytes and the FIN of a segment.
LEMMA ProcessTextAndFinReceives ==
    ASSUME NEW c, IsTCB(c), NEW s \in Segment, NEW old, IsTCB(old), NEW w \in Int,
           s.len > 0 /\ c.st \in {"SYN_RCVD", "ESTABLISHED", "FIN_WAIT_1", "FIN_WAIT_2"}
               => c.rcv_nxt = c.rq_nxt /\ c.rcv_nxt < s.seq + s.len
    PROVE  LET r == ProcessTextAndFin(c, s, old, w)
           IN  /\ Talks(c, r) /\ r.snd_una = c.snd_una
               /\ c.rq_nxt <= c.rcv_nxt => r.rq_nxt <= r.rcv_nxt
               /\ \A n \in Int : s.seq + SegLen(s) <= n /\ RcvIn(c, n) => RcvIn(r, n)
               /\ "FIN" \notin s.flags /\ ~c.fin_rcvd
                     => ~r.fin_rcvd /\ (c.rcv_nxt = c.rq_nxt => r.rcv_nxt = r.rq_nxt)
               /\ c.st \notin FinWaits /\ ~c.send_fin =>
                     /\ c.rcv_nxt = c.rq_nxt => r.rcv_nxt = r.rq_nxt \/ r.event = "RCV_FIN"
                     /\ r.event \in {c.event, "RCV_FIN", "IGNORE"}
               /\ c.st = "SYN_RCVD" /\ c.event = "RCV_ACK" /\ r.event = "IGNORE"
                     => Idle(c, r) /\ r.timers = c.timers
               /\ s.len = 0 /\ "FIN" \notin s.flags => Idle(c, r)
<1>a. "FIN" \notin s.flags => SegLen(s) \in Int
  BY DEF SegLen, Segment
<1> DEFINE text == /\ s.len > 0
                   /\ c.st \in {"SYN_RCVD", "ESTABLISHED", "FIN_WAIT_1", "FIN_WAIT_2"}
           t    == IF text THEN Truncate(c, s) ELSE s
           k    == IF s.len = MSS THEN c.full_sized + 1 ELSE c.full_sized
           b    == c.ack_now \/ s.len = 1
           v    == c.fault \/ t.len = 0
           x    == [c EXCEPT !.full_sized = k, !.ack_now = b, !.fault = v]
           d    == IF text THEN x ELSE c
           y    == ProcessText(d, t, old.snd_una, w)
           e    == IF text THEN y ELSE d
           f    == ProcessFin(e, t)
           z    == ReceiveSeqChanged(f)
           g    == IF f.rcv_nxt # c.rcv_nxt THEN z ELSE f
           h    == ProcessDeferredClose(g, old.snd_nxt)
           i    == Event(d, "IGNORE")
           r    == ProcessTextAndFin(c, s, old, w)
<1>1. /\ t \in Segment /\ t.flags = s.flags
      /\ \A n \in Int : s.seq + SegLen(s) <= n => t.seq + SegLen(t) <= n
      /\ old.snd_una \in Int /\ s.len \in Nat
  <2>1. old.snd_una \in Int /\ s.len \in Nat
    BY NumberTypes DEF Segment
  <2>2. CASE text
    <3> DEFINE tt == Truncate(c, s)
    <3>1. /\ tt \in Segment /\ tt.flags = s.flags
          /\ tt.seq + SegLen(tt) <= s.seq + SegLen(s)
      BY <2>2, TruncateBound
    <3>2. tt.seq + SegLen(tt) \in Int /\ s.seq + SegLen(s) \in Int
      BY <3>1 DEF Segment, SegLen
    <3> HIDE DEF tt
    <3>3. \A n \in Int : s.seq + SegLen(s) <= n => tt.seq + SegLen(tt) <= n
      BY <3>1, <3>2
    <3> QED  BY <2>1, <2>2, <3>1, <3>3 DEF tt
  <2>3. CASE ~text
    BY <2>1, <2>3
  <2> QED  BY <2>2, <2>3
<1>2. k \in Int /\ b \in BOOLEAN /\ v \in BOOLEAN
  <2>1. c.full_sized \in Int /\ c.ack_now \in BOOLEAN /\ c.fault \in BOOLEAN
    BY DEF IsTCB
  <2> QED  BY <2>1
<1>3. /\ (r = i /\ text) \/ r = h
      /\ text => c.rcv_nxt = c.rq_nxt
      /\ s.len = 0 => ~text
  BY <1>1 DEF ProcessTextAndFin
<1> HIDE DEF text, t, k, b, v, r
<1>4. Still(c, x) /\ Idle(c, x) /\ x.event = c.event /\ x.timers = c.timers
  <2>1. Still(c, x)
    BY ZenonT(30), <1>2 DEF Still, Alike, IsTCB, TCBFields
  <2>2. Idle(c, x) /\ x.event = c.event /\ x.timers = c.timers
    BY ZenonT(60) DEF Idle, SameRcv, IsTCB, TCBFields
  <2> QED  BY <2>1, <2>2
<1> HIDE DEF x
<1>5. Still(c, d) /\ Idle(c, d) /\ d.event = c.event /\ d.timers = c.timers /\ IsTCB(d)
  BY <1>4, AlikeRefl DEF Idle, SameRcv, Still, Alike
<1>6. ~text => d = c
  OBVIOUS
<1> HIDE DEF d
<1>7. Receives(c, d, t)
  BY <1>5, IdleSends, SendsReceives DEF Still
<1>8. Receives(c, e, t) /\ IsTCB(e)
  <2>1. CASE text
    <3>1. d.rcv_nxt = d.rq_nxt
      BY <1>3, <1>5, <2>1 DEF Idle, SameRcv
    <3>2. Receives(d, y, t)
      BY <1>1, <1>5, <3>1, ProcessTextReceives
    <3> HIDE DEF y
    <3>3. Receives(c, y, t)
      BY <1>5, <1>7, <3>2, ReceivesTrans
    <3> QED  BY <2>1, <3>3 DEF Receives, Talks
  <2>2. CASE ~text
    BY <1>5, <1>7, <2>2
  <2> QED  BY <2>1, <2>2
<1>9. ~text => e = d
  OBVIOUS
<1> HIDE DEF e
<1>10. Receives(c, f, t) /\ IsTCB(f) /\ ("FIN" \notin t.flags => f = e)
  <2>1. Receives(e, f, t) /\ ("FIN" \notin t.flags => f = e)
    BY <1>1, <1>8, ProcessFinReceives
  <2> HIDE DEF f
  <2>2. Receives(c, f, t)
    BY <1>8, <2>1, ReceivesTrans
  <2> QED  BY <2>1, <2>2 DEF Receives, Talks
<1> HIDE DEF f
<1>11. Receives(c, g, t) /\ IsTCB(g)
  <2>1. Sends(f, z) /\ z.event = f.event
    BY <1>10, ReceiveSeqChangedSends, ReceiveSeqChangedOK DEF Keeps
  <2> HIDE DEF z
  <2>2. Receives(f, z, t)
    BY <2>1, SendsReceives
  <2>3. Receives(c, z, t)
    BY <1>8, <1>10, <2>2, ReceivesTrans
  <2> QED  BY <1>10, <2>3 DEF Receives, Talks
<1>12. f.rcv_nxt = c.rcv_nxt => g = f
  OBVIOUS
<1> HIDE DEF z, g
<1>13. /\ IsTCB(h) /\ Idle(g, h) /\ Alike(g, h) /\ h.timers = g.timers
       /\ h.event \in {g.event, "CLOSE"} /\ (~g.send_fin => h = g)
  <2>1. h \in {g, Event(g, "CLOSE")} /\ (~g.send_fin => h = g)
    BY DEF ProcessDeferredClose
  <2>2. "CLOSE" \in Events
    BY DEF Events
  <2>3. Alike(g, g) /\ Idle(g, g)
    BY <1>11, AlikeRefl DEF Idle, SameRcv
  <2> DEFINE u == Event(g, "CLOSE")
  <2>4. Alike(g, u) /\ IsTCB(u)
    BY <1>11, <2>2, EventStill DEF Still, Alike
  <2>5. Idle(g, u) /\ u.timers = g.timers /\ u.event = "CLOSE"
    BY ZenonT(60), <1>11 DEF Event, Idle, SameRcv, IsTCB, TCBFields
  <2> HIDE DEF u, h
  <2> QED  BY <1>11, <2>1, <2>3, <2>4, <2>5 DEF u
<1> HIDE DEF h
<1>14. IsTCB(i) /\ Idle(d, i) /\ Alike(d, i) /\ i.timers = d.timers /\ i.event = "IGNORE"
  <2>1. "IGNORE" \in Events
    BY DEF Events
  <2>2. Alike(d, i) /\ IsTCB(i)
    BY <1>5, <2>1, EventStill DEF Still, Alike
  <2>3. Idle(d, i) /\ i.timers = d.timers /\ i.event = "IGNORE"
    BY ZenonT(60), <1>5 DEF Event, Idle, SameRcv, IsTCB, TCBFields
  <2> QED  BY <2>2, <2>3
<1> HIDE DEF i
<1> DEFINE Goal(q) ==
        /\ Talks(c, q) /\ q.snd_una = c.snd_una
        /\ c.rq_nxt <= c.rcv_nxt => q.rq_nxt <= q.rcv_nxt
        /\ \A n \in Int : s.seq + SegLen(s) <= n /\ RcvIn(c, n) => RcvIn(q, n)
        /\ "FIN" \notin s.flags /\ ~c.fin_rcvd
              => ~q.fin_rcvd /\ (c.rcv_nxt = c.rq_nxt => q.rcv_nxt = q.rq_nxt)
        /\ c.st \notin FinWaits /\ ~c.send_fin =>
              /\ c.rcv_nxt = c.rq_nxt => q.rcv_nxt = q.rq_nxt \/ q.event = "RCV_FIN"
              /\ q.event \in {c.event, "RCV_FIN", "IGNORE"}
        /\ c.st = "SYN_RCVD" /\ c.event = "RCV_ACK" /\ q.event = "IGNORE"
              => Idle(c, q) /\ q.timers = c.timers
        /\ s.len = 0 /\ "FIN" \notin s.flags => Idle(c, q)
<1>15. CASE r = i /\ text
  <2>1. Idle(c, i) /\ i.timers = c.timers
    BY <1>5, <1>14, IdleTrans
  <2>2. Alike(c, i)
    BY <1>5, <1>14, AlikeTrans DEF Still
  <2>3. Sends(c, i)
    BY <2>1, <2>2, IdleSends
  <2>4. Goal(i)
    BY <1>14, <2>1, <2>3 DEF Sends, SameRcv, RcvIn
  <2> QED  BY <1>15, <2>4 DEF r
<1>16. CASE r = h
  <2>1. Receives(c, g, s)
    BY <1>1, <1>11 DEF Receives
  <2>2. Sends(g, h)
    BY <1>11, <1>13, IdleSends
  <2>3. Talks(c, h)
    BY <2>1, <2>2, TalksTrans DEF Receives, Sends
  <2>4. SameRcv(g, h) /\ h.snd_una = c.snd_una
    BY <2>1, <2>2 DEF Receives, Sends
  <2>5. /\ c.rq_nxt <= c.rcv_nxt => h.rq_nxt <= h.rcv_nxt
        /\ \A n \in Int : s.seq + SegLen(s) <= n /\ RcvIn(c, n) => RcvIn(h, n)
        /\ "FIN" \notin s.flags /\ ~c.fin_rcvd
              => ~h.fin_rcvd /\ (c.rcv_nxt = c.rq_nxt => h.rcv_nxt = h.rq_nxt)
    BY <2>1, <2>4 DEF Receives, RcvIn, SameRcv
  <2>6. ASSUME c.st \notin FinWaits, ~c.send_fin
        PROVE  /\ c.rcv_nxt = c.rq_nxt => h.rcv_nxt = h.rq_nxt \/ h.event = "RCV_FIN"
               /\ h.event \in {c.event, "RCV_FIN", "IGNORE"}
    <3>1. h = g
      BY <1>13, <2>1, <2>6 DEF Receives, Talks
    <3> QED  BY <2>1, <2>6, <3>1 DEF Receives
  <2>7. ASSUME c.st = "SYN_RCVD", c.event = "RCV_ACK", h.event = "IGNORE" PROVE FALSE
    <3>1. g.event \in {"RCV_ACK", "RCV_FIN"}
      BY <2>1, <2>7 DEF Receives, FinWaits
    <3> QED  BY <1>13, <2>7, <3>1
  <2>8. ASSUME s.len = 0, "FIN" \notin s.flags PROVE Idle(c, h)
    <3>1. g = f /\ f = e /\ e = d
      BY <1>1, <1>3, <1>5, <1>6, <1>9, <1>10, <1>12, <2>8 DEF Idle, SameRcv
    <3> QED  BY <1>5, <1>13, <3>1, IdleTrans
  <2> HIDE DEF t
  <2>9. Goal(h)
    BY <2>3, <2>4, <2>5, <2>6, <2>7, <2>8
  <2> QED  BY <1>16, <2>9 DEF r
<1> QED  BY <1>3, <1>15, <1>16

-----------------------------------------------------------------------------
(* What the two ends know of each other.                                   *)

\* The states before a connection is established.
Opening == {"INIT", "LISTEN"} \cup SynStates

\* The other end of c may expect, or acknowledge up to, number n: c has sent
\* all before it, its SYN included.
Known(n, c) ==
    /\ c.st \in Opening => n <= c.iss + 1 /\ n # c.iss
    /\ c.st \in DataStates => n <= c.snd_max

\* d has received from c all before n.
Acked(n, d, c) ==
    /\ d.st \notin {"INIT", "SYN_SENT"}
    /\ d.st \in {"LISTEN", "SYN_RCVD"} => n <= c.iss + 1
    /\ d.st \in DataStates => n <= d.rcv_nxt

\* The initial sequence number of d will not change.
Fixed(d) == d.st \notin {"INIT", "LISTEN"} /\ (d.active \/ d.st = "CLOSED")

\* Segment s is on its way from d, at endpoint q, to c.
SegInv(s, d, c, q) ==
    "RST" \notin s.flags =>
        /\ Known(s.seq + SegLen(s), d)
        /\ "ACK" \in s.flags => Known(s.ack, c) /\ Acked(s.ack, d, c)
        /\ "SYN" \in s.flags => s.len = 0 /\ "FIN" \notin s.flags
        /\ "ACK" \in s.flags \/ ("SYN" \in s.flags /\ Fixed(d) /\ s.seq = d.iss)
        /\ "FIN" \in s.flags => q \in Closers
        /\ d.st \in Opening => s.len = 0 /\ "FIN" \notin s.flags

\* c received only what d sent.
Received(c, d) ==
    /\ Known(c.rcv_nxt, d) /\ Known(c.rq_nxt, d)
    /\ \A b \in c.rcvq : Known(b + 1, d)
    /\ c.fin_rcvd => Known(c.rcv_fin_seq + 1, d)

RcvInv(c, d) == c.st \notin {"INIT", "LISTEN", "SYN_SENT", "CLOSED"} => Received(c, d)

SynInv(c, d) == c.st = "SYN_RCVD" => c.rcv_nxt = d.iss + 1 /\ Fixed(d)

\* c takes for acknowledged only what d received.
AckInvAt(c, d, st) ==
    st \in DataStates \cup {"SYN_RCVD"} =>
        /\ c.snd_una # c.iss => Acked(c.snd_una, d, c)
        /\ st \in DataStates => c.iss < c.snd_una

\* c at endpoint p takes a FIN only from a peer whose application closes.
FinInvAt(c, p, st) ==
    /\ c.rq_nxt <= c.rcv_nxt
    /\ p \in Closers => c.rcv_nxt = c.rq_nxt /\ ~c.fin_rcvd
    /\ p \notin Closers =>
          /\ ~c.send_fin
          /\ st \in Opening \cup {"ESTABLISHED", "CLOSE_WAIT", "CLOSED"}
          /\ st # "CLOSE_WAIT" => c.rcv_nxt = c.rq_nxt
    /\ st \in Opening => ~c.fin_rcvd /\ "DELAYED_ACK" \notin c.timers

PairInv(c, d, p) ==
    RcvInv(c, d) /\ SynInv(c, d) /\ AckInvAt(c, d, c.st) /\ FinInvAt(c, p, c.st)

\* c became e: whatever the other end d, and the segments in flight, knew of
\* c, they may know of e.
Grows(c, e, d) ==
    /\ c.iss <= e.iss
    /\ \A n \in Int : Known(n, c) => Known(n, e)
    /\ \A n \in Int : Acked(n, c, d) => Acked(n, e, d)
    /\ Fixed(c) => Fixed(e) /\ e.iss = c.iss
    /\ e.st \in Opening => c.st \in Opening

\* What a handler must see to: r is what it made of the connection c at p, d
\* the other end.
Step(c, r, d, p) ==
    LET e == PerformStateTransition(r)
    IN  /\ IsTCB(r) /\ Grows(c, e, d) /\ PairInv(e, d, p)
        /\ \A s \in e.out : SegInv(s, e, d, p)

LEMMA StateSets ==
    /\ Opening \cap DataStates = {}
    /\ Opening = {"INIT", "LISTEN", "SYN_SENT", "SYN_RCVD"}
    /\ "TIME_WAIT" \notin Opening \cup DataStates
    /\ "CLOSED" \notin Opening \cup DataStates
    /\ States = Opening \cup DataStates \cup {"TIME_WAIT", "CLOSED"}
BY DEF Opening, SynStates, DataStates, States

\* performStateTransition() leaves what it does not delete.
LEMMA TransitionFacts ==
    ASSUME NEW r, IsTCB(r)
    PROVE  LET n == NextState(r, r.event)
               e == PerformStateTransition(r)
           IN  /\ IsTCB(e) /\ e.st = n /\ e.iss = r.iss /\ e.out = r.out
               /\ n # "CLOSED" \/ r.st = "CLOSED" =>
                     /\ SameRcv(r, e) /\ e.active = r.active /\ e.snd_una = r.snd_una
                     /\ e.snd_max = r.snd_max /\ e.send_fin = r.send_fin
                     /\ e.timers \subseteq r.timers
               /\ n = "CLOSED" /\ r.st # "CLOSED" =>
                     /\ e.rcv_nxt = e.rq_nxt /\ e.rq_nxt \in Int
                     /\ ~e.fin_rcvd /\ ~e.send_fin
<1> DEFINE n == NextState(r, r.event)
           x == [r EXCEPT !.st = n]
           y == CancelEvents(x, HandshakeTimers)
           i == Indicate(y, "PEER_CLOSED")
           j == Indicate(x, "CLOSED")
           e == PerformStateTransition(r)
           Kept(z) ==
               /\ z.st = n /\ z.iss = r.iss /\ z.out = r.out
               /\ SameRcv(r, z) /\ z.active = r.active /\ z.snd_una = r.snd_una
               /\ z.snd_max = r.snd_max /\ z.send_fin = r.send_fin
               /\ z.timers \subseteq r.timers
<1>1. IsTCB(e) /\ n \in States
  BY TransitionType, NextStateFacts
<1>2. /\ n = r.st => e = r
      /\ n # r.st => e = StateEntered(x, r.st)
  BY DEF PerformStateTransition
<1> HIDE DEF n, e
<1>3. CASE n = r.st
  BY <1>1, <1>2, <1>3 DEF SameRcv, n, e
<1>4. CASE n # r.st
  <2>1. IsTCB(x) /\ Kept(x)
    <3>1. IsTCB(x)
      BY ZenonT(60), <1>1 DEF IsTCB, TCBFields
    <3>2. Kept(x)
      BY ZenonT(60) DEF SameRcv, IsTCB, TCBFields
    <3> QED  BY <3>1, <3>2
  <2> HIDE DEF x
  <2>2. IsTCB(y) /\ Kept(y)
    <3>1. IsTCB(y)
      BY <2>1, CancelEventsStill, AlikeType
    <3>2. /\ y.timers = x.timers \ HandshakeTimers
          /\ y.st = x.st /\ y.iss = x.iss /\ y.out = x.out /\ y.active = x.active
          /\ y.snd_una = x.snd_una /\ y.snd_max = x.snd_max /\ y.send_fin = x.send_fin
      BY ZenonT(60), <2>1 DEF CancelEvents, IsTCB, TCBFields
    <3>3. SameRcv(x, y)
      BY ZenonT(60), <2>1 DEF CancelEvents, SameRcv, IsTCB, TCBFields
    <3> HIDE DEF y
    <3> QED  BY <2>1, <3>1, <3>2, <3>3 DEF SameRcv
  <2> HIDE DEF y
  <2>3. Kept(i)
    BY ZenonT(60), <2>2 DEF Indicate, SameRcv, IsTCB, TCBFields
  <2>4. IsTCB(j) /\ Kept(j)
    <3>1. IsTCB(j)
      BY <2>1, IndicateFacts DEF Indications
    <3>2. Kept(j)
      BY ZenonT(60), <2>1 DEF Indicate, SameRcv, IsTCB, TCBFields
    <3> QED  BY <3>1, <3>2
  <2>5. x.st = n
    BY <2>1
  <2> HIDE DEF Kept
  <2>6. CASE n # "CLOSED"
    <3>1. StateEntered(x, r.st) \in {x, y, i, j}
      BY <2>5, <2>6 DEF StateEntered, y
    <3>2. Kept(e)
      BY <1>2, <1>4, <2>1, <2>2, <2>3, <2>4, <3>1
    <3> QED  BY <1>1, <2>6, <3>2 DEF Kept, n, e
  <2>7. CASE n = "CLOSED"
    <3>4. StateEntered(x, r.st)
            = Removed(IF ClosedIsNews(x, r.st) THEN Indicate(x, "CLOSED") ELSE x)
      BY <2>5, <2>7 DEF StateEntered, DataStates
    <3>1. StateEntered(x, r.st) \in {Removed(x), Removed(j)}
      BY <3>4
    <3>2. ASSUME NEW z
          PROVE  LET u == Removed(z)
                 IN  /\ u.st = "CLOSED" /\ u.iss = z.iss /\ u.out = z.out
                     /\ u.rcv_nxt = 0 /\ u.rq_nxt = 0
                     /\ u.fin_rcvd = FALSE /\ u.send_fin = FALSE
      <4> DEFINE m == NewConnection
      <4>1. /\ IsTCB(m) /\ m.rcv_nxt = 0 /\ m.rq_nxt = 0
            /\ m.fin_rcvd = FALSE /\ m.send_fin = FALSE
        <5>1. IsTCB(m)
          BY NewConnectionOK
        <5>2. /\ m.rcv_nxt = 0 /\ m.rq_nxt = 0 /\ m.fin_rcvd = FALSE /\ m.send_fin = FALSE
          BY DEF NewConnection
        <5> QED  BY <5>1, <5>2
      <4> HIDE DEF m
      <4>2. Removed(z) = [m EXCEPT
              !.st = "CLOSED", !.iss = z.iss, !.qEnd = z.qEnd,
              !.delivered = z.delivered, !.app = z.app,
              !.appClosed = z.appClosed, !.fault = z.fault, !.out = z.out]
        BY DEF Removed, m
      <4> QED  BY ZenonT(60), <4>1, <4>2 DEF IsTCB, TCBFields
    <3>3. /\ e.st = "CLOSED" /\ e.iss = r.iss /\ e.out = r.out
          /\ e.rcv_nxt = 0 /\ e.rq_nxt = 0 /\ e.fin_rcvd = FALSE /\ e.send_fin = FALSE
      BY ZenonT(60), <1>2, <1>4, <2>1, <2>4, <3>1, <3>2 DEF Kept
    <3> QED  BY <1>1, <1>4, <2>7, <3>3 DEF n, e
  <2> QED  BY <2>6, <2>7
<1> QED  BY <1>3, <1>4

\* The states before a connection is established.
LEMMA GrowsOpening ==
    ASSUME NEW c, IsTCB(c), NEW e, IsTCB(e), NEW d,
           c.st \in Opening, e.st \in Opening,
           \/ e.iss = c.iss
           \/ e.iss = c.iss + IssStep /\ IssStep > 1 /\ c.st \in {"INIT", "LISTEN"},
           c.st \in {"LISTEN", "SYN_RCVD"} => e.st \in {"LISTEN", "SYN_RCVD"},
           c.st \in SynStates /\ c.active => e.st \in SynStates /\ e.active
    PROVE  Grows(c, e, d)
<1>1. c.iss \in Int /\ e.iss \in Int /\ IssStep \in Int
  BY NumberTypes, ConstantTypes
<1>2. \A n \in Int : Known(n, c) => Known(n, e)
  BY <1>1, StateSets DEF Known
<1>3. \A n \in Int : Acked(n, c, d) => Acked(n, e, d)
  BY StateSets DEF Acked
<1>4. Fixed(c) => Fixed(e) /\ e.iss = c.iss
  BY StateSets DEF Fixed, SynStates
<1> QED  BY <1>1, <1>2, <1>3, <1>4 DEF Grows

\* The states of an established connection, and those after them.
LEMMA GrowsOn ==
    ASSUME NEW c, IsTCB(c), NEW e, IsTCB(e), NEW d, SynInv(c, d),
           e.iss = c.iss, e.active = c.active \/ e.st = "CLOSED",
           c.st = "CLOSED" => e.st = "CLOSED",
           \/ e.st \in {"TIME_WAIT", "CLOSED"}
           \/ /\ e.st \in DataStates
              /\ c.st \in DataStates \cup SynStates
              /\ c.iss < e.snd_max
              /\ c.st \in DataStates => c.snd_max <= e.snd_max
              /\ c.st # "SYN_SENT" => c.rcv_nxt <= e.rcv_nxt
    PROVE  Grows(c, e, d)
<1>1. /\ c.iss \in Int /\ e.iss \in Int /\ c.snd_max \in Int /\ e.snd_max \in Int
      /\ c.rcv_nxt \in Int /\ e.rcv_nxt \in Int
  BY NumberTypes
<1>2. \A n \in Int : Known(n, c) => Known(n, e)
  BY <1>1, StateSets DEF Known, SynStates
<1>3. \A n \in Int : Acked(n, c, d) => Acked(n, e, d)
  BY <1>1, StateSets DEF Acked, SynInv, SynStates
<1>4. Fixed(c) => Fixed(e) /\ e.iss = c.iss
  BY StateSets DEF Fixed, SynStates
<1>5. e.st \notin Opening
  BY StateSets
<1> QED  BY <1>1, <1>2, <1>3, <1>4, <1>5 DEF Grows

\* r is c but for what the other end cannot see: its timers and counters, its
\* send queue, its application; and it sent nothing but a reset.
Mute(c, r) ==
    /\ IsTCB(r) /\ SameRcv(c, r)
    /\ r.st = c.st /\ r.iss = c.iss /\ r.snd_una = c.snd_una
    /\ r.snd_max = c.snd_max /\ r.send_fin = c.send_fin
    /\ c.st # "INIT" => r.active = c.active
    /\ "DELAYED_ACK" \in r.timers => "DELAYED_ACK" \in c.timers
    /\ \A s \in r.out : "RST" \in s.flags

LEMMA PassesSyn ==
    ASSUME NEW c, IsTCB(c), SendInv(c), NEW d, AckInvAt(c, d, c.st),
           c.st \in DataStates \cup SynStates
    PROVE  c.iss < c.snd_max
<1>1. c.iss \in Int /\ c.snd_una \in Int /\ c.snd_nxt \in Int /\ c.snd_max \in Int
  BY NumberTypes
<1>2. CASE c.st \in DataStates
  BY <1>1, <1>2 DEF SendInv, SendInvAt, SendOrdered, AckInvAt
<1>3. CASE c.st \in SynStates
  BY <1>1, <1>3 DEF SendInv, SendInvAt, SynOrdered, SynStates
<1> QED  BY <1>2, <1>3

\* A handler that is mute: the connection stays in its state, or ends.
LEMMA MuteStep ==
    ASSUME NEW c, IsTCB(c), NEW d, IsTCB(d), NEW p, PairInv(c, d, p),
           SendInv(c), NEW r, Mute(c, r),
           NextState(r, r.event) \in {c.st, "CLOSED", "LISTEN"},
           NextState(r, r.event) = "LISTEN" =>
               c.st \in {"INIT", "LISTEN"} \/ (c.st = "SYN_RCVD" /\ ~c.active)
    PROVE  Step(c, r, d, p)
<1> DEFINE n == NextState(r, r.event)
           e == PerformStateTransition(r)
<1>0. IsTCB(r) /\ r.st = c.st /\ c.st \in States
  BY DEF Mute, IsTCB
<1>1. /\ IsTCB(e) /\ e.st = n /\ e.iss = r.iss /\ e.out = r.out
      /\ n # "CLOSED" \/ r.st = "CLOSED" =>
            /\ SameRcv(r, e) /\ e.active = r.active /\ e.snd_una = r.snd_una
            /\ e.snd_max = r.snd_max /\ e.send_fin = r.send_fin
            /\ e.timers \subseteq r.timers
      /\ n = "CLOSED" /\ r.st # "CLOSED" =>
            e.rcv_nxt = e.rq_nxt /\ e.rq_nxt \in Int /\ ~e.fin_rcvd /\ ~e.send_fin
  BY <1>0, TransitionFacts
<1>2. /\ n \in {c.st, "CLOSED", "LISTEN"}
      /\ n = "LISTEN" =>
               c.st \in {"INIT", "LISTEN"} \/ (c.st = "SYN_RCVD" /\ ~c.active)
  OBVIOUS
<1> HIDE DEF n, e
<1>3. \A s \in e.out : SegInv(s, e, d, p)
  BY <1>1 DEF SegInv, Mute
<1>4. Grows(c, e, d) /\ PairInv(e, d, p) => Step(c, r, d, p)
  BY <1>0, <1>3 DEF Step, e
<1>5. e.iss = c.iss /\ c.snd_max \in Int /\ c.rcv_nxt \in Int /\ c.iss \in Int
  BY <1>1, NumberTypes DEF Mute
<1>6. CASE n = "CLOSED" /\ c.st # "CLOSED"
  <2>1. Grows(c, e, d)
    BY <1>1, <1>5, <1>6, GrowsOn DEF PairInv
  <2>2. PairInv(e, d, p)
    BY <1>0, <1>1, <1>6, StateSets
       DEF PairInv, RcvInv, Received, SynInv, AckInvAt, FinInvAt
  <2> QED  BY <1>4, <2>1, <2>2
<1>7. CASE n # "CLOSED" \/ c.st = "CLOSED"
  <2>1. /\ SameRcv(c, e) /\ e.snd_una = c.snd_una /\ e.snd_max = c.snd_max
        /\ e.send_fin = c.send_fin /\ (c.st # "INIT" => e.active = c.active)
        /\ "DELAYED_ACK" \in e.timers => "DELAYED_ACK" \in c.timers
    BY <1>0, <1>1, <1>7 DEF Mute, SameRcv
  <2>2. Grows(c, e, d)
    <3>1. CASE c.st \in Opening
      <4>1. e.st \in Opening
        BY <1>1, <1>2, <1>7, <3>1, StateSets
      <4>2. c.st \in {"LISTEN", "SYN_RCVD"} => e.st \in {"LISTEN", "SYN_RCVD"}
        BY <1>1, <1>2, <1>7, StateSets
      <4>3. c.st \in SynStates /\ c.active => e.st \in SynStates /\ e.active
        BY <1>1, <1>2, <1>7, <2>1 DEF SynStates
      <4> QED  BY <1>1, <1>5, <3>1, <4>1, <4>2, <4>3, GrowsOpening
    <3>2. CASE c.st \in DataStates
      <4>1. e.st = c.st
        BY <1>1, <1>2, <1>7, <3>2, StateSets
      <4>2. c.iss < c.snd_max
        BY <3>2, PassesSyn DEF PairInv
      <4> QED  BY <1>1, <1>5, <2>1, <3>2, <4>1, <4>2, GrowsOn, StateSets
                  DEF PairInv, SameRcv
    <3>3. CASE c.st \in {"TIME_WAIT", "CLOSED"}
      <4>1. e.st = c.st
        BY <1>1, <1>2, <1>7, <3>3, StateSets
      <4> QED  BY <1>1, <1>5, <2>1, <3>3, <4>1, GrowsOn DEF PairInv
    <3> QED  BY <1>0, <3>1, <3>2, <3>3, StateSets
  <2>3. PairInv(e, d, p)
    <3>1. CASE e.st = c.st
      BY <1>5, <2>1, <3>1, StateSets
         DEF PairInv, RcvInv, Received, SynInv, AckInvAt, FinInvAt, SameRcv, Acked
    <3>2. CASE e.st = "LISTEN" /\ c.st \in Opening
      BY <1>5, <2>1, <3>2, StateSets
         DEF PairInv, RcvInv, Received, SynInv, AckInvAt, FinInvAt, SameRcv
    <3> QED  BY <1>1, <1>2, <1>7, <3>1, <3>2, StateSets
  <2> QED  BY <1>4, <2>2, <2>3
<1> QED  BY <1>0, <1>6, <1>7

\* A handler that sends no SYN.
LEMMA SpeakStep ==
    ASSUME NEW c, IsTCB(c), NEW d, IsTCB(d), NEW p, PairInv(c, d, p),
           c.st \in DataStates \cup {"TIME_WAIT"} \cup SynStates,
           NEW r, IsTCB(r), r.st = c.st, r.active = c.active, r.iss = c.iss,
           c.st # "TIME_WAIT" => c.iss < c.snd_max /\ c.snd_max <= r.snd_max,
           c.st # "SYN_SENT" => c.rcv_nxt <= r.rcv_nxt,
           \A s \in r.out :
               /\ "ACK" \in s.flags /\ "SYN" \notin s.flags /\ "RST" \notin s.flags
               /\ Known(s.ack, d) /\ s.ack <= r.rcv_nxt
               /\ "FIN" \in s.flags => p \in Closers
               /\ c.st # "TIME_WAIT" => s.seq + SegLen(s) <= r.snd_max,
           LET n == NextState(r, r.event)
           IN  /\ n \in DataStates \cup {"TIME_WAIT", "CLOSED"} \/ n = c.st
               /\ n # "SYN_SENT" /\ (c.st = "TIME_WAIT" => n \notin DataStates)
               /\ n = "SYN_RCVD" =>
                     /\ r.rcv_nxt = c.rcv_nxt
                     /\ \A s \in r.out : /\ s.seq = c.iss + 1 /\ s.len = 0
                                         /\ "FIN" \notin s.flags
               /\ n \in DataStates \cup {"SYN_RCVD"} /\ r.snd_una # c.iss
                     => Acked(r.snd_una, d, c)
               /\ n \in DataStates => c.iss < r.snd_una
               /\ n # "CLOSED" => Received(r, d) /\ FinInvAt(r, p, n)
    PROVE  Step(c, r, d, p)
<1> DEFINE n == NextState(r, r.event)
           e == PerformStateTransition(r)
<1>0. c.st \in States /\ c.st # "CLOSED"
  BY StateSets DEF IsTCB, SynStates
<1>1. /\ IsTCB(e) /\ e.st = n /\ e.iss = r.iss /\ e.out = r.out
      /\ n # "CLOSED" =>
            /\ SameRcv(r, e) /\ e.active = r.active /\ e.snd_una = r.snd_una
            /\ e.snd_max = r.snd_max /\ e.send_fin = r.send_fin
            /\ e.timers \subseteq r.timers
      /\ n = "CLOSED" =>
            e.rcv_nxt = e.rq_nxt /\ e.rq_nxt \in Int /\ ~e.fin_rcvd /\ ~e.send_fin
  BY <1>0, TransitionFacts
<1>2. /\ n \in DataStates \cup {"TIME_WAIT", "CLOSED"} \/ n = c.st
      /\ n # "SYN_SENT" /\ (c.st = "TIME_WAIT" => n \notin DataStates)
      /\ n = "SYN_RCVD" =>
               /\ r.rcv_nxt = c.rcv_nxt
               /\ \A s \in r.out : /\ s.seq = c.iss + 1 /\ s.len = 0
                                   /\ "FIN" \notin s.flags
      /\ n \in DataStates \cup {"SYN_RCVD"} /\ r.snd_una # c.iss
               => Acked(r.snd_una, d, c)
      /\ n \in DataStates => c.iss < r.snd_una
      /\ n # "CLOSED" => Received(r, d) /\ FinInvAt(r, p, n)
  OBVIOUS
<1> HIDE DEF n, e
<1>3. /\ c.iss \in Int /\ c.rcv_nxt \in Int /\ r.rcv_nxt \in Int /\ d.iss \in Int
      /\ c.snd_max \in Int /\ r.snd_max \in Int /\ d.snd_max \in Int
      /\ r.out \in SUBSET Segment
  BY <1>0, NumberTypes DEF IsTCB
<1>5. Grows(c, e, d)
  <2>1. CASE n \in {"TIME_WAIT", "CLOSED"}
    BY <1>0, <1>1, <2>1, GrowsOn DEF PairInv
  <2>2. CASE n \in DataStates
    <3>1. c.st \in DataStates \cup SynStates /\ c.st # "TIME_WAIT" /\ n # "CLOSED"
      BY <1>2, <2>2, StateSets
    <3>3. e.snd_max = r.snd_max /\ e.rcv_nxt = r.rcv_nxt
      BY <1>1, <3>1 DEF SameRcv
    <3>5. c.iss < e.snd_max
      BY <1>3, <3>1, <3>3
    <3> QED  BY <1>0, <1>1, <2>2, <3>1, <3>3, <3>5, GrowsOn DEF PairInv
  <2>3. CASE n = "SYN_RCVD" /\ c.st = "SYN_RCVD"
    BY <1>0, <1>1, <2>3, GrowsOpening, StateSets DEF SynStates
  <2> QED  BY <1>2, <2>1, <2>2, <2>3 DEF SynStates
<1>6. PairInv(e, d, p)
  <2>1. CASE n = "CLOSED"
    BY <1>0, <1>1, <2>1, StateSets DEF PairInv, RcvInv, SynInv, AckInvAt, FinInvAt
  <2>2. CASE n # "CLOSED"
    <3>1. RcvInv(e, d)
      BY <1>1, <1>2, <2>2 DEF RcvInv, Received, SameRcv
    <3>2. SynInv(e, d)
      BY <1>1, <1>2, <2>2, StateSets DEF PairInv, SynInv, SameRcv
    <3>3. AckInvAt(e, d, e.st)
      BY <1>0, <1>1, <1>2, <2>2, StateSets DEF AckInvAt, Acked
    <3>4. FinInvAt(e, p, e.st)
      BY <1>1, <1>2, <2>2 DEF FinInvAt, SameRcv
    <3> QED  BY <3>1, <3>2, <3>3, <3>4 DEF PairInv
  <2> QED  BY <2>1, <2>2
<1>7. ASSUME NEW s \in e.out PROVE SegInv(s, e, d, p)
  <2>1. /\ s \in r.out /\ s \in Segment
        /\ "ACK" \in s.flags /\ "SYN" \notin s.flags /\ "RST" \notin s.flags
        /\ Known(s.ack, d) /\ s.ack <= r.rcv_nxt
        /\ "FIN" \in s.flags => p \in Closers
        /\ c.st # "TIME_WAIT" => s.seq + SegLen(s) <= r.snd_max
    BY <1>1, <1>3, <1>7
  <2>2. s.ack \in Int /\ s.seq \in Int /\ s.len \in Nat
    BY <2>1 DEF Segment
  <2>3. Known(s.seq + SegLen(s), e)
    <3>1. CASE n \in {"TIME_WAIT", "CLOSED"}
      BY <1>1, <3>1, StateSets DEF Known
    <3>2. CASE n \in DataStates
      <4>1. s.seq + SegLen(s) <= e.snd_max
        BY <1>1, <1>2, <2>1, <3>2, StateSets
      <4> QED  BY <1>1, <3>2, <4>1, StateSets DEF Known
    <3>3. CASE n = "SYN_RCVD"
      <4>1. s.seq = c.iss + 1 /\ SegLen(s) = 0
        BY <1>2, <2>1, <2>2, <3>3 DEF SegLen
      <4> QED  BY <1>0, <1>1, <1>3, <3>3, <4>1, StateSets DEF Known
    <3> QED  BY <1>2, <3>1, <3>2, <3>3 DEF SynStates
  <2>5. Acked(s.ack, e, d)
    <3>1. CASE n \in DataStates
      BY <1>1, <2>1, <3>1, StateSets DEF Acked, SameRcv
    <3>2. CASE n = "SYN_RCVD"
      <4>1. s.ack <= c.rcv_nxt /\ c.st = "SYN_RCVD"
        BY <1>2, <2>1, <3>2, StateSets
      <4> QED  BY <1>1, <1>3, <2>2, <3>2, <4>1, StateSets DEF Acked, PairInv, SynInv
    <3>3. CASE n \in {"TIME_WAIT", "CLOSED"}
      BY <1>1, <3>3, StateSets DEF Acked
    <3> QED  BY <1>2, <3>1, <3>2, <3>3 DEF SynStates
  <2>7. e.st \in Opening => s.len = 0 /\ "FIN" \notin s.flags
    BY <1>1, <1>2, <2>1, StateSets DEF SynStates
  <2> QED  BY <2>1, <2>3, <2>5, <2>7 DEF SegInv
<1> QED  BY <1>5, <1>6, <1>7 DEF Step, e

\* c has a SYN acknowledged, or is the passive or simultaneously opened side
\* of the handshake that ends.
LEMMA TalkStep ==
    ASSUME NEW c, IsTCB(c), NEW d, IsTCB(d), NEW p, PairInv(c, d, p), SendInv(c),
           c.out = {}, c.st \in DataStates \cup {"TIME_WAIT", "SYN_RCVD"},
           NEW r, Talks(c, r), Received(r, d),
           d.st \in Opening => r.rcv_nxt = c.rcv_nxt,
           LET n == NextState(r, r.event)
           IN  /\ n \in DataStates \cup {"TIME_WAIT", "CLOSED"} \/ n = c.st
               /\ c.st = "TIME_WAIT" => n \notin DataStates
               /\ n = "SYN_RCVD" =>
                     /\ r.rcv_nxt = c.rcv_nxt
                     /\ \A s \in r.out : /\ s.seq = c.iss + 1 /\ s.len = 0
                                         /\ "FIN" \notin s.flags
               /\ n \in DataStates \cup {"SYN_RCVD"} /\ r.snd_una # c.iss
                     => Acked(r.snd_una, d, c)
               /\ n \in DataStates => c.iss < r.snd_una
               /\ n # "CLOSED" => FinInvAt(r, p, n)
    PROVE  Step(c, r, d, p)
<1> DEFINE n == NextState(r, r.event)
<1>0. /\ IsTCB(r) /\ r.st = c.st /\ r.iss = c.iss /\ r.active = c.active
      /\ r.send_fin = c.send_fin /\ c.rcv_nxt <= r.rcv_nxt
      /\ c.st \in DataStates \cup {"TIME_WAIT"} \cup SynStates /\ c.st # "SYN_SENT"
  BY StateSets DEF Talks, SynStates
<1>1. /\ n \in DataStates \cup {"TIME_WAIT", "CLOSED"} \/ n = c.st
      /\ c.st = "TIME_WAIT" => n \notin DataStates
      /\ n = "SYN_RCVD" =>
               /\ r.rcv_nxt = c.rcv_nxt
               /\ \A s \in r.out : /\ s.seq = c.iss + 1 /\ s.len = 0
                                   /\ "FIN" \notin s.flags
      /\ n \in DataStates \cup {"SYN_RCVD"} /\ r.snd_una # c.iss
               => Acked(r.snd_una, d, c)
      /\ n \in DataStates => c.iss < r.snd_una
      /\ n # "CLOSED" => FinInvAt(r, p, n)
  OBVIOUS
<1> HIDE DEF n
<1>2. n # "SYN_SENT"
  BY <1>0, <1>1, StateSets
<1>3. /\ c.rcv_nxt \in Int /\ r.rcv_nxt \in Int /\ d.iss \in Int /\ d.snd_max \in Int
      /\ r.out \in SUBSET Segment
  BY <1>0, NumberTypes DEF IsTCB
<1>4. c.st # "TIME_WAIT" => c.iss < c.snd_max /\ c.snd_max <= r.snd_max
  <2>1. c.st # "TIME_WAIT" => SendOrdered(c) /\ c.st \in DataStates \cup SynStates
    BY <1>0, StateSets DEF SendInv, SendInvAt, SynOrdered
  <2> QED  BY <2>1, PassesSyn DEF Talks, PairInv
<1>5. ASSUME NEW s \in r.out
      PROVE  /\ "ACK" \in s.flags /\ "SYN" \notin s.flags /\ "RST" \notin s.flags
             /\ Known(s.ack, d) /\ s.ack <= r.rcv_nxt
             /\ "FIN" \in s.flags => p \in Closers
             /\ c.st # "TIME_WAIT" => s.seq + SegLen(s) <= r.snd_max
  <2>1. Says(s, c, r) /\ s.ack \in Int
    BY <1>3, <1>5 DEF Talks, Segment
  <2>2. c.st # "TIME_WAIT" => s.seq + SegLen(s) <= r.snd_max
    <3>1. c.st # "TIME_WAIT" => SendOrdered(c)
      BY StateSets DEF SendInv, SendInvAt, SynOrdered
    <3> QED  BY <1>5, <3>1 DEF Talks
  <2>3. Known(s.ack, d)
    <3>1. Known(r.rcv_nxt, d)
      BY DEF Received
    <3> QED  BY <1>3, <2>1, <3>1 DEF Known, Says
  <2>4. "FIN" \in s.flags => p \in Closers
    BY <1>0, <2>1 DEF Says, PairInv, FinInvAt
  <2> QED  BY <2>1, <2>2, <2>3, <2>4 DEF Says
<1> QED  BY <1>0, <1>1, <1>2, <1>4, <1>5, SpeakStep DEF n

-----------------------------------------------------------------------------
(* The network.                                                            *)

AgreeInv ==
    \A p \in Endpoints :
        /\ tcb[p].out = {}
        /\ PairInv(tcb[p], tcb[Peer(p)], p)
        /\ \A s \in net[p] : SegInv(s, tcb[Peer(p)], tcb[p], Peer(p))

\* The other end, and what is in flight, know no more than before.
LEMMA GrowsPair ==
    ASSUME NEW c, NEW e, NEW d, IsTCB(d), Grows(c, e, d), NEW q, PairInv(d, c, q)
    PROVE  PairInv(d, e, q)
<1>1. /\ d.rcv_nxt \in Int /\ d.rq_nxt \in Int /\ d.snd_una \in Int
      /\ d.rcv_fin_seq + 1 \in Int /\ \A b \in d.rcvq : b + 1 \in Int
  <2>1. d.rcvq \in SUBSET Int
    BY DEF IsTCB
  <2>2. \A b \in d.rcvq : b + 1 \in Int
    BY <2>1
  <2> QED  BY <2>2, NumberTypes
<1>2. RcvInv(d, e)
  BY <1>1 DEF PairInv, RcvInv, Received, Grows
<1>3. SynInv(d, e)
  BY DEF PairInv, SynInv, Grows
<1>4. AckInvAt(d, e, d.st)
  BY <1>1 DEF PairInv, AckInvAt, Grows
<1> QED  BY <1>2, <1>3, <1>4 DEF PairInv

LEMMA GrowsFrom ==
    ASSUME NEW c, IsTCB(c), NEW e, IsTCB(e), NEW d, Grows(c, e, d), NEW p,
           NEW s \in Segment, SegInv(s, c, d, p)
    PROVE  SegInv(s, e, d, p)
<1>1. s.ack \in Int /\ s.seq + SegLen(s) \in Int
  BY DEF Segment, SegLen
<1> QED  BY <1>1 DEF SegInv, Grows

LEMMA GrowsTo ==
    ASSUME NEW c, IsTCB(c), NEW e, IsTCB(e), NEW d, IsTCB(d), Grows(c, e, d), NEW q,
           NEW s \in Segment, SegInv(s, d, c, q)
    PROVE  SegInv(s, d, e, q)
<1>1. s.ack \in Int /\ c.iss \in Int /\ e.iss \in Int /\ c.iss <= e.iss
  BY NumberTypes DEF Segment, Grows
<1>2. Acked(s.ack, d, c) => Acked(s.ack, d, e)
  BY <1>1 DEF Acked
<1>3. Known(s.ack, c) => Known(s.ack, e)
  BY <1>1 DEF Grows
<1> QED  BY <1>2, <1>3 DEF SegInv

LEMMA HandledAgrees ==
    ASSUME PeersInv, AgreeInv, NEW p \in Endpoints, NEW r,
           Step(tcb[p], r, tcb[Peer(p)], p),
           NEW rest \in SUBSET net[p], Handled(p, r, rest)
    PROVE  AgreeInv'
<1> DEFINE q == Peer(p)
           c == tcb[p]
           d == tcb[q]
           e == PerformStateTransition(r)
           x == [e EXCEPT !.out = {}, !.event = "IGNORE"]
<1>1. /\ q \in Endpoints /\ q # p /\ Endpoints = {p, q} /\ Peer(q) = p
  BY DEF Peer, Endpoints
<1>2. /\ IsTCB(c) /\ IsTCB(d) /\ IsTCB(e)
      /\ net \in [Endpoints -> SUBSET Segment]
      /\ tcb = [o \in Endpoints |-> tcb[o]]
  BY <1>1, TransitionType DEF PeersInv, Rests, ConnInv, Step
<1>3. Grows(c, e, d) /\ PairInv(e, d, p) /\ \A s \in e.out : SegInv(s, e, d, p)
  BY DEF Step
<1>4. /\ PairInv(d, c, q) /\ d.out = {}
      /\ \A s \in net[p] : SegInv(s, d, c, q)
      /\ \A s \in net[q] : SegInv(s, c, d, p)
  BY <1>1 DEF AgreeInv
<1>5. PICK sent \in Advertised(p, e.out) : \E kept \in Carried(net[Peer(p)], sent) :
         net' = [net EXCEPT ![p] = rest, ![Peer(p)] = @ \cup kept]
  BY DEF Handled
<1>6. PICK kept \in Carried(net[q], sent) :
         net' = [net EXCEPT ![p] = rest, ![q] = @ \cup kept]
  BY <1>5
<1>7. tcb' = [tcb EXCEPT ![p] = x]
  BY DEF Handled
<1> HIDE DEF q, c, d, e
<1>8. /\ IsTCB(x) /\ x.out = {} /\ SameRcv(e, x)
      /\ x.st = e.st /\ x.iss = e.iss /\ x.active = e.active /\ x.timers = e.timers
      /\ x.snd_una = e.snd_una /\ x.snd_max = e.snd_max /\ x.send_fin = e.send_fin
  <2>1. IsTCB(x)
    BY ZenonT(60), <1>2 DEF IsTCB, TCBFields, Events
  <2>2. SameRcv(e, x) /\ x.out = {}
    BY ZenonT(60), <1>2 DEF SameRcv, IsTCB, TCBFields
  <2>3. /\ x.st = e.st /\ x.iss = e.iss /\ x.active = e.active /\ x.timers = e.timers
        /\ x.snd_una = e.snd_una /\ x.snd_max = e.snd_max /\ x.send_fin = e.send_fin
    BY ZenonT(60), <1>2 DEF IsTCB, TCBFields
  <2> QED  BY <2>1, <2>2, <2>3
<1> HIDE DEF x
<1>9. Grows(c, x, d)
  BY <1>3, <1>8 DEF Grows, Known, Acked, Fixed, SameRcv
<1>10. PairInv(x, d, p)
  BY <1>3, <1>8
     DEF PairInv, RcvInv, Received, SynInv, AckInvAt, FinInvAt, SameRcv, Acked
<1>11. PairInv(d, x, q)
  BY <1>2, <1>4, <1>9, GrowsPair
<1>12. /\ tcb'[p] = x /\ tcb'[q] = d
       /\ net'[p] = rest /\ net'[q] = net[q] \cup kept
  BY <1>1, <1>2, <1>6, <1>7 DEF d
<1>13. ASSUME NEW s \in rest PROVE SegInv(s, d, x, q)
  <2>1. s \in Segment /\ SegInv(s, d, c, q)
    BY <1>2, <1>4
  <2> QED  BY <1>2, <1>8, <1>9, <2>1, GrowsTo
<1>14. ASSUME NEW s \in net[q] PROVE SegInv(s, x, d, p)
  <2>1. s \in Segment /\ SegInv(s, c, d, p)
    BY <1>1, <1>2, <1>4
  <2> QED  BY <1>2, <1>8, <1>9, <2>1, GrowsFrom
<1>15. ASSUME NEW s \in kept PROVE SegInv(s, x, d, p)
  <2>1. PICK t \in e.out : s = t \/ s = [t EXCEPT !.wnd = 0]
    BY <1>15 DEF Carried, Advertised
  <2>2. t \in Segment /\ SegInv(t, e, d, p)
    BY <1>2, <1>3 DEF IsTCB
  <2>3. s.flags = t.flags /\ s.seq = t.seq /\ s.ack = t.ack /\ s.len = t.len
    BY <2>1, <2>2 DEF Segment
  <2>4. SegInv(s, e, d, p)
    BY <2>2, <2>3 DEF SegInv, SegLen
  <2> QED  BY <1>8, <2>4 DEF SegInv, Known, Acked, Fixed, SameRcv
<1>16. ASSUME NEW o \in Endpoints
       PROVE  /\ tcb'[o].out = {}
              /\ PairInv(tcb'[o], tcb'[Peer(o)], o)
              /\ \A s \in net'[o] : SegInv(s, tcb'[Peer(o)], tcb'[o], Peer(o))
  <2>1. CASE o = p
    BY <1>8, <1>10, <1>12, <1>13, <2>1 DEF q
  <2>2. CASE o = q
    BY <1>1, <1>4, <1>11, <1>12, <1>14, <1>15, <2>2
  <2> QED  BY <1>1, <2>1, <2>2
<1> QED  BY <1>16 DEF AgreeInv

LEMMA InitAgrees == Init => AgreeInv
<1> SUFFICES ASSUME Init, NEW p \in Endpoints
             PROVE  /\ tcb[p].out = {}
                    /\ PairInv(tcb[p], tcb[Peer(p)], p)
                    /\ \A s \in net[p] : SegInv(s, tcb[Peer(p)], tcb[p], Peer(p))
  BY DEF AgreeInv
<1> DEFINE n == NewConnection
           i == IssBase(p)
           e == [n EXCEPT !.iss = i]
<1>1. /\ IsTCB(n) /\ n.st = "INIT" /\ n.timers = {} /\ n.out = {}
  BY NewConnectionOK
<1>2. /\ n.rcv_nxt = 0 /\ n.rq_nxt = 0 /\ n.send_fin = FALSE /\ n.fin_rcvd = FALSE
  BY DEF NewConnection
<1>3. tcb[p] = e /\ net[p] = {}
  BY DEF Init
<1> HIDE DEF n, i
<1>4. /\ e.st = "INIT" /\ e.timers = {} /\ e.out = {}
      /\ e.rcv_nxt = 0 /\ e.rq_nxt = 0 /\ e.send_fin = FALSE /\ e.fin_rcvd = FALSE
  BY ZenonT(60), <1>1, <1>2 DEF IsTCB, TCBFields
<1> HIDE DEF e
<1>5. PairInv(e, tcb[Peer(p)], p)
  BY <1>4, StateSets DEF PairInv, RcvInv, Received, SynInv, AckInvAt, FinInvAt
<1> QED  BY <1>3, <1>4, <1>5

-----------------------------------------------------------------------------
(* Handlers that send nothing, or a reset.                                 *)

\* The connection c of endpoint p, and d, the other end, between two handlers.
Pair(c, d, p) ==
    Rests(c) /\ SendInv(c) /\ c.out = {} /\ IsTCB(d) /\ PairInv(c, d, p)

LEMMA PairFacts ==
    ASSUME NEW c, NEW d, NEW p, Pair(c, d, p)
    PROVE  /\ IsTCB(c) /\ IsTCB(d) /\ c.event = "IGNORE" /\ c.out = {}
           /\ SendInv(c) /\ SendInvAt(c, c.st) /\ PairInv(c, d, p)
           /\ c.st \in States
BY DEF Pair, Rests, ConnInv, SendInv, IsTCB

LEMMA MuteTrans ==
    ASSUME NEW c, NEW a, NEW b, Mute(c, a), Mute(a, b) PROVE Mute(c, b)
BY DEF Mute, SameRcv

\* A TCB that differs from c in no field the other end can see.
LEMMA MuteFields ==
    ASSUME NEW c, NEW r, IsTCB(r), SameRcv(c, r), r.out = c.out,
           \A s \in c.out : "RST" \in s.flags,
           r.st = c.st, r.active = c.active, r.iss = c.iss, r.snd_una = c.snd_una,
           r.snd_max = c.snd_max, r.send_fin = c.send_fin,
           "DELAYED_ACK" \in r.timers => "DELAYED_ACK" \in c.timers
    PROVE  Mute(c, r)
BY DEF Mute

LEMMA MuteOps ==
    ASSUME NEW c, IsTCB(c), \A s \in c.out : "RST" \in s.flags
    PROVE  /\ Mute(c, c)
           /\ \A i \in Indications : Mute(c, Indicate(c, i))
           /\ \A e \in Events : Mute(c, Event(c, e)) /\ Event(c, e).event = e
           /\ \A ts : Mute(c, CancelEvents(c, ts))
           /\ \A b \in BOOLEAN : Mute(c, Require(c, b))
           /\ \A s \in Segment : "RST" \in s.flags => Mute(c, Emit(c, s))
<1>1. Mute(c, c)
  BY DEF Mute, SameRcv
<1>2. ASSUME NEW i \in Indications PROVE Mute(c, Indicate(c, i))
  <2> DEFINE r == Indicate(c, i)
  <2>1. IsTCB(r)
    BY IndicateFacts
  <2>2. SameRcv(c, r) /\ r.out = c.out
    BY ZenonT(60) DEF Indicate, SameRcv, IsTCB, TCBFields
  <2>3. /\ r.st = c.st /\ r.active = c.active /\ r.iss = c.iss /\ r.snd_una = c.snd_una
        /\ r.snd_max = c.snd_max /\ r.send_fin = c.send_fin /\ r.timers = c.timers
    BY ZenonT(60) DEF Indicate, IsTCB, TCBFields
  <2> HIDE DEF r
  <2>4. Mute(c, r)
    BY <2>1, <2>2, <2>3, MuteFields
  <2> QED  BY <2>4 DEF r
<1>3. ASSUME NEW e \in Events PROVE Mute(c, Event(c, e)) /\ Event(c, e).event = e
  <2> DEFINE r == Event(c, e)
  <2>1. IsTCB(r) /\ r.event = e
    BY EventFacts
  <2>2. SameRcv(c, r) /\ r.out = c.out
    BY ZenonT(60) DEF Event, SameRcv, IsTCB, TCBFields
  <2>3. /\ r.st = c.st /\ r.active = c.active /\ r.iss = c.iss /\ r.snd_una = c.snd_una
        /\ r.snd_max = c.snd_max /\ r.send_fin = c.send_fin /\ r.timers = c.timers
    BY ZenonT(60) DEF Event, IsTCB, TCBFields
  <2> HIDE DEF r
  <2>4. Mute(c, r)
    BY <2>1, <2>2, <2>3, MuteFields
  <2> QED  BY <2>1, <2>4 DEF r
<1>4. ASSUME NEW ts PROVE Mute(c, CancelEvents(c, ts))
  <2> DEFINE t == c.timers \ ts
             r == [c EXCEPT !.timers = t]
  <2>0. t \in SUBSET Timers /\ t \subseteq c.timers
    BY DEF IsTCB
  <2> HIDE DEF t
  <2>1. IsTCB(r)
    BY ZenonT(60), <2>0 DEF IsTCB, TCBFields
  <2>2. SameRcv(c, r) /\ r.out = c.out
    BY ZenonT(60) DEF SameRcv, IsTCB, TCBFields
  <2>3. /\ r.st = c.st /\ r.active = c.active /\ r.iss = c.iss /\ r.snd_una = c.snd_una
        /\ r.snd_max = c.snd_max /\ r.send_fin = c.send_fin /\ r.timers = t
    BY ZenonT(60) DEF IsTCB, TCBFields
  <2> HIDE DEF r
  <2>4. Mute(c, r)
    BY <2>0, <2>1, <2>2, <2>3, MuteFields
  <2> QED  BY <2>4 DEF CancelEvents, r, t
<1>5. ASSUME NEW b \in BOOLEAN PROVE Mute(c, Require(c, b))
  <2> DEFINE r == Require(c, b)
  <2>1. IsTCB(r)
    BY RequireOK DEF Keeps
  <2>2. SameRcv(c, r) /\ r.out = c.out
    BY ZenonT(60) DEF Require, SameRcv, IsTCB, TCBFields
  <2>3. /\ r.st = c.st /\ r.active = c.active /\ r.iss = c.iss /\ r.snd_una = c.snd_una
        /\ r.snd_max = c.snd_max /\ r.send_fin = c.send_fin /\ r.timers = c.timers
    BY ZenonT(60) DEF Require, IsTCB, TCBFields
  <2> HIDE DEF r
  <2>4. Mute(c, r)
    BY <2>1, <2>2, <2>3, MuteFields
  <2> QED  BY <2>4 DEF r
<1>6. ASSUME NEW s \in Segment, "RST" \in s.flags PROVE Mute(c, Emit(c, s))
  <2> DEFINE r == Emit(c, s)
  <2>1. IsTCB(r)
    BY EmitOK DEF Keeps
  <2>2. SameRcv(c, r) /\ r.out = c.out \cup {s}
    BY ZenonT(60) DEF Emit, SameRcv, IsTCB, TCBFields
  <2>3. /\ r.st = c.st /\ r.active = c.active /\ r.iss = c.iss /\ r.snd_una = c.snd_una
        /\ r.snd_max = c.snd_max /\ r.send_fin = c.send_fin /\ r.timers = c.timers
    BY ZenonT(60) DEF Emit, IsTCB, TCBFields
  <2> HIDE DEF r
  <2>4. Mute(c, r)
    BY <1>6, <2>1, <2>2, <2>3 DEF Mute
  <2> QED  BY <2>4 DEF r
<1> QED  BY <1>1, <1>2, <1>3, <1>4, <1>5, <1>6

LEMMA SendRstMute ==
    ASSUME NEW c, IsTCB(c), \A s \in c.out : "RST" \in s.flags, NEW seq \in Int
    PROVE  Mute(c, SendRst(c, seq))
<1> DEFINE s == Seg({"RST"}, seq, 0, 0, 0)
<1>1. s \in Segment
  BY SegType DEF Flags
<1>2. "RST" \in s.flags
  BY DEF Seg
<1> HIDE DEF s
<1> QED  BY <1>1, <1>2, MuteOps DEF SendRst, s

\* A handler that gives the FSM no event.
LEMMA IgnoredStep ==
    ASSUME NEW c, NEW d, NEW p, Pair(c, d, p), NEW r, Mute(c, r), r.event = "IGNORE"
    PROVE  Step(c, r, d, p)
<1>1. IsTCB(r) /\ r.st = c.st
  BY DEF Mute
<1>2. NextState(r, r.event) = c.st
  BY <1>1, NextStateFacts
<1>3. c.st = "LISTEN" => c.st \in {"INIT", "LISTEN"}
  OBVIOUS
<1> QED  BY <1>2, <1>3, PairFacts, MuteStep

LEMMA ClosedStep ==
    ASSUME NEW c, NEW d, NEW p, Pair(c, d, p), NEW r, Mute(c, r),
           NextState(r, r.event) = "CLOSED"
    PROVE  Step(c, r, d, p)
BY PairFacts, MuteStep

LEMMA ProcessOpenPassiveStep ==
    ASSUME NEW c, NEW d, NEW p, Pair(c, d, p), c.st = "INIT"
    PROVE  Step(c, ProcessOpenPassive(c), d, p)
<1> DEFINE x == ProcessOpenPassive(c)
<1>1. IsTCB(c) /\ c.out = {}
  BY PairFacts
<1>2. /\ IsTCB(x) /\ x.st = "INIT" /\ x.event = "OPEN_PASSIVE" /\ x.iss = c.iss
      /\ x.snd_una = c.snd_una /\ x.snd_max = c.snd_max
      /\ x.send_fin = c.send_fin /\ x.timers = c.timers
  BY ZenonT(60), <1>1 DEF ProcessOpenPassive, Event, IsTCB, TCBFields, Events
<1>3. SameRcv(c, x) /\ x.out = c.out
  BY ZenonT(60), <1>1 DEF ProcessOpenPassive, Event, SameRcv, IsTCB, TCBFields
<1> HIDE DEF x
<1>4. Mute(c, x)
  BY <1>1, <1>2, <1>3 DEF Mute
<1>5. NextState(x, x.event) = "LISTEN"
  BY <1>2, NextStateFacts
<1>6. Step(c, x, d, p)
  BY <1>4, <1>5, PairFacts, MuteStep
<1> QED  BY <1>6 DEF x

LEMMA SegmentArrivalWhileClosedStep ==
    ASSUME NEW c, NEW d, NEW p, Pair(c, d, p), c.st \in {"INIT", "CLOSED"}, NEW s \in Segment
    PROVE  Step(c, SegmentArrivalWhileClosed(c, s), d, p)
<1> DEFINE r == SegmentArrivalWhileClosed(c, s)
           g == Seg({"RST", "ACK"}, 0, s.seq + SegLen(s), 0, 0)
<1>1. IsTCB(c) /\ c.event = "IGNORE" /\ s.ack \in Int /\ c.out = {}
  BY PairFacts DEF Segment
<1>2. g \in Segment /\ "RST" \in g.flags
  <2>1. s.seq + SegLen(s) \in Int
    BY DEF Segment, SegLen
  <2>2. "RST" \in g.flags
    BY DEF Seg
  <2> QED  BY <2>1, <2>2, SegType DEF Flags
<1>3. r \in {c, SendRst(c, s.ack), Emit(c, g)}
  BY DEF SegmentArrivalWhileClosed
<1> HIDE DEF r, g
<1>4. Mute(c, r)
  BY <1>1, <1>2, <1>3, MuteOps, SendRstMute
<1>5. r.event = "IGNORE"
  BY SMTT(60), <1>1, <1>2, <1>3, EmitOK, SendRstOK DEF Keeps
<1>6. Step(c, r, d, p)
  BY <1>4, <1>5, IgnoredStep
<1> QED  BY <1>6 DEF r

\* A field that neither the other end nor the FSM can see.
LEMMA MuteSets ==
    ASSUME NEW c, IsTCB(c), \A s \in c.out : "RST" \in s.flags
    PROVE  /\ Mute(c, [c EXCEPT !.appClosed = TRUE])
           /\ Mute(c, [c EXCEPT !.qBegin = c.qEnd])
           /\ Mute(c, [c EXCEPT !.dupacks = 0])
           /\ \A n \in Int : Mute(c, [c EXCEPT !.qEnd = n])
           /\ \A n \in Int : Mute(c, [c EXCEPT !.rexmit_count = n])
           /\ \A n \in Int : Mute(c, [c EXCEPT !.syn_rexmit_count = n])
<1> DEFINE Others(r) ==
               /\ r.st = c.st /\ r.active = c.active /\ r.iss = c.iss
               /\ r.snd_una = c.snd_una /\ r.snd_max = c.snd_max
               /\ r.send_fin = c.send_fin /\ r.timers = c.timers
<1>0. ASSUME NEW r, IsTCB(r), SameRcv(c, r), r.out = c.out, Others(r) PROVE Mute(c, r)
  BY <1>0, MuteFields
<1>1. Mute(c, [c EXCEPT !.appClosed = TRUE])
  <2> DEFINE r == [c EXCEPT !.appClosed = TRUE]
  <2>1. IsTCB(r) /\ Others(r)
    BY ZenonT(60) DEF IsTCB, TCBFields
  <2>2. SameRcv(c, r) /\ r.out = c.out
    BY ZenonT(60) DEF SameRcv, IsTCB, TCBFields
  <2> HIDE DEF r, Others
  <2>3. Mute(c, r)
    BY <1>0, <2>1, <2>2
  <2> QED  BY <2>3 DEF r
<1>2. Mute(c, [c EXCEPT !.qBegin = c.qEnd])
  <2> DEFINE r == [c EXCEPT !.qBegin = c.qEnd]
  <2>1. IsTCB(r) /\ Others(r)
    BY ZenonT(60) DEF IsTCB, TCBFields
  <2>2. SameRcv(c, r) /\ r.out = c.out
    BY ZenonT(60) DEF SameRcv, IsTCB, TCBFields
  <2> HIDE DEF r, Others
  <2>3. Mute(c, r)
    BY <1>0, <2>1, <2>2
  <2> QED  BY <2>3 DEF r
<1>3. Mute(c, [c EXCEPT !.dupacks = 0])
  <2> DEFINE r == [c EXCEPT !.dupacks = 0]
  <2>0. IsTCB(r)
    BY SetDupacksOK DEF Keeps
  <2>1. Others(r)
    BY ZenonT(60) DEF IsTCB, TCBFields
  <2>2. SameRcv(c, r) /\ r.out = c.out
    BY ZenonT(60) DEF SameRcv, IsTCB, TCBFields
  <2> HIDE DEF r, Others
  <2>3. Mute(c, r)
    BY <1>0, <2>0, <2>1, <2>2
  <2> QED  BY <2>3 DEF r
<1>4. ASSUME NEW n \in Int PROVE Mute(c, [c EXCEPT !.qEnd = n])
  <2> DEFINE r == [c EXCEPT !.qEnd = n]
  <2>1. IsTCB(r) /\ Others(r)
    BY ZenonT(60) DEF IsTCB, TCBFields
  <2>2. SameRcv(c, r) /\ r.out = c.out
    BY ZenonT(60) DEF SameRcv, IsTCB, TCBFields
  <2> HIDE DEF r, Others
  <2>3. Mute(c, r)
    BY <1>0, <2>1, <2>2
  <2> QED  BY <2>3 DEF r
<1>5. ASSUME NEW n \in Int PROVE Mute(c, [c EXCEPT !.rexmit_count = n])
  <2> DEFINE r == [c EXCEPT !.rexmit_count = n]
  <2>1. IsTCB(r) /\ Others(r)
    BY ZenonT(60) DEF IsTCB, TCBFields
  <2>2. SameRcv(c, r) /\ r.out = c.out
    BY ZenonT(60) DEF SameRcv, IsTCB, TCBFields
  <2> HIDE DEF r, Others
  <2>3. Mute(c, r)
    BY <1>0, <2>1, <2>2
  <2> QED  BY <2>3 DEF r
<1>6. ASSUME NEW n \in Int PROVE Mute(c, [c EXCEPT !.syn_rexmit_count = n])
  <2> DEFINE r == [c EXCEPT !.syn_rexmit_count = n]
  <2>1. IsTCB(r) /\ Others(r)
    BY ZenonT(60) DEF IsTCB, TCBFields
  <2>2. SameRcv(c, r) /\ r.out = c.out
    BY ZenonT(60) DEF SameRcv, IsTCB, TCBFields
  <2> HIDE DEF r, Others
  <2>3. Mute(c, r)
    BY <1>0, <2>1, <2>2
  <2> QED  BY <2>3 DEF r
<1> HIDE DEF Others
<1> QED  BY <1>1, <1>2, <1>3, <1>4, <1>5, <1>6

LEMMA ProcessAbortStep ==
    ASSUME NEW c, NEW d, NEW p, Pair(c, d, p), c.st # "INIT"
    PROVE  Step(c, ProcessAbort(c), d, p)
<1> DEFINE a == [c EXCEPT !.appClosed = TRUE]
           b == SendRst(a, c.snd_nxt)
           r == ProcessAbort(c)
<1>1. IsTCB(c) /\ c.out = {} /\ c.snd_nxt \in Int
  BY PairFacts, NumberTypes
<1>2. r \in {Event(a, "ABORT"), Event(b, "ABORT")}
  BY DEF ProcessAbort
<1>3. Mute(c, a) /\ IsTCB(a) /\ \A s \in a.out : "RST" \in s.flags
  <2>1. Mute(c, a)
    BY <1>1, MuteSets
  <2> QED  BY <2>1 DEF Mute
<1> HIDE DEF a
<1>4. Mute(a, b)
  BY <1>1, <1>3, SendRstMute
<1> HIDE DEF b
<1>5. Mute(c, b) /\ IsTCB(b) /\ \A s \in b.out : "RST" \in s.flags
  BY <1>3, <1>4, MuteTrans DEF Mute
<1> HIDE DEF r
<1>6. "ABORT" \in Events
  BY DEF Events
<1>7. Mute(c, r) /\ r.event = "ABORT"
  BY <1>2, <1>3, <1>5, <1>6, MuteOps, MuteTrans
<1>8. NextState(r, r.event) = "CLOSED"
  BY <1>7, NextStateFacts DEF Mute
<1>9. Step(c, r, d, p)
  BY <1>7, <1>8, ClosedStep
<1> QED  BY <1>9 DEF r

LEMMA ProcessTimeoutConnEstabStep ==
    ASSUME NEW c, NEW d, NEW p, Pair(c, d, p), "CONN_ESTAB" \in c.timers
    PROVE  Step(c, ProcessTimeoutConnEstab(c), d, p)
<1> DEFINE a == CancelEvents(c, {"CONN_ESTAB"})
           v == c.st \in SynStates
           b == Require(a, v)
           i == Indicate(b, "TIMED_OUT")
           e == IF c.active THEN i ELSE b
           r == Event(e, "TIMEOUT_CONN_ESTAB")
<1>1. IsTCB(c) /\ c.out = {} /\ c.st \in SynStates /\ SendInvAt(c, c.st)
  BY PairFacts DEF Pair, Rests, ConnInv, HandshakeTimed
<1>2. Mute(c, a) /\ IsTCB(a) /\ \A s \in a.out : "RST" \in s.flags
  <2>1. Mute(c, a)
    BY <1>1, MuteOps
  <2> QED  BY <2>1 DEF Mute
<1> HIDE DEF a
<1>3. Mute(c, b) /\ IsTCB(b) /\ \A s \in b.out : "RST" \in s.flags
  <2>1. v \in BOOLEAN
    OBVIOUS
  <2> HIDE DEF v
  <2>2. Mute(a, b)
    BY <1>2, <2>1, MuteOps
  <2>3. Mute(c, b)
    BY <1>2, <2>2, MuteTrans
  <2> QED  BY <2>3 DEF Mute
<1> HIDE DEF b
<1>4. Mute(c, e) /\ IsTCB(e) /\ \A s \in e.out : "RST" \in s.flags
  <2>1. Mute(b, i)
    BY <1>3, MuteOps DEF Indications
  <2> HIDE DEF i
  <2>2. Mute(c, e)
    BY <1>3, <2>1, MuteTrans
  <2> QED  BY <2>2 DEF Mute
<1> HIDE DEF e
<1>5. "TIMEOUT_CONN_ESTAB" \in Events
  BY DEF Events
<1>6. Mute(c, r) /\ r.event = "TIMEOUT_CONN_ESTAB"
  BY <1>4, <1>5, MuteOps, MuteTrans
<1> HIDE DEF r
<1>7. /\ IsTCB(r) /\ r.st = c.st /\ r.active = c.active /\ c.active \in BOOLEAN
  BY <1>1, <1>6 DEF Mute, SynStates, IsTCB
<1>8. /\ NextState(r, r.event) \in {"CLOSED", "LISTEN"}
      /\ NextState(r, r.event) = "LISTEN" => c.st = "SYN_RCVD" /\ ~c.active
  BY <1>1, <1>6, <1>7, SendStateFacts DEF SynStates
<1>9. Step(c, r, d, p)
  BY <1>6, <1>8, PairFacts, MuteStep
<1> QED  BY <1>9 DEF ProcessTimeoutConnEstab, r, e, b, a

LEMMA ProcessTimeout2MSLStep ==
    ASSUME NEW c, NEW d, NEW p, Pair(c, d, p) PROVE Step(c, ProcessTimeout2MSL(c), d, p)
<1> DEFINE a == CancelEvents(c, {"2MSL"})
           v == c.st = "TIME_WAIT"
           b == Require(a, v)
           r == Event(b, "TIMEOUT_2MSL")
<1>1. IsTCB(c) /\ c.out = {}
  BY PairFacts
<1>2. Mute(c, a) /\ IsTCB(a) /\ \A s \in a.out : "RST" \in s.flags
  <2>1. Mute(c, a)
    BY <1>1, MuteOps
  <2> QED  BY <2>1 DEF Mute
<1> HIDE DEF a
<1>3. Mute(c, b) /\ IsTCB(b) /\ \A s \in b.out : "RST" \in s.flags
  <2>1. v \in BOOLEAN
    OBVIOUS
  <2> HIDE DEF v
  <2>2. Mute(a, b)
    BY <1>2, <2>1, MuteOps
  <2>3. Mute(c, b)
    BY <1>2, <2>2, MuteTrans
  <2> QED  BY <2>3 DEF Mute
<1> HIDE DEF b
<1>4. "TIMEOUT_2MSL" \in Events
  BY DEF Events
<1>5. Mute(c, r) /\ r.event = "TIMEOUT_2MSL"
  BY <1>3, <1>4, MuteOps, MuteTrans
<1> HIDE DEF r
<1>6. IsTCB(r) /\ r.st = c.st
  BY <1>5 DEF Mute
<1>7. NextState(r, r.event) \in {c.st, "CLOSED"}
  BY <1>5, <1>6, NextStateFacts
<1>8. Step(c, r, d, p)
  BY <1>5, <1>7, PairFacts, MuteStep
<1> QED  BY <1>8 DEF ProcessTimeout2MSL, r, b, a

-----------------------------------------------------------------------------
(* Handlers that send a SYN.                                               *)

\* c became d, and sent a SYN with flags f.
SynTalks(c, d, f) ==
    /\ SynOut(c, d) /\ SameRcv(c, d)
    /\ d.timers \subseteq c.timers \cup HandshakeTimers
    /\ \A s \in d.out \ c.out : /\ s.flags = f /\ s.seq = c.iss /\ s.len = 0
                                /\ "ACK" \in f => s.ack = c.rcv_nxt

LEMMA SynSentIdle ==
    ASSUME NEW c, IsTCB(c)
    PROVE  LET d == UpdateRcvWnd([c EXCEPT !.snd_nxt = c.iss + 1, !.snd_max = c.iss + 1])
           IN  Idle(c, d) /\ d.timers = c.timers
<1> DEFINE i == c.iss + 1
           b == [c EXCEPT !.snd_nxt = i, !.snd_max = i]
           d == UpdateRcvWnd(b)
<1>1. i \in Int
  BY NumberTypes
<1> HIDE DEF i
<1>2. IsTCB(b)
  BY SMTT(30), <1>1 DEF IsTCB, TCBFields
<1>3. Idle(c, b) /\ b.timers = c.timers
  BY ZenonT(60) DEF Idle, SameRcv, IsTCB, TCBFields
<1> HIDE DEF b
<1>4. Idle(b, d)
  BY <1>2, UpdateRcvWndIdle
<1>5. d.timers = b.timers
  BY ZenonT(60), <1>2 DEF UpdateRcvWnd, IsTCB, TCBFields
<1> HIDE DEF d
<1>6. Idle(c, d) /\ d.timers = c.timers
  BY <1>3, <1>4, <1>5, IdleTrans
<1> QED  BY <1>6 DEF d, b, i

LEMMA SendSynTalks == ASSUME NEW c, IsTCB(c) PROVE SynTalks(c, SendSyn(c), {"SYN"})
<1> DEFINE d == UpdateRcvWnd([c EXCEPT !.snd_nxt = c.iss + 1, !.snd_max = c.iss + 1])
           s == Seg({"SYN"}, c.iss, 0, 0, d.rcv_wnd)
           e == Emit(d, s)
<1>1. Idle(c, d) /\ d.timers = c.timers /\ IsTCB(d)
  BY SynSentIdle, SynSentSynOut DEF SynOut
<1> HIDE DEF d
<1>2. s.flags = {"SYN"} /\ s.seq = c.iss /\ s.len = 0
  BY DEF Seg
<1> HIDE DEF s
<1>3. e.out = d.out \cup {s} /\ e.timers = d.timers /\ SameRcv(d, e)
  BY ZenonT(60), <1>1 DEF Emit, SameRcv, IsTCB, TCBFields
<1>4. e = SendSyn(c)
  BY DEF SendSyn, d, s
<1> HIDE DEF e
<1>5. SynOut(c, e)
  BY <1>4, SendSynOut
<1>6. SynTalks(c, e, {"SYN"})
  BY <1>1, <1>2, <1>3, <1>5 DEF SynTalks, Idle, SameRcv
<1> QED  BY <1>4, <1>6

LEMMA SendSynAckTalks ==
    ASSUME NEW c, IsTCB(c) PROVE SynTalks(c, SendSynAck(c), {"SYN", "ACK"})
<1> DEFINE d == UpdateRcvWnd([c EXCEPT !.snd_nxt = c.iss + 1, !.snd_max = c.iss + 1])
           s == Seg({"SYN", "ACK"}, c.iss, c.rcv_nxt, 0, d.rcv_wnd)
           e == Emit(d, s)
           f == AckSent(e)
<1>1. Idle(c, d) /\ d.timers = c.timers /\ IsTCB(d)
  BY SynSentIdle, SynSentSynOut DEF SynOut
<1> HIDE DEF d
<1>2. s.flags = {"SYN", "ACK"} /\ s.seq = c.iss /\ s.len = 0 /\ s.ack = c.rcv_nxt
  BY DEF Seg
<1>7. s \in Segment
  <2>1. c.iss \in Int /\ c.rcv_nxt \in Int /\ d.rcv_wnd \in Int
    BY <1>1 DEF IsTCB
  <2> QED  BY <2>1, SegType DEF Flags
<1> HIDE DEF s
<1>3. e.out = d.out \cup {s} /\ e.timers = d.timers /\ SameRcv(d, e)
  BY ZenonT(60), <1>1 DEF Emit, SameRcv, IsTCB, TCBFields
<1>8. IsTCB(e)
  BY <1>1, <1>7, EmitOK DEF Keeps
<1>4. f = SendSynAck(c)
  BY DEF SendSynAck, d, s
<1> HIDE DEF e
<1>9. f.out = e.out /\ f.timers = e.timers \ {"DELAYED_ACK"} /\ SameRcv(e, f)
  BY ZenonT(60), <1>8 DEF AckSent, SameRcv, IsTCB, TCBFields
<1> HIDE DEF f
<1>5. SynOut(c, f)
  BY <1>4, SendSynAckOut
<1>6. SynTalks(c, f, {"SYN", "ACK"})
  BY <1>1, <1>2, <1>3, <1>5, <1>9 DEF SynTalks, Idle, SameRcv
<1> QED  BY <1>4, <1>6

LEMMA SelectInitialSeqNumIdle ==
    ASSUME NEW c, IsTCB(c)
    PROVE  LET d == SelectInitialSeqNum(c) IN d.iss = c.iss + IssStep /\ Idle(c, d)
<1> DEFINE i == c.iss + IssStep
           j == i + 1
           d == [c EXCEPT !.iss = i, !.snd_una = i, !.snd_nxt = i, !.snd_max = i,
                          !.qBegin = j, !.qEnd = j]
<1>1. SelectInitialSeqNum(c) = d
  BY DEF SelectInitialSeqNum
<1> HIDE DEF i, j
<1>2. d.iss = i
  BY ZenonT(60) DEF IsTCB, TCBFields
<1>3. Idle(c, d)
  BY ZenonT(60) DEF Idle, SameRcv, IsTCB, TCBFields
<1> QED  BY <1>1, <1>2, <1>3 DEF i

LEMMA StartedTalks ==
    ASSUME NEW c, NEW d, NEW f, SynTalks(c, d, f),
           NEW ts \in SUBSET HandshakeTimers, NEW e \in {"OPEN_ACTIVE", "RCV_SYN"}
    PROVE  LET r == Started(d, ts, e) IN SynTalks(c, r, f) /\ r.event = e
<1> DEFINE r == Started(d, ts, e)
<1>1. IsTCB(d)
  BY DEF SynTalks, SynOut
<1>2. ts \in SUBSET (Timers \ SendTimers)
  BY DEF HandshakeTimers, Timers, SendTimers
<1>3. Still(d, r) /\ r.event = e
  BY <1>1, <1>2, StartedStill
<1>4. Idle(d, r)
  BY ZenonT(60), <1>1 DEF Started, Event, Idle, SameRcv, IsTCB, TCBFields
<1>5. r.timers = d.timers \cup ts
  BY ZenonT(60), <1>1 DEF Started, Event, IsTCB, TCBFields
<1> HIDE DEF r
<1>6. SynOut(c, r)
  BY <1>3, SynOutStill DEF SynTalks
<1>7. SynTalks(c, r, f)
  BY <1>4, <1>5, <1>6 DEF SynTalks, Idle, SameRcv
<1> QED  BY <1>3, <1>7 DEF r

LEMMA SynStep ==
    ASSUME NEW c, NEW d, NEW p, Pair(c, d, p), c.st \in Opening,
           NEW r, IsTCB(r), r.st = c.st, r.rq_nxt = r.rcv_nxt, ~r.fin_rcvd,
           "DELAYED_ACK" \notin r.timers, r.send_fin = c.send_fin,
           c.st # "INIT" => r.active = c.active,
           \/ r.iss = c.iss
           \/ r.iss = c.iss + IssStep /\ IssStep > 1 /\ c.st \in {"INIT", "LISTEN"},
           NextState(r, r.event) \in SynStates,
           c.st \in {"LISTEN", "SYN_RCVD"} => NextState(r, r.event) = "SYN_RCVD",
           LET n == NextState(r, r.event)
               f == IF n = "SYN_SENT" THEN {"SYN"} ELSE {"SYN", "ACK"}
           IN  /\ n = "SYN_SENT" => r.active
               /\ n = "SYN_RCVD" =>
                     /\ r.rcv_nxt = d.iss + 1 /\ Fixed(d)
                     /\ Known(r.rcv_nxt, d) /\ \A b \in r.rcvq : Known(b + 1, d)
                     /\ r.snd_una # r.iss => Acked(r.snd_una, d, r)
               /\ \A s \in r.out : /\ s.flags = f /\ s.seq = r.iss /\ s.len = 0
                                   /\ "ACK" \in f => s.ack = r.rcv_nxt
    PROVE  Step(c, r, d, p)
<1> DEFINE n == NextState(r, r.event)
           f == IF n = "SYN_SENT" THEN {"SYN"} ELSE {"SYN", "ACK"}
           e == PerformStateTransition(r)
<1>0. IsTCB(c) /\ IsTCB(d) /\ PairInv(c, d, p)
  BY PairFacts
<1>1. /\ n = "SYN_SENT" => r.active
      /\ n = "SYN_RCVD" =>
            /\ r.rcv_nxt = d.iss + 1 /\ Fixed(d)
            /\ Known(r.rcv_nxt, d) /\ \A b \in r.rcvq : Known(b + 1, d)
            /\ r.snd_una # r.iss => Acked(r.snd_una, d, r)
      /\ \A s \in r.out : /\ s.flags = f /\ s.seq = r.iss /\ s.len = 0
                          /\ "ACK" \in f => s.ack = r.rcv_nxt
      /\ n \in SynStates /\ (c.st \in {"LISTEN", "SYN_RCVD"} => n = "SYN_RCVD")
  OBVIOUS
<1>2. /\ IsTCB(e) /\ e.st = n /\ e.iss = r.iss /\ e.out = r.out
      /\ n # "CLOSED" =>
            /\ SameRcv(r, e) /\ e.active = r.active /\ e.snd_una = r.snd_una
            /\ e.snd_max = r.snd_max /\ e.send_fin = r.send_fin
            /\ e.timers \subseteq r.timers
  BY TransitionFacts
<1> HIDE DEF n, e
<1>3. n # "CLOSED" /\ n \in Opening /\ n \notin DataStates /\ n \in {"SYN_SENT", "SYN_RCVD"}
  BY <1>1, StateSets DEF SynStates
<1>4. c.iss \in Int /\ r.iss \in Int /\ d.iss \in Int /\ r.rcv_nxt \in Int
  BY <1>0, NumberTypes
<1>5. Grows(c, e, d)
  <2>1. c.st \in SynStates /\ c.active => e.st \in SynStates /\ e.active
    BY <1>1, <1>2, <1>3 DEF SynStates
  <2> QED  BY <1>0, <1>1, <1>2, <1>3, <2>1, GrowsOpening
<1>6. PairInv(e, d, p)
  <2>1. RcvInv(e, d) /\ SynInv(e, d)
    BY <1>1, <1>2, <1>3 DEF RcvInv, Received, SynInv, SameRcv
  <2>2. AckInvAt(e, d, e.st)
    BY <1>1, <1>2, <1>3 DEF AckInvAt, Acked
  <2>3. FinInvAt(e, p, e.st)
    BY <1>0, <1>2, <1>3, <1>4, StateSets DEF PairInv, FinInvAt, SameRcv
  <2> QED  BY <2>1, <2>2, <2>3 DEF PairInv
<1>7. ASSUME NEW s \in e.out PROVE SegInv(s, e, d, p)
  <2>1. /\ s.flags = f /\ s.seq = r.iss /\ s.len = 0
        /\ "ACK" \in f => s.ack = r.rcv_nxt
    BY <1>1, <1>2, <1>7
  <2>2. /\ "SYN" \in s.flags /\ "FIN" \notin s.flags
        /\ "ACK" \in s.flags => n = "SYN_RCVD" /\ s.ack = r.rcv_nxt
        /\ "ACK" \notin s.flags => n = "SYN_SENT"
    BY <1>3, <2>1
  <2> HIDE DEF f
  <2>3. SegLen(s) = 1
    BY <2>1, <2>2 DEF SegLen
  <2>4. Known(s.seq + SegLen(s), e)
    BY <1>2, <1>3, <1>4, <2>1, <2>3 DEF Known
  <2>5. "ACK" \in s.flags => Known(s.ack, d) /\ Acked(s.ack, e, d)
    BY <1>1, <1>2, <1>3, <1>4, <2>2 DEF Acked
  <2>6. "ACK" \notin s.flags => Fixed(e) /\ s.seq = e.iss
    BY <1>1, <1>2, <1>3, <2>1, <2>2 DEF Fixed
  <2> QED  BY <2>1, <2>2, <2>4, <2>5, <2>6 DEF SegInv
<1> QED  BY <1>5, <1>6, <1>7 DEF Step, e

LEMMA ProcessOpenActiveStep ==
    ASSUME NEW c, NEW d, NEW p, Pair(c, d, p), c.st = "INIT", IssStep > 1
    PROVE  Step(c, ProcessOpenActive(c), d, p)
<1> DEFINE a  == [c EXCEPT !.active = TRUE]
           b  == SelectInitialSeqNum(a)
           g  == SendSyn(b)
           ts == {"SYN_REXMIT", "CONN_ESTAB"}
           r  == Started(g, ts, "OPEN_ACTIVE")
<1>1. /\ IsTCB(c) /\ c.out = {} /\ PairInv(c, d, p) /\ c.timers = {}
      /\ c.rcv_nxt \in Int /\ c.rq_nxt \in Int
  BY PairFacts, NumberTypes DEF Pair, Rests, ConnInv, IdleHasNoTimers
<1>2. /\ IsTCB(a) /\ a.st = "INIT" /\ a.active = TRUE /\ a.send_fin = c.send_fin
      /\ a.timers = c.timers /\ a.iss = c.iss /\ Idle(c, a)
  <2>1. /\ IsTCB(a) /\ a.st = "INIT" /\ a.active = TRUE /\ a.send_fin = c.send_fin
        /\ a.timers = c.timers /\ a.iss = c.iss
    BY ZenonT(60), <1>1 DEF IsTCB, TCBFields
  <2>2. Idle(c, a)
    BY ZenonT(60), <1>1 DEF Idle, SameRcv, IsTCB, TCBFields
  <2> QED  BY <2>1, <2>2
<1> HIDE DEF a
<1>3. /\ IsTCB(b) /\ b.st = "INIT" /\ b.active = TRUE /\ b.send_fin = a.send_fin
      /\ b.timers = a.timers /\ b.iss = a.iss + IssStep /\ Idle(a, b)
  <2>1. /\ IsTCB(b) /\ b.st = "INIT" /\ b.active = TRUE /\ b.send_fin = a.send_fin
        /\ b.timers = a.timers
    BY <1>2, SelectInitialSeqNumSends
  <2>2. b.iss = a.iss + IssStep /\ Idle(a, b)
    BY <1>2, SelectInitialSeqNumIdle
  <2> QED  BY <2>1, <2>2
<1> HIDE DEF b
<1>4. SynTalks(b, g, {"SYN"})
  BY <1>3, SendSynTalks
<1>0. ts \in SUBSET HandshakeTimers
  BY DEF HandshakeTimers
<1> HIDE DEF g, ts
<1>5. SynTalks(b, r, {"SYN"}) /\ r.event = "OPEN_ACTIVE"
  BY <1>0, <1>4, StartedTalks
<1> HIDE DEF r
<1>6. IsTCB(r) /\ NextState(r, r.event) = "SYN_SENT"
  BY <1>3, <1>5, NextStateFacts DEF SynTalks, SynOut
<1>7. /\ r.st = "INIT" /\ r.active = TRUE /\ r.iss = c.iss + IssStep
      /\ r.send_fin = c.send_fin /\ SameRcv(c, r) /\ b.out = {}
      /\ "DELAYED_ACK" \notin r.timers
      /\ r.iss = b.iss
  BY <1>1, <1>2, <1>3, <1>5 DEF SynTalks, SynOut, Idle, SameRcv, HandshakeTimers
<1>8. \A s \in r.out : s.flags = {"SYN"} /\ s.seq = r.iss /\ s.len = 0
  BY <1>5, <1>7 DEF SynTalks
<1>9. r.rq_nxt = r.rcv_nxt /\ ~r.fin_rcvd
  BY <1>1, <1>7, StateSets DEF PairInv, FinInvAt, SameRcv
<1>10. Step(c, r, d, p)
  BY <1>6, <1>7, <1>8, <1>9, SynStep, StateSets DEF SynStates
<1> QED  BY <1>10 DEF ProcessOpenActive, Started, r, ts, g, b, a

-----------------------------------------------------------------------------
(* Handlers that send in the state they are in.                            *)

LEMMA SendsStep ==
    ASSUME NEW c, NEW d, NEW p, Pair(c, d, p),
           c.st \in DataStates \cup {"TIME_WAIT", "SYN_RCVD"},
           NEW r, Sends(c, r), NextState(r, r.event) = c.st,
           c.st = "SYN_RCVD" =>
               /\ "DELAYED_ACK" \notin r.timers
               /\ \A s \in r.out : s.seq = c.iss + 1 /\ s.len = 0 /\ "FIN" \notin s.flags
    PROVE  Step(c, r, d, p)
<1>1. /\ IsTCB(c) /\ IsTCB(d) /\ PairInv(c, d, p) /\ SendInv(c) /\ c.out = {}
  BY PairFacts
<1>2. /\ Talks(c, r) /\ SameRcv(c, r) /\ r.snd_una = c.snd_una /\ r.st = c.st
      /\ r.send_fin = c.send_fin /\ r.iss = c.iss
  BY DEF Sends, Talks
<1>3. Received(r, d) /\ r.rcv_nxt = c.rcv_nxt
  BY <1>1, <1>2, StateSets DEF PairInv, RcvInv, Received, SameRcv
<1>4. FinInvAt(r, p, c.st)
  BY <1>1, <1>2, StateSets DEF PairInv, FinInvAt, SameRcv
<1>5. /\ c.st \in DataStates \cup {"SYN_RCVD"} /\ r.snd_una # c.iss
           => Acked(r.snd_una, d, c)
      /\ c.st \in DataStates => c.iss < r.snd_una
  BY <1>1, <1>2 DEF PairInv, AckInvAt
<1>6. c.st = "TIME_WAIT" => c.st \notin DataStates
  BY StateSets
<1> QED  BY <1>1, <1>2, <1>3, <1>4, <1>5, <1>6, TalkStep

LEMMA ProcessPersistTimerStep ==
    ASSUME NEW c, NEW d, NEW p, Pair(c, d, p), "PERSIST" \in c.timers
    PROVE  Step(c, ProcessPersistTimer(c), d, p)
<1> DEFINE r == SendProbe(c)
<1>1. IsTCB(c) /\ c.event = "IGNORE" /\ Rests(c) /\ SendInv(c)
  BY PairFacts DEF Pair
<1>2. c.st \in DataStates \cup {"TIME_WAIT"} /\ c.st # "SYN_RCVD"
  <2>1. c.st \in DataStates \cup {"TIME_WAIT"}
    BY <1>1, SendTimed DEF SendTimers
  <2> QED  BY <2>1, StateSets
<1>3. Sends(c, r) /\ IsTCB(r)
  BY <1>1, SendProbeSends, SendsType
<1>5. r.event = c.event /\ r.st = c.st
  BY <1>1, SendProbeOK DEF Keeps
<1> HIDE DEF r
<1>6. NextState(r, r.event) = c.st
  BY <1>1, <1>3, <1>5, NextStateFacts
<1>7. Step(c, r, d, p)
  BY <1>2, <1>3, <1>6, SendsStep
<1> QED  BY <1>7 DEF ProcessPersistTimer, r

LEMMA ProcessDelayedAckTimerStep ==
    ASSUME NEW c, NEW d, NEW p, Pair(c, d, p), "DELAYED_ACK" \in c.timers
    PROVE  Step(c, ProcessDelayedAckTimer(c), d, p)
<1> DEFINE a == CancelEvents(c, {"DELAYED_ACK"})
           b == [a EXCEPT !.ack_now = TRUE]
           r == SendAck(b)
<1>1. /\ IsTCB(c) /\ c.event = "IGNORE" /\ Rests(c) /\ SendInv(c)
      /\ PairInv(c, d, p) /\ c.st \in States
  BY PairFacts DEF Pair
<1>2. c.st \in DataStates \cup {"TIME_WAIT"} /\ c.st # "SYN_RCVD"
  <2>1. c.st \notin Opening
    BY <1>1 DEF PairInv, FinInvAt
  <2>2. c.st # "CLOSED"
    BY <1>1 DEF Rests, ConnInv, IdleHasNoTimers
  <2> QED  BY <1>1, <2>1, <2>2, StateSets
<1>3. Sends(c, a) /\ IsTCB(a) /\ a.event = c.event /\ a.st = c.st
  <2>1. Sends(c, a) /\ IsTCB(a)
    BY <1>1, CancelEventsSends, SendsType
  <2>2. a.event = c.event /\ a.st = c.st
    BY ZenonT(60), <1>1 DEF CancelEvents, IsTCB, TCBFields
  <2> QED  BY <2>1, <2>2
<1> HIDE DEF a
<1>4. Sends(a, b) /\ IsTCB(b) /\ b.event = a.event /\ b.st = a.st
  <2>1. IsTCB(b) /\ b.event = a.event /\ b.st = a.st
    BY ZenonT(60), <1>3 DEF IsTCB, TCBFields
  <2>2. Idle(a, b)
    BY ZenonT(60), <1>3 DEF Idle, SameRcv, IsTCB, TCBFields
  <2>3. /\ b.active = a.active /\ b.iss = a.iss /\ b.send_fin = a.send_fin
        /\ b.snd_una = a.snd_una
    BY ZenonT(60), <1>3 DEF IsTCB, TCBFields
  <2>4. Alike(a, b)
    BY ZenonT(60), <1>3 DEF Alike, IsTCB, TCBFields
  <2> HIDE DEF b
  <2>5. Sends(a, b)
    BY <1>3, <2>1, <2>2, <2>4, IdleSends
  <2> QED  BY <2>1, <2>5
<1> HIDE DEF b
<1>5. Sends(b, r) /\ IsTCB(r) /\ r.event = b.event /\ r.st = b.st
  BY <1>4, SendAckSends, SendsType, SendAckOK DEF Keeps
<1> HIDE DEF r
<1>7. Sends(c, r)
  BY <1>1, <1>3, <1>4, <1>5, SendsTrans
<1>8. NextState(r, r.event) = c.st
  BY <1>1, <1>3, <1>4, <1>5, NextStateFacts
<1>9. Step(c, r, d, p)
  BY <1>2, <1>7, <1>8, SendsStep
<1> QED  BY <1>9 DEF ProcessDelayedAckTimer, r, b, a

LEMMA ProcessRexmitTimerStep ==
    ASSUME NEW c, NEW d, NEW p, Pair(c, d, p), "REXMIT" \in c.timers
    PROVE  Step(c, ProcessRexmitTimer(c), d, p)
<1> DEFINE a == CancelEvents(c, {"REXMIT"})
           n == a.rexmit_count + 1
           b == [a EXCEPT !.rexmit_count = n]
           i == Indicate(b, "TIMED_OUT")
           x == Event(i, "ABORT")
           g == ScheduleTimeout(b, "REXMIT")
           e == [g EXCEPT !.afterRto = TRUE]
           y == RetransmitOneSegment(e, TRUE)
           r == ProcessRexmitTimer(c)
<1>1. /\ IsTCB(c) /\ c.event = "IGNORE" /\ Rests(c) /\ SendInv(c) /\ c.out = {}
  BY PairFacts DEF Pair
<1>2. c.st \in DataStates \cup {"TIME_WAIT"} /\ c.st # "SYN_RCVD" /\ c.st # "INIT"
  <2>1. c.st \in DataStates \cup {"TIME_WAIT"}
    BY <1>1, SendTimed DEF SendTimers
  <2> QED  BY <2>1, StateSets
<1>3. r \in {x, y}
  BY DEF ProcessRexmitTimer
<1> HIDE DEF r
<1>4. /\ Mute(c, a) /\ IsTCB(a) /\ Sends(c, a) /\ a.event = c.event /\ a.st = c.st
      /\ a.rexmit_count \in Int /\ \A s \in a.out : "RST" \in s.flags
  <2>1. Mute(c, a) /\ Sends(c, a)
    BY <1>1, MuteOps, CancelEventsSends
  <2>2. a.event = c.event /\ a.st = c.st
    BY ZenonT(60), <1>1 DEF CancelEvents, IsTCB, TCBFields
  <2> HIDE DEF a
  <2>3. IsTCB(a) /\ \A s \in a.out : "RST" \in s.flags
    BY <2>1 DEF Mute
  <2>4. a.rexmit_count \in Int
    BY <2>3 DEF IsTCB
  <2> QED  BY <2>1, <2>2, <2>3, <2>4
<1> HIDE DEF a
<1>5. n \in Int
  BY <1>4
<1> HIDE DEF n
<1>6. /\ Mute(a, b) /\ IsTCB(b) /\ Sends(a, b) /\ b.event = a.event /\ b.st = a.st
      /\ \A s \in b.out : "RST" \in s.flags
  <2>1. Mute(a, b)
    BY <1>4, <1>5, MuteSets
  <2>2. b.event = a.event /\ b.st = a.st /\ IsTCB(b)
    BY ZenonT(60), <1>4, <1>5 DEF IsTCB, TCBFields
  <2>3. Alike(a, b)
    BY ZenonT(60), <1>4, <1>5, <2>2 DEF Alike, IsTCB, TCBFields
  <2>4. Idle(a, b)
    BY ZenonT(60), <1>4 DEF Idle, SameRcv, IsTCB, TCBFields
  <2> HIDE DEF b
  <2>5. Sends(a, b)
    BY <1>4, <2>3, <2>4, IdleSends
  <2>6. \A s \in b.out : "RST" \in s.flags
    BY <2>1 DEF Mute
  <2> QED  BY <2>1, <2>2, <2>5, <2>6
<1> HIDE DEF b
<1>7. IsTCB(g) /\ Sends(b, g) /\ g.event = b.event /\ g.st = b.st
  <2> DEFINE v == b.fault \/ "REXMIT" \in b.timers
             u == b.timers \cup {"REXMIT"}
  <2>1. v \in BOOLEAN /\ u \in SUBSET Timers
    BY <1>6 DEF IsTCB, Timers
  <2>2. g = [b EXCEPT !.fault = v, !.timers = u]
    BY DEF ScheduleTimeout
  <2>3. Idle(b, g)
    BY <1>6, ScheduleTimeoutIdle
  <2> HIDE DEF v, u, g
  <2>4. IsTCB(g)
    BY ZenonT(60), <1>6, <2>1, <2>2 DEF IsTCB, TCBFields
  <2>5. Alike(b, g) /\ g.event = b.event
    BY ZenonT(60), <1>6, <2>2, <2>4 DEF Alike, IsTCB, TCBFields
  <2> QED  BY <1>6, <2>3, <2>4, <2>5, IdleSends DEF Alike
<1> HIDE DEF g
<1>8. IsTCB(e) /\ Sends(g, e) /\ e.event = g.event /\ e.st = g.st
  <2>1. IsTCB(e) /\ e.event = g.event
    BY ZenonT(60), <1>7 DEF IsTCB, TCBFields
  <2>2. Alike(g, e)
    BY ZenonT(60), <1>7, <2>1 DEF Alike, IsTCB, TCBFields
  <2>3. Idle(g, e)
    BY ZenonT(60), <1>7 DEF Idle, SameRcv, IsTCB, TCBFields
  <2> HIDE DEF e
  <2> QED  BY <1>7, <2>1, <2>2, <2>3, IdleSends DEF Alike
<1> HIDE DEF e
<1>9. Sends(e, y) /\ IsTCB(y) /\ y.event = e.event /\ y.st = e.st
  BY <1>8, RetransmitOneSegmentSends, RetransmitOneSegmentOK, SendsType DEF Keeps
<1> HIDE DEF y
<1>10. CASE r = y
  <2>1. Sends(c, y)
    BY <1>1, <1>4, <1>6, <1>7, <1>8, <1>9, SendsTrans
  <2>2. NextState(y, y.event) = c.st
    BY <1>1, <1>4, <1>6, <1>7, <1>8, <1>9, NextStateFacts
  <2> QED  BY <1>2, <1>10, <2>1, <2>2, SendsStep DEF r
<1>11. CASE r = x
  <2>1. Mute(b, i)
    BY <1>6, MuteOps DEF Indications
  <2> HIDE DEF i
  <2>2. IsTCB(i) /\ \A s \in i.out : "RST" \in s.flags
    BY <2>1 DEF Mute
  <2>3. Mute(i, x) /\ x.event = "ABORT"
    BY <2>2, MuteOps DEF Events
  <2> HIDE DEF x
  <2>4. Mute(c, x)
    BY <1>4, <1>6, <2>1, <2>3, MuteTrans
  <2>5. NextState(x, x.event) = "CLOSED"
    BY <1>2, <2>3, <2>4, NextStateFacts DEF Mute
  <2> QED  BY <1>11, <2>4, <2>5, ClosedStep DEF r
<1> QED  BY <1>3, <1>10, <1>11 DEF r

LEMMA ProcessSendStep ==
    ASSUME NEW c, NEW d, NEW p, Pair(c, d, p), ~c.appClosed,
           \/ c.st \in SynStates /\ c.active
           \/ c.st \in {"ESTABLISHED", "CLOSE_WAIT"},
           NEW n \in Nat, NEW w \in Int
    PROVE  Step(c, ProcessSend(c, n, w), d, p)
<1> DEFINE q == c.qEnd + n
           a == [c EXCEPT !.qEnd = q]
           b == Event(a, "SEND")
           y == SendCommandInvoked(b, w)
           r == ProcessSend(c, n, w)
<1>1. /\ IsTCB(c) /\ Rests(c) /\ SendInv(c) /\ c.out = {} /\ SendInvAt(c, c.st)
      /\ c.st \in States /\ c.qEnd \in Int /\ c.iss \in Int /\ c.snd_max \in Int
  BY PairFacts, NumberTypes DEF Pair
<1>2. q \in Int /\ c.qEnd <= q
  BY <1>1
<1>3. r = IF c.st \in {"ESTABLISHED", "CLOSE_WAIT"} THEN y ELSE b
  BY DEF ProcessSend
<1> HIDE DEF r, q
<1>5. Mute(c, a) /\ IsTCB(a) /\ \A s \in a.out : "RST" \in s.flags
  <2>1. Mute(c, a)
    BY <1>1, <1>2, MuteSets
  <2> HIDE DEF a
  <2> QED  BY <2>1 DEF Mute
<1>6. /\ a.iss = c.iss /\ a.snd_una = c.snd_una /\ a.snd_nxt = c.snd_nxt
      /\ a.snd_max = c.snd_max /\ a.qEnd = q /\ a.send_fin = c.send_fin
      /\ a.snd_fin_seq = c.snd_fin_seq /\ a.st = c.st /\ a.out = c.out
      /\ a.active = c.active
  BY ZenonT(60), <1>1, <1>2 DEF IsTCB, TCBFields
<1> HIDE DEF a
<1>7. /\ Mute(a, b) /\ Sends(a, b) /\ b.event = "SEND" /\ IsTCB(b) /\ b.st = c.st
  <2>1. "SEND" \in Events
    BY DEF Events
  <2>2. Mute(a, b) /\ b.event = "SEND" /\ Sends(a, b)
    BY <1>5, <2>1, MuteOps, EventSends
  <2> HIDE DEF b
  <2> QED  BY <1>6, <2>2 DEF Mute
<1> HIDE DEF b
<1>8. CASE c.st \in SynStates
  <2>1. r = b
    BY <1>3, <1>8 DEF SynStates
  <2>2. NextState(b, b.event) = c.st
    BY <1>7, SendStateFacts
  <2>3. c.st # "LISTEN"
    BY <1>8 DEF SynStates
  <2>4. Mute(c, b)
    BY <1>5, <1>7, MuteTrans
  <2> QED  BY <2>1, <2>2, <2>3, <2>4, PairFacts, MuteStep DEF r
<1>9. CASE c.st \in {"ESTABLISHED", "CLOSE_WAIT"}
  <2>1. r = y /\ c.st \in DataStates /\ c.st # "SYN_RCVD"
    BY <1>3, <1>9 DEF DataStates
  <2>2. SendOrdered(c)
    BY <1>1, <2>1 DEF SendInvAt
  <2>3. SendOrdered(a)
    BY <1>1, <1>2, <1>6, <2>2 DEF SendOrdered
  <2>4. Sends(c, a)
    <3>1. Talks(c, a)
      BY <1>1, <1>5, <1>6, <2>3, NumberTypes DEF Talks, Mute, SameRcv
    <3> QED  BY <1>5, <3>1 DEF Sends, Mute
  <2>5. Sends(b, y) /\ y.event = b.event /\ y.st = b.st /\ IsTCB(y)
    BY <1>7, SendCommandInvokedSends, SendCommandInvokedOK, SendsType DEF Keeps
  <2> HIDE DEF y
  <2>6. Sends(c, y)
    BY <1>1, <1>5, <1>7, <2>4, <2>5, SendsTrans
  <2>7. NextState(y, y.event) = c.st
    BY <1>7, <2>5, SendStateFacts
  <2> QED  BY <2>1, <2>6, <2>7, SendsStep DEF r
<1> QED  BY <1>8, <1>9

LEMMA ProcessCloseStep ==
    ASSUME NEW c, NEW d, NEW p, Pair(c, d, p), p \in Closers, ~c.appClosed,
           c.st \notin {"INIT", "SYN_RCVD", "CLOSED"}
    PROVE  Step(c, ProcessClose(c), d, p)
<1> DEFINE a == [c EXCEPT !.appClosed = TRUE]
           e == [a EXCEPT !.send_fin = TRUE, !.snd_fin_seq = c.qEnd]
           g == SendFin(e, c.snd_max)
           f == RestartRexmitTimer(g)
           x == Event(a, "CLOSE")
           y == Event(f, "CLOSE")
           r == ProcessClose(c)
<1>1. /\ IsTCB(c) /\ IsTCB(d) /\ PairInv(c, d, p) /\ SendInv(c) /\ SendInvAt(c, c.st)
      /\ c.event = "IGNORE" /\ c.out = {} /\ c.st \in States
      /\ c.iss \in Int /\ c.snd_max \in Int /\ c.qEnd \in Int /\ c.snd_una \in Int
      /\ c.rcv_nxt \in Int
  BY PairFacts, NumberTypes
<1>2. r = IF c.st \in {"LISTEN", "SYN_SENT"} THEN x
          ELSE IF c.snd_max # c.qEnd THEN e ELSE y
  BY DEF ProcessClose
<1> HIDE DEF r
<1>3. Mute(c, a) /\ IsTCB(a) /\ (\A s \in a.out : "RST" \in s.flags) /\ a.st = c.st
  <2>1. Mute(c, a)
    BY <1>1, MuteSets
  <2> HIDE DEF a
  <2> QED  BY <2>1 DEF Mute
<1>4. /\ IsTCB(e) /\ e.st = c.st /\ e.active = c.active /\ e.iss = c.iss
      /\ e.snd_una = c.snd_una /\ e.snd_max = c.snd_max /\ e.send_fin = TRUE
      /\ e.event = "IGNORE" /\ e.qEnd = c.qEnd
  BY ZenonT(60), <1>1 DEF IsTCB, TCBFields
<1>5. SameRcv(c, e) /\ e.out = {}
  BY ZenonT(60), <1>1 DEF SameRcv, IsTCB, TCBFields
<1> HIDE DEF a, e
<1>6. CASE c.st \in {"LISTEN", "SYN_SENT"}
  <2>1. Mute(a, x) /\ x.event = "CLOSE"
    BY <1>3, MuteOps DEF Events
  <2> HIDE DEF x
  <2>2. Mute(c, x)
    BY <1>3, <2>1, MuteTrans
  <2>3. IsTCB(x) /\ x.st = c.st
    BY <2>2 DEF Mute
  <2>4. NextState(x, x.event) = "CLOSED"
    BY <1>6, <2>1, <2>3, SendStateFacts
  <2> QED  BY <1>2, <1>6, <2>2, <2>4, ClosedStep DEF r
<1>7. CASE c.st \notin {"LISTEN", "SYN_SENT"}
  <2>1. c.st \in DataStates \cup {"TIME_WAIT"} /\ c.st \notin SynStates
    BY <1>1, <1>7, StateSets DEF SynStates
  <2>2. c.st # "TIME_WAIT" => c.iss < c.snd_max
    BY <1>1, <2>1, PassesSyn DEF PairInv
  <2>3. ASSUME NEW z, IsTCB(z), z.st = c.st, SameRcv(c, z)
        PROVE  Received(z, d) /\ FinInvAt(z, p, NextState(z, z.event))
    <3>1. NextState(z, z.event) \in DataStates \cup {"TIME_WAIT", "CLOSED"}
      BY <2>1, <2>3, SendStateFacts
    <3>2. Received(z, d)
      BY <1>1, <2>1, <2>3, StateSets DEF PairInv, RcvInv, Received, SameRcv
    <3>3. FinInvAt(z, p, NextState(z, z.event))
      BY <1>1, <2>3, <3>1, StateSets DEF PairInv, FinInvAt, SameRcv
    <3> QED  BY <3>2, <3>3
  <2>4. ASSUME NEW z, IsTCB(z), z.st = c.st, z.active = c.active, z.iss = c.iss,
               z.snd_una = c.snd_una, SameRcv(c, z),
               c.st # "TIME_WAIT" => c.snd_max <= z.snd_max,
               \A s \in z.out :
                  /\ "ACK" \in s.flags /\ "SYN" \notin s.flags /\ "RST" \notin s.flags
                  /\ s.ack = c.rcv_nxt
                  /\ c.st # "TIME_WAIT" => s.seq + SegLen(s) <= z.snd_max
        PROVE  Step(c, z, d, p)
    <3> DEFINE n == NextState(z, z.event)
    <3>1. Received(z, d) /\ FinInvAt(z, p, n)
      BY <2>3, <2>4
    <3>2. /\ n \in DataStates \cup {"TIME_WAIT", "CLOSED"}
          /\ c.st = "TIME_WAIT" => n \notin DataStates
      BY <2>1, <2>4, SendStateFacts, StateSets
    <3> HIDE DEF n
    <3>3. z.rcv_nxt = c.rcv_nxt /\ Known(c.rcv_nxt, d)
      BY <2>4, <3>1 DEF Received, SameRcv
    <3>4. /\ n \in DataStates /\ z.snd_una # c.iss => Acked(z.snd_una, d, c)
          /\ n \in DataStates => c.iss < z.snd_una
      BY <1>1, <2>1, <2>4, <3>2 DEF PairInv, AckInvAt
    <3>5. n \notin SynStates
      BY <3>2, StateSets DEF SynStates
    <3>6. c.st # "TIME_WAIT" => c.iss < c.snd_max /\ c.snd_max <= z.snd_max
      BY <2>2, <2>4
    <3>7. \A s \in z.out :
             /\ "ACK" \in s.flags /\ "SYN" \notin s.flags /\ "RST" \notin s.flags
             /\ Known(s.ack, d) /\ s.ack <= z.rcv_nxt
             /\ "FIN" \in s.flags => p \in Closers
             /\ c.st # "TIME_WAIT" => s.seq + SegLen(s) <= z.snd_max
      BY <1>1, <2>4, <3>3
    <3>8. c.rcv_nxt <= z.rcv_nxt
      BY <1>1, <3>3
    <3> QED  BY <1>1, <2>1, <2>4, <3>1, <3>2, <3>4, <3>5, <3>6, <3>7, <3>8, SpeakStep
                DEF SynStates, n
  <2>5. CASE c.snd_max # c.qEnd
    <3>1. r = e
      BY <1>2, <1>7, <2>5
    <3>2. c.snd_max <= e.snd_max
      BY <1>1, <1>4
    <3>3. Step(c, e, d, p)
      BY <1>4, <1>5, <2>4, <3>2
    <3> QED  BY <3>1, <3>3 DEF r
  <2>6. CASE c.snd_max = c.qEnd
    <3>1. r = y
      BY <1>2, <1>7, <2>6
    <3>2. /\ SameRcv(e, g)
          /\ \A s \in g.out : Says(s, e, g) /\ s.seq + SegLen(s) = c.snd_max + 1
      BY <1>1, <1>4, <1>5, SendFinSays
    <3>3. /\ IsTCB(g) /\ g.st = e.st /\ g.active = e.active /\ g.iss = e.iss
          /\ g.snd_una = e.snd_una /\ g.snd_max = c.snd_max + 1
      BY ZenonT(60), <1>1, <1>4, SendFinSends
    <3> HIDE DEF g
    <3>4. Alike(g, f) /\ Idle(g, f) /\ IsTCB(f)
      <4> DEFINE h == CancelEvents(g, {"REXMIT"})
      <4>1. Alike(g, f) /\ IsTCB(f)
        BY <3>3, RestartRexmitTimerAlike, AlikeType
      <4>2. Idle(g, h) /\ IsTCB(h)
        <5>1. Idle(g, h)
          BY ZenonT(60), <3>3 DEF CancelEvents, Idle, SameRcv, IsTCB, TCBFields
        <5> QED  BY <3>3, <5>1, CancelEventsStill, AlikeType
      <4> HIDE DEF h
      <4>3. Idle(g, StartRexmitTimer(h))
        BY <4>2, StartRexmitTimerIdle, IdleTrans
      <4> QED  BY <4>1, <4>3 DEF RestartRexmitTimer, h
    <3> HIDE DEF f
    <3>5. Alike(f, y) /\ Idle(f, y) /\ IsTCB(y)
      <4>1. "CLOSE" \in Events
        BY DEF Events
      <4>2. Alike(f, y) /\ IsTCB(y)
        BY <3>4, <4>1, EventStill, AlikeType
      <4>3. Idle(f, y)
        BY ZenonT(60), <3>4 DEF Event, Idle, SameRcv, IsTCB, TCBFields
      <4> QED  BY <4>2, <4>3
    <3> HIDE DEF y
    <3>6. /\ y.st = c.st /\ y.active = c.active /\ y.iss = c.iss
          /\ y.snd_una = c.snd_una /\ y.snd_max = c.snd_max + 1
          /\ SameRcv(c, y) /\ y.out = g.out
      BY <1>4, <1>5, <3>2, <3>3, <3>4, <3>5 DEF Alike, Idle, SameRcv
    <3>7. c.snd_max <= y.snd_max
      BY <1>1, <3>6
    <3>8. \A s \in y.out :
             /\ "ACK" \in s.flags /\ "SYN" \notin s.flags /\ "RST" \notin s.flags
             /\ s.ack = c.rcv_nxt
             /\ c.st # "TIME_WAIT" => s.seq + SegLen(s) <= y.snd_max
      <4>1. e.rcv_nxt = c.rcv_nxt /\ g.rcv_nxt = c.rcv_nxt
        BY <1>5, <3>2 DEF SameRcv
      <4>2. g.out \in SUBSET Segment /\ \A s \in Segment : s.ack \in Int
        BY <3>3 DEF IsTCB, Segment
      <4> QED  BY <1>1, <3>2, <3>6, <4>1, <4>2 DEF Says
    <3>9. Step(c, y, d, p)
      BY <2>4, <3>5, <3>6, <3>7, <3>8
    <3> QED  BY <3>1, <3>9 DEF r
  <2> QED  BY <2>5, <2>6
<1> QED  BY <1>6, <1>7

LEMMA ProcessTimeoutSynRexmitStep ==
    ASSUME NEW c, NEW d, NEW p, Pair(c, d, p), "SYN_REXMIT" \in c.timers
    PROVE  Step(c, ProcessTimeoutSynRexmit(c), d, p)
<1> DEFINE a == CancelEvents(c, {"SYN_REXMIT"})
           n == a.syn_rexmit_count + 1
           b == [a EXCEPT !.syn_rexmit_count = n]
           e == CASE b.st = "SYN_SENT" -> SendSyn(b)
                  [] b.st = "SYN_RCVD" -> SendSynAck(b)
                  [] OTHER -> Require(b, FALSE)
           h == CASE c.st = "SYN_SENT" -> SendSyn(b)
                  [] c.st = "SYN_RCVD" -> SendSynAck(b)
                  [] OTHER -> Require(b, FALSE)
           x == Event(b, "ABORT")
           y == ScheduleTimeout(e, "SYN_REXMIT")
           f == IF c.st = "SYN_SENT" THEN {"SYN"} ELSE {"SYN", "ACK"}
           r == ProcessTimeoutSynRexmit(c)
<1>1. /\ IsTCB(c) /\ c.event = "IGNORE" /\ PairInv(c, d, p) /\ c.out = {}
      /\ c.st \in SynStates /\ SendInvAt(c, c.st) /\ Rests(c) /\ IsTCB(d)
  BY PairFacts DEF Pair, Rests, ConnInv, HandshakeTimed
<1>2. /\ Mute(c, a) /\ IsTCB(a) /\ a.event = c.event /\ a.st = c.st
      /\ a.syn_rexmit_count \in Int /\ a.out = {} /\ a.active = c.active
      /\ a.timers \subseteq c.timers
  <2>1. Mute(c, a)
    BY <1>1, MuteOps
  <2>2. /\ a.event = c.event /\ a.st = c.st /\ a.out = c.out /\ a.active = c.active
        /\ a.timers = c.timers \ {"SYN_REXMIT"}
    BY ZenonT(60), <1>1 DEF CancelEvents, IsTCB, TCBFields
  <2> HIDE DEF a
  <2>3. IsTCB(a)
    BY <2>1 DEF Mute
  <2>4. a.syn_rexmit_count \in Int
    BY <2>3 DEF IsTCB
  <2> QED  BY <1>1, <2>1, <2>2, <2>3, <2>4
<1>3. r = IF SynRexmitsExhausted(b) THEN x ELSE ScheduleTimeout(h, "SYN_REXMIT")
  BY DEF ProcessTimeoutSynRexmit
<1> HIDE DEF r, a
<1>4. n \in Int
  BY <1>2
<1> HIDE DEF n
<1>5. /\ Mute(a, b) /\ IsTCB(b) /\ b.event = a.event /\ b.st = a.st /\ b.out = a.out
      /\ b.active = a.active /\ b.timers = a.timers
  <2>1. Mute(a, b)
    BY <1>2, <1>4, MuteSets
  <2>2. /\ IsTCB(b) /\ b.event = a.event /\ b.st = a.st /\ b.out = a.out
        /\ b.active = a.active /\ b.timers = a.timers
    BY ZenonT(60), <1>2, <1>4 DEF IsTCB, TCBFields
  <2> QED  BY <2>1, <2>2
<1> HIDE DEF b
<1>6. Mute(c, b) /\ b.st = c.st /\ h = e
  BY <1>2, <1>5, MuteTrans
<1> HIDE DEF h
<1>7. CASE r = x
  <2>1. Mute(b, x) /\ x.event = "ABORT"
    BY <1>2, <1>5, MuteOps DEF Events
  <2> HIDE DEF x
  <2>2. Mute(c, x)
    BY <1>6, <2>1, MuteTrans
  <2>3. c.st # "INIT"
    BY <1>1 DEF SynStates
  <2>4. NextState(x, x.event) = "CLOSED"
    BY <2>1, <2>2, <2>3, NextStateFacts DEF Mute
  <2> QED  BY <1>7, <2>2, <2>4, ClosedStep DEF r
<1>8. CASE r = y
  <2>1. SynTalks(b, e, f) /\ e.event = b.event
    <3>1. CASE c.st = "SYN_SENT"
      BY <1>5, <1>6, <3>1, SendSynTalks, SendSynOK DEF Keeps
    <3>2. CASE c.st = "SYN_RCVD"
      BY <1>5, <1>6, <3>2, SendSynAckTalks, SendSynAckOK DEF Keeps
    <3> QED  BY <1>1, <3>1, <3>2 DEF SynStates
  <2>2. IsTCB(e)
    BY <2>1 DEF SynTalks, SynOut
  <2> HIDE DEF e
  <2>3. Idle(e, y) /\ Alike(e, y) /\ y.event = e.event
        /\ y.timers = e.timers \cup {"SYN_REXMIT"}
    <3>1. Idle(e, y) /\ Alike(e, y)
      BY <2>2, ScheduleTimeoutIdle, ScheduleTimeoutStill DEF Timers, SendTimers, Still
    <3>2. y.event = e.event /\ y.timers = e.timers \cup {"SYN_REXMIT"}
      BY ZenonT(60), <2>2 DEF ScheduleTimeout, IsTCB, TCBFields
    <3> QED  BY <3>1, <3>2
  <2> HIDE DEF y
  <2>4. /\ IsTCB(y) /\ y.st = c.st /\ y.active = c.active /\ y.iss = c.iss
        /\ y.snd_una = c.snd_una /\ y.send_fin = c.send_fin /\ y.event = "IGNORE"
        /\ SameRcv(c, y)
    BY <1>1, <1>2, <1>5, <1>6, <2>1, <2>3
       DEF SynTalks, SynOut, Mute, Alike, Idle, SameRcv
  <2>5. \A s \in y.out : /\ s.flags = f /\ s.seq = y.iss /\ s.len = 0
                         /\ "ACK" \in f => s.ack = y.rcv_nxt
    <3>1. b.iss = c.iss /\ b.rcv_nxt = y.rcv_nxt
      BY <1>6, <2>4 DEF Mute, SameRcv
    <3> QED  BY <1>2, <1>5, <2>1, <2>3, <2>4, <3>1 DEF SynTalks, Idle
  <2>6. "DELAYED_ACK" \notin y.timers
    <3>1. "DELAYED_ACK" \notin c.timers
      BY <1>1, StateSets DEF PairInv, FinInvAt, Opening
    <3> QED  BY <1>2, <1>5, <2>1, <2>3, <3>1 DEF SynTalks, HandshakeTimers
  <2>7. y.rq_nxt = y.rcv_nxt /\ ~y.fin_rcvd
    BY <1>1, <2>4, StateSets DEF PairInv, FinInvAt, SameRcv, SynStates
  <2>8. NextState(y, y.event) = c.st
    BY <2>4, NextStateFacts
  <2>9. c.st = "SYN_SENT" => y.active
    BY <1>1, <2>4 DEF SendInvAt
  <2>10. c.st = "SYN_RCVD" =>
            /\ y.rcv_nxt = d.iss + 1 /\ Fixed(d)
            /\ Known(y.rcv_nxt, d) /\ \A v \in y.rcvq : Known(v + 1, d)
            /\ y.snd_una # y.iss => Acked(y.snd_una, d, y)
    BY <1>1, <2>4, StateSets
       DEF PairInv, RcvInv, Received, SynInv, AckInvAt, SameRcv, Acked
  <2>11. c.st \in Opening /\ (c.st \in {"LISTEN", "SYN_RCVD"} => c.st = "SYN_RCVD")
    BY <1>1, StateSets DEF SynStates
  <2> HIDE DEF f
  <2>12. Step(c, y, d, p)
    BY <1>1, <2>4, <2>5, <2>6, <2>7, <2>8, <2>9, <2>10, <2>11, SynStep DEF f
  <2> QED  BY <1>8, <2>12 DEF r
<1> QED  BY <1>3, <1>6, <1>7, <1>8 DEF r

LEMMA ProcessSegmentInListenStep ==
    ASSUME NEW c, NEW d, NEW p, Pair(c, d, p), c.st = "LISTEN", IssStep > 1,
           NEW s \in Segment, NEW q, SegInv(s, d, c, q)
    PROVE  Step(c, ProcessSegmentInListen(c, s), d, p)
<1> DEFINE m  == s.seq + 1
           a  == [c EXCEPT !.rcv_nxt = m, !.rq_nxt = m, !.rcvq = {}]
           b  == SelectInitialSeqNum(a)
           i  == InitWndInfo(b, s)
           e  == SendSynAck(i)
           ts == {"SYN_REXMIT", "CONN_ESTAB"}
           x  == Started(e, ts, "RCV_SYN")
           r  == ProcessSegmentInListen(c, s)
<1>1. /\ IsTCB(c) /\ c.event = "IGNORE" /\ PairInv(c, d, p) /\ c.out = {}
      /\ Rests(c) /\ IsTCB(d)
  BY PairFacts DEF Pair
<1>2. m \in Int /\ s.ack \in Int /\ s.seq \in Int
  BY DEF Segment
<1>3. \/ r \in {c, SendRst(c, s.ack)}
      \/ r = x /\ "RST" \notin s.flags /\ "ACK" \notin s.flags /\ "SYN" \in s.flags
  BY DEF ProcessSegmentInListen, Started
<1>0. ts \in SUBSET HandshakeTimers
  BY DEF HandshakeTimers
<1> HIDE DEF r, ts, m
<1>4. CASE r \in {c, SendRst(c, s.ack)}
  <2>1. Mute(c, r)
    BY <1>1, <1>2, <1>4, MuteOps, SendRstMute
  <2>2. r.event = "IGNORE"
    BY SMTT(60), <1>1, <1>2, <1>4, SendRstOK DEF Keeps
  <2> QED  BY <2>1, <2>2, IgnoredStep DEF r
<1>5. CASE r = x /\ "RST" \notin s.flags /\ "ACK" \notin s.flags /\ "SYN" \in s.flags
  <2>1. Fixed(d) /\ m = d.iss + 1 /\ Known(m, d)
    <3>1. /\ Fixed(d) /\ s.seq = d.iss /\ s.len = 0 /\ "FIN" \notin s.flags
          /\ Known(s.seq + SegLen(s), d)
      BY <1>5 DEF SegInv
    <3>2. SegLen(s) = 1
      BY <1>5, <3>1 DEF SegLen
    <3> QED  BY <3>1, <3>2 DEF m
  <2>2. /\ IsTCB(a) /\ a.st = "LISTEN" /\ a.active = c.active /\ a.send_fin = c.send_fin
        /\ a.timers = c.timers /\ a.iss = c.iss /\ a.out = c.out
        /\ a.rcv_nxt = m /\ a.rq_nxt = m /\ a.rcvq = {} /\ a.fin_rcvd = c.fin_rcvd
    <3>1. IsTCB(a)
      BY <1>1, <1>2, SynReceivedStill, AlikeType
    <3>2. /\ a.st = "LISTEN" /\ a.active = c.active /\ a.send_fin = c.send_fin
          /\ a.timers = c.timers /\ a.iss = c.iss /\ a.out = c.out
      BY ZenonT(60), <1>1 DEF IsTCB, TCBFields
    <3>3. a.rcv_nxt = m /\ a.rq_nxt = m /\ a.rcvq = {} /\ a.fin_rcvd = c.fin_rcvd
      BY ZenonT(60), <1>1 DEF IsTCB, TCBFields
    <3> QED  BY <3>1, <3>2, <3>3
  <2> HIDE DEF a
  <2>3. /\ IsTCB(b) /\ b.st = a.st /\ b.active = a.active /\ b.send_fin = a.send_fin
        /\ b.timers = a.timers /\ b.iss = a.iss + IssStep /\ b.snd_una = b.iss
        /\ Idle(a, b)
    BY <2>2, SelectInitialSeqNumSends, SelectInitialSeqNumIdle
  <2> HIDE DEF b
  <2>4. Idle(b, i) /\ Alike(b, i) /\ IsTCB(i) /\ i.timers = b.timers
    <3>1. Idle(b, i) /\ Alike(b, i) /\ IsTCB(i)
      BY <2>3, InitWndInfoIdle, InitWndInfoStill, AlikeType DEF Still
    <3>2. i.timers = b.timers
      BY ZenonT(60), <2>3 DEF InitWndInfo, IsTCB, TCBFields
    <3> QED  BY <3>1, <3>2
  <2> HIDE DEF i
  <2>5. SynTalks(i, e, {"SYN", "ACK"})
    BY <2>4, SendSynAckTalks
  <2> HIDE DEF e
  <2>6. SynTalks(i, x, {"SYN", "ACK"}) /\ x.event = "RCV_SYN"
    BY <1>0, <2>5, StartedTalks
  <2> HIDE DEF x
  <2>7. /\ IsTCB(x) /\ x.st = "LISTEN" /\ x.active = c.active
        /\ x.send_fin = c.send_fin /\ x.iss = c.iss + IssStep /\ x.snd_una = x.iss
        /\ x.rcv_nxt = m /\ x.rq_nxt = m /\ x.rcvq = {} /\ x.fin_rcvd = c.fin_rcvd
        /\ x.iss = i.iss /\ i.rcv_nxt = m /\ i.out = {}
    BY <1>1, <2>2, <2>3, <2>4, <2>6 DEF SynTalks, SynOut, Alike, Idle, SameRcv
  <2>8. "DELAYED_ACK" \notin x.timers /\ ~x.fin_rcvd
    <3>1. "DELAYED_ACK" \notin c.timers /\ ~c.fin_rcvd
      BY <1>1, StateSets DEF PairInv, FinInvAt
    <3> QED  BY <2>2, <2>3, <2>4, <2>6, <2>7, <3>1 DEF SynTalks, HandshakeTimers
  <2>9. \A t \in x.out : t.flags = {"SYN", "ACK"} /\ t.seq = x.iss /\ t.len = 0
                         /\ t.ack = x.rcv_nxt
    BY <2>6, <2>7 DEF SynTalks
  <2>10. NextState(x, x.event) = "SYN_RCVD"
    BY <2>6, <2>7, NextStateFacts
  <2>11. Step(c, x, d, p)
    BY <2>1, <2>7, <2>8, <2>9, <2>10, SynStep, StateSets DEF SynStates
  <2> QED  BY <1>5, <2>11 DEF r
<1> QED  BY <1>3, <1>4, <1>5

LEMMA ProcessSegmentInSynSentStep ==
    ASSUME NEW c, NEW d, NEW p, Pair(c, d, p), c.st = "SYN_SENT",
           NEW s \in Segment, NEW q, SegInv(s, d, c, q), NEW w \in Int
    PROVE  Step(c, ProcessSegmentInSynSent(c, s, w), d, p)
<1> DEFINE m  == s.seq + 1
           a  == [c EXCEPT !.rcv_nxt = m, !.rq_nxt = m, !.rcvq = {}]
           ac == s.ack
           o  == [a EXCEPT !.snd_una = ac]
           u  == DiscardUpTo(o, s.ack)
           e  == InitWndInfo(u, s)
           b  == [e EXCEPT !.ack_now = TRUE]
           f  == EstablishedActive(b, w)
           i  == Indicate(c, "CONNECTION_RESET")
           j  == Indicate(f, "ESTABLISHED")
           k  == SendSynAck(a)
           ts == {"SYN_REXMIT"}
           x  == Started(k, ts, "RCV_SYN")
           y  == Event(j, "RCV_SYN_ACK")
           z  == Event(i, "RCV_RST")
           r  == ProcessSegmentInSynSent(c, s, w)
<1>1. /\ IsTCB(c) /\ IsTCB(d) /\ c.event = "IGNORE" /\ PairInv(c, d, p)
      /\ c.out = {} /\ SendInvAt(c, "SYN_SENT")
  BY PairFacts
<1>2. m \in Int /\ ac \in Int /\ s.ack \in Int /\ ac = s.ack
  BY DEF Segment
<1>3. \/ r \in {c, SendRst(c, s.ack), z}
      \/ r = x /\ "RST" \notin s.flags /\ "ACK" \notin s.flags /\ "SYN" \in s.flags
      \/ /\ r = y /\ AcksOurSyn(c, s)
         /\ "RST" \notin s.flags /\ "ACK" \in s.flags /\ "SYN" \in s.flags
  BY DEF ProcessSegmentInSynSent, Started
<1>0. ts \in SUBSET HandshakeTimers
  BY DEF HandshakeTimers
<1>a. "RST" \notin s.flags /\ "SYN" \in s.flags => Known(m, d)
  <2>1. ASSUME "RST" \notin s.flags, "SYN" \in s.flags PROVE Known(m, d)
    <3>1. s.len = 0 /\ "FIN" \notin s.flags /\ Known(s.seq + SegLen(s), d)
      BY <2>1 DEF SegInv
    <3>2. SegLen(s) = 1
      BY <2>1, <3>1 DEF SegLen
    <3> QED  BY <3>1, <3>2
  <2> QED  BY <2>1
<1>b. /\ SynOrdered(c) /\ c.active /\ c.snd_una = c.iss /\ ~c.send_fin
      /\ ~c.fin_rcvd /\ "DELAYED_ACK" \notin c.timers
  BY <1>1, StateSets DEF SendInvAt, PairInv, FinInvAt
<1>4. /\ IsTCB(a) /\ a.st = "SYN_SENT" /\ a.active = c.active /\ a.send_fin = c.send_fin
      /\ a.timers = c.timers /\ a.iss = c.iss /\ a.out = {} /\ a.snd_una = c.snd_una
      /\ a.snd_nxt = c.snd_nxt /\ a.snd_max = c.snd_max /\ a.qEnd = c.qEnd
      /\ a.rcv_nxt = m /\ a.rq_nxt = m /\ a.rcvq = {} /\ a.fin_rcvd = c.fin_rcvd
  <2>1. Alike(c, a) /\ IsTCB(a)
    BY <1>1, <1>2, SynReceivedStill, AlikeType DEF Still
  <2>2. a.timers = c.timers /\ a.out = c.out
    BY ZenonT(60), <1>1 DEF IsTCB, TCBFields
  <2>3. a.rcv_nxt = m /\ a.rq_nxt = m /\ a.rcvq = {} /\ a.fin_rcvd = c.fin_rcvd
    BY ZenonT(60), <1>1 DEF IsTCB, TCBFields
  <2> QED  BY <1>1, <2>1, <2>2, <2>3 DEF Alike
<1> HIDE DEF r, a, ts, ac
<1>5. CASE r \in {c, SendRst(c, s.ack), z}
  <2>1. r \in {c, SendRst(c, s.ack)} => Step(c, r, d, p)
    <3>1. ASSUME r \in {c, SendRst(c, s.ack)} PROVE Step(c, r, d, p)
      <4>1. Mute(c, r)
        BY <1>1, <1>2, <3>1, MuteOps, SendRstMute
      <4>2. r.event = "IGNORE"
        <5>1. Keeps(c, SendRst(c, s.ack))
          BY <1>1, <1>2, SendRstOK
        <5>2. SendRst(c, s.ack).event = "IGNORE"
          BY <1>1, <5>1 DEF Keeps
        <5> HIDE DEF z
        <5> QED  BY <1>1, <3>1, <5>2
      <4> QED  BY <4>1, <4>2, IgnoredStep
    <3> QED  BY <3>1
  <2>2. Step(c, z, d, p)
    <3>1. Mute(c, i)
      BY <1>1, MuteOps DEF Indications
    <3> HIDE DEF i
    <3>2. IsTCB(i) /\ \A t \in i.out : "RST" \in t.flags
      BY <3>1 DEF Mute
    <3>3. Mute(i, z) /\ z.event = "RCV_RST"
      BY <3>2, MuteOps DEF Events
    <3> HIDE DEF z
    <3>4. Mute(c, z)
      BY <3>1, <3>3, MuteTrans
    <3>5. IsTCB(z) /\ z.st = "SYN_SENT"
      BY <3>4 DEF Mute
    <3>6. NextState(z, z.event) = "CLOSED"
      BY <3>3, <3>5, SendStateFacts
    <3> QED  BY <3>4, <3>6, ClosedStep
  <2> QED  BY <1>5, <2>1, <2>2 DEF r
<1> HIDE DEF z, i, m
<1>6. CASE r = x /\ "RST" \notin s.flags /\ "ACK" \notin s.flags /\ "SYN" \in s.flags
  <2>1. Fixed(d) /\ m = d.iss + 1 /\ Known(m, d)
    BY <1>a, <1>6 DEF SegInv, m
  <2>5. SynTalks(a, k, {"SYN", "ACK"})
    BY <1>4, SendSynAckTalks
  <2> HIDE DEF k
  <2>6. SynTalks(a, x, {"SYN", "ACK"}) /\ x.event = "RCV_SYN"
    BY <1>0, <2>5, StartedTalks
  <2> HIDE DEF x
  <2>7. /\ IsTCB(x) /\ x.st = "SYN_SENT" /\ x.active = c.active
        /\ x.send_fin = c.send_fin /\ x.iss = c.iss /\ x.snd_una = x.iss
        /\ x.rcv_nxt = m /\ x.rq_nxt = m /\ x.rcvq = {} /\ x.fin_rcvd = c.fin_rcvd
    BY <1>1, <1>b, <1>4, <2>6 DEF SynTalks, SynOut, SameRcv
  <2>8. "DELAYED_ACK" \notin x.timers /\ ~x.fin_rcvd
    BY <1>b, <1>4, <2>6, <2>7 DEF SynTalks, HandshakeTimers
  <2>9. \A t \in x.out : t.flags = {"SYN", "ACK"} /\ t.seq = x.iss /\ t.len = 0
                         /\ t.ack = x.rcv_nxt
    BY <1>4, <2>6, <2>7 DEF SynTalks
  <2>10. NextState(x, x.event) = "SYN_RCVD"
    BY <2>6, <2>7, NextStateFacts
  <2>11. Step(c, x, d, p)
    BY <2>1, <2>7, <2>8, <2>9, <2>10, SynStep, StateSets DEF SynStates
  <2> QED  BY <1>6, <2>11 DEF r
<1> HIDE DEF x, k
<1>7. CASE /\ r = y /\ AcksOurSyn(c, s)
           /\ "RST" \notin s.flags /\ "ACK" \in s.flags /\ "SYN" \in s.flags
  <2>1. Known(m, d) /\ Acked(ac, d, c) /\ c.iss < ac /\ ac <= c.snd_nxt
    BY <1>2, <1>a, <1>7 DEF SegInv, AcksOurSyn
  <2>2. /\ c.iss \in Int /\ c.snd_nxt \in Int /\ c.snd_max \in Int /\ c.qEnd \in Int
        /\ c.iss < c.snd_max
    BY <1>1, <1>b, NumberTypes DEF SynOrdered
  <2>3. /\ IsTCB(o) /\ o.st = "SYN_SENT" /\ o.active = a.active /\ o.iss = a.iss
        /\ o.snd_una = ac /\ o.snd_nxt = a.snd_nxt /\ o.snd_max = a.snd_max
        /\ o.qEnd = a.qEnd /\ o.send_fin = a.send_fin
    BY ZenonT(60), <1>2, <1>4 DEF IsTCB, TCBFields
  <2>4. Idle(a, o)
    BY ZenonT(60), <1>4 DEF Idle, SameRcv, IsTCB, TCBFields
  <2> HIDE DEF o
  <2>5. SendOrdered(o)
    BY <1>2, <1>b, <1>4, <2>1, <2>2, <2>3 DEF SynOrdered, SendOrdered
  <2>6. Alike(o, u) /\ Idle(o, u) /\ IsTCB(u)
    BY <1>2, <2>3, DiscardUpToIdle, DiscardUpToStill, AlikeType DEF Still
  <2> HIDE DEF u
  <2>7. Alike(u, e) /\ Idle(u, e) /\ IsTCB(e)
    BY <2>6, InitWndInfoIdle, InitWndInfoStill, AlikeType DEF Still
  <2> HIDE DEF e
  <2>8. Alike(e, b) /\ Idle(e, b) /\ IsTCB(b)
    <3>1. IsTCB(b)
      BY ZenonT(60), <2>7 DEF IsTCB, TCBFields
    <3>2. Alike(e, b)
      BY ZenonT(60), <2>7, <3>1 DEF Alike, IsTCB, TCBFields
    <3>3. Idle(e, b)
      BY ZenonT(60), <2>7 DEF Idle, SameRcv, IsTCB, TCBFields
    <3> QED  BY <3>1, <3>2, <3>3
  <2> HIDE DEF b
  <2>9. Alike(o, b) /\ Idle(a, b)
    BY <2>4, <2>6, <2>7, <2>8, AlikeTrans, IdleTrans
  <2>10. SendOrdered(b)
    BY <2>5, <2>9, AlikeOrdered
  <2>11. Sends(b, f) /\ IsTCB(f)
    BY <2>8, EstablishedActiveSends, SendsType
  <2> HIDE DEF f
  <2>12. Sends(f, j) /\ IsTCB(j)
    BY <2>11, IndicateSends, SendsType DEF Indications
  <2> HIDE DEF j
  <2>13. Sends(j, y) /\ y.event = "RCV_SYN_ACK"
    BY <2>12, EventSends, EventStill DEF Events
  <2> HIDE DEF y
  <2>14. Sends(b, y)
    BY <2>8, <2>11, <2>12, <2>13, SendsTrans
  <2>15. Talks(b, y) /\ SameRcv(b, y) /\ y.snd_una = b.snd_una /\ IsTCB(y)
    BY <2>14 DEF Sends, Talks
  <2>16. /\ b.st = "SYN_SENT" /\ b.active = c.active /\ b.iss = c.iss
         /\ b.snd_una = ac /\ b.snd_max = c.snd_max /\ ~b.send_fin /\ b.out = {}
         /\ b.rcv_nxt = m /\ b.rq_nxt = m /\ b.rcvq = {} /\ ~b.fin_rcvd
    BY <1>b, <1>4, <2>3, <2>9 DEF Alike, Idle, SameRcv
  <2>17. /\ y.st = "SYN_SENT" /\ y.active = c.active /\ y.iss = c.iss
         /\ y.snd_una = ac /\ c.snd_max <= y.snd_max /\ ~y.send_fin
         /\ y.rcv_nxt = m /\ y.rq_nxt = m /\ y.rcvq = {} /\ ~y.fin_rcvd
    BY <2>10, <2>15, <2>16 DEF Talks, SameRcv
  <2>18. NextState(y, y.event) = "ESTABLISHED"
    BY <2>13, <2>15, <2>17, SendStateFacts
  <2>19. ASSUME NEW t \in y.out
         PROVE  /\ "ACK" \in t.flags /\ "SYN" \notin t.flags /\ "RST" \notin t.flags
                /\ Known(t.ack, d) /\ t.ack <= y.rcv_nxt
                /\ "FIN" \in t.flags => p \in Closers
                /\ t.seq + SegLen(t) <= y.snd_max
    <3>1. Says(t, b, y) /\ t.seq + SegLen(t) <= y.snd_max
      BY <2>10, <2>15, <2>16, <2>19 DEF Talks
    <3>2. t.ack \in Int
      BY <2>15, <2>19 DEF IsTCB, Segment
    <3>3. t.ack = m
      BY <1>2, <2>16, <2>17, <3>1, <3>2 DEF Says, m
    <3> QED  BY <2>1, <2>17, <3>1, <3>2, <3>3 DEF Says
  <2>20. Received(y, d) /\ FinInvAt(y, p, "ESTABLISHED")
    <3>1. y.rq_nxt <= y.rcv_nxt
      BY <1>2, <2>17 DEF m
    <3> QED  BY <2>1, <2>17, <3>1, StateSets DEF Received, FinInvAt
  <2>21. "ESTABLISHED" \in DataStates /\ "SYN_SENT" \in SynStates
    BY DEF DataStates, SynStates
  <2>22. Step(c, y, d, p)
    BY <1>1, <2>1, <2>2, <2>15, <2>17, <2>18, <2>19, <2>20, <2>21, SpeakStep
  <2> QED  BY <1>7, <2>22 DEF r
<1> QED  BY <1>3, <1>5, <1>6, <1>7 DEF r

\* What a connection took from a segment of the other end, the other end sent.
LEMMA ReceivedFrom ==
    ASSUME NEW k, IsTCB(k), NEW d, IsTCB(d), Received(k, d), NEW s \in Segment,
           Known(s.seq + SegLen(s), d), NEW r, IsTCB(r),
           \A n \in Int : s.seq + SegLen(s) <= n /\ RcvIn(k, n) => RcvIn(r, n),
           d.st \in Opening => Idle(k, r)
    PROVE  Received(r, d)
<1>1. CASE d.st \in Opening
  BY <1>1 DEF Idle, SameRcv, Received
<1>2. CASE d.st \in DataStates
  <2>1. d.snd_max \in Int /\ k.rcvq \in SUBSET Int /\ r.rcvq \in SUBSET Int
        /\ k.rcv_fin_seq \in Int /\ r.rcv_fin_seq \in Int
    BY NumberTypes DEF IsTCB
  <2>2. d.st \notin Opening
    BY <1>2, StateSets
  <2>3. s.seq + SegLen(s) <= d.snd_max
    BY <1>2 DEF Known
  <2>4. RcvIn(k, d.snd_max)
    BY <1>2, <2>1 DEF Received, Known, RcvIn
  <2>5. RcvIn(r, d.snd_max)
    BY <2>1, <2>3, <2>4
  <2> QED  BY <1>2, <2>1, <2>2, <2>5 DEF Received, Known, RcvIn
<1>3. CASE d.st \notin Opening \cup DataStates
  BY <1>3 DEF Received, Known
<1> QED  BY <1>1, <1>2, <1>3

\* In SYN_RCVD the acknowledgement on a segment with text sends nothing.
LEMMA ProcessAckSilent ==
    ASSUME NEW c, IsTCB(c), NEW s \in Segment, NEW w \in Int, c.st = "SYN_RCVD", s.len > 0
    PROVE  ProcessAck(c, s, w).out = c.out /\ ProcessAck(c, s, w).timers = c.timers
<1> DEFINE x == MaxOf(c.snd_nxt, s.ack)
           b == AcksOurFin(c, s)
           u == IF b THEN s.ack - 1 ELSE s.ack
           d == [c EXCEPT !.snd_una = s.ack, !.snd_nxt = x, !.fin_ack_rcvd = @ \/ b]
           e == DiscardUpTo(d, u)
           f == UpdateWndInfo(e, s)
           z == [c EXCEPT !.dupacks = 0]
<1>1. s.len # 0
  BY DEF Segment
<1>2. ProcessAck(c, s, w) \in {f, z}
  BY <1>1 DEF ProcessAck, ProcessOldAck, DuplicateAck, ProcessNewAck
<1>3. z.out = c.out /\ z.timers = c.timers
  BY ZenonT(60) DEF IsTCB, TCBFields
<1> HIDE DEF x, b, u, z
<1>4. d.out = c.out /\ d.timers = c.timers /\ DOMAIN d = TCBFields
  BY ZenonT(60) DEF IsTCB, TCBFields
<1> HIDE DEF d
<1>5. e.out = d.out /\ e.timers = d.timers /\ DOMAIN e = TCBFields
  BY ZenonT(60), <1>4 DEF DiscardUpTo, TCBFields
<1> HIDE DEF e
<1>6. f.out = e.out /\ f.timers = e.timers
  BY ZenonT(60), <1>5 DEF UpdateWndInfo, TCBFields
<1> HIDE DEF f
<1> QED  BY <1>2, <1>3, <1>4, <1>5, <1>6

\* An acceptable segment with text ends behind rcv_nxt.
LEMMA AcceptableText ==
    ASSUME NEW c, IsTCB(c), NEW s \in Segment, IsSegmentAcceptable(c, s), s.len > 0
    PROVE  c.rcv_nxt < s.seq + s.len
<1>1. c.rcv_nxt \in Int /\ s.seq \in Int /\ s.len \in Nat /\ s.len # 0
  BY NumberTypes DEF Segment
<1>2. c.rcv_nxt <= s.seq \/ c.rcv_nxt < s.seq + s.len
  BY <1>1 DEF IsSegmentAcceptable
<1> QED  BY <1>1, <1>2

\* What an acknowledgement or a FIN means to a connection that does not close.
LEMMA CalmStates ==
    ASSUME NEW r, IsTCB(r), r.st \in {"SYN_RCVD", "ESTABLISHED", "CLOSE_WAIT"},
           r.event \in {"RCV_ACK", "RCV_FIN", "IGNORE"},
           r.event = "RCV_ACK" => r.st = "SYN_RCVD"
    PROVE  NextState(r, r.event)
             = CASE r.st \in {"SYN_RCVD", "ESTABLISHED"} /\ r.event = "RCV_FIN" -> "CLOSE_WAIT"
                 [] r.st = "SYN_RCVD" /\ r.event = "RCV_ACK" -> "ESTABLISHED"
                 [] OTHER -> r.st
BY DEF NextState, DataStates

\* Steps six to eight of a segment that d, the other end, sent; k is the
\* connection after step five.
LEMMA TextStep ==
    ASSUME NEW c, NEW d, NEW p, NEW q, Pair(c, d, p),
           c.st \in DataStates \cup {"TIME_WAIT", "SYN_RCVD"},
           NEW s \in Segment, NEW w \in Int, SegInv(s, d, c, q),
           p \in Closers => q \notin Closers,
           "RST" \notin s.flags, "ACK" \in s.flags, IsSegmentAcceptable(c, s),
           NEW k, Talks(c, k), SameRcv(c, k), k.snd_una \in {c.snd_una, s.ack},
           c.st # "TIME_WAIT" => c.iss < k.snd_una,
           c.st = "SYN_RCVD" => k.event = "RCV_ACK",
           c.st = "SYN_RCVD" /\ s.len > 0 => k.out = {} /\ k.timers = c.timers,
           c.st \in {"ESTABLISHED", "CLOSE_WAIT"} => k.event = "IGNORE",
           c.st # "TIME_WAIT" => SendOrdered(k)
    PROVE  Step(c, ProcessTextAndFin(k, s, c, w), d, p)
<1> DEFINE r == ProcessTextAndFin(k, s, c, w)
           n == NextState(r, r.event)
<1>1. /\ IsTCB(c) /\ IsTCB(d) /\ c.event = "IGNORE" /\ PairInv(c, d, p)
      /\ c.out = {} /\ SendInv(c) /\ SendInvAt(c, c.st)
  BY PairFacts
<1>2. /\ IsTCB(k) /\ k.st = c.st /\ k.iss = c.iss /\ k.send_fin = c.send_fin
      /\ k.rcv_nxt = c.rcv_nxt /\ k.rq_nxt = c.rq_nxt /\ k.rcvq = c.rcvq
      /\ k.fin_rcvd = c.fin_rcvd /\ k.rcv_fin_seq = c.rcv_fin_seq
  BY DEF Talks, SameRcv
<1>3. /\ Known(s.seq + SegLen(s), d) /\ Known(s.ack, c) /\ Acked(s.ack, d, c)
      /\ "FIN" \in s.flags => q \in Closers
      /\ d.st \in Opening => s.len = 0 /\ "FIN" \notin s.flags
  BY DEF SegInv
<1>4. FinInvAt(c, p, c.st) /\ AckInvAt(c, d, c.st) /\ Received(c, d)
  BY <1>1, StateSets DEF PairInv, RcvInv
<1>5. c.st \in {"SYN_RCVD", "ESTABLISHED", "FIN_WAIT_1", "FIN_WAIT_2"}
        => c.rcv_nxt = c.rq_nxt
  BY <1>4 DEF FinInvAt
<1>6. s.len > 0 /\ k.st \in {"SYN_RCVD", "ESTABLISHED", "FIN_WAIT_1", "FIN_WAIT_2"}
        => k.rcv_nxt = k.rq_nxt /\ k.rcv_nxt < s.seq + s.len
  BY <1>1, <1>2, <1>5, AcceptableText
<1>7. /\ Talks(k, r) /\ r.snd_una = k.snd_una
      /\ k.rq_nxt <= k.rcv_nxt => r.rq_nxt <= r.rcv_nxt
      /\ \A m \in Int : s.seq + SegLen(s) <= m /\ RcvIn(k, m) => RcvIn(r, m)
      /\ "FIN" \notin s.flags /\ ~k.fin_rcvd
            => ~r.fin_rcvd /\ (k.rcv_nxt = k.rq_nxt => r.rcv_nxt = r.rq_nxt)
      /\ k.st \notin FinWaits /\ ~k.send_fin =>
            /\ k.rcv_nxt = k.rq_nxt => r.rcv_nxt = r.rq_nxt \/ r.event = "RCV_FIN"
            /\ r.event \in {k.event, "RCV_FIN", "IGNORE"}
      /\ k.st = "SYN_RCVD" /\ k.event = "RCV_ACK" /\ r.event = "IGNORE"
            => Idle(k, r) /\ r.timers = k.timers
      /\ s.len = 0 /\ "FIN" \notin s.flags => Idle(k, r)
  BY <1>1, <1>2, <1>6, ProcessTextAndFinReceives
<1>8. c.st = "SYN_RCVD" =>
          \/ r.event \in HandshakeEnds
          \/ r.event = "IGNORE" /\ s.len > 0
  BY <1>1, <1>2, ProcessTextAndFinOrdered, StateSets DEF HandshakeEnds
<1> HIDE DEF r
<1>9. /\ IsTCB(r) /\ r.st = c.st /\ Talks(c, r) /\ r.send_fin = c.send_fin
  BY <1>1, <1>2, <1>7, TalksTrans DEF Talks
<1>10. d.st \in Opening => Idle(k, r)
  BY <1>3, <1>7
<1>11. Received(r, d)
  <2>1. Received(k, d)
    BY <1>2, <1>4 DEF Received
  <2> QED  BY <1>1, <1>2, <1>3, <1>7, <1>9, <1>10, <2>1, ReceivedFrom
<1>12. d.st \in Opening => r.rcv_nxt = c.rcv_nxt
  BY <1>2, <1>10 DEF Idle, SameRcv


<1>13. /\ n \in DataStates \cup {"TIME_WAIT", "CLOSED"} \/ n = c.st
       /\ c.st = "TIME_WAIT" => n \notin DataStates
       /\ n = "SYN_RCVD" => c.st = "SYN_RCVD" /\ r.event = "IGNORE" /\ s.len > 0
  <2>1. CASE c.st \in DataStates
    BY <1>9, <2>1, SendStateFacts, StateSets
  <2>2. CASE c.st = "TIME_WAIT"
    BY <1>9, <2>2, SendStateFacts, StateSets
  <2>3. CASE c.st = "SYN_RCVD"
    <3>1. CASE r.event \in HandshakeEnds
      BY <1>9, <2>3, <3>1, SendStateFacts, StateSets
    <3>2. CASE r.event = "IGNORE" /\ s.len > 0
      BY <1>9, <2>3, <3>2, NextStateFacts
    <3> QED  BY <1>8, <2>3, <3>1, <3>2
  <2> QED  BY <2>1, <2>2, <2>3
<1>14. n = "SYN_RCVD" => Idle(c, r) /\ r.out = {} /\ r.timers = c.timers
  BY <1>1, <1>2, <1>7, <1>13 DEF Idle, SameRcv
<1>15. n = "SYN_RCVD" =>
           /\ r.rcv_nxt = c.rcv_nxt
           /\ \A t \in r.out : t.seq = c.iss + 1 /\ t.len = 0 /\ "FIN" \notin t.flags
  BY <1>14 DEF Idle, SameRcv
<1>16. n \in DataStates \cup {"SYN_RCVD"} => c.st # "TIME_WAIT"
  BY <1>13, StateSets
<1>17. n \in DataStates \cup {"SYN_RCVD"} /\ r.snd_una # c.iss => Acked(r.snd_una, d, c)
  BY <1>3, <1>4, <1>7, <1>16 DEF AckInvAt
<1>18. n \in DataStates => c.iss < r.snd_una
  BY <1>7, <1>16
<1>19. n # "CLOSED" => FinInvAt(r, p, n)
  <2>1. n \in Opening => n = "SYN_RCVD"
    BY <1>13, StateSets
  <2>2. n \in Opening => ~r.fin_rcvd /\ "DELAYED_ACK" \notin r.timers
    BY <1>4, <1>13, <1>14, <2>1, StateSets DEF FinInvAt, Idle, SameRcv
  <2>3. r.rq_nxt <= r.rcv_nxt
    BY <1>2, <1>4, <1>7 DEF FinInvAt
  <2>4. p \in Closers => r.rcv_nxt = r.rq_nxt /\ ~r.fin_rcvd
    BY <1>2, <1>3, <1>4, <1>7 DEF FinInvAt
  <2>5. ASSUME p \notin Closers
        PROVE  /\ ~r.send_fin /\ n \in Opening \cup {"ESTABLISHED", "CLOSE_WAIT", "CLOSED"}
               /\ n # "CLOSE_WAIT" => r.rcv_nxt = r.rq_nxt
    <3>1. /\ ~c.send_fin /\ c.st \in {"SYN_RCVD", "ESTABLISHED", "CLOSE_WAIT"}
          /\ c.st # "CLOSE_WAIT" => c.rcv_nxt = c.rq_nxt
      BY <1>4, <2>5, StateSets DEF FinInvAt
    <3>2. /\ c.rcv_nxt = c.rq_nxt => r.rcv_nxt = r.rq_nxt \/ r.event = "RCV_FIN"
          /\ r.event \in {k.event, "RCV_FIN", "IGNORE"}
      BY <1>2, <1>7, <3>1 DEF FinWaits
    <3>3. r.event \in {"RCV_ACK", "RCV_FIN", "IGNORE"}
          /\ (r.event = "RCV_ACK" => c.st = "SYN_RCVD")
      BY <3>1, <3>2
    <3>4. n = CASE c.st \in {"SYN_RCVD", "ESTABLISHED"} /\ r.event = "RCV_FIN" -> "CLOSE_WAIT"
                [] c.st = "SYN_RCVD" /\ r.event = "RCV_ACK" -> "ESTABLISHED"
                [] OTHER -> c.st
      BY <1>9, <3>1, <3>3, CalmStates
    <3>5. /\ n \in {"SYN_RCVD", "ESTABLISHED", "CLOSE_WAIT"}
          /\ n # "CLOSE_WAIT" => c.st # "CLOSE_WAIT" /\ r.event # "RCV_FIN"
      BY <3>1, <3>3, <3>4
    <3> HIDE DEF n
    <3> QED  BY <1>9, <3>1, <3>2, <3>5, StateSets
  <2> QED  BY <2>2, <2>3, <2>4, <2>5 DEF FinInvAt
<1> QED
  <2> HIDE DEF n
  <2>1. /\ n \in DataStates \cup {"TIME_WAIT", "CLOSED"} \/ n = c.st
        /\ c.st = "TIME_WAIT" => n \notin DataStates
        /\ n = "SYN_RCVD" =>
              /\ r.rcv_nxt = c.rcv_nxt
              /\ \A t \in r.out : /\ t.seq = c.iss + 1 /\ t.len = 0
                                  /\ "FIN" \notin t.flags
        /\ n \in DataStates \cup {"SYN_RCVD"} /\ r.snd_una # c.iss
              => Acked(r.snd_una, d, c)
        /\ n \in DataStates => c.iss < r.snd_una
        /\ n # "CLOSED" => FinInvAt(r, p, n)
    BY <1>13, <1>15, <1>17, <1>18, <1>19
  <2> USE DEF n
  <2>2. Step(c, r, d, p)
    BY <1>1, <1>9, <1>11, <1>12, <2>1, TalkStep
  <2> QED  BY <2>2 DEF r

\* A reset ends a connection; so does a SYN that comes again.
LEMMA ResetStates ==
    ASSUME NEW r, IsTCB(r), r.st \in DataStates \cup {"TIME_WAIT"},
           r.event \in {"RCV_RST", "RCV_UNEXP_SYN"}
    PROVE  NextState(r, r.event) = "CLOSED"
BY DEF NextState, DataStates

LEMMA LastAckEnds ==
    ASSUME NEW r, IsTCB(r), r.st = "LAST_ACK", r.event = "RCV_ACK"
    PROVE  NextState(r, r.event) = "CLOSED"
BY DEF NextState

\* What sendAck() puts out.
LEMMA SendAckOut ==
    ASSUME NEW c, IsTCB(c), c.out = {}
    PROVE  /\ SendAck(c).timers \subseteq c.timers
           /\ \A t \in SendAck(c).out : /\ t.seq = c.snd_nxt /\ t.len = 0
                                        /\ "FIN" \notin t.flags
<1> DEFINE u == UpdateRcvWnd(c)
           t == Seg({"ACK"}, c.snd_nxt, c.rcv_nxt, 0, u.rcv_wnd)
           e == Emit(u, t)
           a == AckSent(e)
<1>1. u.out = {} /\ u.timers = c.timers /\ DOMAIN u = TCBFields
  BY ZenonT(60) DEF UpdateRcvWnd, IsTCB, TCBFields
<1>2. t.seq = c.snd_nxt /\ t.len = 0 /\ "FIN" \notin t.flags
  BY DEF Seg
<1>3. a = SendAck(c)
  BY DEF SendAck
<1> HIDE DEF u, t
<1>4. e.out = {} \cup {t} /\ e.timers = c.timers /\ DOMAIN e = TCBFields
  BY ZenonT(60), <1>1 DEF Emit, TCBFields
<1> HIDE DEF e
<1>5. a.out = e.out /\ a.timers = e.timers \ {"DELAYED_ACK"}
  BY ZenonT(60), <1>4 DEF AckSent, TCBFields
<1> HIDE DEF a
<1> QED  BY <1>2, <1>3, <1>4, <1>5

\* A reset that is taken.
LEMMA ProcessRstStep ==
    ASSUME NEW c, NEW d, NEW p, Pair(c, d, p),
           c.st \in DataStates \cup {"TIME_WAIT", "SYN_RCVD"}
    PROVE  Step(c, ProcessRst(c), d, p)
<1> DEFINE q == [c EXCEPT !.qBegin = c.qEnd]
           i == Indicate(q, "CONNECTION_REFUSED")
           y == Indicate(c, "CONNECTION_RESET")
           r == ProcessRst(c)
<1>1. IsTCB(c) /\ c.out = {}
  BY PairFacts
<1>2. Mute(c, q) /\ IsTCB(q) /\ \A s \in q.out : "RST" \in s.flags
  <2>1. Mute(c, q)
    BY <1>1, MuteSets
  <2> QED  BY <2>1 DEF Mute
<1>3. r \in {Event(i, "RCV_RST"), Event(q, "RCV_RST"), Event(y, "RCV_RST"),
             Event(c, "RCV_RST")}
  BY DEF ProcessRst
<1> HIDE DEF q, r
<1>4. Mute(c, i) /\ IsTCB(i) /\ \A s \in i.out : "RST" \in s.flags
  <2>1. Mute(q, i)
    BY <1>2, MuteOps DEF Indications
  <2> HIDE DEF i
  <2> QED  BY <1>2, <2>1, MuteTrans DEF Mute
<1>5. Mute(c, y) /\ IsTCB(y) /\ \A s \in y.out : "RST" \in s.flags
  <2>1. Mute(c, y)
    BY <1>1, MuteOps DEF Indications
  <2> HIDE DEF y
  <2> QED  BY <2>1 DEF Mute
<1> HIDE DEF i, y
<1>6. "RCV_RST" \in Events
  BY DEF Events
<1>7. Mute(c, r) /\ r.event = "RCV_RST"
  BY <1>1, <1>2, <1>3, <1>4, <1>5, <1>6, MuteOps, MuteTrans
<1>8. IsTCB(r) /\ r.st = c.st /\ (c.st # "INIT" => r.active = c.active)
  BY <1>7 DEF Mute
<1>9. Step(c, r, d, p)
  <2>1. CASE c.st = "SYN_RCVD"
    <3>1. NextState(r, r.event) = IF c.active THEN "CLOSED" ELSE "LISTEN"
      BY <1>7, <1>8, <2>1, SendStateFacts
    <3> QED  BY <1>7, <2>1, <3>1, PairFacts, MuteStep
  <2>2. CASE c.st \in DataStates \cup {"TIME_WAIT"}
    <3>1. NextState(r, r.event) = "CLOSED" \/ NextState(r, r.event) = c.st
      BY <1>7, <1>8, <2>2, ResetStates
    <3>2. c.st # "LISTEN"
      BY <2>2, StateSets
    <3> QED  BY <1>7, <3>1, <3>2, PairFacts, MuteStep
  <2> QED  BY <2>1, <2>2
<1> QED  BY <1>9 DEF r

\* An acceptable acknowledgement: processAckInEstabEtc() and what follows.
LEMMA AckedStep ==
    ASSUME NEW c, NEW d, NEW p, NEW q, Pair(c, d, p),
           c.st \in DataStates \cup {"SYN_RCVD"},
           NEW s \in Segment, NEW w \in Int, SegInv(s, d, c, q),
           p \in Closers => q \notin Closers,
           "RST" \notin s.flags, "ACK" \in s.flags, IsSegmentAcceptable(c, s),
           s.ack <= c.snd_max, c.st = "SYN_RCVD" => AcksOurSynAck(c, s),
           NEW b, b = IF c.st = "SYN_RCVD"
                      THEN Event(Indicate(c, "ESTABLISHED"), "RCV_ACK") ELSE c
    PROVE  LET e == ProcessAck(b, s, w)
           IN  /\ c.st = "LAST_ACK" => Step(c, Event(e, "RCV_ACK"), d, p)
               /\ Step(c, ProcessTextAndFin(ProcessFinAcked(e), s, c, w), d, p)
<1> DEFINE i == Indicate(c, "ESTABLISHED")
           x == Event(i, "RCV_ACK")
           e == ProcessAck(b, s, w)
           u == Event(e, "RCV_ACK")
           k == ProcessFinAcked(e)
<1>1. /\ IsTCB(c) /\ IsTCB(d) /\ c.event = "IGNORE" /\ PairInv(c, d, p)
      /\ c.out = {} /\ SendInv(c) /\ SendInvAt(c, c.st)
  BY PairFacts
<1>2. /\ SendOrdered(c) /\ s.ack \in Int /\ c.iss \in Int /\ c.snd_una \in Int
      /\ c.snd_max \in Int /\ c.iss <= c.snd_una
  <2>1. SendOrdered(c)
    BY <1>1 DEF SendInvAt, SynOrdered
  <2>2. s.ack \in Int /\ c.iss \in Int /\ c.snd_una \in Int /\ c.snd_max \in Int
    BY <1>1, NumberTypes DEF Segment
  <2> QED  BY <2>1, <2>2 DEF SendOrdered
<1>3. Mute(c, x) /\ x.event = "RCV_ACK" /\ Alike(c, x) /\ Idle(c, x)
      /\ x.timers = c.timers
  <2>1. Mute(c, i) /\ IsTCB(i) /\ Alike(c, i) /\ i.out = c.out /\ i.timers = c.timers
    <3>1. Mute(c, i)
      BY <1>1, MuteOps DEF Indications
    <3>2. Alike(c, i)
      BY <1>1, IndicateStill, AlikeType DEF Indications
    <3>3. i.out = c.out /\ i.timers = c.timers
      BY ZenonT(60), <1>1 DEF Indicate, IsTCB, TCBFields
    <3> HIDE DEF i
    <3> QED  BY <3>1, <3>2, <3>3 DEF Mute
  <2> HIDE DEF i
  <2>2. "RCV_ACK" \in Events
    BY DEF Events
  <2>3. Mute(i, x) /\ x.event = "RCV_ACK" /\ Alike(i, x)
    BY <1>1, <2>1, <2>2, MuteOps, EventStill, AlikeType
  <2>4. x.out = i.out /\ x.timers = i.timers
    BY ZenonT(60), <2>1 DEF Event, IsTCB, TCBFields
  <2> HIDE DEF x
  <2>5. Mute(c, x)
    BY <2>1, <2>3, MuteTrans
  <2>6. Alike(c, x)
    BY <2>1, <2>3, AlikeTrans
  <2> QED  BY <2>1, <2>3, <2>4, <2>5, <2>6 DEF Mute, Idle
<1> HIDE DEF x, i
<1>4. /\ IsTCB(b) /\ b.st = c.st /\ b.iss = c.iss /\ b.snd_una = c.snd_una
      /\ b.snd_max = c.snd_max /\ SendOrdered(b) /\ Sends(c, b)
      /\ b.timers = c.timers /\ b.out = {}
      /\ c.st = "SYN_RCVD" => b.event = "RCV_ACK"
      /\ c.st # "SYN_RCVD" => b.event = "IGNORE"
  <2>1. CASE c.st = "SYN_RCVD"
    <3>1. b = x
      BY <2>1 DEF x, i
    <3>2. Sends(c, x)
      BY <1>1, <1>3, IdleSends
    <3> QED  BY <1>1, <1>2, <1>3, <2>1, <3>1, <3>2, AlikeOrdered DEF Alike, Idle
  <2>2. CASE c.st # "SYN_RCVD"
    BY <1>1, <1>2, <2>2, SendsRefl
  <2> QED  BY <2>1, <2>2
<1>5. /\ Talks(b, e) /\ SameRcv(b, e) /\ IsTCB(e) /\ e.st = c.st
      /\ e.snd_una = IF s.ack <= c.snd_una THEN c.snd_una ELSE s.ack
      /\ SendOrdered(e) /\ e.event = b.event
      /\ c.st = "SYN_RCVD" /\ s.len > 0 => e.out = {} /\ e.timers = c.timers
  <2>1. /\ Talks(b, e) /\ SameRcv(b, e)
        /\ e.snd_una = IF s.ack <= b.snd_una THEN b.snd_una ELSE s.ack
    BY <1>4, ProcessAckTalks
  <2>2. IsTCB(e) /\ SendOrdered(e) /\ e.event = b.event /\ e.st = b.st
    BY <1>4, ProcessAckOK, ProcessAckOrdered DEF Keeps
  <2>3. c.st = "SYN_RCVD" /\ s.len > 0 => e.out = {} /\ e.timers = c.timers
    BY <1>4, ProcessAckSilent
  <2> HIDE DEF e
  <2> QED  BY <1>4, <2>1, <2>2, <2>3
<1> HIDE DEF e
<1>6. Talks(c, e) /\ SameRcv(c, e)
  BY <1>1, <1>4, <1>5, TalksTrans DEF Sends, SameRcv
<1>7. e.snd_una \in {c.snd_una, s.ack} /\ c.iss < e.snd_una
  <2>1. e.snd_una \in {c.snd_una, s.ack} /\ c.snd_una <= e.snd_una
    BY <1>2, <1>5
  <2>2. CASE c.st \in DataStates
    <3>1. c.iss < c.snd_una
      BY <1>1, <2>2 DEF PairInv, AckInvAt
    <3> QED  BY <1>2, <2>1, <3>1
  <2>3. CASE c.st = "SYN_RCVD"
    <3>1. s.ack # c.iss /\ c.snd_una <= s.ack
      BY <2>3, StateSets DEF SegInv, Known, AcksOurSynAck
    <3> QED  BY <1>2, <1>5, <2>1, <3>1
  <2> QED  BY <2>2, <2>3

<1>8. c.st = "LAST_ACK" => Step(c, u, d, p)
  <2>1. ASSUME c.st = "LAST_ACK" PROVE Step(c, u, d, p)
    <3>1. Sends(e, u) /\ u.event = "RCV_ACK" /\ IsTCB(u) /\ u.st = e.st
      <4>1. "RCV_ACK" \in Events
        BY DEF Events
      <4>2. Sends(e, u) /\ u.event = "RCV_ACK"
        BY <1>5, <4>1, EventSends, EventStill
      <4> HIDE DEF u
      <4> QED  BY <4>2, SendsType DEF Talks
    <3> HIDE DEF u
    <3>2. Talks(c, u) /\ SameRcv(c, u)
      BY <1>1, <1>6, <3>1, TalksTrans DEF Sends, SameRcv
    <3>3. NextState(u, u.event) = "CLOSED"
      BY <1>5, <2>1, <3>1, LastAckEnds
    <3>4. Received(c, d)
      BY <1>1, <2>1, StateSets DEF PairInv, RcvInv
    <3>5. Received(u, d) /\ u.rcv_nxt = c.rcv_nxt
      BY <3>2, <3>4 DEF Received, SameRcv
    <3>6. "CLOSED" \notin DataStates /\ "CLOSED" # "SYN_RCVD"
      BY StateSets
    <3> QED  BY <1>1, <2>1, <3>2, <3>3, <3>5, <3>6, TalkStep
  <2> QED  BY <2>1
<1>9. Step(c, ProcessTextAndFin(k, s, c, w), d, p)
  <2>1. Sends(e, k) /\ Still(e, k)
        /\ (c.st \in {"SYN_RCVD", "ESTABLISHED", "CLOSE_WAIT"} => k = e)
    BY <1>5, ProcessFinAckedSends, ProcessFinAckedStill DEF ProcessFinAcked
  <2> HIDE DEF k
  <2>2. Talks(c, k) /\ SameRcv(c, k) /\ k.snd_una = e.snd_una
    BY <1>1, <1>6, <2>1, TalksTrans DEF Sends, SameRcv
  <2>3. SendOrdered(k)
    BY <1>5, <2>1, AlikeOrdered DEF Still
  <2>4. /\ c.st = "SYN_RCVD" => k.event = "RCV_ACK"
        /\ c.st = "SYN_RCVD" /\ s.len > 0 => k.out = {} /\ k.timers = c.timers
        /\ c.st \in {"ESTABLISHED", "CLOSE_WAIT"} => k.event = "IGNORE"
    BY <1>4, <1>5, <2>1
  <2> QED  BY <1>7, <2>2, <2>3, <2>4, TextStep
<1> QED  BY <1>8, <1>9 DEF u, k, e

LEMMA ProcessSegment1stThru8thStep ==
    ASSUME NEW c, NEW d, NEW p, NEW q, Pair(c, d, p),
           c.st \in DataStates \cup {"TIME_WAIT", "SYN_RCVD"},
           NEW s \in Segment, NEW w \in Int, SegInv(s, d, c, q),
           p \in Closers => q \notin Closers
    PROVE  Step(c, ProcessSegment1stThru8th(c, s, w), d, p)
<1> DEFINE r == ProcessSegment1stThru8th(c, s, w)
           b == IF c.st = "SYN_RCVD"
                THEN Event(Indicate(c, "ESTABLISHED"), "RCV_ACK") ELSE c
           e == ProcessAck(b, s, w)
           j == Indicate(c, "CONNECTION_RESET")
           x == Event(j, "RCV_UNEXP_SYN")
           a == SendAck(c)
           y == [a EXCEPT !.dupacks = 0]
           u == Event(e, "RCV_ACK")
           k == ProcessFinAcked(e)
           z == ProcessTextAndFin(k, s, c, w)
           v == ProcessTextAndFin(ProcessFinAcked(c), s, c, w)
           Taken == /\ IsSegmentAcceptable(c, s) /\ "RST" \notin s.flags
                    /\ "SYN" \notin s.flags /\ "ACK" \in s.flags
<1>1. /\ IsTCB(c) /\ IsTCB(d) /\ c.event = "IGNORE" /\ PairInv(c, d, p)
      /\ c.out = {} /\ SendInv(c) /\ SendInvAt(c, c.st)
  BY PairFacts
<1>2. /\ s.ack \in Int /\ c.snd_nxt \in Int /\ c.snd_max \in Int
      /\ c.st = "SYN_RCVD" => c.snd_nxt = c.iss + 1 /\ c.snd_max = c.iss + 1
                              /\ "DELAYED_ACK" \notin c.timers
  <2>1. s.ack \in Int /\ c.snd_nxt \in Int /\ c.snd_max \in Int
    BY <1>1, NumberTypes DEF Segment
  <2>2. c.st = "SYN_RCVD" => c.snd_nxt = c.iss + 1 /\ c.snd_max = c.iss + 1
    BY <1>1 DEF SendInvAt, SynOrdered
  <2>3. c.st = "SYN_RCVD" => "DELAYED_ACK" \notin c.timers
    BY <1>1, StateSets DEF PairInv, FinInvAt
  <2> QED  BY <2>1, <2>2, <2>3
<1>3. \/ r \in {c, a, ProcessRst(c), x, SendRst(c, s.ack)}
      \/ r = y /\ c.st \in DataStates
      \/ /\ r = u /\ c.st = "LAST_ACK" /\ s.ack <= c.snd_max /\ Taken
      \/ /\ r = z /\ s.ack <= c.snd_max /\ Taken
         /\ c.st \in DataStates \cup {"SYN_RCVD"}
         /\ c.st = "SYN_RCVD" => AcksOurSynAck(c, s)
      \/ r = v /\ c.st = "TIME_WAIT" /\ Taken
  <2>1. c.st = "SYN_RCVD" /\ AcksOurSynAck(c, s) => s.ack <= c.snd_max
    BY <1>2 DEF AcksOurSynAck
  <2>2. ~(s.ack > c.snd_max) => s.ack <= c.snd_max
    BY <1>2
  <2>3. "LAST_ACK" \in DataStates
    BY DEF DataStates
  <2>4. "TIME_WAIT" \notin DataStates \cup {"SYN_RCVD"}
    BY StateSets
  <2>5. CASE c.st = "TIME_WAIT"
    BY <2>4, <2>5 DEF ProcessSegment1stThru8th
  <2>6. CASE c.st \in DataStates \cup {"SYN_RCVD"}
    BY <2>1, <2>2, <2>3, <2>4, <2>6 DEF ProcessSegment1stThru8th
  <2> QED  BY <2>5, <2>6
<1> HIDE DEF r

<1>4. Step(c, c, d, p) /\ Step(c, SendRst(c, s.ack), d, p)
  <2>1. Mute(c, c) /\ Mute(c, SendRst(c, s.ack))
    BY <1>1, <1>2, MuteOps, SendRstMute
  <2>2. Keeps(c, SendRst(c, s.ack))
    BY <1>1, <1>2, SendRstOK
  <2>3. SendRst(c, s.ack).event = "IGNORE"
    BY <1>1, <2>2 DEF Keeps
  <2> QED  BY <1>1, <2>1, <2>3, IgnoredStep
<1>5. Step(c, ProcessRst(c), d, p)
  BY ProcessRstStep
<1>6. Step(c, x, d, p)
  <2>1. Mute(c, j)
    BY <1>1, MuteOps DEF Indications
  <2> HIDE DEF j
  <2>2. IsTCB(j) /\ \A t \in j.out : "RST" \in t.flags
    BY <2>1 DEF Mute
  <2>3. Mute(j, x) /\ x.event = "RCV_UNEXP_SYN"
    BY <2>2, MuteOps DEF Events
  <2> HIDE DEF x
  <2>4. Mute(c, x)
    BY <2>1, <2>3, MuteTrans
  <2>5. IsTCB(x) /\ x.st = c.st
    BY <2>4 DEF Mute
  <2>6. NextState(x, x.event) = "CLOSED"
    BY <2>3, <2>5, ResetStates, SendStateFacts
  <2> QED  BY <2>4, <2>6, ClosedStep
<1> HIDE DEF x, j
<1>7. /\ Sends(c, a) /\ Keeps(c, a) /\ IsTCB(a) /\ a.timers \subseteq c.timers
      /\ \A t \in a.out : t.seq = c.snd_nxt /\ t.len = 0 /\ "FIN" \notin t.flags
  <2>1. Sends(c, a) /\ Keeps(c, a)
    BY <1>1, SendAckSends, SendAckOK
  <2>2. /\ a.timers \subseteq c.timers
        /\ \A t \in a.out : t.seq = c.snd_nxt /\ t.len = 0 /\ "FIN" \notin t.flags
    BY <1>1, SendAckOut
  <2> HIDE DEF a
  <2> QED  BY <2>1, <2>2 DEF Keeps
<1> HIDE DEF a
<1>8. Step(c, a, d, p)
  <2>1. NextState(a, a.event) = c.st
    BY <1>1, <1>7, NextStateFacts DEF Keeps
  <2> QED  BY <1>2, <1>7, <2>1, SendsStep
<1>9. c.st \in DataStates => Step(c, y, d, p)
  <2>1. ASSUME c.st \in DataStates PROVE Step(c, y, d, p)
    <3>1. Sends(a, y) /\ Keeps(a, y)
      BY <1>7, SetDupacksSends, SetDupacksOK
    <3> HIDE DEF y
    <3>2. Sends(c, y)
      BY <1>1, <1>7, <3>1, SendsTrans
    <3>3. NextState(y, y.event) = c.st /\ c.st # "SYN_RCVD"
      BY <1>1, <1>7, <2>1, <3>1, NextStateFacts, StateSets DEF Keeps
    <3> QED  BY <2>1, <3>2, <3>3, SendsStep
  <2> QED  BY <2>1
<1> HIDE DEF y
<1>10. ASSUME Taken, s.ack <= c.snd_max, c.st \in DataStates \cup {"SYN_RCVD"},
              c.st = "SYN_RCVD" => AcksOurSynAck(c, s)
       PROVE  /\ c.st = "LAST_ACK" => Step(c, u, d, p)
              /\ Step(c, z, d, p)
  BY <1>10, AckedStep
<1>11. ASSUME Taken, c.st = "TIME_WAIT" PROVE Step(c, v, d, p)
  <2> DEFINE h == ProcessFinAcked(c)
  <2>1. Sends(c, h)
    BY <1>1, ProcessFinAckedSends
  <2> HIDE DEF h
  <2>2. Talks(c, h) /\ SameRcv(c, h) /\ h.snd_una = c.snd_una
    BY <2>1 DEF Sends
  <2>3. Step(c, ProcessTextAndFin(h, s, c, w), d, p)
    BY <1>11, <2>2, TextStep
  <2> QED  BY <2>3 DEF h
<1>12. "LAST_ACK" \in DataStates
  BY DEF DataStates
<1> HIDE DEF u, z, v, k, e, b, Taken
<1>13. Step(c, r, d, p)
  BY <1>3, <1>4, <1>5, <1>6, <1>8, <1>9, <1>10, <1>11, <1>12
<1> QED  BY <1>13 DEF r

LEMMA ProcessRcvSegmentStep ==
    ASSUME NEW c, NEW d, NEW p, NEW q, Pair(c, d, p), IssStep > 1,
           NEW s \in Segment, NEW w \in Int, SegInv(s, d, c, q),
           p \in Closers => q \notin Closers
    PROVE  Step(c, ProcessRcvSegment(c, s, w), d, p)
<1>1. CASE c.st \in {"INIT", "CLOSED"}
  BY <1>1, SegmentArrivalWhileClosedStep DEF ProcessRcvSegment
<1>2. CASE c.st = "LISTEN"
  BY <1>2, ProcessSegmentInListenStep DEF ProcessRcvSegment
<1>3. CASE c.st = "SYN_SENT"
  BY <1>3, ProcessSegmentInSynSentStep DEF ProcessRcvSegment
<1>4. CASE c.st \notin {"INIT", "CLOSED", "LISTEN", "SYN_SENT"}
  <2>1. c.st \in DataStates \cup {"TIME_WAIT", "SYN_RCVD"}
    BY <1>4, PairFacts, StateSets
  <2>2. Step(c, ProcessSegment1stThru8th(c, s, w), d, p)
    BY <2>1, ProcessSegment1stThru8thStep
  <2> QED  BY <1>4, <2>2 DEF ProcessRcvSegment
<1> QED  BY <1>1, <1>2, <1>3, <1>4

-----------------------------------------------------------------------------
(* The steps of the two ends.                                              *)

\* The clock selectInitialSeqNum() reads has moved between two connections, an
\* application in SYN_RCVD does not close, and at most one of the two closes.
Agreeing == IssStep > 1 /\ "SYN_RCVD" \notin CloseStates /\ Closers # Endpoints

LEMMA NextAgrees ==
    Agreeing /\ PeersInv /\ SendingInv /\ AgreeInv /\ [Next]_vars => AgreeInv'
<1> SUFFICES ASSUME Agreeing, PeersInv, SendingInv, AgreeInv, [Next]_vars
             PROVE  AgreeInv'
  OBVIOUS
<1>1. CASE UNCHANGED vars
  BY <1>1 DEF vars, AgreeInv
<1>2. ASSUME NEW p \in Endpoints, Command(p) \/ SegmentArrives(p) \/ Timeout(p)
      PROVE  AgreeInv'
  <2> DEFINE c == tcb[p]
             q == Peer(p)
             d == tcb[q]
  <2>1. q \in Endpoints /\ Endpoints = {p, q} /\ (p \in Closers => q \notin Closers)
    <3>1. q \in Endpoints /\ Endpoints = {p, q}
      BY DEF Peer, Endpoints
    <3>2. Closers \subseteq Endpoints /\ Closers # Endpoints
      BY PeersAssumption DEF Agreeing
    <3> QED  BY <3>1, <3>2
  <2>2. /\ Pair(c, d, p) /\ net[p] \in SUBSET Segment
        /\ \A s \in net[p] : SegInv(s, d, c, q)
    BY <2>1 DEF PeersInv, SendingInv, AgreeInv, Pair, Rests, ConnInv
  <2>3. ASSUME NEW r, Step(c, r, d, p), NEW rest \in SUBSET net[p], Handled(p, r, rest)
        PROVE  AgreeInv'
    BY <2>3, HandledAgrees
  <2>4. net[p] \in SUBSET net[p]
    OBVIOUS
  <2> HIDE DEF c, d, q
  <2>5. CASE OpenActive(p)
    BY <2>2, <2>3, <2>4, <2>5, ProcessOpenActiveStep DEF OpenActive, Agreeing, c
  <2>6. CASE OpenPassive(p)
    BY <2>2, <2>3, <2>4, <2>6, ProcessOpenPassiveStep DEF OpenPassive, c
  <2>7. CASE Send(p)
    <3>1. PICK n \in SendSizes, w \in Cwnds : Handled(p, ProcessSend(c, n, w), net[p])
      BY <2>7 DEF Send, c
    <3>2. /\ n \in Nat /\ w \in Int /\ ~c.appClosed
          /\ \/ c.st \in SynStates /\ c.active
             \/ c.st \in {"ESTABLISHED", "CLOSE_WAIT"}
      BY <2>7, PeersAssumption DEF Send, c
    <3>3. Step(c, ProcessSend(c, n, w), d, p)
      BY <2>2, <3>2, ProcessSendStep
    <3> QED  BY <2>3, <2>4, <3>1, <3>3
  <2>8. CASE Close(p)
    <3>1. p \in Closers /\ ~c.appClosed /\ c.st \notin {"INIT", "SYN_RCVD", "CLOSED"}
      BY <2>8, PeersAssumption DEF Close, Agreeing, c
    <3> QED  BY <2>2, <2>3, <2>4, <2>8, <3>1, ProcessCloseStep DEF Close, c
  <2>9. CASE Abort(p)
    <3>1. c.st # "INIT"
      BY <2>9 DEF Abort, Exists, c
    <3> QED  BY <2>2, <2>3, <2>4, <2>9, <3>1, ProcessAbortStep DEF Abort, c
  <2>10. CASE SegmentArrives(p)
    <3>1. PICK s \in net[p], w \in Cwnds :
             \/ Handled(p, ProcessRcvSegment(c, s, w), net[p] \ {s})
             \/ Handled(p, ProcessRcvSegment(c, s, w), net[p])
      BY <2>10 DEF SegmentArrives, c
    <3>2. s \in Segment /\ w \in Int /\ SegInv(s, d, c, q)
      BY <2>2, PeersAssumption
    <3>3. Step(c, ProcessRcvSegment(c, s, w), d, p)
      BY <2>1, <2>2, <3>2, ProcessRcvSegmentStep DEF Agreeing
    <3>4. net[p] \ {s} \in SUBSET net[p]
      OBVIOUS
    <3> QED  BY <2>3, <2>4, <3>1, <3>3, <3>4
  <2>11. CASE TimeoutConnEstab(p)
    BY <2>2, <2>3, <2>4, <2>11, ProcessTimeoutConnEstabStep DEF TimeoutConnEstab, c
  <2>12. CASE Timeout2MSL(p)
    BY <2>2, <2>3, <2>4, <2>12, ProcessTimeout2MSLStep DEF Timeout2MSL, c
  <2>13. CASE TimeoutSynRexmit(p)
    BY <2>2, <2>3, <2>4, <2>13, ProcessTimeoutSynRexmitStep DEF TimeoutSynRexmit, c
  <2>14. CASE TimeoutRexmit(p)
    BY <2>2, <2>3, <2>4, <2>14, ProcessRexmitTimerStep DEF TimeoutRexmit, c
  <2>15. CASE TimeoutPersist(p)
    BY <2>2, <2>3, <2>4, <2>15, ProcessPersistTimerStep DEF TimeoutPersist, c
  <2>16. CASE TimeoutDelayedAck(p)
    BY <2>2, <2>3, <2>4, <2>16, ProcessDelayedAckTimerStep DEF TimeoutDelayedAck, c
  <2> QED  BY <1>2, <2>5, <2>6, <2>7, <2>8, <2>9, <2>10, <2>11, <2>12, <2>13, <2>14,
              <2>15, <2>16 DEF Command, Timeout
<1> QED  BY <1>1, <1>2 DEF Next

LEMMA SendingInvAlways == Spec => []SendingInv
<1>1. Init => SendingInv
  BY InitSends
<1>2. PeersInv /\ SendingInv /\ [Next]_vars => SendingInv'
  BY NextSends
<1> QED  BY <1>1, <1>2, PeersInvAlways, PTL DEF Spec

\* What the two ends know of each other is what the check states.
LEMMA AgreeInvAgrees == PeersInv /\ SendingInv /\ AgreeInv => EndsAgree
<1> SUFFICES ASSUME PeersInv, AgreeInv, NEW p \in Endpoints, Synchronized(p)
             PROVE  LET c == tcb[p]
                        d == tcb[Peer(p)]
                    IN  /\ c.iss < c.snd_una
                        /\ Synchronized(Peer(p)) =>
                               d.iss < c.rcv_nxt /\ c.rcv_nxt <= d.snd_max
                               /\ d.snd_una <= c.rcv_nxt
  BY DEF EndsAgree
<1> DEFINE q == Peer(p)
           c == tcb[p]
           d == tcb[q]
<1>1. q \in Endpoints /\ Peer(q) = p
  BY DEF Peer, Endpoints
<1>2. /\ IsTCB(c) /\ IsTCB(d) /\ PairInv(c, d, p) /\ PairInv(d, c, q)
      /\ c.st \in DataStates
  BY <1>1 DEF PeersInv, Rests, ConnInv, AgreeInv, Synchronized
<1>3. c.iss < c.snd_una
  BY <1>2 DEF PairInv, AckInvAt
<1>4. ASSUME Synchronized(q)
      PROVE  d.iss < c.rcv_nxt /\ c.rcv_nxt <= d.snd_max /\ d.snd_una <= c.rcv_nxt
  <2>1. d.st \in DataStates
    BY <1>4 DEF Synchronized
  <2>2. d.iss \in Int /\ d.snd_una \in Int /\ c.rcv_nxt \in Int /\ d.snd_max \in Int
    BY <1>2, NumberTypes
  <2>3. d.iss < d.snd_una /\ (d.snd_una # d.iss => Acked(d.snd_una, c, d))
    BY <1>2, <2>1 DEF PairInv, AckInvAt
  <2>4. d.snd_una <= c.rcv_nxt
    BY <1>2, <2>2, <2>3 DEF Acked
  <2>5. c.rcv_nxt <= d.snd_max
    BY <1>2, <2>1, StateSets DEF PairInv, RcvInv, Received, Known
  <2> QED  BY <2>2, <2>3, <2>4, <2>5
<1> QED  BY <1>3, <1>4

\* If the clock moves between two connections, nobody closes in SYN_RCVD and at
\* most one of the two applications closes, then whatever the network loses,
\* duplicates or reorders, whichever timers expire, and however often an end
\* aborts, both ends number the two streams alike: processSegmentInSynSent(),
\* processSegmentInListen() and step five of processSegment1stThru8th() never
\* take an old SYN or ACK for a new one, and snd_una never passes what the
\* other end received.
THEOREM EndsAlwaysAgree == Agreeing /\ Spec => []EndsAgree
<1> DEFINE AgreeingInv == Agreeing /\ AgreeInv
<1>1. Agreeing /\ Init => AgreeingInv
  BY InitAgrees
<1>2. PeersInv /\ SendingInv /\ AgreeingInv /\ [Next]_vars => AgreeingInv'
  <2>1. Agreeing => Agreeing'
    BY DEF Agreeing
  <2> QED  BY <2>1, NextAgrees
<1>3. PeersInv /\ SendingInv /\ AgreeingInv => EndsAgree
  BY AgreeInvAgrees
<1> HIDE DEF AgreeingInv
<1> QED  BY <1>1, <1>2, <1>3, PeersInvAlways, SendingInvAlways, PTL DEF Spec

=============================================================================
