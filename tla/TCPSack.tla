------------------------------- MODULE TCPSack -------------------------------
(***************************************************************************)
(* Selective acknowledgments (transport/tcp): the blocks a receiver        *)
(* reports (addSacks), the sender's scoreboard (TCPSACKRexmitQueue), loss  *)
(* recovery over it (TCPConnectionSackUtil), and TCPReno, the only         *)
(* algorithm that may be used with it.  Data flow one way on an            *)
(* established connection; segments and acknowledgments are lost and       *)
(* reordered.  sackSupport is on, the other header options, delayed        *)
(* acknowledgments and Limited Transmit are off, the advertised window     *)
(* never limits the sender, no pause is long enough to restart the window, *)
(* and the REXMIT timer runs while something is outstanding (TCPPeers,     *)
(* SenderHasTimer).  Positions are unbounded (see TCPSeq).                 *)
(*                                                                         *)
(* The regions of the scoreboard are given by their borders, the bytes in  *)
(* a sacked and those in a rexmitted region: every operation of the queue  *)
(* splits regions at the borders of what it marks.                         *)
(***************************************************************************)
EXTENDS Integers, FiniteSets, SequencesExt

CONSTANTS SackMSS,        \* snd_mss
          InitialCwnd,    \* the initial window, 1 to 4 segments
          SackNagle,      \* the nagleEnabled parameter
          Window,         \* the advertised window, more than is ever in transit
          Writes,         \* bytes the application passes in one SEND
          MaxWritten,     \* bound: bytes written
          MaxTimeouts,    \* bound: retransmission timeouts
          MaxLosses       \* bound: segments and acknowledgments lost

ASSUME SackAssumption ==
    /\ SackMSS \in Nat \ {0} /\ InitialCwnd \in {n * SackMSS : n \in 1 .. 4}
    /\ SackNagle \in BOOLEAN
    /\ Writes \subseteq Nat \ {0} /\ MaxWritten \in Nat
    /\ Window \in Nat /\ Window >= 2 * MaxWritten + SackMSS
    /\ MaxTimeouts \in Nat /\ MaxLosses \in Nat

VARIABLES snd,      \* the sending connection
          rcv,      \* the receiving connection
          data,     \* segments on their way
          acks,     \* acknowledgments on their way
          timeouts, \* number of timeouts (bound)
          losses    \* number of losses (bound)

sackVars == <<snd, rcv, data, acks, timeouts, losses>>

DupThresh == 3

Lesser(m, n)  == IF m < n THEN m ELSE n
Greater(m, n) == IF m < n THEN n ELSE m
Least(S)    == CHOOSE m \in S : \A n \in S : m <= n
Greatest(S) == CHOOSE m \in S : \A n \in S : n <= m

\* end is the end of the send queue, its begin is una.  fault is the ASSERT that
\* failed; out is what the running handler has sent.
SackInit ==
    /\ snd = [una |-> 1, nxt |-> 1, max |-> 1, end |-> 1,
              send_fin |-> FALSE, cwnd |-> InitialCwnd, ssthresh |-> 7500000,
              dupacks |-> 0, afterRto |-> FALSE,
              lossRecovery |-> FALSE, recoveryPoint |-> 0, pipe |-> 0,
              borders |-> {1}, sacked |-> {}, rexmitted |-> {},
              sentBytes |-> 0, fault |-> "none", out |-> {}]
    /\ rcv = [nxt |-> 1, held |-> {}, sacks |-> <<>>, finSeq |-> 0]
    /\ data = {} /\ acks = {}
    /\ timeouts = 0 /\ losses = 0

-----------------------------------------------------------------------------
(* TCPSACKRexmitQueue. *)

Begin(s) == Least(s.borders)
End(s)   == Greatest(s.borders)

\* The first byte of the region that contains p.
RegionBegin(s, p) == Greatest({b \in s.borders : b <= p})

Fails(s, what) == [s EXCEPT !.fault = what]

DiscardUpTo(s, seq) ==
    IF seq \notin Begin(s) .. End(s) THEN Fails(s, "discardUpTo")
    ELSE [s EXCEPT !.borders = {b \in @ : b > seq} \cup {seq},
                   !.sacked = {p \in @ : p >= seq},
                   !.rexmitted = {p \in @ : p >= seq}]

\* Bytes sent before are rexmitted, the others are new.
EnqueueSentData(s, from, to) ==
    IF from \notin Begin(s) .. End(s) \/ from >= to THEN Fails(s, "enqueueSentData")
    ELSE [s EXCEPT !.borders = @ \cup {from, to},
                   !.rexmitted = @ \cup from .. Lesser(to, End(s)) - 1]

\* Marks one region too many.
BadSetSackedBit(s, from, to) ==
    LET first == Greater(from, Begin(s))
    IN  IF first >= End(s) \/ to \notin Begin(s) + 1 .. End(s) \/ first >= to
        THEN Fails(s, "setSackedBit")
        ELSE [s EXCEPT !.borders = @ \cup {first, to},
                       !.sacked = @ \cup first
                                   .. Least({b \in s.borders : b > to} \cup {End(s)}) - 1]

SetSackedBit(s, from, to) ==
    LET first == Greater(from, Begin(s))
    IN  IF first >= End(s) \/ to \notin Begin(s) + 1 .. End(s) \/ first >= to
        THEN Fails(s, "setSackedBit")
        ELSE [s EXCEPT !.borders = @ \cup {first, to},
                       !.sacked = @ \cup first .. to - 1]

HighestSacked(s)    == IF s.sacked = {} THEN Begin(s) ELSE Greatest(s.sacked) + 1
HighestRexmitted(s) == IF s.rexmitted = {} THEN Begin(s) ELSE Greatest(s.rexmitted) + 1

\* The first byte from p on that is neither sacked nor rexmitted.
SkipSackedOrRexmitted(s, p) == Least((p .. End(s)) \ (s.sacked \cup s.rexmitted))

NumOfDiscontiguousSacks(s, from) ==
    Cardinality({p \in s.sacked : p >= from /\ (p = from \/ p - 1 \notin s.sacked)})

-----------------------------------------------------------------------------
(* Sending. *)

BytesAvailable(s, from) == Greater(0, s.end - from)

\* sendSegment(): after a timeout it first passes over what the receiver has, or
\* was sent again, and may find that nothing is left to send.  When nxt is beyond
\* the FIN, createSegmentWithBytes(), or the look-up before it, fails.
SendSegment(s, bytes) ==
    LET from == IF s.afterRto /\ s.nxt <= End(s) THEN SkipSackedOrRexmitted(s, s.nxt)
                ELSE s.nxt
        n    == Lesser(bytes, BytesAvailable(s, from))
        q    == EnqueueSentData(s, from, from + n)
        fin  == s.send_fin /\ from + n = s.end
    IN  IF s.nxt > s.end THEN Fails(s, "createSegmentWithBytes")
        ELSE IF q.fault # "none" THEN q
        ELSE [q EXCEPT !.nxt = from + n + (IF fin THEN 1 ELSE 0),
                       !.sentBytes = n,
                       !.afterRto = @ /\ from + n < s.max,
                       !.out = @ \cup {[seq |-> from, len |-> n, fin |-> fin]}]

\* The loop of sendData() over whole segments; budget is bytesToSend.
RECURSIVE SendWhole(_, _)
SendWhole(s, budget) ==
    IF s.fault # "none" THEN s
    ELSE IF budget >= SackMSS
         THEN LET t == SendSegment(s, SackMSS) IN SendWhole(t, budget - t.sentBytes)
         ELSE IF budget # 0 /\ budget = BytesAvailable(s, s.nxt)
              THEN SendSegment(s, budget)
              ELSE s

SendData(s, fullSegmentsOnly) ==
    LET c      == IF s.afterRto THEN s ELSE [s EXCEPT !.nxt = s.max]
        win    == Lesser(Window, c.cwnd) - (c.nxt - c.una)
        budget == Lesser(win, BytesAvailable(c, c.nxt))
        t      == IF budget > SackMSS THEN SendWhole(c, budget)
                  ELSE LET u == SendSegment(c, budget)
                       IN  SendWhole(u, budget - u.sentBytes)
    IN  IF \/ s.fault # "none" \/ budget <= 0
           \/ fullSegmentsOnly /\ budget < SackMSS
        THEN c
        ELSE [t EXCEPT !.max = Greater(t.nxt, @)]

\* sendFin(), and the FIN counts as sent.
SendFin(s) ==
    [s EXCEPT !.nxt = s.end + 1, !.max = s.end + 1,
              !.out = @ \cup {[seq |-> s.end, len |-> 0, fin |-> TRUE]}]

RetransmitOneSegment(s, atRto) ==
    LET c     == [s EXCEPT !.nxt = s.una]
        bytes == Lesser(Lesser(SackMSS, c.max - c.una), BytesAvailable(c, c.una))
        t     == SendSegment(c, bytes)
    IN  CASE s.fault # "none" -> s
          [] bytes = 0 /\ s.send_fin -> SendFin(c)
          [] bytes = 0 /\ ~s.send_fin -> Fails(s, "retransmitOneSegment")
          [] OTHER -> IF atRto THEN t ELSE [t EXCEPT !.nxt = Greater(s.nxt, @)]

-----------------------------------------------------------------------------
(* Loss recovery (RFC 3517). *)

IsLost(s, p) ==
    \/ NumOfDiscontiguousSacks(s, p) >= DupThresh
    \/ Cardinality({q \in s.sacked : q >= p}) >= DupThresh * SackMSS

\* Each byte of the regions that begin between una and max that is not sacked
\* counts once if its region is not lost and once if it was retransmitted.
\* checkSackBlock() asserts that the walk stays in the queue: it does not when max
\* has counted the FIN.
SetPipe(s) ==
    LET unsacked == {p \in (s.una .. End(s) - 1) \ s.sacked : RegionBegin(s, p) < s.max}
    IN  IF s.fault # "none" THEN s
        ELSE IF s.max > Greater(s.una, End(s)) THEN Fails(s, "checkSackBlock")
        ELSE [s EXCEPT !.pipe =
                 Cardinality({p \in unsacked : ~IsLost(s, RegionBegin(s, p))})
                 + Cardinality({p \in unsacked : RegionBegin(s, p) < HighestRexmitted(s)})]

NoSeg == -1

\* nextSeg(): the hole that follows what was retransmitted, if it is lost; else
\* new data; else that hole all the same.
NextSeg(s) ==
    LET hole   == Least((HighestRexmitted(s) .. End(s)) \ s.sacked)
        isHole == hole < s.max /\ hole < HighestSacked(s)
    IN  CASE isHole /\ IsLost(s, hole) -> hole
          [] ~(isHole /\ IsLost(s, hole)) /\ BytesAvailable(s, s.max) > 0
                /\ Window - s.pipe >= SackMSS -> s.max
          [] OTHER -> IF isHole THEN hole ELSE NoSeg

\* sendSegmentDuringLossRecoveryPhase(): max takes the data in, not the FIN.
SendSegmentDuringLossRecovery(s, seq) ==
    LET t == SendSegment([s EXCEPT !.nxt = seq], SackMSS)
    IN  CASE t.fault # "none" -> t
          [] t.nxt > seq + t.sentBytes + 1 -> Fails(t, "sendSegmentDuringLossRecoveryPhase")
          [] OTHER -> [t EXCEPT !.max = Greater(@, seq + t.sentBytes), !.pipe = @ + t.sentBytes]

RECURSIVE SendDataDuringLossRecovery(_)
SendDataDuringLossRecovery(s) ==
    IF s.fault # "none" \/ s.cwnd - s.pipe < SackMSS \/ NextSeg(s) = NoSeg THEN s
    ELSE SendDataDuringLossRecovery(SendSegmentDuringLossRecovery(s, NextSeg(s)))

-----------------------------------------------------------------------------
(* TCPReno. *)

SlowStartThreshold(s) == Greater(Lesser(s.cwnd, Window) \div 2, 2 * SackMSS)

\* una has advanced.
ReceivedDataAck(s) ==
    LET cwnd == IF s.dupacks >= DupThresh THEN s.ssthresh
                ELSE s.cwnd + (IF s.cwnd < s.ssthresh THEN SackMSS
                               ELSE Greater(1, (SackMSS * SackMSS) \div s.cwnd))
        c    == [s EXCEPT !.cwnd = cwnd]
    IN  SendData(CASE ~s.lossRecovery -> c
                   [] s.lossRecovery /\ s.una >= s.recoveryPoint ->
                          [c EXCEPT !.lossRecovery = FALSE]
                   [] OTHER -> SendDataDuringLossRecovery(SetPipe(c)), FALSE)

ReceivedDuplicateAck(s) ==
    LET enters == s.recoveryPoint = 0 \/ s.una >= s.recoveryPoint
        half   == SlowStartThreshold(s)
        c == [s EXCEPT !.recoveryPoint = IF enters THEN s.max ELSE @,
                       !.lossRecovery = @ \/ enters,
                       !.ssthresh = half, !.cwnd = half + 3 * SackMSS]
        t == SetPipe(RetransmitOneSegment(c, FALSE))
    IN  CASE s.dupacks < DupThresh -> s
          [] s.dupacks = DupThresh ->
                 SendData(IF t.lossRecovery THEN SendDataDuringLossRecovery(t) ELSE t, FALSE)
          [] OTHER -> SendData([s EXCEPT !.cwnd = @ + SackMSS], FALSE)

\* processSACKOption(): what is above the acknowledgment in the same header and
\* above una is marked.
ProcessSACKOption(s, m) ==
    FoldLeft(LAMBDA t, b : IF t.fault = "none" /\ b[2] > m.ack /\ b[2] > s.una
                           THEN SetSackedBit(t, b[1], b[2]) ELSE t,
             s, m.sacks)

ProcessAckNo(s, ack) ==
    CASE s.fault # "none" -> s
      [] s.una = ack /\ s.una # s.max ->
             ReceivedDuplicateAck([s EXCEPT !.dupacks = @ + 1])
      [] ack < s.una \/ (s.una = ack /\ s.una = s.max) -> [s EXCEPT !.dupacks = 0]
      [] s.una < ack /\ ack <= s.max ->
             LET c == [s EXCEPT !.una = ack, !.nxt = Greater(@, ack)]
                 finAcked == s.send_fin /\ ack = s.end + 1
                 d == DiscardUpTo(c, IF finAcked THEN ack - 1 ELSE ack)
             IN  IF d.fault # "none" THEN d
                 ELSE [ReceivedDataAck(d) EXCEPT !.dupacks = 0]
      [] OTHER -> [s EXCEPT !.dupacks = 0]    \* acknowledges something not yet sent

\* TCPBaseAlg::processRexmitTimer() and TCPReno's.  dupacks stays as it is.
ProcessRexmitTimer(s) ==
    RetransmitOneSegment(
        [s EXCEPT !.sacked = {}, !.rexmitted = {}, !.lossRecovery = FALSE,
                  !.recoveryPoint = IF s.lossRecovery THEN s.max ELSE @,
                  !.ssthresh = SlowStartThreshold(s), !.cwnd = SackMSS,
                  !.afterRto = TRUE], TRUE)

-----------------------------------------------------------------------------
(* The receiver. *)

\* The borders of the region of the receive queue that holds a byte.
GetLE(held, p) == IF p \in held THEN Least({q \in held : q .. p \subseteq held}) ELSE p
GetRE(held, e) ==
    IF e - 1 \in held THEN Greatest({q \in held : e - 1 .. q \subseteq held}) + 1 ELSE e

Covers(b, c) == b[1] <= c[1] /\ c[2] <= b[2]

\* Blocks that no earlier block contains.
Undominated(blocks) ==
    FoldLeft(LAMBDA kept, b : IF \E i \in DOMAIN kept : Covers(kept[i], b)
                              THEN kept ELSE Append(kept, b), <<>>, blocks)

MaxBlocks == 4    \* that fit in 40 bytes of options

\* addSacks(): the blocks reported for the segment from .. to-1, which is a
\* duplicate or not, and those remembered after it.
ReportedBlocks(r, from, to, dsack) ==
    LET old == SelectSeq(r.sacks, LAMBDA b : b[2] > r.nxt)
    IN  IF dsack
        THEN <<<<from, IF from < r.nxt /\ r.nxt < to THEN r.nxt ELSE to>>>> \o Undominated(old)
        ELSE Undominated(<<<<GetLE(r.held, from), GetRE(r.held, to)>>>> \o old)

Ack(r, blocks) == [ack |-> r.nxt,
                   sacks |-> SubSeq(blocks, 1, Lesser(Len(blocks), MaxBlocks))]

\* What the receiver becomes and the acknowledgment it sends.
Acknowledge(r, from, to, dsack) ==
    LET blocks == ReportedBlocks(r, from, to, dsack)
    IN  [rcv |-> [r EXCEPT !.sacks = IF dsack THEN Tail(blocks) ELSE blocks],
         sent |-> {Ack(r, blocks)}]
PlainAck(r) == [rcv |-> r, sent |-> {Ack(r, <<>>)}]

\* A segment that is not acceptable.  After the FIN, in CLOSE_WAIT, no blocks are
\* written; a duplicate that ends at rcv_nxt is not reported.
Unacceptable(r, m) ==
    IF m.len > 0 /\ m.seq + m.len < r.nxt /\ r.nxt # r.finSeq + 1
    THEN Acknowledge(r, m.seq, m.seq + m.len, TRUE) ELSE PlainAck(r)

\* An acceptable segment: text, then FIN.
ProcessSegment(r, m) ==
    LET from == Greater(m.seq, r.nxt)    \* truncateSegment()
        to   == m.seq + m.len
        all  == r.held \cup from .. to - 1
        nxt  == GetRE(all, from)
        finSeq == IF m.fin THEN to ELSE r.finSeq
        ordered == from = r.nxt /\ m.len > 0
        next == IF ordered THEN nxt ELSE r.nxt
        c == [r EXCEPT !.held = {p \in all : p >= next}, !.finSeq = finSeq,
                       !.nxt = next + (IF next = finSeq THEN 1 ELSE 0)]
    IN  CASE m.len > 0 /\ ~ordered -> Acknowledge(c, from, to, all = r.held)
          [] c.nxt # r.nxt /\ c.held # {} -> Acknowledge(c, from, to, FALSE)
          [] c.nxt # r.nxt /\ c.held = {} -> PlainAck(c)
          [] OTHER -> [rcv |-> c, sent |-> {}]

Acceptable(r, m) == IF m.len = 0 THEN m.seq >= r.nxt ELSE m.seq + m.len > r.nxt

-----------------------------------------------------------------------------
(* The actions. *)

\* The handler of the sender is over: what it sent is on its way.
Sender(s) == /\ snd' = [s EXCEPT !.out = {}, !.pipe = 0, !.sentBytes = 0]
             /\ data' = data \cup s.out

\* SEND and sendCommandInvoked().
Write(n) ==
    /\ ~snd.send_fin /\ snd.end + n <= MaxWritten + 1
    /\ Sender(SendData([snd EXCEPT !.end = @ + n], SackNagle /\ snd.una # snd.max))
    /\ UNCHANGED <<rcv, acks, timeouts, losses>>

\* CLOSE: the FIN goes out at once or with the last byte.
CloseStream ==
    /\ ~snd.send_fin
    /\ LET c == [snd EXCEPT !.send_fin = TRUE]
       IN  Sender(IF snd.max = snd.end THEN SendFin(c) ELSE c)
    /\ UNCHANGED <<rcv, acks, timeouts, losses>>

AckArrives(m) ==
    /\ acks' = acks \ {m}
    /\ Sender(ProcessAckNo(ProcessSACKOption(snd, m), m.ack))
    /\ UNCHANGED <<rcv, timeouts, losses>>

\* The REXMIT timer expires.
RexmitTimeout ==
    /\ snd.una # snd.max
    /\ timeouts < MaxTimeouts /\ timeouts' = timeouts + 1
    /\ Sender(ProcessRexmitTimer(snd))
    /\ UNCHANGED <<rcv, acks, losses>>

DataArrives(m) ==
    /\ LET r == IF Acceptable(rcv, m) THEN ProcessSegment(rcv, m) ELSE Unacceptable(rcv, m)
       IN  rcv' = r.rcv /\ acks' = acks \cup r.sent
    /\ data' = data \ {m}
    /\ UNCHANGED <<snd, timeouts, losses>>

LoseOne ==
    /\ losses < MaxLosses /\ losses' = losses + 1
    /\ \/ \E m \in data : data' = data \ {m} /\ UNCHANGED acks
       \/ \E m \in acks : acks' = acks \ {m} /\ UNCHANGED data
    /\ UNCHANGED <<snd, rcv, timeouts>>

\* A failed assertion ends the simulation.
SackNext ==
    /\ snd.fault = "none"
    /\ \/ \E n \in Writes : Write(n)
       \/ CloseStream \/ RexmitTimeout \/ LoseOne
       \/ \E m \in data : DataArrives(m)
       \/ \E m \in acks : AckArrives(m)

SackSpec == SackInit /\ [][SackNext]_sackVars

-----------------------------------------------------------------------------
(* Properties. *)

\* What the scoreboard marks as received the receiver has: it holds the byte or
\* has passed it on.
SackedWasReceived == \A p \in snd.sacked : p \in rcv.held \/ p < rcv.nxt

\* The receiver remembers no block that its rcv_nxt cuts in two.
BlocksCurrent ==
    \A i \in DOMAIN rcv.sacks : rcv.sacks[i][2] <= rcv.nxt \/ rcv.sacks[i][1] >= rcv.nxt

\* The assertions that fail: checkSackBlock() while a FIN is outstanding, and
\* those of sendSegment() once a timeout has occurred.
SackFaultsExplained ==
    \/ snd.fault = "none"
    \/ snd.fault = "checkSackBlock" /\ snd.send_fin /\ snd.max = snd.end + 1
    \/ snd.fault \in {"enqueueSentData", "createSegmentWithBytes"} /\ timeouts > 0

\* The scoreboard of the sender (TCPSACKRexmitQueue) tells the truth about the
\* receiver, whatever was lost, reordered or sent twice and however old the
\* blocks are that arrive; the assertions of setSackedBit(), discardUpTo(),
\* addSacks() and sendSegmentDuringLossRecoveryPhase() hold.
ScoreboardTrue == SackedWasReceived /\ BlocksCurrent /\ SackFaultsExplained

=============================================================================
