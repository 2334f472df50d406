------------------------------- MODULE TCPSeq -------------------------------
(***************************************************************************)
(* Sequence number arithmetic (tcp_common/TCPSegment.h).  The code keeps   *)
(* sequence numbers in uint32 variables and compares them modulo 2^32;     *)
(* TCPConnection uses the unbounded positions they stand for.  Here both   *)
(* run side by side: a sender's snd_una, snd_nxt and snd_max as the code   *)
(* has them, and the positions una, nxt and max, moved by the same events. *)
(* 2^31 is the parameter Half.                                             *)
(***************************************************************************)
EXTENDS Integers

CONSTANTS Half,     \* 2^31 in the code
          Span,     \* how far two numbers compared may be apart
          MaxPos    \* bound: largest position

ASSUME SeqAssumption == /\ Half \in Nat \ {0}
                        /\ Span \in Nat /\ Span < Half
                        /\ MaxPos \in Nat

-----------------------------------------------------------------------------

Modulus     == 2 * Half
Uint32      == 0 .. Modulus - 1
Wrap(x)     == x % Modulus
Minus(a, b) == Wrap(a - b)

\* The comparison a programmer writes first (a variant with a fault).
BadSeqLess(a, b) == a < b

seqLess(a, b)    == a # b /\ Minus(b, a) < Half
seqLE(a, b)      == Minus(b, a) < Half
seqGreater(a, b) == a # b /\ Minus(a, b) < Half
seqGE(a, b)      == Minus(a, b) < Half

-----------------------------------------------------------------------------

VARIABLES snd_una, snd_nxt, snd_max,    \* the code's variables
          una, nxt, max                 \* the positions they stand for

code      == <<snd_una, snd_nxt, snd_max>>
positions == <<una, nxt, max>>
vars      == <<snd_una, snd_nxt, snd_max, una, nxt, max>>

Init == /\ una \in 0 .. Modulus - 1 /\ nxt = una /\ max = una
        /\ snd_una = una /\ snd_nxt = una /\ snd_max = una

\* sendSegment() and the update of snd_max after it.
SendBytes(n) ==
    /\ nxt + n - una <= Span /\ nxt + n <= MaxPos
    /\ nxt' = nxt + n
    /\ max' = IF nxt' > max THEN nxt' ELSE max
    /\ snd_nxt' = Wrap(snd_nxt + n)
    /\ snd_max' = IF seqGreater(snd_nxt', snd_max) THEN snd_nxt' ELSE snd_max
    /\ UNCHANGED <<snd_una, una>>

\* A retransmission starts again at snd_una.
GoBack ==
    /\ nxt' = una
    /\ snd_nxt' = snd_una
    /\ UNCHANGED <<snd_una, snd_max, una, max>>

\* processAckInEstabEtc() for an acknowledgement number that stands for a: an
\* old one, a new one, or one for data not yet sent.
PositionsAfterAck(a) ==
    IF a > una /\ a <= max
    THEN una' = a /\ nxt' = (IF nxt < a THEN a ELSE nxt) /\ max' = max
    ELSE UNCHANGED positions

CodeAfterAck(ackNo) ==
    IF ~seqGE(snd_una, ackNo) /\ seqLE(ackNo, snd_max)
    THEN /\ snd_una' = ackNo
         /\ snd_nxt' = IF seqLess(snd_nxt, ackNo) THEN ackNo ELSE snd_nxt
         /\ snd_max' = snd_max
    ELSE UNCHANGED code

ProcessAck(a) == PositionsAfterAck(a) /\ CodeAfterAck(Wrap(a))

Next == \/ \E n \in 1 .. Span : SendBytes(n)
        \/ GoBack
        \/ \E a \in una - Span .. una + Span : ProcessAck(a)

Spec == Init /\ [][Next]_vars

-----------------------------------------------------------------------------

\* The variables of the code are the positions modulo 2^32, across wrap-around:
\* its comparisons took every decision as those of the positions would.
CodeFollowsPositions ==
    snd_una = Wrap(una) /\ snd_nxt = Wrap(nxt) /\ snd_max = Wrap(max)

\* The inductive invariant: besides, the positions are in order and span less
\* than half the number space, so that comparisons cannot err.
SeqInv == /\ una \in Int /\ nxt \in Int /\ max \in Int
          /\ una <= nxt /\ nxt <= max /\ max - una <= Span
          /\ CodeFollowsPositions

=============================================================================
