---------------------------- MODULE TCPSeqProofs ----------------------------
(***************************************************************************)
(* The sequence number comparisons of the code are right for every width   *)
(* of the numbers: numbers less than half the number space apart compare   *)
(* as the positions they stand for, and a sender's variables follow their  *)
(* positions for ever.                                                     *)
(***************************************************************************)
EXTENDS TCPSeq, TLAPS

\* Arithmetic the prover needs pointed out.
LEMMA Distribute ==
    ASSUME NEW M \in Int, NEW j \in Int, NEW k \in Int, NEW a \in Int, NEW b \in Int
    PROVE  (k * M + a) - (j * M + b) = (k - j) * M + (a - b)
OBVIOUS

LEMMA Division ==
    ASSUME NEW M \in Nat, M > 0, NEW x \in Int
    PROVE  /\ x % M \in 0 .. M - 1
           /\ x \div M \in Int
           /\ x = M * (x \div M) + (x % M)
OBVIOUS

\* A multiple of M strictly between -M and M is zero.
LEMMA MultipleIsZero ==
    ASSUME NEW M \in Nat, M > 0, NEW k \in Int, -M < k * M, k * M < M
    PROVE  k = 0
<1>1. CASE k >= 1
  <2>1. k * M >= M
    BY <1>1
  <2> QED  BY <2>1
<1>2. CASE k <= -1
  <2>1. k * M <= -M
    BY <1>2
  <2> QED  BY <2>1
<1> QED  BY <1>1, <1>2

\* Wrap(x) is the only number of Uint32 that differs from x by a multiple of
\* the modulus.
LEMMA WrapUnique ==
    ASSUME NEW x \in Int, NEW k \in Int, NEW r \in Uint32, x = k * Modulus + r
    PROVE  Wrap(x) = r
<1> DEFINE M == 2 * Half
<1>1. M \in Nat /\ M > 0
  BY SeqAssumption
<1>2. /\ x % M \in 0 .. M - 1
      /\ x \div M \in Int
      /\ x = M * (x \div M) + (x % M)
  BY <1>1, Division
<1>3. r \in 0 .. M - 1 /\ x = k * M + r
  BY DEF Uint32, Modulus
<1> HIDE DEF M
<1>4. PICK q \in Int, t \in 0 .. M - 1 : x = M * q + t /\ t = x % M
  BY <1>2
<1>5. (k - q) * M = t - r
  <2>1. (k * M + r) - (q * M + t) = (k - q) * M + (r - t)
    BY <1>1, <1>3, Distribute
  <2>2. q * M = M * q
    BY <1>1
  <2> QED  BY <1>1, <1>3, <1>4, <2>1, <2>2
<1>6. k - q = 0
  <2>1. k - q \in Int /\ -M < t - r /\ t - r < M
    BY <1>1, <1>3
  <2> QED  BY <1>1, <1>5, <2>1, MultipleIsZero
<1>7. x % M = r
  <2>1. (k - q) * M = 0
    BY <1>1, <1>6
  <2>2. t - r = 0
    BY <1>5, <2>1
  <2>3. t = r
    BY <1>1, <1>3, <2>2
  <2> QED  BY <1>4, <2>3
<1> QED  BY <1>7 DEF Wrap, Modulus, M

\* Wrap(x) is a uint32, a multiple of the modulus away from x.
LEMMA WrapDistance ==
    ASSUME NEW x \in Int
    PROVE  /\ Wrap(x) \in Uint32
           /\ \E k \in Int : x = k * Modulus + Wrap(x)
<1> DEFINE M == 2 * Half
<1>1. M \in Nat /\ M > 0
  BY SeqAssumption
<1>2. /\ x % M \in 0 .. M - 1
      /\ x \div M \in Int
      /\ x = M * (x \div M) + (x % M)
  BY <1>1, Division
<1>3. M * (x \div M) = (x \div M) * M
  BY <1>1, <1>2
<1> QED  BY <1>2, <1>3 DEF Wrap, Modulus, Uint32

\* Wrapping an operand first makes no difference.
LEMMA WrapSum ==
    ASSUME NEW x \in Int, NEW n \in Int
    PROVE  Wrap(Wrap(x) + n) = Wrap(x + n)
<1> DEFINE M == Modulus
           u == Wrap(x)
           v == Wrap(x + n)
<1>1. M \in Int /\ Uint32 \subseteq Int
  BY SeqAssumption DEF Modulus, Uint32
<1>2. u \in Int /\ v \in Int /\ v \in Uint32
  <2>1. u \in Uint32 /\ v \in Uint32
    BY WrapDistance
  <2> QED  BY <1>1, <2>1
<1>3. PICK j \in Int : x = j * M + u
  BY WrapDistance
<1>4. PICK k \in Int : x + n = k * M + v
  BY WrapDistance
<1> HIDE DEF M, u, v
<1>5. (k * M + v) - (j * M + u) = (k - j) * M + (v - u)
  BY <1>1, <1>2, Distribute
<1>6. n = (k - j) * M + (v - u)
  BY <1>3, <1>4, <1>5
<1>7. k - j \in Int /\ (k - j) * M \in Int
  BY <1>1
<1>8. u + n = (k - j) * M + v /\ u + n \in Int
  BY <1>2, <1>6, <1>7
<1>9. Wrap(u + n) = v
  BY <1>2, <1>7, <1>8, WrapUnique DEF M
<1> QED  BY <1>9 DEF u, v

\* The difference of two wrapped positions, modulo the modulus.
LEMMA MinusWrapped ==
    ASSUME NEW x \in Int, NEW y \in Int, -Modulus < y - x, y - x < Modulus
    PROVE  Minus(Wrap(y), Wrap(x)) = IF y >= x THEN y - x ELSE y - x + Modulus
<1> DEFINE M == Modulus
           u == Wrap(x)
           v == Wrap(y)
<1>1. M \in Int /\ M > 0 /\ Uint32 = 0 .. M - 1
  BY SeqAssumption DEF Modulus, Uint32
<1>2. u \in Int /\ v \in Int
  <2>1. u \in Uint32 /\ v \in Uint32
    BY WrapDistance
  <2> QED  BY <1>1, <2>1
<1>3. PICK j \in Int : x = j * M + u
  BY WrapDistance
<1>4. PICK k \in Int : y = k * M + v
  BY WrapDistance
<1>10. -M < y - x /\ y - x < M
  OBVIOUS
<1> HIDE DEF M, u, v
<1>5. (k * M + v) - (j * M + u) = (k - j) * M + (v - u)
  BY <1>1, <1>2, Distribute
<1>6. j - k \in Int /\ j - k - 1 \in Int /\ v - u \in Int
  BY <1>2
<1>7. v - u = (j - k) * M + (y - x)
  <2>1. y - x = (k - j) * M + (v - u)
    BY <1>3, <1>4, <1>5
  <2>2. (k - j) * M = -((j - k) * M)
    BY <1>1
  <2> QED  BY <1>1, <1>2, <2>1, <2>2
<1>8. CASE y >= x
  <2>1. y - x \in Uint32
    BY <1>1, <1>10, <1>8
  <2>2. Wrap(v - u) = y - x
    BY <1>6, <1>7, <2>1, WrapUnique DEF M
  <2> QED  BY <1>8, <2>2 DEF Minus, u, v
<1>9. CASE y < x
  <2>1. y - x + M \in Uint32
    BY <1>1, <1>10, <1>9
  <2>2. (j - k - 1) * M = (j - k) * M - M
    BY <1>1
  <2>3. v - u = (j - k - 1) * M + (y - x + M)
    BY <1>1, <1>7, <2>2
  <2>4. Wrap(v - u) = y - x + M
    BY <1>6, <2>1, <2>3, WrapUnique DEF M
  <2> QED  BY <1>9, <2>4 DEF Minus, u, v, M
<1> QED  BY <1>8, <1>9

\* seqLess, seqLE, seqGreater and seqGE compare the positions, as long as these
\* are less than half the number space apart.
THEOREM ComparisonsAgree ==
    ASSUME NEW x \in Int, NEW y \in Int, -Half < y - x, y - x < Half
    PROVE  /\ seqLess(Wrap(x), Wrap(y))    <=> x < y
           /\ seqLE(Wrap(x), Wrap(y))      <=> x <= y
           /\ seqGreater(Wrap(x), Wrap(y)) <=> x > y
           /\ seqGE(Wrap(x), Wrap(y))      <=> x >= y
<1>1. Half \in Nat /\ Half > 0 /\ Modulus = 2 * Half
  BY SeqAssumption DEF Modulus
<1>2. Minus(Wrap(y), Wrap(x)) = IF y >= x THEN y - x ELSE y - x + Modulus
  BY <1>1, MinusWrapped
<1>3. Minus(Wrap(x), Wrap(y)) = IF x >= y THEN x - y ELSE x - y + Modulus
  BY <1>1, MinusWrapped
<1>4. seqLE(Wrap(x), Wrap(y)) <=> x <= y
  BY <1>1, <1>2 DEF seqLE
<1>5. seqGE(Wrap(x), Wrap(y)) <=> x >= y
  BY <1>1, <1>3 DEF seqGE
<1>6. Wrap(x) = Wrap(y) <=> x = y
  <2>1. ASSUME Wrap(x) = Wrap(y) PROVE x = y
    <3>1. Minus(Wrap(y), Wrap(x)) = Minus(Wrap(x), Wrap(y))
      BY <2>1
    <3> QED  BY <1>1, <1>2, <1>3, <3>1
  <2> QED  BY <2>1
<1> QED  BY <1>4, <1>5, <1>6 DEF seqLess, seqLE, seqGreater, seqGE

-----------------------------------------------------------------------------

LEMMA SeqInit == Init => SeqInv
<1> SUFFICES ASSUME Init PROVE SeqInv
  OBVIOUS
<1>1. una \in Uint32 /\ una \in Int
  BY SeqAssumption DEF Init, Uint32, Modulus
<1>2. una = 0 * Modulus + una
  BY <1>1, SeqAssumption DEF Modulus
<1>3. Wrap(una) = una
  BY <1>1, <1>2, WrapUnique
<1> QED  BY <1>1, <1>3, SeqAssumption DEF Init, SeqInv, CodeFollowsPositions

LEMMA SeqSendBytes ==
    ASSUME SeqInv, NEW n \in 1 .. Span, SendBytes(n) PROVE SeqInv'
<1>1. Half \in Nat /\ Span \in Nat /\ Span < Half
  BY SeqAssumption
<1>2. /\ una' = una /\ snd_una' = snd_una /\ nxt' = nxt + n /\ nxt' \in Int
      /\ snd_nxt' = Wrap(snd_nxt + n)
      /\ max' = IF nxt' > max THEN nxt' ELSE max
      /\ snd_max' = IF seqGreater(snd_nxt', snd_max) THEN snd_nxt' ELSE snd_max
      /\ nxt' - una <= Span
  BY DEF SeqInv, SendBytes
<1>3. snd_nxt' = Wrap(nxt')
  BY <1>2, WrapSum DEF SeqInv, CodeFollowsPositions
<1>4. seqGreater(snd_nxt', snd_max) <=> nxt' > max
  BY <1>1, <1>2, <1>3, ComparisonsAgree DEF SeqInv, CodeFollowsPositions
<1> QED  BY <1>1, <1>2, <1>3, <1>4 DEF SeqInv, CodeFollowsPositions

LEMMA SeqGoBack == ASSUME SeqInv, GoBack PROVE SeqInv'
  BY DEF SeqInv, CodeFollowsPositions, GoBack

LEMMA SeqProcessAck ==
    ASSUME SeqInv, NEW a \in una - Span .. una + Span, ProcessAck(a) PROVE SeqInv'
<1>1. Half \in Nat /\ Span \in Nat /\ Span < Half /\ a \in Int
  BY SeqAssumption DEF SeqInv
<1>2. seqGE(snd_una, Wrap(a)) <=> una >= a
  BY <1>1, ComparisonsAgree DEF SeqInv, CodeFollowsPositions
<1>3. CASE una >= a
  BY <1>2, <1>3 DEF SeqInv, CodeFollowsPositions, ProcessAck, PositionsAfterAck,
                    CodeAfterAck, code, positions
<1>4. CASE una < a
  <2>1. seqLE(Wrap(a), snd_max) <=> a <= max
    BY <1>1, <1>4, ComparisonsAgree DEF SeqInv, CodeFollowsPositions
  <2>2. CASE a <= max
    <3>1. seqLess(snd_nxt, Wrap(a)) <=> nxt < a
      BY <1>1, <1>4, <2>2, ComparisonsAgree DEF SeqInv, CodeFollowsPositions
    <3> QED
      BY <1>1, <1>2, <1>4, <2>1, <2>2, <3>1 DEF SeqInv, CodeFollowsPositions,
         ProcessAck, PositionsAfterAck, CodeAfterAck, code, positions
  <2>3. CASE a > max
    BY <1>1, <1>2, <1>4, <2>1, <2>3 DEF SeqInv, CodeFollowsPositions,
       ProcessAck, PositionsAfterAck, CodeAfterAck, code, positions
  <2> QED  BY <1>1, <2>2, <2>3 DEF SeqInv
<1> QED  BY <1>1, <1>3, <1>4 DEF SeqInv

\* The code's 32 bit variables are the positions modulo 2^32 for ever, however
\* often they wrap around.
THEOREM CodeFollowsPositionsAlways == Spec => []CodeFollowsPositions
<1>1. Init => SeqInv
  BY SeqInit
<1>2. SeqInv /\ [Next]_vars => SeqInv'
  <2> SUFFICES ASSUME SeqInv, [Next]_vars PROVE SeqInv'
    OBVIOUS
  <2>1. CASE \E n \in 1 .. Span : SendBytes(n)
    BY <2>1, SeqSendBytes
  <2>2. CASE GoBack
    BY <2>2, SeqGoBack
  <2>3. CASE \E a \in una - Span .. una + Span : ProcessAck(a)
    BY <2>3, SeqProcessAck
  <2>4. CASE UNCHANGED vars
    BY <2>4 DEF SeqInv, CodeFollowsPositions, vars
  <2> QED  BY <2>1, <2>2, <2>3, <2>4 DEF Next
<1>3. SeqInv => CodeFollowsPositions
  BY DEF SeqInv
<1> QED  BY <1>1, <1>2, <1>3, PTL DEF Spec

=============================================================================
