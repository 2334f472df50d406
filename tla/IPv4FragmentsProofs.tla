------------------------- MODULE IPv4FragmentsProofs -------------------------
(***************************************************************************)
(* What reassembly promises, proved for every number of sources and        *)
(* identifications, every MTU and every network that loses, reorders and   *)
(* repeats fragments.                                                      *)
(*                                                                         *)
(* The invariant relates the fragments on the way to the regions of the    *)
(* buffers: the fragments of one datagram are apart, each of them is apart *)
(* from what its buffer has or is in it already, and no region set aside   *)
(* could be taken up by main.                                              *)
(***************************************************************************)
EXTENDS IPv4Fragments, SequenceTheorems, WellFoundedInduction, TLAPS

Region == [beg : Nat, end : Nat, islast : BOOLEAN]

Buffers == [main : Region, fragments : Seq(Region), no : Nat, from : SUBSET Nat,
            age : {"none", "fresh", "stale", "overdue"}]

Datagrams == [src : Sources, id : 0 .. Ids - 1, len : Lengths]

Packets == [no : Nat, id : 0 .. Ids - 1, at : {"router", "dest"}, beg : Nat,
            end : Nat, more : BOOLEAN]

Apart(r, q) == r.end <= q.beg \/ q.end <= r.beg

SameBytes(r, q) == r.beg = q.beg /\ r.end = q.end

\* r is a region of a datagram of n bytes.
PartOf(r, n) == r.end <= n /\ (r.islast <=> r.end = n)

\* b is a buffer of a datagram of n bytes.
Sound(b, n) ==
    /\ b \in Buffers
    /\ b.main.beg = 0 /\ PartOf(b.main, n)
    /\ \A i \in DOMAIN b.fragments :
          PartOf(b.fragments[i], n) /\ b.fragments[i].beg < b.fragments[i].end
    /\ \A i, j \in DOMAIN b.fragments :
          SameBytes(b.fragments[i], b.fragments[j]) \/ Apart(b.fragments[i], b.fragments[j])

\* main does not end in the middle of a region set aside.
NotCut(b) == \A i \in DOMAIN b.fragments :
                b.main.end <= b.fragments[i].beg \/ b.fragments[i].end <= b.main.end

\* What mergeFragments() leaves: a gap between main and what is set aside.
Gaps(b) == \A i \in DOMAIN b.fragments : b.main.end < b.fragments[i].beg

\* The bytes of the packet f are all in one region of b, or in none.  A packet
\* that has not passed the router yet has none of its bytes in b.
Fits(f, b) ==
    /\ b.main.end <= f.beg \/ (f.at = "dest" /\ f.end <= b.main.end)
    /\ \A i \in DOMAIN b.fragments :
          Apart(f, b.fragments[i]) \/ (f.at = "dest" /\ SameBytes(f, b.fragments[i]))

FragTypes ==
    /\ curFragmentId \in [Sources -> 0 .. Ids - 1]
    /\ sent \in Seq(Datagrams)
    /\ transit \subseteq Packets
    /\ bufs \in [FragKeys -> Buffers]

\* A packet on the way is a part of the datagram it belongs to.
PacketOK(f) ==
    /\ f.no \in 1 .. Len(sent)
    /\ f.id = sent[f.no].id
    /\ f.beg < f.end /\ f.end <= sent[f.no].len
    /\ f.more <=> f.end # sent[f.no].len

\* Packets with one key are of one datagram, and apart.
PairOK(f, g) ==
    KeyOf(f) = KeyOf(g) => f.no = g.no /\ (f = g \/ Apart(f, g))

BufferOK(k) ==
    IF bufs[k].age = "none" THEN bufs[k] = NoBuffer
    ELSE /\ bufs[k].no \in 1 .. Len(sent)
         /\ SentAs(bufs[k].no) = k
         /\ bufs[k].from = {bufs[k].no}
         /\ Sound(bufs[k], sent[bufs[k].no].len)
         /\ bufs[k].main.end < sent[bufs[k].no].len
         /\ Gaps(bufs[k])

\* A buffer that may still take a packet is of the packet's datagram.
MeetsOK(f) ==
    bufs[KeyOf(f)].age \in {"fresh", "stale"} =>
       /\ bufs[KeyOf(f)].no = f.no
       /\ Fits(f, bufs[KeyOf(f)])

FragInv ==
    /\ FragTypes
    /\ \A f \in transit : PacketOK(f) /\ MeetsOK(f)
    /\ \A f, g \in transit : PairOK(f, g)
    /\ \A k \in FragKeys : BufferOK(k)
    /\ \A d \in delivered : /\ d.no \in 1 .. Len(sent)
                            /\ d.from = {d.no}
                            /\ d.len = sent[d.no].len

-----------------------------------------------------------------------------
(* Sequences and recursion.                                                 *)

\* A nonempty set of naturals has a least element.
LEMMA LeastOf ==
    ASSUME NEW S, S \subseteq Nat, S # {}
    PROVE  \E a \in S : \A b \in S : a <= b
<1>1. IsWellFoundedOn(OpToRel(<, Nat), Nat)
  BY NatLessThanWellFounded
<1>2. \E a \in S : \A b \in S : ~ (<<b, a>> \in OpToRel(<, Nat))
  BY <1>1, WFMin
<1>3. \A a, b \in Nat : b < a => <<b, a>> \in OpToRel(<, Nat)
  BY DEF OpToRel
<1>4. PICK a \in S : \A b \in S : ~ (<<b, a>> \in OpToRel(<, Nat))
  BY <1>2
<1>5. ASSUME NEW b \in S PROVE a <= b
  <2>1. a \in Nat /\ b \in Nat
    OBVIOUS
  <2>2. ~ (b < a)
    BY <2>1, <1>3, <1>4, Zenon
  <2> QED  BY <2>1, <2>2
<1> QED  BY <1>5

\* RemoveAt() closes the gap.
LEMMA RemoveAtFacts ==
    ASSUME NEW S, NEW s \in Seq(S), NEW j \in DOMAIN s
    PROVE  /\ RemoveAt(s, j) \in Seq(S)
           /\ Len(RemoveAt(s, j)) = Len(s) - 1
           /\ \A i \in 1 .. Len(s) - 1 :
                 RemoveAt(s, j)[i] = s[IF i < j THEN i ELSE i + 1]
<1> DEFINE a == SubSeq(s, 1, j - 1)
           b == SubSeq(s, j + 1, Len(s))
<1>1. Len(s) \in Nat /\ j \in 1 .. Len(s) /\ \A i \in 1 .. Len(s) : s[i] \in S
  BY LenProperties, ElementOfSeq
<1>2. /\ a \in Seq(S) /\ Len(a) = j - 1
      /\ \A i \in 1 .. j - 1 : a[i] = s[i]
  <2>1. 1 \in Int /\ j - 1 \in Int /\ \A i \in 1 .. j - 1 : s[i] \in S
    BY <1>1
  <2>2. /\ SubSeq(s, 1, j - 1) \in Seq(S)
        /\ Len(SubSeq(s, 1, j - 1)) = IF 1 <= j - 1 THEN (j - 1) - 1 + 1 ELSE 0
        /\ \A i \in 1 .. (j - 1) - 1 + 1 : SubSeq(s, 1, j - 1)[i] = s[1 + i - 1]
    BY <2>1, SubSeqProperties
  <2> QED  BY <1>1, <2>2
<1>3. /\ b \in Seq(S) /\ Len(b) = Len(s) - j
      /\ \A i \in 1 .. Len(s) - j : b[i] = s[j + i]
  <2>1. j + 1 \in Int /\ Len(s) \in Int /\ \A i \in j + 1 .. Len(s) : s[i] \in S
    BY <1>1
  <2>2. /\ SubSeq(s, j + 1, Len(s)) \in Seq(S)
        /\ Len(SubSeq(s, j + 1, Len(s))) =
              IF j + 1 <= Len(s) THEN Len(s) - (j + 1) + 1 ELSE 0
        /\ \A i \in 1 .. Len(s) - (j + 1) + 1 :
              SubSeq(s, j + 1, Len(s))[i] = s[(j + 1) + i - 1]
    BY <2>1, SubSeqProperties
  <2> QED  BY <1>1, <2>2
<1> HIDE DEF a, b
<1>4. /\ a \o b \in Seq(S)
      /\ Len(a \o b) = Len(a) + Len(b)
      /\ \A i \in 1 .. Len(a) + Len(b) :
            (a \o b)[i] = IF i <= Len(a) THEN a[i] ELSE b[i - Len(a)]
  BY <1>2, <1>3, ConcatProperties
<1>5. RemoveAt(s, j) = a \o b
  BY DEF RemoveAt, a, b
<1>6. ASSUME NEW i \in 1 .. Len(s) - 1
      PROVE  (a \o b)[i] = s[IF i < j THEN i ELSE i + 1]
  <2>1. CASE i < j
    <3>1. i \in 1 .. Len(a) + Len(b) /\ i <= Len(a) /\ i \in 1 .. j - 1
      BY <1>1, <1>2, <1>3, <2>1
    <3>2. (a \o b)[i] = a[i]
      BY <1>4, <3>1
    <3> QED  BY <1>2, <2>1, <3>1, <3>2
  <2>2. CASE ~ (i < j)
    <3>1. (a \o b)[i] = b[i - (j - 1)]
      <4>1. i \in 1 .. Len(a) + Len(b) /\ ~ (i <= Len(a))
        BY <1>1, <1>2, <1>3, <2>2
      <4>2. (a \o b)[i] = b[i - Len(a)]
        BY <1>4, <4>1
      <4> QED  BY <1>2, <4>2
    <3>2. i - (j - 1) \in 1 .. Len(s) - j
      BY <1>1, <2>2
    <3>3. b[i - (j - 1)] = s[j + (i - (j - 1))]
      BY <1>3, <3>2
    <3>4. j + (i - (j - 1)) = i + 1
      BY <1>1
    <3> QED  BY <2>2, <3>1, <3>3, <3>4
  <2> QED  BY <2>1, <2>2
<1>7. Len(a \o b) = Len(s) - 1
  BY <1>1, <1>2, <1>3, <1>4
<1> QED  BY <1>4, <1>5, <1>6, <1>7

\* The loop of mergeFragments() as a sequence of buffers: the equation its
\* recursive definition promises.
Rounds(buf) ==
    CHOOSE Round : Round = [i \in 0 .. Len(buf.fragments) |->
                               IF i = 0 THEN buf ELSE MergeOne(Round[i - 1])]

LEMMA RoundsDefined ==
    ASSUME NEW buf, Len(buf.fragments) \in Nat
    PROVE  /\ Rounds(buf)[0] = buf
           /\ \A i \in 1 .. Len(buf.fragments) :
                 Rounds(buf)[i] = MergeOne(Rounds(buf)[i - 1])
<1> DEFINE n == Len(buf.fragments)
           Upto(m) == \E g : /\ g[0] = buf
                             /\ \A i \in 1 .. m : g[i] = MergeOne(g[i - 1])
           Bad == {m \in Nat : ~ Upto(m)}
<1>1. Upto(0)
  <2> DEFINE g == [i \in {0} |-> buf]
  <2>1. g[0] = buf /\ \A i \in 1 .. 0 : g[i] = MergeOne(g[i - 1])
    OBVIOUS
  <2> HIDE DEF g
  <2> QED  BY <2>1
<1>2. ASSUME NEW m \in Nat, m # 0, Upto(m - 1) PROVE Upto(m)
  <2>1. PICK g : g[0] = buf /\ \A i \in 1 .. m - 1 : g[i] = MergeOne(g[i - 1])
    BY <1>2
  <2> DEFINE h == [i \in 0 .. m |-> IF i = m THEN MergeOne(g[m - 1]) ELSE g[i]]
  <2>2. h[0] = buf
    BY <1>2, <2>1
  <2>3. ASSUME NEW i \in 1 .. m PROVE h[i] = MergeOne(h[i - 1])
    <3>1. h[i - 1] = g[i - 1]
      BY <1>2
    <3>2. CASE i = m
      BY <3>1, <3>2
    <3>3. CASE i # m
      <4>1. i \in 1 .. m - 1 /\ h[i] = g[i]
        BY <1>2, <3>3
      <4> QED  BY <2>1, <3>1, <4>1
    <3> QED  BY <3>2, <3>3
  <2> HIDE DEF h
  <2> QED  BY <2>2, <2>3
<1>3. Bad = {}
  <2> SUFFICES ASSUME Bad # {} PROVE FALSE
    OBVIOUS
  <2>1. PICK m \in Bad : \A x \in Bad : m <= x
    BY LeastOf
  <2>2. m \in Nat /\ ~ Upto(m)
    OBVIOUS
  <2>3. m # 0
    BY <1>1, <2>2
  <2>4. m - 1 \in Nat /\ ~ (m <= m - 1)
    BY <2>2, <2>3
  <2> HIDE DEF Upto
  <2>5. Upto(m - 1)
    BY <2>1, <2>4
  <2> QED  BY <1>2, <2>2, <2>3, <2>5
<1>4. n \in Nat
  OBVIOUS
<1>5. Upto(n)
  <2> HIDE DEF Upto, n
  <2> QED  BY <1>3, <1>4
<1>6. PICK g : g[0] = buf /\ \A i \in 1 .. n : g[i] = MergeOne(g[i - 1])
  BY <1>5
<1> DEFINE Step(f) == [i \in 0 .. n |-> IF i = 0 THEN buf ELSE MergeOne(f[i - 1])]
           r == [i \in 0 .. n |-> g[i]]
<1>7. ASSUME NEW i \in 0 .. n
      PROVE  r[i] = IF i = 0 THEN buf ELSE MergeOne(r[i - 1])
  <2>1. CASE i = 0
    BY <1>6, <2>1
  <2>2. CASE i # 0
    <3>1. i \in 1 .. n /\ i - 1 \in 0 .. n
      BY <1>4, <2>2
    <3>2. r[i] = g[i] /\ r[i - 1] = g[i - 1]
      BY <3>1
    <3> QED  BY <1>6, <2>2, <3>1, <3>2
  <2> QED  BY <2>1, <2>2
<1>8. r = Step(r)
  BY <1>7
<1>9. Rounds(buf) = Step(Rounds(buf))
  <2>1. \E f : f = Step(f)
    BY <1>8
  <2> HIDE DEF r
  <2> QED  BY <2>1 DEF Rounds
<1> HIDE DEF r
<1>10. Rounds(buf)[0] = buf
  <2>1. Step(Rounds(buf))[0] = buf
    BY <1>4
  <2> QED  BY <1>9, <2>1
<1>11. ASSUME NEW i \in 1 .. n PROVE Rounds(buf)[i] = MergeOne(Rounds(buf)[i - 1])
  <2>1. Step(Rounds(buf))[i] = MergeOne(Rounds(buf)[i - 1])
    BY <1>4
  <2> QED  BY <1>9, <2>1
<1> QED  BY <1>10, <1>11

LEMMA MergeIsLastRound ==
    ASSUME NEW buf PROVE mergeFragments(buf) = Rounds(buf)[Len(buf.fragments)]
BY DEF mergeFragments, Rounds

-----------------------------------------------------------------------------
(* One round of mergeFragments().                                           *)

\* The packets that F stands for.
Whole(F) == F \subseteq Packets /\ \A f \in F : f.beg < f.end

\* What holds of a buffer between two rounds.
Mid(b, n, F) == Sound(b, n) /\ NotCut(b) /\ \A f \in F : Fits(f, b)

\* The byte x has arrived, the last byte has.
Has(b, x) == \/ x \in Bytes(b.main)
             \/ \E i \in DOMAIN b.fragments : x \in Bytes(b.fragments[i])
Knows(b) == b.main.islast \/ \E i \in DOMAIN b.fragments : b.fragments[i].islast

\* c differs from b in its regions only, and has the same bytes.
SameContents(b, c) ==
    /\ c.no = b.no /\ c.from = b.from /\ c.age = b.age
    /\ \A x : Has(b, x) <=> Has(c, x)
    /\ Knows(b) <=> Knows(c)

LEMMA SoundTypes ==
    ASSUME NEW n, NEW b, Sound(b, n)
    PROVE  /\ b.main \in Region /\ b.main.beg \in Nat /\ b.main.end \in Nat
           /\ b.main.islast \in BOOLEAN
           /\ b.fragments \in Seq(Region) /\ DOMAIN b.fragments = 1 .. Len(b.fragments)
           /\ Len(b.fragments) \in Nat
           /\ \A i \in DOMAIN b.fragments :
                 /\ b.fragments[i] \in Region
                 /\ b.fragments[i].beg \in Nat /\ b.fragments[i].end \in Nat
                 /\ b.fragments[i].islast \in BOOLEAN
<1>1. b.main \in Region /\ b.fragments \in Seq(Region)
  BY DEF Sound, Buffers
<1>2. DOMAIN b.fragments = 1 .. Len(b.fragments) /\ Len(b.fragments) \in Nat
  BY <1>1, LenProperties
<1>3. \A i \in DOMAIN b.fragments : b.fragments[i] \in Region
  BY <1>1, <1>2, ElementOfSeq
<1> QED  BY <1>1, <1>2, <1>3 DEF Region

\* main with another region at its end.
LEMMA ExtendFacts ==
    ASSUME NEW n \in Nat, NEW m \in Region, NEW a \in Region,
           m.beg = 0, PartOf(m, n), PartOf(a, n), a.beg < a.end
    PROVE  /\ Extend(m, a) \in Region
           /\ Extend(m, a).beg = 0
           /\ Extend(m, a).end = IF a.beg = m.end THEN a.end ELSE m.end
           /\ PartOf(Extend(m, a), n)
           /\ a.beg # m.end => Extend(m, a) = m
<1> DEFINE e == [m EXCEPT !.end = a.end, !.islast = @ \/ a.islast]
<1>1. /\ m.beg \in Nat /\ m.end \in Nat /\ m.islast \in BOOLEAN
      /\ a.beg \in Nat /\ a.end \in Nat /\ a.islast \in BOOLEAN
  BY DEF Region
<1>2. CASE a.beg = m.end
  <2>1. Extend(m, a) = e
    BY <1>2 DEF Extend
  <2>2. e \in Region /\ e.beg = 0 /\ e.end = a.end /\ (e.islast <=> m.islast \/ a.islast)
    BY <1>1 DEF Region
  <2>3. PartOf(e, n)
    BY <1>1, <1>2, <2>2 DEF PartOf
  <2> HIDE DEF e
  <2> QED  BY <1>2, <2>1, <2>2, <2>3
<1>3. CASE a.beg # m.end
  <2>1. a.end # m.beg
    BY <1>1
  <2>2. Extend(m, a) = m
    BY <1>3, <2>1 DEF Extend
  <2> QED  BY <1>3, <2>2
<1> QED  BY <1>2, <1>3

LEMMA MergeOneStep ==
    ASSUME NEW n \in Nat, NEW F, Whole(F), NEW b, Mid(b, n, F), Hits(b) # {}
    PROVE  /\ Mid(MergeOne(b), n, F)
           /\ Len(MergeOne(b).fragments) = Len(b.fragments) - 1
           /\ SameContents(b, MergeOne(b))
<1> DEFINE j == CHOOSE x \in Hits(b) : \A y \in Hits(b) : x <= y
           a == b.fragments[j]
           m == Extend(b.main, a)
           frs == RemoveAt(b.fragments, j)
           c == [b EXCEPT !.main = m, !.fragments = frs]
           At(i) == IF i < j THEN i ELSE i + 1
<1>1. Sound(b, n) /\ b \in Buffers
  BY DEF Mid, Sound
<1>2. /\ b.main \in Region /\ b.main.beg \in Nat /\ b.main.end \in Nat
      /\ b.main.islast \in BOOLEAN
      /\ b.fragments \in Seq(Region) /\ DOMAIN b.fragments = 1 .. Len(b.fragments)
      /\ Len(b.fragments) \in Nat
      /\ \A i \in DOMAIN b.fragments :
            /\ b.fragments[i] \in Region
            /\ b.fragments[i].beg \in Nat /\ b.fragments[i].end \in Nat
            /\ b.fragments[i].islast \in BOOLEAN
  BY <1>1, SoundTypes
<1>3. j \in Hits(b)
  <2>1. Hits(b) \subseteq Nat
    BY <1>2 DEF Hits
  <2>2. \E x \in Hits(b) : \A y \in Hits(b) : x <= y
    BY <2>1, LeastOf
  <2> QED  BY <2>2
<1>4. MergeOne(b) = c
  BY DEF MergeOne
<1> HIDE DEF j
<1>5. j \in DOMAIN b.fragments /\ (Touches(b.main, a) \/ Within(b.main, a))
  BY <1>3 DEF Hits
<1>6. /\ frs \in Seq(Region) /\ Len(frs) = Len(b.fragments) - 1
      /\ DOMAIN frs = 1 .. Len(b.fragments) - 1
      /\ \A i \in DOMAIN frs : frs[i] = b.fragments[At(i)] /\ At(i) \in DOMAIN b.fragments
  <2>1. /\ frs \in Seq(Region) /\ Len(frs) = Len(b.fragments) - 1
        /\ \A i \in 1 .. Len(b.fragments) - 1 : frs[i] = b.fragments[At(i)]
    BY <1>2, <1>5, RemoveAtFacts
  <2>2. DOMAIN frs = 1 .. Len(b.fragments) - 1
    BY <2>1, LenProperties
  <2>3. \A i \in 1 .. Len(b.fragments) - 1 : At(i) \in DOMAIN b.fragments
    BY <1>2, <1>5
  <2> QED  BY <2>1, <2>2, <2>3
<1>7. \A i \in DOMAIN b.fragments : i # j => \E k \in DOMAIN frs : frs[k] = b.fragments[i]
  <2> SUFFICES ASSUME NEW i \in DOMAIN b.fragments, i # j
               PROVE  \E k \in DOMAIN frs : frs[k] = b.fragments[i]
    OBVIOUS
  <2> DEFINE k == IF i < j THEN i ELSE i - 1
  <2>1. k \in 1 .. Len(b.fragments) - 1 /\ At(k) = i
    BY <1>2, <1>5
  <2> HIDE DEF k
  <2> QED  BY <1>6, <2>1
<1>8. /\ b.main.beg = 0 /\ PartOf(b.main, n)
      /\ \A i \in DOMAIN b.fragments :
            PartOf(b.fragments[i], n) /\ b.fragments[i].beg < b.fragments[i].end
      /\ \A i, k \in DOMAIN b.fragments :
            SameBytes(b.fragments[i], b.fragments[k])
            \/ Apart(b.fragments[i], b.fragments[k])
  BY <1>1 DEF Sound
<1>9. a \in Region /\ a.beg \in Nat /\ a.end \in Nat /\ a.islast \in BOOLEAN
      /\ PartOf(a, n) /\ a.beg < a.end
  BY <1>2, <1>5, <1>8
<1>10. /\ m \in Region /\ m.beg = 0 /\ PartOf(m, n)
       /\ m.end = (IF a.beg = b.main.end THEN a.end ELSE b.main.end)
       /\ a.beg # b.main.end => m = b.main
  BY <1>2, <1>8, <1>9, ExtendFacts
<1>11. m.end \in Nat /\ m.islast \in BOOLEAN
  BY <1>10 DEF Region
<1>12. /\ a.end <= m.end /\ b.main.end <= m.end
       /\ (a.beg = b.main.end /\ m.end = a.end) \/ m = b.main
  BY <1>2, <1>5, <1>8, <1>9, <1>10 DEF Touches, Within
<1> HIDE DEF m, frs, a
<1>13. /\ c \in Buffers /\ c.main = m /\ c.fragments = frs
       /\ c.no = b.no /\ c.from = b.from /\ c.age = b.age
  BY <1>1, <1>6, <1>10 DEF Buffers
<1> HIDE DEF c
<1>14. Sound(c, n)
  BY <1>6, <1>8, <1>10, <1>13 DEF Sound
<1>15. NotCut(c)
  <2> SUFFICES ASSUME NEW i \in DOMAIN b.fragments
               PROVE  m.end <= b.fragments[i].beg \/ b.fragments[i].end <= m.end
    BY <1>6, <1>13 DEF NotCut
  <2>1. b.main.end <= b.fragments[i].beg \/ b.fragments[i].end <= b.main.end
    BY DEF Mid, NotCut
  <2>2. SameBytes(b.fragments[i], a) \/ Apart(b.fragments[i], a)
    BY <1>5, <1>8 DEF a
  <2> QED  BY <1>2, <1>9, <1>11, <1>12, <2>1, <2>2 DEF SameBytes, Apart
<1>16. \A f \in F : Fits(f, c)
  <2> SUFFICES ASSUME NEW f \in F PROVE Fits(f, c)
    OBVIOUS
  <2>1. f.beg \in Nat /\ f.end \in Nat /\ f.beg < f.end
    BY DEF Whole, Packets
  <2>2. Fits(f, b)
    BY DEF Mid
  <2>3. Apart(f, a) \/ (f.at = "dest" /\ SameBytes(f, a))
    BY <1>5, <2>2 DEF Fits, a
  <2>4. b.main.end <= f.beg \/ (f.at = "dest" /\ f.end <= b.main.end)
    BY <2>2 DEF Fits
  <2>5. m.end <= f.beg \/ (f.at = "dest" /\ f.end <= m.end)
    BY <1>2, <1>9, <1>11, <1>12, <2>1, <2>3, <2>4 DEF Apart, SameBytes
  <2>6. \A i \in DOMAIN frs : Apart(f, frs[i]) \/ (f.at = "dest" /\ SameBytes(f, frs[i]))
    BY <1>6, <2>2 DEF Fits
  <2> QED  BY <1>13, <2>5, <2>6 DEF Fits
<1>17. ASSUME NEW x PROVE Has(b, x) <=> Has(c, x)
  <2>1. x \in Bytes(m) <=> x \in Bytes(b.main) \/ x \in Bytes(a)
    BY <1>2, <1>5, <1>8, <1>9, <1>10, <1>11, <1>12 DEF Bytes, Touches, Within
  <2>2. ASSUME Has(b, x) PROVE Has(c, x)
    <3>1. CASE x \in Bytes(b.main)
      BY <1>13, <2>1, <3>1 DEF Has
    <3>2. CASE \E i \in DOMAIN b.fragments : x \in Bytes(b.fragments[i])
      <4>1. PICK i \in DOMAIN b.fragments : x \in Bytes(b.fragments[i])
        BY <3>2
      <4>2. CASE i = j
        BY <1>13, <2>1, <4>1, <4>2 DEF Has, a
      <4>3. CASE i # j
        <5>1. PICK k \in DOMAIN frs : frs[k] = b.fragments[i]
          BY <1>7, <4>3
        <5> QED  BY <1>13, <4>1, <5>1 DEF Has
      <4> QED  BY <4>2, <4>3
    <3> QED  BY <2>2, <3>1, <3>2 DEF Has
  <2>3. ASSUME Has(c, x) PROVE Has(b, x)
    <3>1. CASE x \in Bytes(m)
      BY <1>5, <2>1, <3>1 DEF Has, a
    <3>2. CASE \E i \in DOMAIN frs : x \in Bytes(frs[i])
      BY <1>6, <3>2 DEF Has
    <3> QED  BY <1>13, <2>3, <3>1, <3>2 DEF Has
  <2> QED  BY <2>2, <2>3
<1>18. Knows(b) <=> Knows(c)
  <2>1. m.islast <=> b.main.islast \/ a.islast
    BY <1>2, <1>8, <1>9, <1>10, <1>11, <1>12 DEF PartOf
  <2>2. ASSUME Knows(b) PROVE Knows(c)
    <3>1. CASE b.main.islast
      BY <1>13, <2>1, <3>1 DEF Knows
    <3>2. CASE \E i \in DOMAIN b.fragments : b.fragments[i].islast
      <4>1. PICK i \in DOMAIN b.fragments : b.fragments[i].islast
        BY <3>2
      <4>2. CASE i = j
        BY <1>13, <2>1, <4>1, <4>2 DEF Knows, a
      <4>3. CASE i # j
        <5>1. PICK k \in DOMAIN frs : frs[k] = b.fragments[i]
          BY <1>7, <4>3
        <5> QED  BY <1>13, <4>1, <5>1 DEF Knows
      <4> QED  BY <4>2, <4>3
    <3> QED  BY <2>2, <3>1, <3>2 DEF Knows
  <2>3. ASSUME Knows(c) PROVE Knows(b)
    <3>1. CASE m.islast
      BY <1>5, <2>1, <3>1 DEF Knows, a
    <3>2. CASE \E i \in DOMAIN frs : frs[i].islast
      BY <1>6, <3>2 DEF Knows
    <3> QED  BY <1>13, <2>3, <3>1, <3>2 DEF Knows
  <2> QED  BY <2>2, <2>3
<1> QED  BY <1>4, <1>6, <1>13, <1>14, <1>15, <1>16, <1>17, <1>18 DEF Mid, SameContents

-----------------------------------------------------------------------------
(* merge() and mergeFragments().                                            *)

\* Induction, for a set.
LEMMA Induction ==
    ASSUME NEW S, 0 \in S, \A m \in Nat : m \in S => m + 1 \in S
    PROVE  Nat \subseteq S
<1> DEFINE Bad == Nat \ S
<1> SUFFICES ASSUME Bad # {} PROVE FALSE
  OBVIOUS
<1>1. PICK m \in Bad : \A x \in Bad : m <= x
  BY LeastOf
<1>2. m \in Nat /\ m \notin S /\ m # 0
  OBVIOUS
<1>3. m - 1 \in Nat /\ ~ (m <= m - 1) /\ (m - 1) + 1 = m
  BY <1>2
<1>4. m - 1 \in S
  BY <1>1, <1>3
<1> QED  BY <1>2, <1>3, <1>4

LEMMA SameContentsTrans ==
    ASSUME NEW a, NEW b, NEW c, SameContents(a, b), SameContents(b, c)
    PROVE  SameContents(a, c)
BY DEF SameContents

\* All rounds: nothing is left that main could take up.
LEMMA MergeFragmentsFacts ==
    ASSUME NEW n \in Nat, NEW F, Whole(F), NEW b, Mid(b, n, F)
    PROVE  /\ Mid(mergeFragments(b), n, F)
           /\ SameContents(b, mergeFragments(b))
           /\ Gaps(mergeFragments(b))
<1> DEFINE R == Rounds(b)
           N == Len(b.fragments)
           Good(c, i) == /\ Mid(c, n, F) /\ SameContents(b, c)
                         /\ Len(c.fragments) <= N - i \/ Hits(c) = {}
           S == {i \in Nat : i <= N => Good(R[i], i)}
<1>1. N \in Nat
  BY SoundTypes DEF Mid
<1>2. R[0] = b /\ \A i \in 1 .. N : R[i] = MergeOne(R[i - 1])
  BY <1>1, RoundsDefined
<1>3. Good(R[0], 0)
  <2>1. SameContents(b, b)
    BY DEF SameContents
  <2> QED  BY <1>1, <1>2, <2>1
<1>4. ASSUME NEW i \in Nat, i + 1 <= N, Good(R[i], i) PROVE Good(R[i + 1], i + 1)
  <2>1. R[i + 1] = MergeOne(R[i])
    <3>1. i + 1 \in 1 .. N /\ (i + 1) - 1 = i
      BY <1>1, <1>4
    <3> QED  BY <1>2, <3>1
  <2>2. CASE Hits(R[i]) = {}
    <3>1. MergeOne(R[i]) = R[i]
      BY <2>2 DEF MergeOne
    <3> QED  BY <1>4, <2>1, <2>2, <3>1
  <2>3. CASE Hits(R[i]) # {}
    <3>1. /\ Mid(MergeOne(R[i]), n, F)
          /\ Len(MergeOne(R[i]).fragments) = Len(R[i].fragments) - 1
          /\ SameContents(R[i], MergeOne(R[i]))
      BY <1>4, <2>3, MergeOneStep
    <3>2. SameContents(b, MergeOne(R[i]))
      BY <1>4, <3>1, SameContentsTrans
    <3>3. Len(R[i].fragments) \in Nat
      BY <1>4, SoundTypes DEF Mid
    <3>4. Len(R[i].fragments) - 1 <= N - (i + 1)
      BY <1>1, <1>4, <2>3, <3>3
    <3> QED  BY <2>1, <3>1, <3>2, <3>4
  <2> QED  BY <2>2, <2>3
<1> HIDE DEF Good, R
<1>5. Nat \subseteq S
  <2>1. 0 \in S
    BY <1>3
  <2>2. ASSUME NEW m \in Nat, m \in S PROVE m + 1 \in S
    BY <1>1, <1>4, <2>2
  <2> HIDE DEF S
  <2> QED  BY <2>1, <2>2, Induction
<1>6. Good(R[N], N)
  <2>1. N \in S /\ N <= N
    BY <1>1, <1>5
  <2> QED  BY <2>1
<1> DEFINE c == R[N]
<1>7. mergeFragments(b) = c
  BY MergeIsLastRound DEF R
<1> HIDE DEF c, N
<1>8. Mid(c, n, F) /\ SameContents(b, c) /\ (Len(c.fragments) <= N - N \/ Hits(c) = {})
  BY <1>6 DEF Good, c
<1>9. /\ c.main.beg = 0 /\ c.main.end \in Nat
      /\ DOMAIN c.fragments = 1 .. Len(c.fragments) /\ Len(c.fragments) \in Nat
      /\ \A i \in DOMAIN c.fragments :
            c.fragments[i].beg \in Nat /\ c.fragments[i].end \in Nat
  BY <1>8, SoundTypes DEF Mid, Sound
<1>10. Hits(c) = {}
  <2>1. CASE Len(c.fragments) <= N - N
    <3>1. DOMAIN c.fragments = {}
      BY <1>1, <1>9, <2>1 DEF N
    <3> QED  BY <3>1 DEF Hits
  <2> QED  BY <1>8, <2>1
<1>11. Gaps(c)
  <2> SUFFICES ASSUME NEW i \in DOMAIN c.fragments PROVE c.main.end < c.fragments[i].beg
    BY DEF Gaps
  <2>1. ~ Touches(c.main, c.fragments[i]) /\ ~ Within(c.main, c.fragments[i])
    BY <1>10 DEF Hits
  <2>2. c.main.end <= c.fragments[i].beg \/ c.fragments[i].end <= c.main.end
    BY <1>8 DEF Mid, NotCut
  <2> QED  BY <1>9, <2>1, <2>2 DEF Touches, Within
<1> QED  BY <1>7, <1>8, <1>11

\* A region of the datagram that fits is merged: the bytes of the buffer are
\* those it had and the region's.
LEMMA MergeFacts ==
    ASSUME NEW n \in Nat, NEW F, Whole(F), NEW b, Sound(b, n), Gaps(b),
           NEW r \in Region, PartOf(r, n), r.beg < r.end,
           NEW p \in F, SameBytes(p, r),
           \A f \in F : Fits(f, b) /\ (Apart(f, r) \/ (f.at = "dest" /\ SameBytes(f, r)))
    PROVE  /\ Mid(merge(b, r), n, F) /\ Gaps(merge(b, r))
           /\ merge(b, r).no = b.no /\ merge(b, r).from = b.from
           /\ \A x : Has(merge(b, r), x) <=> Has(b, x) \/ x \in Bytes(r)
           /\ Knows(merge(b, r)) <=> Knows(b) \/ r.islast
<1>1. /\ b.main \in Region /\ b.main.beg \in Nat /\ b.main.end \in Nat
      /\ b.main.islast \in BOOLEAN
      /\ b.fragments \in Seq(Region) /\ DOMAIN b.fragments = 1 .. Len(b.fragments)
      /\ Len(b.fragments) \in Nat
      /\ \A i \in DOMAIN b.fragments :
            /\ b.fragments[i] \in Region
            /\ b.fragments[i].beg \in Nat /\ b.fragments[i].end \in Nat
            /\ b.fragments[i].islast \in BOOLEAN
  BY SoundTypes
<1>2. /\ b \in Buffers /\ b.main.beg = 0 /\ PartOf(b.main, n)
      /\ \A i \in DOMAIN b.fragments :
            PartOf(b.fragments[i], n) /\ b.fragments[i].beg < b.fragments[i].end
      /\ \A i, k \in DOMAIN b.fragments :
            SameBytes(b.fragments[i], b.fragments[k])
            \/ Apart(b.fragments[i], b.fragments[k])
  BY DEF Sound
<1>3. r.beg \in Nat /\ r.end \in Nat /\ r.islast \in BOOLEAN
  BY DEF Region
<1>4. \A f \in F : f.beg \in Nat /\ f.end \in Nat /\ f.beg < f.end
  BY DEF Whole, Packets
<1>5. \A i \in DOMAIN b.fragments : Apart(r, b.fragments[i]) \/ SameBytes(r, b.fragments[i])
  BY DEF Fits, Apart, SameBytes
<1>6. b.main.end <= r.beg \/ r.end <= b.main.end
  BY DEF Fits, SameBytes
<1>7. CASE Touches(b.main, r)
  <2> DEFINE m == Extend(b.main, r)
             e == [b EXCEPT !.main = Extend(@, r)]
  <2>1. r.beg = b.main.end
    BY <1>1, <1>2, <1>3, <1>7 DEF Touches
  <2>2. m \in Region /\ m.beg = 0 /\ PartOf(m, n) /\ m.end = r.end
    BY <1>1, <1>2, <2>1, ExtendFacts
  <2>3. m.end \in Nat /\ m.islast \in BOOLEAN
    BY <2>2 DEF Region
  <2>4. m.islast <=> b.main.islast \/ r.islast
    BY <1>1, <1>2, <1>3, <2>1, <2>2, <2>3 DEF PartOf
  <2> HIDE DEF m
  <2>5. /\ e \in Buffers /\ e.main = m /\ e.fragments = b.fragments
        /\ e.no = b.no /\ e.from = b.from /\ e.age = b.age
    BY <1>2, <2>2 DEF Buffers, m
  <2> HIDE DEF e
  <2>6. Sound(e, n)
    BY <1>2, <2>2, <2>5 DEF Sound
  <2>7. NotCut(e)
    <3> SUFFICES ASSUME NEW i \in DOMAIN b.fragments PROVE m.end <= b.fragments[i].beg
      BY <2>5 DEF NotCut
    <3>1. b.main.end < b.fragments[i].beg
      BY DEF Gaps
    <3> QED  BY <1>1, <1>2, <1>3, <1>5, <2>1, <2>2, <3>1 DEF Apart, SameBytes
  <2>8. ASSUME NEW f \in F PROVE Fits(f, e)
    <3>1. m.end <= f.beg \/ (f.at = "dest" /\ f.end <= m.end)
      BY <1>1, <1>3, <1>4, <2>1, <2>2, <2>3 DEF Fits, Apart, SameBytes
    <3> QED  BY <2>5, <3>1 DEF Fits
  <2>9. Mid(e, n, F)
    BY <2>6, <2>7, <2>8 DEF Mid
  <2>10. /\ Mid(mergeFragments(e), n, F) /\ SameContents(e, mergeFragments(e))
         /\ Gaps(mergeFragments(e))
    BY <2>9, MergeFragmentsFacts
  <2>11. merge(b, r) = mergeFragments(e)
    BY <1>7 DEF merge, e
  <2>12. ASSUME NEW x PROVE Has(e, x) <=> Has(b, x) \/ x \in Bytes(r)
    <3>1. x \in Bytes(m) <=> x \in Bytes(b.main) \/ x \in Bytes(r)
      BY <1>1, <1>2, <1>3, <2>1, <2>2 DEF Bytes
    <3> QED  BY <2>5, <3>1 DEF Has
  <2>13. Knows(e) <=> Knows(b) \/ r.islast
    BY <2>4, <2>5 DEF Knows
  <2> QED  BY <2>5, <2>10, <2>11, <2>12, <2>13 DEF SameContents
<1>8. CASE ~ Touches(b.main, r) /\ (b.main.end < r.beg \/ b.main.beg > r.end)
  <2>1. b.main.end < r.beg
    BY <1>1, <1>2, <1>3, <1>8
  <2> DEFINE s == Append(b.fragments, r)
             e == [b EXCEPT !.fragments = Append(@, r)]
  <2>2. /\ s \in Seq(Region) /\ Len(s) = Len(b.fragments) + 1
        /\ \A i \in 1 .. Len(b.fragments) : s[i] = b.fragments[i]
        /\ s[Len(b.fragments) + 1] = r
    BY <1>1, AppendProperties
  <2>3. DOMAIN s = 1 .. Len(b.fragments) + 1
    BY <2>2, LenProperties
  <2>4. \A i \in DOMAIN s : (i \in DOMAIN b.fragments /\ s[i] = b.fragments[i]) \/ s[i] = r
    BY <1>1, <2>2, <2>3
  <2>5. /\ \A i \in DOMAIN b.fragments : i \in DOMAIN s /\ s[i] = b.fragments[i]
        /\ \E i \in DOMAIN s : s[i] = r
    BY <1>1, <2>2, <2>3
  <2> HIDE DEF s
  <2>6. /\ e \in Buffers /\ e.main = b.main /\ e.fragments = s
        /\ e.no = b.no /\ e.from = b.from
    BY <1>2, <2>2 DEF Buffers, s
  <2> HIDE DEF e
  <2>7. merge(b, r) = e
    BY <1>8 DEF merge, e
  <2>8. Sound(e, n)
    <3>1. \A i \in DOMAIN s : PartOf(s[i], n) /\ s[i].beg < s[i].end
      BY <1>2, <2>4
    <3>2. ASSUME NEW i \in DOMAIN s, NEW k \in DOMAIN s
          PROVE  SameBytes(s[i], s[k]) \/ Apart(s[i], s[k])
      BY <1>2, <1>5, <2>4 DEF SameBytes, Apart
    <3> QED  BY <1>2, <2>6, <3>1, <3>2 DEF Sound
  <2>9. Gaps(e) /\ NotCut(e)
    <3>1. \A i \in DOMAIN s : b.main.end < s[i].beg /\ s[i].beg \in Nat
      BY <1>1, <1>3, <2>1, <2>4 DEF Gaps
    <3> QED  BY <1>1, <2>6, <3>1 DEF Gaps, NotCut
  <2>10. ASSUME NEW f \in F PROVE Fits(f, e)
    BY <2>4, <2>6 DEF Fits
  <2>11. ASSUME NEW x PROVE Has(e, x) <=> Has(b, x) \/ x \in Bytes(r)
    BY <2>4, <2>5, <2>6 DEF Has
  <2>12. Knows(e) <=> Knows(b) \/ r.islast
    BY <2>4, <2>5, <2>6 DEF Knows
  <2> QED  BY <2>6, <2>7, <2>8, <2>9, <2>10, <2>11, <2>12 DEF Mid
<1>9. CASE ~ Touches(b.main, r) /\ ~ (b.main.end < r.beg \/ b.main.beg > r.end)
  <2>1. merge(b, r) = b
    BY <1>9 DEF merge
  <2>2. r.beg < b.main.end /\ r.end <= b.main.end
    BY <1>1, <1>2, <1>3, <1>6, <1>9 DEF Touches
  <2>3. NotCut(b)
    BY <1>1 DEF Gaps, NotCut
  <2>4. ASSUME NEW x, x \in Bytes(r) PROVE Has(b, x)
    <3>1. x \in Bytes(b.main)
      BY <1>1, <1>2, <1>3, <2>2, <2>4 DEF Bytes
    <3> QED  BY <3>1 DEF Has
  <2>5. r.islast => Knows(b)
    BY <1>1, <1>2, <1>3, <2>2 DEF PartOf, Knows
  <2> QED  BY <2>1, <2>3, <2>4, <2>5 DEF Mid
<1> QED  BY <1>7, <1>8, <1>9

-----------------------------------------------------------------------------
(* fragmentAndSend().                                                       *)

\* Multiples of n differ by n at least.
LEMMA MultiplesApart ==
    ASSUME NEW n \in Nat, n > 0, NEW x \in Nat, NEW y \in Nat,
           x % n = 0, y % n = 0, x < y
    PROVE  x + n <= y
<1> DEFINE q == x \div n
           s == y \div n
<1>1. q \in Int /\ x = n * q
  OBVIOUS
<1>2. s \in Int /\ y = n * s
  OBVIOUS
<1> HIDE DEF q, s
<1>3. q < s
  <2> SUFFICES ASSUME s <= q PROVE FALSE
    BY <1>1, <1>2
  <2>1. n * s <= n * q
    BY <1>1, <1>2
  <2> QED  BY <1>1, <1>2, <2>1
<1>4. q + 1 <= s
  BY <1>1, <1>2, <1>3
<1>5. n * (q + 1) <= n * s
  BY <1>1, <1>2, <1>4
<1>6. n * (q + 1) = n * q + n
  BY <1>1
<1> QED  BY <1>1, <1>2, <1>5, <1>6

LEMMA PieceSize ==
    ASSUME NEW mtu \in Nat, mtu >= Unit
    PROVE  (mtu \div Unit) * Unit \in Nat /\ (mtu \div Unit) * Unit > 0
<1>1. Unit \in Nat /\ Unit > 0
  BY FragAssumption
<1> DEFINE q == mtu \div Unit
<1>2. q \in Nat /\ q >= 1
  BY <1>1
<1> HIDE DEF q
<1>3. q * Unit \in Nat /\ q * Unit >= 1 * Unit
  BY <1>1, <1>2
<1> QED  BY <1>1, <1>3 DEF q

\* The pieces of a packet are parts of it and apart, and only the one at its end
\* may be the datagram's last.
LEMMA CutFacts ==
    ASSUME NEW beg \in Nat, NEW end \in Nat, beg < end, NEW more \in BOOLEAN,
           NEW mtu \in Nat, mtu >= Unit
    PROVE  /\ \A p \in Cut(beg, end, more, mtu) :
                 /\ p.beg \in Nat /\ p.end \in Nat /\ p.more \in BOOLEAN
                 /\ beg <= p.beg /\ p.beg < p.end /\ p.end <= end
                 /\ p.more <=> more \/ p.end # end
           /\ \A p, q \in Cut(beg, end, more, mtu) : p = q \/ Apart(p, q)
<1> DEFINE n == (mtu \div Unit) * Unit
           piece(b) == [beg |-> b, end |-> IF b + n >= end THEN end ELSE b + n,
                        more |-> more \/ b + n < end]
           at == {x \in beg .. end - 1 : (x - beg) % n = 0}
<1>1. n \in Nat /\ n > 0
  BY PieceSize
<1>2. CASE end - beg <= mtu
  <2>1. Cut(beg, end, more, mtu) = {[beg |-> beg, end |-> end, more |-> more]}
    BY <1>2 DEF Cut
  <2> QED  BY <2>1
<1>3. CASE ~ (end - beg <= mtu)
  <2>1. Cut(beg, end, more, mtu) = {piece(b) : b \in at}
    BY <1>3 DEF Cut
  <2> HIDE DEF n
  <2>2. ASSUME NEW b \in at
        PROVE  /\ piece(b).beg \in Nat /\ piece(b).end \in Nat
               /\ piece(b).more \in BOOLEAN
               /\ beg <= piece(b).beg /\ piece(b).beg < piece(b).end
               /\ piece(b).end <= end
               /\ piece(b).more <=> more \/ piece(b).end # end
    <3> DEFINE e == IF b + n >= end THEN end ELSE b + n
               m == more \/ b + n < end
    <3>1. b \in Nat /\ beg <= b /\ b < end
      OBVIOUS
    <3>2. e \in Nat /\ b < e /\ e <= end /\ (e # end <=> b + n < end)
      BY <1>1, <3>1
    <3>3. m \in BOOLEAN /\ (m <=> more \/ e # end)
      BY <3>2
    <3>4. piece(b).beg = b /\ piece(b).end = e /\ piece(b).more = m
      OBVIOUS
    <3> HIDE DEF e, m, piece
    <3> QED  BY <3>1, <3>2, <3>3, <3>4
  <2>3. ASSUME NEW b \in at, NEW c \in at, b < c PROVE Apart(piece(b), piece(c))
    <3>1. /\ b - beg \in Nat /\ c - beg \in Nat /\ b - beg < c - beg
          /\ (b - beg) % n = 0 /\ (c - beg) % n = 0
      BY <2>3
    <3>2. (b - beg) + n <= c - beg
      BY <1>1, <3>1, MultiplesApart
    <3>3. b \in Nat /\ c \in Nat /\ b + n <= c /\ c < end
      BY <1>1, <3>2
    <3> QED  BY <1>1, <3>3 DEF Apart
  <2>4. ASSUME NEW b \in at, NEW c \in at
        PROVE  piece(b) = piece(c) \/ Apart(piece(b), piece(c))
    <3>1. b \in Nat /\ c \in Nat
      OBVIOUS
    <3>2. CASE b = c
      BY <3>2
    <3>3. CASE b < c
      BY <2>3, <3>3
    <3>4. CASE c < b
      BY <2>3, <3>4 DEF Apart
    <3> QED  BY <3>1, <3>2, <3>3, <3>4
  <2> HIDE DEF piece, at
  <2> QED  BY <2>1, <2>2, <2>4
<1> QED  BY <1>2, <1>3

\* The same for the packets that carry the pieces.
LEMMA FragmentsFacts ==
    ASSUME NEW no \in Nat, NEW id \in 0 .. Ids - 1, NEW at \in {"router", "dest"},
           NEW beg \in Nat, NEW end \in Nat, beg < end, NEW more \in BOOLEAN,
           NEW mtu \in Nat, mtu >= Unit,
           NEW G, G = Fragments(no, id, at, Cut(beg, end, more, mtu))
    PROVE  /\ \A g \in G : /\ g \in Packets /\ g.no = no /\ g.id = id /\ g.at = at
                           /\ beg <= g.beg /\ g.beg < g.end /\ g.end <= end
                           /\ g.more <=> more \/ g.end # end
           /\ \A g, h \in G : g = h \/ Apart(g, h)
<1> DEFINE C == Cut(beg, end, more, mtu)
           packet(p) == [no |-> no, id |-> id, at |-> at, beg |-> p.beg, end |-> p.end,
                         more |-> p.more]
<1>1. /\ \A p \in C : /\ p.beg \in Nat /\ p.end \in Nat /\ p.more \in BOOLEAN
                      /\ beg <= p.beg /\ p.beg < p.end /\ p.end <= end
                      /\ p.more <=> more \/ p.end # end
      /\ \A p, q \in C : p = q \/ Apart(p, q)
  BY CutFacts
<1>2. G = {packet(p) : p \in C}
  BY DEF Fragments
<1> HIDE DEF C
<1>3. ASSUME NEW p \in C
      PROVE  /\ packet(p) \in Packets /\ packet(p).no = no /\ packet(p).id = id
             /\ packet(p).at = at
             /\ beg <= packet(p).beg /\ packet(p).beg < packet(p).end
             /\ packet(p).end <= end
             /\ packet(p).more <=> more \/ packet(p).end # end
  BY <1>1 DEF Packets
<1>4. ASSUME NEW p \in C, NEW q \in C
      PROVE  packet(p) = packet(q) \/ Apart(packet(p), packet(q))
  BY <1>1 DEF Apart
<1> HIDE DEF packet
<1> QED  BY <1>2, <1>3, <1>4

-----------------------------------------------------------------------------
(* addFragment(), in a state of the invariant.                              *)

LEMMA NoBufferFacts ==
    /\ NoBuffer \in Buffers
    /\ NoBuffer.no = 0 /\ NoBuffer.from = {} /\ NoBuffer.age = "none"
    /\ NoBuffer.main.end = 0
    /\ Gaps(NoBuffer) /\ ~ Knows(NoBuffer)
    /\ \A n \in Nat \ {0} : Sound(NoBuffer, n)
    /\ \A x : ~ Has(NoBuffer, x)
    /\ \A f \in Packets : Fits(f, NoBuffer)
<1> DEFINE m == [beg |-> 0, end |-> 0, islast |-> FALSE]
<1>1. m \in Region /\ m.beg = 0 /\ m.end = 0 /\ m.islast = FALSE
  BY DEF Region
<1>2. << >> \in Seq(Region) /\ DOMAIN << >> = {}
  BY EmptySeq, LenProperties
<1> HIDE DEF m
<1>3. /\ NoBuffer.main = m /\ NoBuffer.fragments = << >> /\ NoBuffer.no = 0
      /\ NoBuffer.from = {} /\ NoBuffer.age = "none"
  BY DEF NoBuffer, m
<1>4. NoBuffer = [main |-> m, fragments |-> << >>, no |-> 0, from |-> {}, age |-> "none"]
  BY DEF NoBuffer, m
<1>5. NoBuffer \in Buffers
  BY <1>1, <1>2, <1>4 DEF Buffers
<1>6. \A x : x \notin Bytes(m)
  BY <1>1 DEF Bytes
<1>7. \A n \in Nat \ {0} : Sound(NoBuffer, n)
  BY <1>1, <1>2, <1>3, <1>5 DEF Sound, PartOf
<1>8. \A f \in Packets : 0 <= f.beg
  BY DEF Packets
<1> QED  BY <1>1, <1>2, <1>3, <1>5, <1>6, <1>7, <1>8 DEF Gaps, Knows, Has, Fits

\* What is known of a packet on the way.
LEMMA PacketFacts ==
    ASSUME FragInv, NEW f \in transit
    PROVE  /\ f \in Packets /\ f.no \in 1 .. Len(sent) /\ f.no \in Nat /\ f.no # 0
           /\ f.id \in 0 .. Ids - 1 /\ f.at \in {"router", "dest"}
           /\ f.beg \in Nat /\ f.end \in Nat /\ f.more \in BOOLEAN
           /\ f.beg < f.end /\ f.end <= sent[f.no].len
           /\ f.more <=> f.end # sent[f.no].len
           /\ sent[f.no] \in Datagrams
           /\ sent[f.no].len \in Lengths /\ sent[f.no].len \in Nat \ {0}
           /\ KeyOf(f) \in FragKeys /\ SentAs(f.no) = KeyOf(f)
<1>1. f \in Packets /\ PacketOK(f) /\ sent \in Seq(Datagrams)
  BY DEF FragInv, FragTypes
<1>2. Len(sent) \in Nat /\ \A i \in 1 .. Len(sent) : sent[i] \in Datagrams
  BY <1>1, LenProperties, ElementOfSeq
<1>3. sent[f.no] \in Datagrams /\ f.no \in Nat /\ f.no # 0
  BY <1>1, <1>2 DEF PacketOK
<1>4. sent[f.no].len \in Lengths /\ sent[f.no].src \in Sources /\ sent[f.no].id \in 0 .. Ids - 1
  BY <1>3 DEF Datagrams
<1>5. sent[f.no].len \in Nat \ {0}
  BY <1>4, FragAssumption
<1>6. KeyOf(f) \in FragKeys /\ SentAs(f.no) = KeyOf(f)
  BY <1>1, <1>4 DEF KeyOf, SentAs, FragKeys, PacketOK
<1> QED  BY <1>1, <1>3, <1>4, <1>5, <1>6 DEF PacketOK, Packets

\* The buffer that takes the packet f: what is left of it after the purge.
Found(f, due) == IF KeyOf(f) \in Purged(due) THEN NoBuffer ELSE bufs[KeyOf(f)]

\* The packets with the key of f.
Siblings(f) == {g \in transit : KeyOf(g) = KeyOf(f)}

LEMMA FoundFacts ==
    ASSUME FragInv, NEW f \in transit, NEW due \in BOOLEAN
    PROVE  /\ Sound(Found(f, due), sent[f.no].len) /\ Gaps(Found(f, due))
           /\ Found(f, due).main.end < sent[f.no].len
           /\ \A g \in Siblings(f) : Fits(g, Found(f, due))
           /\ \/ Found(f, due).no = 0 /\ Found(f, due).from = {}
              \/ Found(f, due).no = f.no /\ Found(f, due).from = {f.no}
<1> DEFINE k == KeyOf(f)
           n == sent[f.no].len
<1>1. /\ k \in FragKeys /\ n \in Nat \ {0} /\ f \in Siblings(f)
  BY PacketFacts DEF Siblings
<1>2. CASE Found(f, due) = NoBuffer
  <2>1. Siblings(f) \subseteq Packets
    BY PacketFacts DEF Siblings
  <2>2. 0 < n
    BY <1>1
  <2> QED  BY <1>1, <1>2, <2>1, <2>2, NoBufferFacts
<1>3. CASE Found(f, due) # NoBuffer
  <2>1. Found(f, due) = bufs[k] /\ k \notin Purged(due)
    BY <1>3 DEF Found
  <2>2. BufferOK(k) /\ bufs[k] \in Buffers
    BY <1>1 DEF FragInv, FragTypes
  <2>3. bufs[k].age # "none" /\ bufs[k].age # "overdue"
    BY <1>1, <1>3, <2>1, <2>2 DEF BufferOK, Purged
  <2>4. bufs[k].age \in {"fresh", "stale"}
    BY <2>2, <2>3 DEF Buffers
  <2>5. \A g \in Siblings(f) : bufs[k].no = g.no /\ Fits(g, bufs[k])
    BY <2>4 DEF FragInv, MeetsOK, Siblings
  <2>6. bufs[k].no = f.no
    BY <1>1, <2>5
  <2> QED  BY <2>1, <2>2, <2>3, <2>5, <2>6 DEF BufferOK
<1> QED  BY <1>2, <1>3

LEMMA AddFacts ==
    ASSUME FragInv, NEW f \in transit, f.at = "dest", NEW due \in BOOLEAN,
           NEW b, b = addFragment(Found(f, due), f)
    PROVE  /\ b \in Buffers /\ b.no = f.no /\ b.from = {f.no} /\ b.age = "fresh"
           /\ Sound(b, sent[f.no].len) /\ Gaps(b)
           /\ \A g \in Siblings(f) : Fits(g, b)
           /\ \A x : Has(b, x) <=> Has(Found(f, due), x) \/ x \in f.beg .. f.end - 1
           /\ Knows(b) <=> Knows(Found(f, due)) \/ ~ f.more
<1> DEFINE old == Found(f, due)
           n == sent[f.no].len
           F == Siblings(f)
           r == [beg |-> f.beg, end |-> f.end, islast |-> ~ f.more]
           m == merge(old, r)
           c == [m EXCEPT !.no = IF @ = 0 THEN f.no ELSE @,
                          !.from = @ \cup {f.no}, !.age = "fresh"]
<1>1. /\ f \in Packets /\ f.no \in Nat /\ f.no # 0
      /\ f.beg \in Nat /\ f.end \in Nat /\ f.more \in BOOLEAN
      /\ f.beg < f.end /\ f.end <= n /\ (f.more <=> f.end # n)
      /\ n \in Nat
  BY PacketFacts
<1>2. /\ Sound(old, n) /\ Gaps(old)
      /\ \A g \in F : Fits(g, old)
      /\ \/ old.no = 0 /\ old.from = {}
         \/ old.no = f.no /\ old.from = {f.no}
  BY FoundFacts
<1>3. Whole(F) /\ f \in F
  BY PacketFacts DEF Whole, Siblings
<1>4. b = c
  BY DEF addFragment
<1>5. /\ r \in Region /\ r.beg = f.beg /\ r.end = f.end /\ (r.islast <=> ~ f.more)
  BY <1>1 DEF Region
<1> HIDE DEF r, old, n
<1>6. PartOf(r, n) /\ SameBytes(f, r)
  BY <1>1, <1>5 DEF PartOf, SameBytes
<1>7. \A g \in F : Apart(g, r) \/ (g.at = "dest" /\ SameBytes(g, r))
  <2> SUFFICES ASSUME NEW g \in F
               PROVE  Apart(g, r) \/ (g.at = "dest" /\ SameBytes(g, r))
    OBVIOUS
  <2>1. PairOK(g, f) /\ KeyOf(g) = KeyOf(f)
    BY DEF FragInv, Siblings
  <2> QED  BY <1>5, <1>6, <2>1 DEF PairOK, Apart
<1>8. /\ Mid(m, n, F) /\ Gaps(m) /\ m.no = old.no /\ m.from = old.from
      /\ \A x : Has(m, x) <=> Has(old, x) \/ x \in Bytes(r)
      /\ Knows(m) <=> Knows(old) \/ r.islast
  <2> HIDE DEF F, m
  <2> QED  BY <1>1, <1>2, <1>3, <1>5, <1>6, <1>7, MergeFacts DEF m
<1>9. m \in Buffers
  BY <1>8 DEF Mid, Sound
<1> HIDE DEF m, F
<1>10. (IF m.no = 0 THEN f.no ELSE m.no) = f.no /\ m.from \cup {f.no} = {f.no}
  BY <1>1, <1>2, <1>8
<1>11. /\ c \in Buffers /\ c.main = m.main /\ c.fragments = m.fragments
       /\ c.no = f.no /\ c.from = {f.no} /\ c.age = "fresh"
  BY <1>1, <1>9, <1>10 DEF Buffers
<1> HIDE DEF c
<1>12. Sound(c, n) /\ Gaps(c) /\ \A g \in F : Fits(g, c)
  BY <1>8, <1>11 DEF Mid, Sound, Gaps, Fits
<1>13. \A x : Has(c, x) <=> Has(m, x)
  BY <1>11 DEF Has
<1>14. Knows(c) <=> Knows(m)
  BY <1>11 DEF Knows
<1>15. Bytes(r) = f.beg .. f.end - 1
  BY <1>5 DEF Bytes
<1> QED  BY <1>4, <1>5, <1>8, <1>11, <1>12, <1>13, <1>14, <1>15 DEF old, n, F

-----------------------------------------------------------------------------
(* The steps keep the invariant.                                            *)

DeliveredOK ==
    \A d \in delivered : /\ d.no \in 1 .. Len(sent)
                         /\ d.from = {d.no}
                         /\ d.len = sent[d.no].len

LEMMA FragInvParts ==
    FragInv <=> /\ FragTypes
                /\ \A f \in transit : PacketOK(f) /\ MeetsOK(f)
                /\ \A f, g \in transit : PairOK(f, g)
                /\ \A k \in FragKeys : BufferOK(k)
                /\ DeliveredOK
BY DEF FragInv, DeliveredOK

LEMMA FragInvInit == FragInit => FragInv
<1> SUFFICES ASSUME FragInit PROVE FragInv
  OBVIOUS
<1>1. FragTypes
  <2>1. curFragmentId \in [Sources -> 0 .. Ids - 1]
    BY FragAssumption DEF FragInit
  <2>2. sent \in Seq(Datagrams)
    BY EmptySeq DEF FragInit
  <2>3. bufs \in [FragKeys -> Buffers]
    BY NoBufferFacts DEF FragInit
  <2> QED  BY <2>1, <2>2, <2>3 DEF FragTypes, FragInit
<1>2. \A k \in FragKeys : bufs[k] = NoBuffer
  BY DEF FragInit
<1>3. \A k \in FragKeys : BufferOK(k)
  BY <1>2, NoBufferFacts DEF BufferOK
<1> QED  BY <1>1, <1>3 DEF FragInit, FragInv

\* A step that sends nothing: the packets and the buffers are of the same
\* datagrams as before.
LEMMA SameDatagrams ==
    ASSUME sent' = sent
    PROVE  /\ \A f : KeyOf(f)' = KeyOf(f)
           /\ \A f : PacketOK(f)' <=> PacketOK(f)
           /\ \A f, g : PairOK(f, g)' <=> PairOK(f, g)
           /\ \A no : SentAs(no)' = SentAs(no)
<1>1. \A f : KeyOf(f)' = KeyOf(f)
  BY DEF KeyOf
<1> QED  BY <1>1 DEF PacketOK, PairOK, SentAs

\* Packets are lost, or age: what is left on the way is as it was.
LEMMA FragInvLose ==
    ASSUME FragInv, transit' \subseteq transit,
           UNCHANGED <<curFragmentId, sent, bufs, delivered>>
    PROVE  FragInv'
<1>1. FragTypes'
  BY DEF FragInv, FragTypes
<1>2. \A f : MeetsOK(f)' <=> MeetsOK(f)
  BY SameDatagrams DEF MeetsOK
<1>3. \A k : BufferOK(k)' <=> BufferOK(k)
  BY SameDatagrams DEF BufferOK
<1>4. DeliveredOK'
  BY FragInvParts DEF DeliveredOK
<1>5. \A f \in transit' : PacketOK(f)' /\ MeetsOK(f)'
  BY <1>2, SameDatagrams DEF FragInv
<1>6. \A f, g \in transit' : PairOK(f, g)'
  BY SameDatagrams DEF FragInv
<1>7. \A k \in FragKeys : BufferOK(k)'
  BY <1>3 DEF FragInv
<1> QED  BY <1>1, <1>4, <1>5, <1>6, <1>7 DEF FragInv, DeliveredOK, FragKeys

\* A packet's pieces take its place.
LEMMA FragInvForward ==
    ASSUME FragInv, NEW f \in transit, NEW mtu \in RouterMtus, Forward(f, mtu)
    PROVE  FragInv'
<1> DEFINE G == Fragments(f.no, f.id, "dest", Cut(f.beg, f.end, f.more, mtu))
<1>1. /\ f \in Packets /\ f.no \in 1 .. Len(sent) /\ f.no \in Nat
      /\ f.id \in 0 .. Ids - 1
      /\ f.beg \in Nat /\ f.end \in Nat /\ f.more \in BOOLEAN
      /\ f.beg < f.end /\ f.end <= sent[f.no].len
      /\ f.more <=> f.end # sent[f.no].len
      /\ sent[f.no].len \in Nat \ {0} /\ KeyOf(f) \in FragKeys
  BY PacketFacts
<1>2. mtu \in Nat /\ mtu >= Unit
  BY FragAssumption
<1>3. f.at = "router" /\ transit' = (transit \ {f}) \cup G
  BY DEF Forward
<1>4. UNCHANGED <<curFragmentId, sent, bufs, delivered>>
  BY DEF Forward
<1>5. /\ \A g \in G : /\ g \in Packets /\ g.no = f.no /\ g.id = f.id /\ g.at = "dest"
                      /\ f.beg <= g.beg /\ g.beg < g.end /\ g.end <= f.end
                      /\ g.more <=> f.more \/ g.end # f.end
      /\ \A g, h \in G : g = h \/ Apart(g, h)
  <2>1. G = Fragments(f.no, f.id, "dest", Cut(f.beg, f.end, f.more, mtu))
    OBVIOUS
  <2> HIDE DEF G
  <2>2. PICK no \in Nat, id \in 0 .. Ids - 1, at \in {"router", "dest"}, beg \in Nat,
             end \in Nat, more \in BOOLEAN :
                 /\ no = f.no /\ id = f.id /\ at = "dest" /\ beg = f.beg
                 /\ end = f.end /\ more = f.more
    BY <1>1
  <2>3. beg < end /\ G = Fragments(no, id, at, Cut(beg, end, more, mtu))
    BY <1>1, <2>1, <2>2
  <2>4. /\ \A g \in G : /\ g \in Packets /\ g.no = no /\ g.id = id /\ g.at = at
                        /\ beg <= g.beg /\ g.beg < g.end /\ g.end <= end
                        /\ g.more <=> more \/ g.end # end
        /\ \A g, h \in G : g = h \/ Apart(g, h)
    BY <1>2, <2>3, FragmentsFacts
  <2>5. ASSUME NEW g \in G
        PROVE  /\ g \in Packets /\ g.no = f.no /\ g.id = f.id /\ g.at = "dest"
               /\ f.beg <= g.beg /\ g.beg < g.end /\ g.end <= f.end
    BY <2>2, <2>4
  <2>6. ASSUME NEW g \in G PROVE g.more <=> f.more \/ g.end # f.end
    <3>1. (g.more <=> more \/ g.end # end) /\ more = f.more /\ end = f.end
      BY <2>2, <2>4
    <3> QED  BY <3>1, Zenon
  <2> QED  BY <2>4, <2>5, <2>6
<1> HIDE DEF G
<1>6. \A g \in G : g.beg \in Nat /\ g.end \in Nat /\ KeyOf(g) = KeyOf(f)
  BY <1>5 DEF Packets, KeyOf
<1>7. FragTypes'
  BY <1>3, <1>4, <1>5 DEF FragInv, FragTypes, FragKeys
<1>8. ASSUME NEW g \in G PROVE PacketOK(g)
  <2>1. g.more <=> g.end # sent[f.no].len
    BY <1>1, <1>5, <1>6
  <2> QED  BY <1>1, <1>5, <1>6, <2>1 DEF PacketOK, FragInv
<1>9. ASSUME NEW g \in G PROVE MeetsOK(g)
  <2> SUFFICES ASSUME bufs[KeyOf(f)].age \in {"fresh", "stale"}
               PROVE  bufs[KeyOf(f)].no = g.no /\ Fits(g, bufs[KeyOf(f)])
    BY <1>6 DEF MeetsOK
  <2> DEFINE b == bufs[KeyOf(f)]
  <2>1. b.no = f.no /\ Fits(f, b) /\ BufferOK(KeyOf(f))
    BY <1>1 DEF FragInv, MeetsOK
  <2>2. Sound(b, sent[b.no].len)
    BY <2>1 DEF BufferOK
  <2>3. /\ b.main.end \in Nat
        /\ \A i \in DOMAIN b.fragments :
              b.fragments[i].beg \in Nat /\ b.fragments[i].end \in Nat
    BY <2>2, SoundTypes
  <2> HIDE DEF b
  <2>4. b.main.end <= g.beg
    BY <1>1, <1>3, <1>5, <1>6, <2>1, <2>3 DEF Fits
  <2>5. \A i \in DOMAIN b.fragments : Apart(g, b.fragments[i])
    BY <1>1, <1>3, <1>5, <1>6, <2>1, <2>3 DEF Fits, Apart
  <2> QED  BY <1>5, <2>1, <2>4, <2>5 DEF Fits, b
<1>10. ASSUME NEW g \in G, NEW h \in transit, h # f PROVE PairOK(g, h) /\ PairOK(h, g)
  <2> SUFFICES ASSUME KeyOf(h) = KeyOf(f) PROVE h.no = f.no /\ Apart(g, h) /\ Apart(h, g)
    BY <1>5, <1>6 DEF PairOK
  <2>1. h.no = f.no /\ Apart(h, f)
    BY <1>10 DEF FragInv, PairOK
  <2>2. h.beg \in Nat /\ h.end \in Nat
    BY PacketFacts
  <2> QED  BY <1>1, <1>5, <1>6, <2>1, <2>2 DEF Apart
<1>11. \A g, h \in G : PairOK(g, h)
  BY <1>5 DEF PairOK
<1>12. \A g \in transit' : PacketOK(g) /\ MeetsOK(g)
  BY <1>3, <1>8, <1>9 DEF FragInv
<1>13. \A g, h \in transit' : PairOK(g, h)
  BY <1>3, <1>10, <1>11 DEF FragInv
<1>14. \A g : MeetsOK(g)' <=> MeetsOK(g)
  BY <1>4, SameDatagrams DEF MeetsOK
<1>15. \A k : BufferOK(k)' <=> BufferOK(k)
  BY <1>4, SameDatagrams DEF BufferOK
<1>16. DeliveredOK'
  BY <1>4, FragInvParts DEF DeliveredOK
<1>17. \A g \in transit' : PacketOK(g)' /\ MeetsOK(g)'
  BY <1>4, <1>12, <1>14, SameDatagrams
<1>18. \A g, h \in transit' : PairOK(g, h)'
  BY <1>4, <1>13, SameDatagrams
<1>19. \A k \in FragKeys : BufferOK(k)'
  BY <1>15 DEF FragInv
<1> QED  BY <1>7, <1>16, <1>17, <1>18, <1>19 DEF FragInv, DeliveredOK, FragKeys

LEMMA FragInvAge ==
    ASSUME FragInv, NEW k \in FragKeys, Age(k) PROVE FragInv'
<1> DEFINE older == IF bufs[k].age = "fresh" THEN "stale" ELSE "overdue"
           b == [bufs[k] EXCEPT !.age = older]
<1>1. bufs[k].age \in {"fresh", "stale"}
  BY DEF Age
<1>2. UNCHANGED <<curFragmentId, sent, transit, delivered>>
  BY DEF Age
<1>3. bufs \in [FragKeys -> Buffers]
  BY DEF FragInv, FragTypes
<1>4. bufs' = [bufs EXCEPT ![k] = b]
  BY DEF Age
<1>5. bufs[k] \in Buffers
  BY <1>3
<1>6. older \in {"stale", "overdue"} /\ (older = "stale" => bufs[k].age = "fresh")
  OBVIOUS
<1> HIDE DEF older
<1>7. /\ b \in Buffers /\ b.main = bufs[k].main /\ b.fragments = bufs[k].fragments
      /\ b.no = bufs[k].no /\ b.from = bufs[k].from /\ b.age = older
  BY <1>5, <1>6 DEF Buffers
<1> HIDE DEF b
<1>8. bufs' \in [FragKeys -> Buffers]
  BY <1>3, <1>4, <1>7
<1>9. FragTypes'
  BY <1>2, <1>8 DEF FragInv, FragTypes, FragKeys
<1>10. bufs'[k] = b /\ \A j \in FragKeys : j # k => bufs'[j] = bufs[j]
  BY <1>3, <1>4
<1>11. ASSUME NEW j \in FragKeys PROVE BufferOK(j)'
  <2>1. BufferOK(j)
    BY DEF FragInv
  <2>2. CASE j # k
    BY <1>2, <1>10, <2>1, <2>2, SameDatagrams DEF BufferOK
  <2>3. CASE j = k
    <3>1. /\ bufs[k].no \in 1 .. Len(sent)
          /\ SentAs(bufs[k].no) = k
          /\ bufs[k].from = {bufs[k].no}
          /\ Sound(bufs[k], sent[bufs[k].no].len)
          /\ bufs[k].main.end < sent[bufs[k].no].len
          /\ Gaps(bufs[k])
      BY <1>1, <2>1, <2>3 DEF BufferOK
    <3>2. Sound(b, sent[b.no].len) /\ Gaps(b)
      BY <1>7, <3>1 DEF Sound, Gaps
    <3>3. b.age # "none"
      BY <1>6, <1>7
    <3> QED  BY <1>2, <1>7, <1>10, <2>3, <3>1, <3>2, <3>3, SameDatagrams DEF BufferOK
  <2> QED  BY <2>2, <2>3
<1>12. ASSUME NEW f \in transit PROVE MeetsOK(f)'
  <2>1. MeetsOK(f) /\ KeyOf(f) \in FragKeys /\ KeyOf(f)' = KeyOf(f)
    BY <1>2, PacketFacts, SameDatagrams DEF FragInv
  <2>2. CASE KeyOf(f) # k
    BY <1>10, <2>1, <2>2 DEF MeetsOK
  <2>3. CASE KeyOf(f) = k
    <3>1. Fits(f, bufs[k]) /\ bufs[k].no = f.no
      BY <1>1, <2>1, <2>3 DEF MeetsOK
    <3>2. Fits(f, b)
      BY <1>7, <3>1 DEF Fits
    <3> QED  BY <1>7, <1>10, <2>1, <2>3, <3>1, <3>2 DEF MeetsOK
  <2> QED  BY <2>2, <2>3
<1>13. \A f \in transit' : PacketOK(f)' /\ MeetsOK(f)'
  BY <1>2, <1>12, SameDatagrams DEF FragInv
<1>14. \A f, g \in transit' : PairOK(f, g)'
  BY <1>2, SameDatagrams DEF FragInv
<1>15. DeliveredOK'
  BY <1>2, FragInvParts DEF DeliveredOK
<1> QED  BY <1>9, <1>11, <1>13, <1>14, <1>15 DEF FragInv, DeliveredOK, FragKeys

\* A new datagram: no packet on the way has its key, and its buffer is empty or
\* due to be dropped.
LEMMA SendKeeps ==
    ASSUME FragInv, NEW s \in Sources, NEW n \in Lengths, SendFragmented(s, n)
    PROVE  /\ Len(sent') = Len(sent) + 1 /\ sent' \in Seq(Datagrams)
           /\ Len(sent) \in Nat
           /\ sent'[Len(sent) + 1] = [src |-> s, id |-> curFragmentId[s], len |-> n]
           /\ \A i \in 1 .. Len(sent) :
                 i \in 1 .. Len(sent') /\ sent'[i] = sent[i] /\ SentAs(i)' = SentAs(i)
           /\ n \in Nat /\ n # 0 /\ curFragmentId[s] \in 0 .. Ids - 1
<1> DEFINE d == [src |-> s, id |-> curFragmentId[s], len |-> n]
<1>1. sent \in Seq(Datagrams) /\ curFragmentId \in [Sources -> 0 .. Ids - 1]
  BY DEF FragInv, FragTypes
<1>2. d \in Datagrams /\ curFragmentId[s] \in 0 .. Ids - 1
  BY <1>1 DEF Datagrams
<1>3. n \in Nat /\ n # 0
  BY FragAssumption
<1>4. sent' = Append(sent, d)
  BY DEF SendFragmented
<1> HIDE DEF d
<1>5. Len(sent) \in Nat
  BY <1>1, LenProperties
<1>6. /\ Append(sent, d) \in Seq(Datagrams)
      /\ Len(Append(sent, d)) = Len(sent) + 1
      /\ \A i \in 1 .. Len(sent) : Append(sent, d)[i] = sent[i]
      /\ Append(sent, d)[Len(sent) + 1] = d
  BY <1>1, <1>2, AppendProperties
<1>7. \A i \in 1 .. Len(sent) : i \in 1 .. Len(sent') /\ sent'[i] = sent[i]
  BY <1>4, <1>5, <1>6
<1>8. \A i \in 1 .. Len(sent) : SentAs(i)' = SentAs(i)
  BY <1>7 DEF SentAs
<1> QED  BY <1>2, <1>3, <1>4, <1>5, <1>6, <1>7, <1>8 DEF d

LEMMA FragInvSend ==
    ASSUME FragInv, NEW s \in Sources, NEW n \in Lengths, SendFragmented(s, n)
    PROVE  FragInv'
<1> DEFINE no == Len(sent) + 1
           id == curFragmentId[s]
           k == [src |-> s, id |-> id]
           G == Fragments(no, id, "router", Cut(0, n, FALSE, SourceMtu))
<1>1. /\ Len(sent') = no /\ sent' \in Seq(Datagrams) /\ Len(sent) \in Nat
      /\ sent'[no] = [src |-> s, id |-> id, len |-> n]
      /\ \A i \in 1 .. Len(sent) :
            i \in 1 .. Len(sent') /\ sent'[i] = sent[i] /\ SentAs(i)' = SentAs(i)
      /\ n \in Nat /\ n # 0 /\ id \in 0 .. Ids - 1
  BY SendKeeps
<1>2. UNCHANGED <<bufs, delivered>> /\ transit' = transit \cup G
  BY DEF SendFragmented
<1>3. /\ \A f \in transit : KeyOf(f) # k
      /\ bufs[k].age \in {"none", "overdue"}
  BY DEF SendFragmented, Reusable
<1>4. k \in FragKeys
  BY <1>1 DEF FragKeys
<1>5. /\ \A g \in G : /\ g \in Packets /\ g.no = no /\ g.id = id /\ g.at = "router"
                      /\ 0 <= g.beg /\ g.beg < g.end /\ g.end <= n
                      /\ g.more <=> g.end # n
      /\ \A g, h \in G : g = h \/ Apart(g, h)
  <2>1. SourceMtu \in Nat /\ SourceMtu >= Unit
    BY FragAssumption
  <2>2. no \in Nat /\ 0 \in Nat /\ 0 < n
    BY <1>1
  <2>3. PICK more \in BOOLEAN, at \in {"router", "dest"} : ~ more /\ at = "router"
    OBVIOUS
  <2>4. G = Fragments(no, id, at, Cut(0, n, more, SourceMtu))
    <3>1. more = FALSE
      BY <2>3
    <3> QED  BY <2>3, <3>1
  <2> HIDE DEF G, no, id
  <2>5. /\ \A g \in G : /\ g \in Packets /\ g.no = no /\ g.id = id /\ g.at = at
                        /\ 0 <= g.beg /\ g.beg < g.end /\ g.end <= n
                        /\ g.more <=> more \/ g.end # n
        /\ \A g, h \in G : g = h \/ Apart(g, h)
    BY <1>1, <2>1, <2>2, <2>4, FragmentsFacts
  <2> QED  BY <2>3, <2>5
<1> HIDE DEF G
<1>6. curFragmentId' \in [Sources -> 0 .. Ids - 1]
  <2>1. curFragmentId \in [Sources -> 0 .. Ids - 1] /\ Ids \in Nat \ {0}
    BY FragAssumption DEF FragInv, FragTypes
  <2>2. (id + 1) % Ids \in 0 .. Ids - 1
    BY <1>1, <2>1
  <2>3. curFragmentId' = [curFragmentId EXCEPT ![s] = (id + 1) % Ids]
    BY DEF SendFragmented
  <2> QED  BY <2>1, <2>2, <2>3
<1>7. FragTypes'
  BY <1>1, <1>2, <1>5, <1>6 DEF FragInv, FragTypes, FragKeys
<1>8. ASSUME NEW f \in transit
      PROVE  f.no \in 1 .. Len(sent) /\ KeyOf(f)' = KeyOf(f)
  <2>1. f.no \in 1 .. Len(sent)
    BY PacketFacts
  <2> QED  BY <1>1, <2>1 DEF KeyOf
<1>9. \A g \in G : KeyOf(g)' = k
  BY <1>1, <1>5 DEF KeyOf
<1>10. ASSUME NEW f \in transit PROVE PacketOK(f)' /\ MeetsOK(f)'
  <2>1. PacketOK(f) /\ MeetsOK(f)
    BY DEF FragInv
  <2>2. PacketOK(f)'
    BY <1>1, <1>8, <2>1 DEF PacketOK
  <2>3. MeetsOK(f)'
    BY <1>2, <1>8, <2>1 DEF MeetsOK
  <2> QED  BY <2>2, <2>3
<1>11. ASSUME NEW g \in G PROVE PacketOK(g)' /\ MeetsOK(g)'
  <2>1. no \in 1 .. Len(sent')
    BY <1>1
  <2>2. PacketOK(g)'
    BY <1>1, <1>5, <2>1 DEF PacketOK
  <2>3. MeetsOK(g)'
    BY <1>2, <1>3, <1>9 DEF MeetsOK
  <2> QED  BY <2>2, <2>3
<1>12. \A f, g \in transit : PairOK(f, g)'
  BY <1>8 DEF FragInv, PairOK
<1>13. \A f \in transit, g \in G : PairOK(f, g)' /\ PairOK(g, f)'
  BY <1>3, <1>8, <1>9 DEF PairOK
<1>14. \A f, g \in G : PairOK(f, g)'
  BY <1>5 DEF PairOK
<1>15. ASSUME NEW j \in FragKeys PROVE BufferOK(j)'
  <2>1. BufferOK(j)
    BY DEF FragInv
  <2> QED  BY <1>1, <1>2, <2>1 DEF BufferOK
<1>16. DeliveredOK'
  BY <1>1, <1>2 DEF FragInv, DeliveredOK
<1>17. \A f \in transit' : PacketOK(f)' /\ MeetsOK(f)'
  BY <1>2, <1>10, <1>11
<1>18. \A f, g \in transit' : PairOK(f, g)'
  BY <1>2, <1>12, <1>13, <1>14
<1> QED  BY <1>7, <1>15, <1>16, <1>17, <1>18 DEF FragInv, DeliveredOK, FragKeys

LEMMA TakenFacts == ASSUME NEW f, Taken(f) PROVE transit' \subseteq transit
BY DEF Taken

\* The buffer that takes a fragment is complete when its main region ends where
\* the datagram does.
Done(b) == b.main.beg = 0 /\ b.main.islast

LEMMA FragInvArrives ==
    ASSUME FragInv, NEW f \in transit, NEW due \in BOOLEAN, FragmentArrives(f, due)
    PROVE  FragInv'
<1> DEFINE k == KeyOf(f)
           n == sent[f.no].len
           b == addFragment(Found(f, due), f)
           next == [j \in FragKeys |->
                       IF j = k THEN IF Done(b) THEN NoBuffer ELSE b
                       ELSE IF j \in Purged(due) THEN NoBuffer ELSE bufs[j]]
<1>1. f.at = "dest"
  BY DEF FragmentArrives
<1>2. /\ b \in Buffers /\ b.no = f.no /\ b.from = {f.no} /\ b.age = "fresh"
      /\ Sound(b, n) /\ Gaps(b)
      /\ \A g \in Siblings(f) : Fits(g, b)
  BY <1>1, AddFacts
<1>3. /\ f.no \in 1 .. Len(sent) /\ n \in Nat \ {0} /\ k \in FragKeys /\ SentAs(f.no) = k
  BY PacketFacts
<1>4. /\ bufs' = next
      /\ IF Done(b) THEN Deliver(b.no, b.main.end, b.from) ELSE UNCHANGED delivered
  BY DEF FragmentArrives, ReassembleFragment, Found, Done
<1>5. UNCHANGED <<curFragmentId, sent>> /\ transit' \subseteq transit
  BY TakenFacts DEF FragmentArrives
<1> HIDE DEF b
<1>6. b.main.end \in Nat /\ b.main.end <= n /\ (Done(b) <=> b.main.end = n)
  BY <1>2, <1>3, SoundTypes DEF Sound, PartOf, Done
<1>7. bufs \in [FragKeys -> Buffers]
  BY DEF FragInv, FragTypes
<1>8. next \in [FragKeys -> Buffers]
  BY <1>2, <1>7, NoBufferFacts
<1>9. FragTypes'
  BY <1>4, <1>5, <1>8 DEF FragInv, FragTypes, FragKeys
<1>10. /\ bufs'[k] = IF Done(b) THEN NoBuffer ELSE b
       /\ \A j \in FragKeys : j # k => bufs'[j] = NoBuffer \/ bufs'[j] = bufs[j]
  BY <1>3, <1>4
<1> HIDE DEF next
<1>11. ASSUME NEW j \in FragKeys PROVE BufferOK(j)'
  <2>1. CASE bufs'[j] = NoBuffer
    BY <2>1, NoBufferFacts DEF BufferOK
  <2>2. CASE bufs'[j] = bufs[j] /\ j # k
    <3>1. BufferOK(j)
      BY DEF FragInv
    <3> QED  BY <1>5, <2>2, <3>1, SameDatagrams DEF BufferOK
  <2>3. CASE j = k /\ ~ Done(b)
    <3>1. bufs'[k] = b /\ b.main.end < n /\ b.age # "none"
      BY <1>2, <1>3, <1>6, <1>10, <2>3
    <3>2. SentAs(f.no)' = SentAs(f.no) /\ SentAs(f.no) = j
      BY <1>3, <1>5, <2>3, SameDatagrams
    <3>3. /\ bufs'[j].no = f.no /\ bufs'[j].from = {f.no} /\ bufs'[j].age # "none"
          /\ Sound(bufs'[j], sent'[f.no].len) /\ bufs'[j].main.end < sent'[f.no].len
          /\ Gaps(bufs'[j])
      BY <1>2, <1>5, <2>3, <3>1
    <3> QED  BY <1>3, <1>5, <3>2, <3>3 DEF BufferOK
  <2> QED  BY <1>10, <2>1, <2>2, <2>3
<1>12. ASSUME NEW g \in transit PROVE MeetsOK(g)'
  <2>1. KeyOf(g)' = KeyOf(g) /\ KeyOf(g) \in FragKeys /\ MeetsOK(g)
    BY <1>5, PacketFacts, SameDatagrams DEF FragInv
  <2>2. CASE bufs'[KeyOf(g)] = NoBuffer
    BY <2>1, <2>2, NoBufferFacts DEF MeetsOK
  <2>3. CASE KeyOf(g) # k /\ bufs'[KeyOf(g)] = bufs[KeyOf(g)]
    BY <2>1, <2>3 DEF MeetsOK
  <2>4. CASE KeyOf(g) = k /\ bufs'[k] = b
    <3>1. g \in Siblings(f) /\ g.no = f.no
      BY <2>4 DEF Siblings, FragInv, PairOK
    <3> QED  BY <1>2, <2>1, <2>4, <3>1 DEF MeetsOK
  <2> QED  BY <1>10, <2>1, <2>2, <2>3, <2>4
<1>13. DeliveredOK'
  <2>1. DeliveredOK
    BY DEF FragInv, DeliveredOK
  <2>2. CASE ~ Done(b)
    BY <1>4, <1>5, <2>1, <2>2 DEF DeliveredOK
  <2>3. CASE Done(b)
    <3>1. delivered' = delivered \cup {[no |-> b.no, len |-> b.main.end, from |-> b.from]}
      BY <1>4, <2>3 DEF Deliver
    <3>2. b.no \in 1 .. Len(sent) /\ b.from = {b.no} /\ b.main.end = sent[b.no].len
      BY <1>2, <1>3, <1>6, <2>3
    <3> QED  BY <1>5, <2>1, <3>1, <3>2 DEF DeliveredOK
  <2> QED  BY <2>2, <2>3
<1>14. \A g \in transit' : PacketOK(g)' /\ MeetsOK(g)'
  BY <1>5, <1>12, SameDatagrams DEF FragInv
<1>15. \A g, h \in transit' : PairOK(g, h)'
  BY <1>5, SameDatagrams DEF FragInv
<1> QED  BY <1>9, <1>11, <1>13, <1>14, <1>15 DEF FragInv, DeliveredOK, FragKeys

LEMMA FragInvDatagram ==
    ASSUME FragInv, NEW f \in transit, DatagramArrives(f)
    PROVE  FragInv'
<1>1. /\ f.no \in 1 .. Len(sent) /\ f.beg \in Nat /\ f.end \in Nat
      /\ f.more <=> f.end # sent[f.no].len
  BY PacketFacts
<1>2. f.end = sent[f.no].len
  BY <1>1 DEF DatagramArrives, IsFragment
<1>3. /\ UNCHANGED <<curFragmentId, sent, bufs>> /\ transit' \subseteq transit
      /\ delivered' = delivered \cup {[no |-> f.no, len |-> f.end, from |-> {f.no}]}
  BY TakenFacts DEF DatagramArrives, Deliver
<1>4. FragTypes'
  BY <1>3 DEF FragInv, FragTypes, FragKeys
<1>5. \A g : MeetsOK(g)' <=> MeetsOK(g)
  BY <1>3, SameDatagrams DEF MeetsOK
<1>6. \A k : BufferOK(k)' <=> BufferOK(k)
  BY <1>3, SameDatagrams DEF BufferOK
<1>7. DeliveredOK'
  <2>1. DeliveredOK
    BY DEF FragInv, DeliveredOK
  <2> QED  BY <1>1, <1>2, <1>3, <2>1 DEF DeliveredOK
<1>8. \A g \in transit' : PacketOK(g)' /\ MeetsOK(g)'
  BY <1>3, <1>5, SameDatagrams DEF FragInv
<1>9. \A g, h \in transit' : PairOK(g, h)'
  BY <1>3, SameDatagrams DEF FragInv
<1>10. \A k \in FragKeys : BufferOK(k)'
  BY <1>6 DEF FragInv
<1> QED  BY <1>4, <1>7, <1>8, <1>9, <1>10 DEF FragInv, DeliveredOK, FragKeys

LEMMA FragInvNext == FragInv /\ [FragNext]_fragVars => FragInv'
<1> SUFFICES ASSUME FragInv, [FragNext]_fragVars PROVE FragInv'
  OBVIOUS
<1>1. ASSUME NEW s \in Sources, NEW n \in Lengths, SendFragmented(s, n) PROVE FragInv'
  BY <1>1, FragInvSend
<1>2. ASSUME NEW f \in transit, NEW mtu \in RouterMtus, Forward(f, mtu) PROVE FragInv'
  BY <1>2, FragInvForward
<1>3. ASSUME NEW f \in transit, LoseFragment(f) PROVE FragInv'
  <2>1. transit' \subseteq transit /\ UNCHANGED <<curFragmentId, sent, bufs, delivered>>
    BY <1>3 DEF LoseFragment
  <2> QED  BY <2>1, FragInvLose
<1>4. ASSUME NEW f \in transit, NEW due \in BOOLEAN, FragmentArrives(f, due) PROVE FragInv'
  BY <1>4, FragInvArrives
<1>5. ASSUME NEW f \in transit, DatagramArrives(f) PROVE FragInv'
  BY <1>5, FragInvDatagram
<1>6. ASSUME NEW k \in FragKeys, Age(k) PROVE FragInv'
  BY <1>6, FragInvAge
<1>7. CASE UNCHANGED fragVars
  <2>1. transit' \subseteq transit /\ UNCHANGED <<curFragmentId, sent, bufs, delivered>>
    BY <1>7 DEF fragVars
  <2> QED  BY <2>1, FragInvLose
<1> QED  BY <1>1, <1>2, <1>3, <1>4, <1>5, <1>6, <1>7 DEF FragNext

\* The invariant holds in every behaviour of the specification.
THEOREM FragInvariant == FragSpec => []FragInv
<1>1. FragInit => FragInv
  BY FragInvInit
<1>2. FragInv /\ [FragNext]_fragVars => FragInv'
  BY FragInvNext
<1> QED  BY <1>1, <1>2, PTL DEF FragSpec

\* reassembleAndDeliver() delivers only datagrams that were sent, with their
\* length and made of their own fragments, whatever the network does and however
\* often identifications come back.
THEOREM AlwaysWholeDatagrams == FragSpec => []WholeDatagrams
<1>1. FragInv => WholeDatagrams
  BY DEF FragInv, WholeDatagrams
<1> QED  BY <1>1, FragInvariant, PTL

-----------------------------------------------------------------------------
(* The refinement.                                                          *)

LEMMA LongestFacts == Longest \in Nat /\ \A n \in Lengths : n <= Longest
<1>1. Lengths \subseteq Nat \ {0} /\ \E n \in Lengths : \A m \in Lengths : m <= n
  BY FragAssumption
<1> QED  BY <1>1 DEF Longest

LEMMA BytesOfIsHas == ASSUME NEW b, NEW x PROVE x \in BytesOf(b) <=> Has(b, x)
<1>1. x \in BytesOf(b) <=> \E r \in Regions(b) : x \in Bytes(r)
  BY DEF BytesOf
<1> QED  BY <1>1 DEF Regions, Has

\* A buffer of a datagram of n bytes knows no other length.
LEMMA LengthOfFacts ==
    ASSUME NEW n \in Nat, NEW b, Sound(b, n)
    PROVE  LengthOf(b) = IF Knows(b) THEN n ELSE 0
<1>1. LastRegions(b) = {} <=> ~ Knows(b)
  BY DEF LastRegions, Regions, Knows
<1>2. \A r \in LastRegions(b) : r.end = n
  BY DEF LastRegions, Regions, Sound, PartOf
<1>3. CASE LastRegions(b) # {}
  <2> DEFINE r == CHOOSE r \in LastRegions(b) : TRUE
  <2>1. r \in LastRegions(b)
    BY <1>3
  <2>2. LengthOf(b) = r.end
    BY <1>3 DEF LengthOf
  <2> HIDE DEF r
  <2> QED  BY <1>1, <1>2, <1>3, <2>1, <2>2
<1>4. CASE LastRegions(b) = {}
  BY <1>1, <1>4 DEF LengthOf
<1> QED  BY <1>3, <1>4

LEMMA BytesOfFacts ==
    ASSUME NEW n \in Nat, NEW b, Sound(b, n)
    PROVE  BytesOf(b) \subseteq 0 .. n - 1
<1> SUFFICES ASSUME NEW x, Has(b, x) PROVE x \in 0 .. n - 1
  BY BytesOfIsHas
<1>1. /\ b.main.beg \in Nat /\ b.main.end \in Nat /\ b.main.end <= n
      /\ \A i \in DOMAIN b.fragments :
            /\ b.fragments[i].beg \in Nat /\ b.fragments[i].end \in Nat
            /\ b.fragments[i].end <= n
  BY SoundTypes DEF Sound, PartOf
<1> QED  BY <1>1 DEF Has, Bytes

LEMMA NothingKept == BytesOf(NoBuffer) = {} /\ LengthOf(NoBuffer) = 0
<1>1. \A x : x \notin BytesOf(NoBuffer)
  BY BytesOfIsHas, NoBufferFacts
<1>2. LengthOf(NoBuffer) = 0
  BY NoBufferFacts, LengthOfFacts
<1> QED  BY <1>1, <1>2

\* main is all there is exactly when the buffer's bytes are the datagram's.
LEMMA DoneIsComplete ==
    ASSUME NEW n \in Nat \ {0}, NEW b, Sound(b, n), Gaps(b)
    PROVE  Done(b) <=> LengthOf(b) # 0 /\ BytesOf(b) = 0 .. LengthOf(b) - 1
<1>1. /\ b.main.beg = 0 /\ b.main.end \in Nat /\ b.main.end <= n
      /\ b.main.islast \in BOOLEAN /\ (b.main.islast <=> b.main.end = n)
      /\ \A i \in DOMAIN b.fragments :
            /\ b.fragments[i].beg \in Nat /\ b.fragments[i].end \in Nat
            /\ b.main.end < b.fragments[i].beg
  BY SoundTypes DEF Sound, PartOf, Gaps
<1>2. LengthOf(b) = IF Knows(b) THEN n ELSE 0
  BY LengthOfFacts
<1>3. CASE Done(b)
  <2>1. LengthOf(b) = n
    BY <1>2, <1>3 DEF Done, Knows
  <2>2. \A x \in 0 .. n - 1 : x \in BytesOf(b)
    <3> SUFFICES ASSUME NEW x \in 0 .. n - 1 PROVE Has(b, x)
      BY BytesOfIsHas
    <3> QED  BY <1>1, <1>3 DEF Done, Has, Bytes
  <2>3. BytesOf(b) \subseteq 0 .. n - 1
    BY BytesOfFacts
  <2> QED  BY <1>3, <2>1, <2>2, <2>3
<1>4. CASE ~ Done(b)
  <2>1. b.main.end < n
    BY <1>1, <1>4 DEF Done
  <2>2. ~ Has(b, b.main.end)
    BY <1>1 DEF Has, Bytes
  <2>3. b.main.end \notin BytesOf(b) /\ b.main.end \in 0 .. n - 1
    BY <1>1, <2>1, <2>2, BytesOfIsHas
  <2> QED  BY <1>2, <1>4, <2>3
<1> QED  BY <1>3, <1>4

\* The types of what the mapping makes of a state.
MappedTypesOK ==
    /\ bytesHad \in [FragKeys -> SUBSET (0 .. Longest - 1)]
    /\ lengthKnown \in [FragKeys -> 0 .. Longest]

LEMMA MappedTypes == ASSUME FragInv PROVE MappedTypesOK
<1> SUFFICES ASSUME NEW k \in FragKeys
             PROVE  /\ BytesOf(bufs[k]) \in SUBSET (0 .. Longest - 1)
                    /\ LengthOf(bufs[k]) \in 0 .. Longest
  BY DEF MappedTypesOK, bytesHad, lengthKnown
<1>1. BufferOK(k) /\ sent \in Seq(Datagrams)
  BY DEF FragInv, FragTypes
<1>2. CASE bufs[k] = NoBuffer
  BY <1>2, NothingKept, LongestFacts
<1>3. CASE bufs[k] # NoBuffer
  <2> DEFINE n == sent[bufs[k].no].len
  <2>1. Sound(bufs[k], n) /\ bufs[k].no \in 1 .. Len(sent)
    BY <1>1, <1>3 DEF BufferOK
  <2>2. sent[bufs[k].no] \in Datagrams
    BY <1>1, <2>1, ElementOfSeq
  <2>3. n \in Lengths
    BY <2>2 DEF Datagrams
  <2>4. n \in Nat /\ n <= Longest /\ Longest \in Nat
    BY <2>3, LongestFacts, FragAssumption
  <2> HIDE DEF n
  <2>5. BytesOf(bufs[k]) \subseteq 0 .. n - 1 /\ LengthOf(bufs[k]) \in {0, n}
    BY <2>1, <2>4, BytesOfFacts, LengthOfFacts
  <2> QED  BY <2>4, <2>5
<1> QED  BY <1>2, <1>3

LEMMA MappedInit == FragInit => Abstract!ReassemblyInit
<1> SUFFICES ASSUME FragInit PROVE Abstract!ReassemblyInit
  OBVIOUS
<1>1. \A k \in FragKeys : BytesOf(bufs[k]) = {} /\ LengthOf(bufs[k]) = 0
  BY NothingKept DEF FragInit
<1>2. completed = {}
  BY DEF completed, FragInit
<1> QED  BY <1>1, <1>2 DEF Abstract!ReassemblyInit, bytesHad, lengthKnown

\* A step that leaves the mapped variables alone.
MappedUnchanged == UNCHANGED <<bytesHad, lengthKnown, completed>>

LEMMA UnmappedStep ==
    ASSUME UNCHANGED <<sent, bufs, delivered>> PROVE MappedUnchanged
<1>1. \A no : SentAs(no)' = SentAs(no)
  BY SameDatagrams
<1> QED  BY <1>1 DEF MappedUnchanged, bytesHad, lengthKnown, completed

LEMMA MappedSend ==
    ASSUME FragInv, NEW s \in Sources, NEW n \in Lengths, SendFragmented(s, n)
    PROVE  MappedUnchanged
<1>1. UNCHANGED <<bufs, delivered>>
  BY DEF SendFragmented
<1>2. \A d \in delivered : SentAs(d.no)' = SentAs(d.no)
  BY SendKeeps DEF FragInv
<1>3. completed' = completed
  BY <1>1, <1>2 DEF completed
<1> QED  BY <1>1, <1>3 DEF MappedUnchanged, bytesHad, lengthKnown

\* Ages are not mapped.
LEMMA MappedAge ==
    ASSUME FragInv, NEW k \in FragKeys, Age(k) PROVE MappedUnchanged
<1>1. UNCHANGED <<sent, delivered>>
  BY DEF Age
<1>2. bufs \in [FragKeys -> Buffers]
  BY DEF FragInv, FragTypes
<1>3. \A j \in FragKeys : bufs'[j].main = bufs[j].main
                          /\ bufs'[j].fragments = bufs[j].fragments
  <2> DEFINE older == IF bufs[k].age = "fresh" THEN "stale" ELSE "overdue"
             b == [bufs[k] EXCEPT !.age = older]
  <2>1. bufs' = [bufs EXCEPT ![k] = b]
    BY DEF Age
  <2>2. bufs[k] \in Buffers
    BY <1>2
  <2> HIDE DEF older
  <2>3. b.main = bufs[k].main /\ b.fragments = bufs[k].fragments
    BY <2>2 DEF Buffers
  <2> HIDE DEF b
  <2> QED  BY <1>2, <2>1, <2>3
<1>4. \A b, c : b.main = c.main /\ b.fragments = c.fragments
                   => BytesOf(b) = BytesOf(c) /\ LengthOf(b) = LengthOf(c)
  <2> SUFFICES ASSUME NEW b, NEW c, b.main = c.main, b.fragments = c.fragments
               PROVE  BytesOf(b) = BytesOf(c) /\ LengthOf(b) = LengthOf(c)
    OBVIOUS
  <2>1. Regions(b) = Regions(c)
    BY DEF Regions
  <2>2. LastRegions(b) = LastRegions(c)
    BY <2>1 DEF LastRegions
  <2> QED  BY <2>1, <2>2 DEF BytesOf, LengthOf
<1>5. \A j \in FragKeys : /\ BytesOf(bufs'[j]) = BytesOf(bufs[j])
                          /\ LengthOf(bufs'[j]) = LengthOf(bufs[j])
  BY <1>3, <1>4
<1>6. completed' = completed
  BY <1>1, SameDatagrams DEF completed
<1> QED  BY <1>5, <1>6 DEF MappedUnchanged, bytesHad, lengthKnown, FragKeys

LEMMA CompletedGrows ==
    ASSUME UNCHANGED sent, NEW no, NEW n, NEW from,
           delivered' = delivered \cup {[no |-> no, len |-> n, from |-> from]}
    PROVE  completed' = completed \cup {<<SentAs(no), n>>}
<1> DEFINE x == [no |-> no, len |-> n, from |-> from]
           pair(d) == <<SentAs(d.no), d.len>>
<1>1. completed = {pair(d) : d \in delivered}
  BY DEF completed
<1>2. completed' = {pair(d) : d \in delivered'}
  <2>1. \A i : SentAs(i)' = SentAs(i)
    BY SameDatagrams
  <2> QED  BY <2>1 DEF completed
<1>3. x.no = no /\ x.len = n
  OBVIOUS
<1>4. delivered' = delivered \cup {x}
  OBVIOUS
<1> HIDE DEF x
<1>5. pair(x) = <<SentAs(no), n>>
  BY <1>3
<1> HIDE DEF pair
<1> QED  BY <1>1, <1>2, <1>4, <1>5

\* What arrives in one piece is handed over as it is.
LEMMA MappedDatagram ==
    ASSUME FragInv, NEW f \in transit, DatagramArrives(f)
    PROVE  \E k \in FragKeys, e \in 1 .. Longest : Abstract!WholeArrival(k, e)
<1>1. /\ f.no \in 1 .. Len(sent) /\ f.beg \in Nat /\ f.end \in Nat /\ f.beg < f.end
      /\ f.end <= sent[f.no].len /\ sent[f.no].len \in Lengths
      /\ KeyOf(f) \in FragKeys /\ SentAs(f.no) = KeyOf(f)
  BY PacketFacts
<1>2. f.end \in 1 .. Longest
  BY <1>1, LongestFacts, FragAssumption
<1>3. /\ UNCHANGED <<sent, bufs>>
      /\ delivered' = delivered \cup {[no |-> f.no, len |-> f.end, from |-> {f.no}]}
  BY DEF DatagramArrives, Deliver
<1>4. completed' = completed \cup {<<KeyOf(f), f.end>>}
  <2>1. completed' = completed \cup {<<SentAs(f.no), f.end>>}
    BY <1>3, CompletedGrows
  <2> QED  BY <1>1, <2>1
<1>5. UNCHANGED <<bytesHad, lengthKnown>>
  BY <1>3 DEF bytesHad, lengthKnown
<1> QED  BY <1>1, <1>2, <1>4, <1>5 DEF Abstract!WholeArrival

\* A fragment arrives: the other buffers are kept or purged, its own takes its
\* bytes, after a purge or not.
LEMMA MappedArrives ==
    ASSUME FragInv, MappedTypesOK', NEW f \in transit, NEW due \in BOOLEAN,
           FragmentArrives(f, due)
    PROVE  \E k \in FragKeys, e \in 1 .. Longest :
              \E b \in 0 .. e - 1, islast \in BOOLEAN :
                 Abstract!FragmentArrival(k, b, e, islast)
<1> DEFINE k == KeyOf(f)
           n == sent[f.no].len
           old == Found(f, due)
           buf == addFragment(Found(f, due), f)
           islast == ~ f.more
           h == BytesOf(old) \cup f.beg .. f.end - 1
           len == IF islast THEN f.end ELSE LengthOf(old)
<1>1. /\ f.no \in 1 .. Len(sent) /\ f.beg \in Nat /\ f.end \in Nat /\ f.beg < f.end
      /\ f.more \in BOOLEAN /\ f.end <= n /\ (f.more <=> f.end # n)
      /\ n \in Lengths /\ n \in Nat \ {0}
      /\ k \in FragKeys /\ SentAs(f.no) = k
  BY PacketFacts
<1>2. f.end \in 1 .. Longest /\ f.beg \in 0 .. f.end - 1 /\ islast \in BOOLEAN
  BY <1>1, LongestFacts, FragAssumption
<1>3. f.at = "dest" /\ UNCHANGED sent
  BY DEF FragmentArrives
<1>4. /\ buf.no = f.no /\ buf.from = {f.no} /\ Sound(buf, n) /\ Gaps(buf)
      /\ \A x : Has(buf, x) <=> Has(old, x) \/ x \in f.beg .. f.end - 1
      /\ Knows(buf) <=> Knows(old) \/ ~ f.more
  BY <1>3, AddFacts
<1>5. Sound(old, n)
  BY FoundFacts
<1>6. /\ bufs' = [j \in FragKeys |->
                    IF j = k THEN IF Done(buf) THEN NoBuffer ELSE buf
                    ELSE IF j \in Purged(due) THEN NoBuffer ELSE bufs[j]]
      /\ IF Done(buf) THEN Deliver(buf.no, buf.main.end, buf.from)
                      ELSE UNCHANGED delivered
  BY DEF FragmentArrives, ReassembleFragment, Found, Done
<1> HIDE DEF buf, old
<1>7. BytesOf(buf) = h
  BY <1>4, BytesOfIsHas
<1>8. LengthOf(buf) = len
  <2>1. LengthOf(buf) = (IF Knows(buf) THEN n ELSE 0)
        /\ LengthOf(old) = (IF Knows(old) THEN n ELSE 0)
    BY <1>1, <1>4, <1>5, LengthOfFacts
  <2>2. Knows(buf) <=> Knows(old) \/ islast
    BY <1>4
  <2>3. islast => f.end = n
    BY <1>1
  <2> QED  BY <2>1, <2>2, <2>3
<1>9. Done(buf) <=> len # 0 /\ h = 0 .. len - 1
  BY <1>1, <1>4, <1>7, <1>8, DoneIsComplete
<1>10. \A j \in FragKeys \ {k} :
           \/ bytesHad'[j] = {} /\ lengthKnown'[j] = 0
           \/ bytesHad'[j] = bytesHad[j] /\ lengthKnown'[j] = lengthKnown[j]
  <2> SUFFICES ASSUME NEW j \in FragKeys, j # k
               PROVE  \/ bytesHad'[j] = {} /\ lengthKnown'[j] = 0
                      \/ bytesHad'[j] = bytesHad[j] /\ lengthKnown'[j] = lengthKnown[j]
    OBVIOUS
  <2>1. bufs'[j] = NoBuffer \/ bufs'[j] = bufs[j]
    BY <1>6
  <2>2. /\ bytesHad'[j] = BytesOf(bufs'[j]) /\ bytesHad[j] = BytesOf(bufs[j])
        /\ lengthKnown'[j] = LengthOf(bufs'[j]) /\ lengthKnown[j] = LengthOf(bufs[j])
    BY DEF bytesHad, lengthKnown, FragKeys
  <2> QED  BY <2>1, <2>2, NothingKept
<1>11. \/ BytesOf(old) = bytesHad[k] /\ LengthOf(old) = lengthKnown[k]
       \/ BytesOf(old) = {} /\ LengthOf(old) = 0
  BY <1>1, NothingKept DEF old, Found, bytesHad, lengthKnown
<1>12. bytesHad'[k] = BytesOf(bufs'[k]) /\ lengthKnown'[k] = LengthOf(bufs'[k])
  BY <1>1 DEF bytesHad, lengthKnown, FragKeys
<1>13. bufs'[k] = IF Done(buf) THEN NoBuffer ELSE buf
  BY <1>1, <1>6
<1>14. CASE Done(buf)
  <2>1. bytesHad'[k] = {} /\ lengthKnown'[k] = 0
    BY <1>12, <1>13, <1>14, NothingKept
  <2>2. buf.main.end = n /\ len = n
    <3>1. buf.main.end = n
      BY <1>4, <1>14 DEF Done, Sound, PartOf
    <3>2. Knows(buf)
      BY <1>14 DEF Done, Knows
    <3> QED  BY <1>1, <1>4, <1>8, <3>1, <3>2, LengthOfFacts
  <2>3. delivered' = delivered \cup {[no |-> f.no, len |-> len, from |-> {f.no}]}
    BY <1>4, <1>6, <1>14, <2>2 DEF Deliver
  <2>4. completed' = completed \cup {<<k, len>>}
    <3>1. completed' = completed \cup {<<SentAs(f.no), len>>}
      BY <1>3, <2>3, CompletedGrows
    <3> QED  BY <1>1, <3>1
  <2> HIDE DEF h, len, k
  <2>5. Abstract!Arrival(k, BytesOf(old), LengthOf(old), f.beg, f.end, islast)
    BY <1>9, <1>14, <2>1, <2>4 DEF Abstract!Arrival, h, len
  <2> HIDE DEF islast
  <2>6. \/ Abstract!Arrival(k, bytesHad[k], lengthKnown[k], f.beg, f.end, islast)
        \/ Abstract!Arrival(k, {}, 0, f.beg, f.end, islast)
    BY <1>11, <2>5
  <2>7. Abstract!FragmentArrival(k, f.beg, f.end, islast)
    BY <1>10, <2>6 DEF Abstract!FragmentArrival, Abstract!ForgottenOrKept, MappedTypesOK
  <2> QED  BY <1>1, <1>2, <2>7
<1>15. CASE ~ Done(buf)
  <2>1. bytesHad'[k] = h /\ lengthKnown'[k] = len
    BY <1>7, <1>8, <1>12, <1>13, <1>15
  <2>2. completed' = completed
    <3>1. \A no : SentAs(no)' = SentAs(no)
      BY <1>3, SameDatagrams
    <3>2. delivered' = delivered
      BY <1>6, <1>15
    <3> QED  BY <3>1, <3>2 DEF completed
  <2> HIDE DEF h, len, k
  <2>3. Abstract!Arrival(k, BytesOf(old), LengthOf(old), f.beg, f.end, islast)
    BY <1>9, <1>15, <2>1, <2>2 DEF Abstract!Arrival, h, len
  <2> HIDE DEF islast
  <2>4. \/ Abstract!Arrival(k, bytesHad[k], lengthKnown[k], f.beg, f.end, islast)
        \/ Abstract!Arrival(k, {}, 0, f.beg, f.end, islast)
    BY <1>11, <2>3
  <2>5. Abstract!FragmentArrival(k, f.beg, f.end, islast)
    BY <1>10, <2>4 DEF Abstract!FragmentArrival, Abstract!ForgottenOrKept, MappedTypesOK
  <2> QED  BY <1>1, <1>2, <2>5
<1> QED  BY <1>14, <1>15

LEMMA MappedNext ==
    FragInv /\ MappedTypesOK' /\ [FragNext]_fragVars
        => [Abstract!ReassemblyNext]_Abstract!reassemblyVars
<1> SUFFICES ASSUME FragInv, MappedTypesOK', [FragNext]_fragVars,
                    ~ UNCHANGED Abstract!reassemblyVars
             PROVE  Abstract!ReassemblyNext
  OBVIOUS
<1>0. ~ MappedUnchanged
  BY DEF MappedUnchanged, Abstract!reassemblyVars
<1>1. ASSUME NEW s \in Sources, NEW n \in Lengths, SendFragmented(s, n) PROVE FALSE
  BY <1>0, <1>1, MappedSend
<1>2. ASSUME NEW f \in transit, NEW mtu \in RouterMtus, Forward(f, mtu) PROVE FALSE
  BY <1>0, <1>2, UnmappedStep DEF Forward
<1>3. ASSUME NEW f \in transit, LoseFragment(f) PROVE FALSE
  BY <1>0, <1>3, UnmappedStep DEF LoseFragment
<1>4. ASSUME NEW f \in transit, NEW due \in BOOLEAN, FragmentArrives(f, due)
      PROVE  Abstract!ReassemblyNext
  <2>1. \E k \in FragKeys, e \in 1 .. Longest :
           \E b \in 0 .. e - 1, islast \in BOOLEAN :
              Abstract!FragmentArrival(k, b, e, islast)
    BY <1>4, MappedArrives
  <2> QED  BY <2>1 DEF Abstract!ReassemblyNext
<1>5. ASSUME NEW f \in transit, DatagramArrives(f) PROVE Abstract!ReassemblyNext
  <2>1. \E k \in FragKeys, e \in 1 .. Longest : Abstract!WholeArrival(k, e)
    BY <1>5, MappedDatagram
  <2> QED  BY <2>1 DEF Abstract!ReassemblyNext
<1>6. ASSUME NEW k \in FragKeys, Age(k) PROVE FALSE
  BY <1>0, <1>6, MappedAge
<1>7. CASE UNCHANGED fragVars
  BY <1>0, <1>7, UnmappedStep DEF fragVars
<1> QED  BY <1>1, <1>2, <1>3, <1>4, <1>5, <1>6, <1>7 DEF FragNext

\* The region lists of ReassemblyBuffer implement the set of bytes of the
\* abstract buffer: a datagram is handed over by the fragment that completes it,
\* in whatever order, how often and from how many senders fragments come.
THEOREM FragmentsImplementReassembly == FragSpec => ReassemblyImplemented
<1>1. FragInit => Abstract!ReassemblyInit
  BY MappedInit
<1>2. FragInv => MappedTypesOK
  BY MappedTypes
<1>3. FragInv /\ MappedTypesOK' /\ [FragNext]_fragVars
         => [Abstract!ReassemblyNext]_Abstract!reassemblyVars
  BY MappedNext
<1> QED  BY <1>1, <1>2, <1>3, FragInvariant, PTL
         DEF FragSpec, ReassemblyImplemented, Abstract!ReassemblySpec

=============================================================================
