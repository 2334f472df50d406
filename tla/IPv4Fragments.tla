---------------------------- MODULE IPv4Fragments ----------------------------
(***************************************************************************)
(* Fragmentation and reassembly of IPv4 datagrams: fragmentAndSend() and   *)
(* reassembleAndDeliver() of networklayer/ipv4/IPv4.cc, the buffers of     *)
(* IPv4FragBuf.cc and the region list of base/ReassemblyBuffer.cc.         *)
(*                                                                         *)
(* Sources send datagrams to one destination.  A router on the way may cut *)
(* fragments again.  Fragments are lost, reordered and delivered twice.    *)
(* Identifications are few and are used again.                             *)
(***************************************************************************)
EXTENDS Naturals, SequencesExt

CONSTANTS
    Sources,        \* source addresses
    Ids,            \* number of identifications: 2^16 in the code
    Lengths,        \* bound: payload lengths of the datagrams sent
    MaxDatagrams,   \* bound: datagrams sent
    Unit,           \* fragment offsets are multiples of it: 8 in the code
    SourceMtu,      \* payload bytes per packet on the source's link
    RouterMtus,     \* the same for the router's links
    MaxDuplicates   \* bound: fragments the network delivers once more

\* A packet is cut only where a unit fits: fragmentAndSend() throws otherwise.
ASSUME FragAssumption ==
    /\ Ids \in Nat \ {0} /\ Unit \in Nat \ {0}
    /\ MaxDatagrams \in Nat /\ MaxDuplicates \in Nat
    /\ \A mtu \in RouterMtus \cup {SourceMtu} : mtu \in Nat /\ mtu >= Unit
    /\ Lengths \subseteq Nat \ {0}
    /\ \E n \in Lengths : \A m \in Lengths : m <= n

VARIABLES
    curFragmentId,  \* the next identification of each source
    sent,           \* datagrams sent so far: source, identification and length
    transit,        \* fragments on the way
    bufs,           \* the destination's buffers by key
    delivered,      \* datagrams handed to the transport layer
    duplicates      \* number of fragments delivered once more (bound)

fragVars == <<curFragmentId, sent, transit, bufs, delivered,
              duplicates>>

\* IPv4FragBuf::Key, the destination being fixed.
FragKeys == [src : Sources, id : 0 .. Ids - 1]
KeyOf(f) == [src |-> sent[f.no].src, id |-> f.id]
SentAs(no) == [src |-> sent[no].src, id |-> sent[no].id]

\* A buffer: main and fragments of ReassemblyBuffer; no, the datagram whose
\* packet it keeps; from, the datagrams whose fragments it took (history); age
\* of lastupdate: fresh, older than fragmentTimeout ("stale"), or older than
\* that and the ten seconds between two checks ("overdue").
NoBuffer  == [main |-> [beg |-> 0, end |-> 0, islast |-> FALSE],
              fragments |-> <<>>, no |-> 0, from |-> {}, age |-> "none"]

FragInit ==
    /\ curFragmentId = [s \in Sources |-> 0]
    /\ sent = <<>>
    /\ transit = {}
    /\ bufs = [k \in FragKeys |-> NoBuffer]
    /\ delivered = {}
    /\ duplicates = 0

-----------------------------------------------------------------------------

\* fragmentAndSend(): the pieces of a packet with the bytes beg to end-1.  A
\* piece other than the last one has more fragments behind it; the last one has
\* if the packet had.
Cut(beg, end, more, mtu) ==
    LET n == (mtu \div Unit) * Unit
    IN  IF end - beg <= mtu
        THEN {[beg |-> beg, end |-> end, more |-> more]}
        ELSE {[beg |-> b, end |-> IF b + n >= end THEN end ELSE b + n,
               more |-> more \/ b + n < end] :
                 b \in {x \in beg .. end - 1 : (x - beg) % n = 0}}

Fragments(no, id, at, pieces) ==
    {[no |-> no, id |-> id, at |-> at, beg |-> p.beg, end |-> p.end,
      more |-> p.more] : p \in pieces}

\* A source may use an identification again when no fragment that carries it is
\* left on the way and the destination has not heard of it for the timeout.
Reusable(s, id) ==
    /\ \A f \in transit : KeyOf(f) # [src |-> s, id |-> id]
    /\ bufs[[src |-> s, id |-> id]].age \in {"none", "overdue"}

SendFragmented(s, n) ==
    /\ Len(sent) < MaxDatagrams
    /\ Reusable(s, curFragmentId[s])
    /\ sent' = Append(sent, [src |-> s, id |-> curFragmentId[s], len |-> n])
    /\ transit' = transit \cup Fragments(Len(sent) + 1, curFragmentId[s], "router",
                                         Cut(0, n, FALSE, SourceMtu))
    /\ curFragmentId' = [curFragmentId EXCEPT ![s] = (@ + 1) % Ids]
    /\ UNCHANGED <<bufs, delivered, duplicates>>

\* The router sends the packet on, over a link of its choice.
Forward(f, mtu) ==
    /\ f \in transit /\ f.at = "router"
    /\ transit' = (transit \ {f}) \cup
                  Fragments(f.no, f.id, "dest", Cut(f.beg, f.end, f.more, mtu))
    /\ UNCHANGED <<curFragmentId, sent, bufs, delivered, duplicates>>

LoseFragment(f) ==
    /\ f \in transit
    /\ transit' = transit \ {f}
    /\ UNCHANGED <<curFragmentId, sent, bufs, delivered, duplicates>>

-----------------------------------------------------------------------------

\* The region r touches main at its end or at its beginning.
Extend(main, r) ==
    IF r.beg = main.end
    THEN [main EXCEPT !.end = r.end, !.islast = @ \/ r.islast]
    ELSE IF r.end = main.beg THEN [main EXCEPT !.beg = r.beg]
    ELSE main

Touches(main, r) == r.beg = main.end \/ r.end = main.beg

Within(main, r) == main.beg <= r.beg /\ r.end <= main.end

BadMergeFragments(buf) == buf

\* The regions set aside that main touches or contains.
Hits(buf) == {j \in DOMAIN buf.fragments :
                 \/ Touches(buf.main, buf.fragments[j])
                 \/ Within(buf.main, buf.fragments[j])}

\* One round of the loop of mergeFragments(): main takes up the first of them if
\* they touch, and drops it otherwise.
MergeOne(buf) ==
    LET j == CHOOSE x \in Hits(buf) : \A y \in Hits(buf) : x <= y
    IN  IF Hits(buf) = {} THEN buf
        ELSE [buf EXCEPT !.main = Extend(@, buf.fragments[j]),
                         !.fragments = RemoveAt(@, j)]

\* mergeFragments(): until there is none left.
mergeFragments(buf) ==
    LET Round[i \in 0 .. Len(buf.fragments)] ==
            IF i = 0 THEN buf ELSE MergeOne(Round[i-1])
    IN  Round[Len(buf.fragments)]

\* merge(): the region extends main, or is disjoint and set aside, or is
\* already there ("overlapping is not possible").
merge(buf, r) ==
    IF Touches(buf.main, r)
    THEN mergeFragments([buf EXCEPT !.main = Extend(@, r)])
    ELSE IF buf.main.end < r.beg \/ buf.main.beg > r.end
    THEN [buf EXCEPT !.fragments = Append(@, r)]
    ELSE buf

\* addFragment(): the first fragment's packet is kept, it stands for all.
addFragment(buf, f) ==
    LET b == merge(buf, [beg |-> f.beg, end |-> f.end, islast |-> ~f.more])
    IN  [b EXCEPT !.no = IF @ = 0 THEN f.no ELSE @,
                  !.from = @ \cup {f.no}, !.age = "fresh"]

BadPurged(due) == {k \in FragKeys : due /\ bufs[k].age = "fresh"}

\* purgeStaleFragments(), called at most every ten seconds (due): what is
\* overdue has missed no check.
Purged(due) ==
    {k \in FragKeys : bufs[k].age = "overdue" \/ (due /\ bufs[k].age = "stale")}

IsFragment(f) == f.beg # 0 \/ f.more

Deliver(no, n, from) == delivered' = delivered \cup
                           {[no |-> no, len |-> n, from |-> from]}

\* reassembleAndDeliver() for a fragment: purge, then add; a complete datagram
\* leaves the buffer.
ReassembleFragment(f, due) ==
    LET k    == KeyOf(f)
        buf  == addFragment(IF k \in Purged(due) THEN NoBuffer ELSE bufs[k], f)
        done == buf.main.beg = 0 /\ buf.main.islast
    IN  /\ bufs' = [j \in FragKeys |->
                       IF j = k THEN IF done THEN NoBuffer ELSE buf
                       ELSE IF j \in Purged(due) THEN NoBuffer ELSE bufs[j]]
        /\ IF done THEN Deliver(buf.no, buf.main.end, buf.from)
                   ELSE UNCHANGED delivered

Taken(f) ==
    \/ /\ transit' = transit \ {f}
       /\ UNCHANGED duplicates
    \/ /\ duplicates < MaxDuplicates
       /\ duplicates' = duplicates + 1
       /\ UNCHANGED transit

FragmentArrives(f, due) ==
    /\ f \in transit /\ f.at = "dest" /\ IsFragment(f)
    /\ ReassembleFragment(f, due)
    /\ Taken(f)
    /\ UNCHANGED <<curFragmentId, sent>>

DatagramArrives(f) ==
    /\ f \in transit /\ f.at = "dest" /\ ~IsFragment(f)
    /\ Deliver(f.no, f.end, {f.no})
    /\ Taken(f)
    /\ UNCHANGED <<curFragmentId, sent, bufs>>

\* Time passes for a buffer that gets no fragment.
Age(k) ==
    /\ bufs[k].age \in {"fresh", "stale"}
    /\ bufs' = [bufs EXCEPT ![k].age = IF @ = "fresh" THEN "stale" ELSE "overdue"]
    /\ UNCHANGED <<curFragmentId, sent, transit, delivered, duplicates>>

FragNext ==
    \/ \E s \in Sources, n \in Lengths : SendFragmented(s, n)
    \/ \E f \in transit : \/ \E mtu \in RouterMtus : Forward(f, mtu)
                          \/ LoseFragment(f)
                          \/ \E due \in BOOLEAN : FragmentArrives(f, due)
                          \/ DatagramArrives(f)
    \/ \E k \in FragKeys : Age(k)

FragSpec == FragInit /\ [][FragNext]_fragVars

-----------------------------------------------------------------------------

\* What is delivered is a datagram that was sent, of its length, made of its
\* own fragments only, although identifications come back and other sources use
\* the same ones.
WholeDatagrams ==
    \A d \in delivered : d.from = {d.no} /\ d.len = sent[d.no].len

Bytes(r) == r.beg .. r.end - 1
Regions(buf) == {buf.main} \cup {buf.fragments[i] : i \in DOMAIN buf.fragments}
LastRegions(buf) == {r \in Regions(buf) : r.islast}

\* What a buffer stands for: bytes, and the datagram's length if it is known.
BytesOf(buf) == UNION {Bytes(r) : r \in Regions(buf)}
LengthOf(buf) == IF LastRegions(buf) = {} THEN 0
                 ELSE (CHOOSE r \in LastRegions(buf) : TRUE).end

Longest == CHOOSE n \in Lengths : \A m \in Lengths : m <= n
bytesHad == [k \in FragKeys |-> BytesOf(bufs[k])]
lengthKnown == [k \in FragKeys |-> LengthOf(bufs[k])]
completed == {<<SentAs(d.no), d.len>> : d \in delivered}

\* The region lists implement the reassembly buffer of the abstract module: what
\* they stand for is the set of bytes that arrived, and a datagram is handed over
\* by the very fragment that completes it, in whatever order fragments come.
Abstract == INSTANCE Reassembly WITH
    Keys <- FragKeys, MaxLength <- Longest,
    have <- bytesHad, length <- lengthKnown, complete <- completed

ReassemblyImplemented == Abstract!ReassemblySpec

=============================================================================
