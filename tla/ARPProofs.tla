------------------------------ MODULE ARPProofs ------------------------------
(***************************************************************************)
(* What address resolution keeps for ever, for any number of stations,     *)
(* addresses, proxies, retries, packets and crashes.                       *)
(*                                                                         *)
(* The properties of module ARP are strengthened until a step keeps them:  *)
(* a station that is down has an empty cache (TablesInv); a frame on its   *)
(* way says of its sender's address only what the sender answers for       *)
(* (OwnersInv); and the packets sent to a next hop, followed by those that *)
(* wait for it, are one ascending queue, which an answer moves from the    *)
(* second part to the first as a whole (QueueInv).                         *)
(***************************************************************************)
EXTENDS ARP, SequenceTheorems, TLAPS

USE ARPAssumption

Ascending(s) == \A i, j \in DOMAIN s : i < j => s[i] < s[j]
UpTo(s, n)   == \A i \in DOMAIN s : s[i] <= n

Queue(h, a) == onWire[h][a] \o pendingPackets[h][a]

DownIsEmpty ==
    \A h \in Stations : ~isUp[h] =>
        \A a \in Addresses : arpCache[h][a].st = "absent"

FramesTrue == \A f \in frames : addressRecognized(f.srcMAC, f.srcIP)

QueuesAscend ==
    \A h \in Stations : \A a \in Addresses :
        Ascending(Queue(h, a)) /\ UpTo(Queue(h, a), packets[h])

TablesInv == ARPTypeOK /\ WaitingMeansAsking /\ DownIsEmpty
OwnersInv == ARPTypeOK /\ FramesTrue /\ ResolvedToOwner
QueueInv  == TablesInv /\ QueuesAscend

-----------------------------------------------------------------------------
\* Sequences.

LEMMA PrefixAscends ==
    ASSUME NEW s \in Seq(Nat), NEW t \in Seq(Nat), NEW n \in Nat,
           Ascending(s \o t), UpTo(s \o t, n)
    PROVE  Ascending(s) /\ UpTo(s, n)
<1>1. \A i \in DOMAIN s : i \in DOMAIN (s \o t) /\ (s \o t)[i] = s[i]
  OBVIOUS
<1> QED  BY <1>1 DEF Ascending, UpTo

LEMMA AppendAscends ==
    ASSUME NEW s \in Seq(Nat), NEW n \in Nat, Ascending(s), UpTo(s, n)
    PROVE  Ascending(Append(s, n + 1)) /\ UpTo(Append(s, n + 1), n + 1)
<1> DEFINE u == Append(s, n + 1)
<1>1. /\ DOMAIN u = 1 .. Len(s) + 1 /\ DOMAIN s = 1 .. Len(s) /\ Len(s) \in Nat
      /\ u[Len(s) + 1] = n + 1
      /\ \A i \in 1 .. Len(s) : u[i] = s[i] /\ s[i] \in Nat /\ s[i] <= n
  BY DEF UpTo
<1> HIDE DEF u
<1>2. UpTo(u, n + 1)
  BY <1>1 DEF UpTo
<1>3. Ascending(u)
  <2> SUFFICES ASSUME NEW i \in DOMAIN u, NEW j \in DOMAIN u, i < j
               PROVE  u[i] < u[j]
    BY DEF Ascending
  <2>1. CASE j \in 1 .. Len(s)
    BY <1>1, <2>1 DEF Ascending
  <2>2. CASE j = Len(s) + 1
    BY <1>1, <2>2
  <2> QED  BY <1>1, <2>1, <2>2
<1> QED  BY <1>2, <1>3 DEF u

LEMMA ConcatAppend ==
    ASSUME NEW S, NEW s \in Seq(S), NEW t \in Seq(S), NEW e \in S
    PROVE  s \o Append(t, e) = Append(s \o t, e)
OBVIOUS

LEMMA ConcatEmpty ==
    ASSUME NEW S, NEW s \in Seq(S)
    PROVE  s \o <<>> = s
OBVIOUS

-----------------------------------------------------------------------------
\* Types.

LEMMA EntryTypes ==
    /\ Absent \in Entries /\ Initiated \in Entries
    /\ \A mac \in Stations : Updated(mac) \in Entries
    /\ \A h \in Stations, a \in Addresses : ARPRequests(h, a) \subseteq ARPFrames
    /\ \A h \in Stations : \A f \in ARPFrames : Reply(h, f) \in ARPFrames
<1>1. 0 \in 0 .. RetryCount - 1
  OBVIOUS
<1>2. Absent \in Entries
  BY <1>1 DEF Absent, Entries
<1>3. Initiated \in Entries
  BY <1>2 DEF Initiated, Entries, Absent
<1>4. ASSUME NEW mac \in Stations PROVE Updated(mac) \in Entries
  BY <1>2 DEF Updated, Entries, Absent
<1>5. ASSUME NEW h \in Stations, NEW a \in Addresses
      PROVE  ARPRequests(h, a) \subseteq ARPFrames
  BY DEF ARPRequests, ARPFrames, Addresses
<1>6. ASSUME NEW h \in Stations, NEW f \in ARPFrames PROVE Reply(h, f) \in ARPFrames
  BY DEF Reply, ARPFrames, Addresses
<1> QED  BY <1>2, <1>3, <1>4, <1>5, <1>6

LEMMA EntryReplaced ==
    ASSUME ARPTypeOK, NEW h \in Stations, NEW a \in Addresses, NEW e \in Entries
    PROVE  [arpCache EXCEPT ![h][a] = e] \in [Stations -> [Addresses -> Entries]]
BY DEF ARPTypeOK

LEMMA CompletedType ==
    ASSUME ARPTypeOK, NEW h \in Stations, NEW a \in Addresses,
           arpResolutionCompleted(h, a)
    PROVE  /\ pendingPackets' \in [Stations -> [Addresses -> Seq(1 .. MaxPackets)]]
           /\ onWire' \in [Stations -> [Addresses -> Seq(1 .. MaxPackets)]]
<1>1. onWire[h][a] \o pendingPackets[h][a] \in Seq(1 .. MaxPackets)
  BY DEF ARPTypeOK
<1>2. <<>> \in Seq(1 .. MaxPackets)
  OBVIOUS
<1> QED  BY <1>1, <1>2 DEF ARPTypeOK, arpResolutionCompleted

LEMMA TypeStep == ARPTypeOK /\ [ARPNext]_arpVars => ARPTypeOK'
<1> SUFFICES ASSUME ARPTypeOK, [ARPNext]_arpVars PROVE ARPTypeOK'
  OBVIOUS
<1>1. ASSUME NEW h \in Stations, NEW a \in Addresses, SendDatagram(h, a)
      PROVE  ARPTypeOK'
  <2>1. packets' \in [Stations -> 0 .. MaxPackets] /\ packets'[h] \in 1 .. MaxPackets
    BY <1>1 DEF SendDatagram, ARPTypeOK
  <2>2. CASE Wait(h, a)
    <3>1. Append(pendingPackets[h][a], packets'[h]) \in Seq(1 .. MaxPackets)
      BY <2>1 DEF ARPTypeOK
    <3>2. pendingPackets' \in [Stations -> [Addresses -> Seq(1 .. MaxPackets)]]
      BY <2>2, <3>1 DEF Wait, ARPTypeOK
    <3>3. /\ arpCache' \in [Stations -> [Addresses -> Entries]]
          /\ frames' \subseteq ARPFrames
      <4>1. CASE arpCache[h][a].st = "pending"
        BY <2>2, <4>1 DEF Wait, ARPTypeOK
      <4>2. CASE arpCache[h][a].st # "pending"
        <5>1. arpCache' = [arpCache EXCEPT ![h][a] = Initiated]
          BY <2>2, <4>2 DEF Wait
        <5>2. frames' = frames \cup ARPRequests(h, a)
          BY <2>2, <4>2 DEF Wait
        <5> QED  BY <5>1, <5>2, EntryTypes, EntryReplaced DEF ARPTypeOK
      <4> QED  BY <4>1, <4>2
    <3> QED  BY <1>1, <2>1, <2>2, <3>2, <3>3 DEF SendDatagram, Wait, ARPTypeOK
  <2>3. CASE SendNow(h, a)
    <3>1. Append(onWire[h][a], packets'[h]) \in Seq(1 .. MaxPackets)
      BY <2>1 DEF ARPTypeOK
    <3> QED  BY <1>1, <2>1, <2>3, <3>1 DEF SendDatagram, SendNow, ARPTypeOK
  <2> QED  BY <1>1, <2>2, <2>3 DEF SendDatagram
<1>2. ASSUME NEW h \in Stations, NEW a \in Addresses, RequestTimedOut(h, a)
      PROVE  ARPTypeOK'
  <2>1. CASE Retry(h, a) /\ MoreRetries(h, a)
    <3>1. arpCache[h][a] \in Entries
      BY DEF ARPTypeOK
    <3>2. [arpCache[h][a] EXCEPT !.numRetries = @ + 1] \in Entries
      BY <2>1, <3>1 DEF MoreRetries, Entries
    <3>3. arpCache' \in [Stations -> [Addresses -> Entries]]
      BY <2>1, <3>2 DEF Retry, ARPTypeOK
    <3> QED  BY <1>2, <2>1, <3>3, EntryTypes DEF RequestTimedOut, Retry, ARPTypeOK
  <2>2. CASE GiveUp(h, a)
    <3>1. arpCache' \in [Stations -> [Addresses -> Entries]]
      BY <2>2, EntryTypes, EntryReplaced DEF GiveUp
    <3>2. pendingPackets' \in [Stations -> [Addresses -> Seq(1 .. MaxPackets)]]
      BY <2>2 DEF GiveUp, ARPTypeOK
    <3> QED  BY <1>2, <2>2, <3>1, <3>2 DEF RequestTimedOut, GiveUp, ARPTypeOK
  <2> QED  BY <1>2, <2>1, <2>2 DEF RequestTimedOut
<1>3. ASSUME NEW h \in Stations, NEW a \in Addresses, EntryExpires(h, a)
      PROVE  ARPTypeOK'
  <2>1. arpCache[h][a] \in Entries
    BY DEF ARPTypeOK
  <2>2. [arpCache[h][a] EXCEPT !.fresh = FALSE] \in Entries
    BY <2>1 DEF Entries
  <2> QED  BY <1>3, <2>2 DEF EntryExpires, ARPTypeOK
<1>4. ASSUME NEW h \in Stations, NEW f \in frames, FrameArrives(h, f)
      PROVE  ARPTypeOK'
  <2>1. f \in ARPFrames /\ f.srcIP \in Addresses /\ f.srcMAC \in Stations
    BY DEF ARPTypeOK, ARPFrames
  <2>2. CASE isUp[h]
    <3>1. frames' \subseteq ARPFrames
      BY <1>4, <2>1, <2>2, EntryTypes DEF FrameArrives, ProcessARPPacket, ARPTypeOK
    <3>2. /\ arpCache' \in [Stations -> [Addresses -> Entries]]
          /\ pendingPackets' \in [Stations -> [Addresses -> Seq(1 .. MaxPackets)]]
          /\ onWire' \in [Stations -> [Addresses -> Seq(1 .. MaxPackets)]]
      <4>1. ProcessARPPacket(h, f)
        BY <1>4, <2>2 DEF FrameArrives
      <4>2. CASE UNCHANGED <<arpCache, pendingPackets, onWire>>
        BY <4>2 DEF ARPTypeOK
      <4>3. CASE /\ arpCache' = [arpCache EXCEPT ![h][f.srcIP] = Updated(f.srcMAC)]
                 /\ arpResolutionCompleted(h, f.srcIP)
        BY <2>1, <4>3, EntryTypes, EntryReplaced, CompletedType
      <4> QED  BY <4>1, <4>2, <4>3 DEF ProcessARPPacket
    <3> QED  BY <1>4, <3>1, <3>2 DEF FrameArrives, ARPTypeOK
  <2>3. CASE ~isUp[h]
    BY <1>4, <2>3 DEF FrameArrives, ARPTypeOK
  <2> QED  BY <2>2, <2>3
<1>5. ASSUME NEW h \in Stations, Stop(h) PROVE ARPTypeOK'
  <2>1. [a \in Addresses |-> Absent] \in [Addresses -> Entries]
    BY EntryTypes
  <2>2. [a \in Addresses |-> <<>>] \in [Addresses -> Seq(1 .. MaxPackets)]
    OBVIOUS
  <2> QED  BY <1>5, <2>1, <2>2 DEF Stop, ARPTypeOK
<1>6. ASSUME NEW h \in Stations, Start(h) PROVE ARPTypeOK'
  <2>1. arpFault' \in BOOLEAN
    BY <1>6 DEF Start, ARPTypeOK
  <2> QED  BY <1>6, <2>1 DEF Start, ARPTypeOK
<1>7. ASSUME NEW f \in frames, LoseFrame(f) PROVE ARPTypeOK'
  BY <1>7 DEF LoseFrame, ARPTypeOK
<1>8. CASE UNCHANGED arpVars
  BY <1>8 DEF arpVars, ARPTypeOK
<1>9. CASE ARPNext
  <2>1. CASE \E h \in Stations : \E a \in Addresses :
                SendDatagram(h, a) \/ RequestTimedOut(h, a) \/ EntryExpires(h, a)
    BY <1>1, <1>2, <1>3, <2>1
  <2>2. CASE \E h \in Stations : \E f \in frames : FrameArrives(h, f)
    BY <1>4, <2>2
  <2>3. CASE \E h \in Stations : Stop(h) \/ Start(h)
    BY <1>5, <1>6, <2>3
  <2>4. CASE \E f \in frames : LoseFrame(f)
    BY <1>7, <2>4
  <2> QED  BY <1>9, <2>1, <2>2, <2>3, <2>4 DEF ARPNext
<1> QED  BY <1>8, <1>9

LEMMA TypeInit == ARPInit => ARPTypeOK
<1> SUFFICES ASSUME ARPInit PROVE ARPTypeOK
  OBVIOUS
<1>1. arpCache \in [Stations -> [Addresses -> Entries]]
  BY EntryTypes DEF ARPInit
<1>2. /\ pendingPackets \in [Stations -> [Addresses -> Seq(1 .. MaxPackets)]]
      /\ onWire \in [Stations -> [Addresses -> Seq(1 .. MaxPackets)]]
  BY DEF ARPInit
<1>3. /\ packets \in [Stations -> 0 .. MaxPackets] /\ crashes \in 0 .. MaxCrashes
      /\ isUp \in [Stations -> BOOLEAN] /\ arpFault \in BOOLEAN
      /\ frames \subseteq ARPFrames
  <2>1. 0 \in 0 .. MaxPackets /\ 0 \in 0 .. MaxCrashes
    OBVIOUS
  <2>2. frames \subseteq ARPFrames
    BY DEF ARPInit
  <2> QED  BY <2>1, <2>2 DEF ARPInit
<1> QED  BY <1>1, <1>2, <1>3 DEF ARPTypeOK

\* ARP and IPv4 keep their tables in shape whatever arrives, expires or stops.
THEOREM ARPTypeCorrect == ARPSpec => []ARPTypeOK
BY TypeInit, TypeStep, PTL DEF ARPSpec

-----------------------------------------------------------------------------
\* The tables of ARP and IPv4.

LEMMA TablesInit == ARPInit => TablesInv
BY TypeInit DEF ARPInit, TablesInv, WaitingMeansAsking, DownIsEmpty, Absent

\* What one station does to its entry for one address leaves the others alone.
LEMMA OneEntry ==
    ASSUME ARPTypeOK, WaitingMeansAsking, DownIsEmpty,
           NEW h \in Stations, NEW a \in Addresses, isUp' = isUp, isUp[h],
           NEW e, arpCache' = [arpCache EXCEPT ![h][a] = e],
           NEW q, pendingPackets' = [pendingPackets EXCEPT ![h][a] = q],
           q # <<>> => e.st = "pending",
           e.st = "pending" <=> e.timer
    PROVE  WaitingMeansAsking' /\ DownIsEmpty'
<1>1. \A g \in Stations : \A b \in Addresses :
         /\ arpCache'[g][b] = IF g = h /\ b = a THEN e ELSE arpCache[g][b]
         /\ pendingPackets'[g][b] = IF g = h /\ b = a THEN q ELSE pendingPackets[g][b]
  BY DEF ARPTypeOK
<1>2. WaitingMeansAsking'
  BY <1>1 DEF WaitingMeansAsking
<1>3. DownIsEmpty'
  BY <1>1 DEF DownIsEmpty
<1> QED  BY <1>2, <1>3

\* A timer that runs belongs to a request, and so to a station that is up.
LEMMA PendingIsUp ==
    ASSUME TablesInv, NEW h \in Stations, NEW a \in Addresses,
           arpCache[h][a].timer
    PROVE  isUp[h] /\ arpCache[h][a].st = "pending"
BY DEF TablesInv, WaitingMeansAsking

LEMMA SameEntry ==
    ASSUME ARPTypeOK, NEW h \in Stations, NEW a \in Addresses
    PROVE  /\ arpCache = [arpCache EXCEPT ![h][a] = arpCache[h][a]]
           /\ pendingPackets = [pendingPackets EXCEPT ![h][a] = pendingPackets[h][a]]
BY DEF ARPTypeOK

LEMMA TablesStep == TablesInv /\ [ARPNext]_arpVars => TablesInv'
<1> SUFFICES ASSUME TablesInv, [ARPNext]_arpVars
             PROVE  WaitingMeansAsking' /\ DownIsEmpty'
  BY TypeStep DEF TablesInv
<1> USE DEF TablesInv
<1>1. ASSUME NEW h \in Stations, NEW a \in Addresses, SendDatagram(h, a)
      PROVE  WaitingMeansAsking' /\ DownIsEmpty'
  <2>1. isUp' = isUp /\ isUp[h]
    BY <1>1 DEF SendDatagram
  <2>2. CASE Wait(h, a)
    <3> DEFINE q == Append(pendingPackets[h][a], packets'[h])
    <3>1. pendingPackets' = [pendingPackets EXCEPT ![h][a] = q]
      BY <2>2 DEF Wait
    <3>2. CASE arpCache[h][a].st = "pending"
      <4>1. arpCache' = [arpCache EXCEPT ![h][a] = arpCache[h][a]]
        BY <2>2, <3>2, SameEntry DEF Wait
      <4>2. arpCache[h][a].st = "pending" <=> arpCache[h][a].timer
        BY DEF WaitingMeansAsking
      <4> QED  BY <2>1, <3>1, <3>2, <4>1, <4>2, OneEntry
    <3>3. CASE arpCache[h][a].st # "pending"
      <4>1. arpCache' = [arpCache EXCEPT ![h][a] = Initiated]
        BY <2>2, <3>3 DEF Wait
      <4>2. Initiated.st = "pending" /\ Initiated.timer = TRUE
        BY DEF Initiated, Absent
      <4> HIDE DEF q
      <4> QED  BY <2>1, <3>1, <4>1, <4>2, OneEntry
    <3> QED  BY <3>2, <3>3
  <2>3. CASE SendNow(h, a)
    BY <2>1, <2>3 DEF SendNow, WaitingMeansAsking, DownIsEmpty
  <2> QED  BY <1>1, <2>2, <2>3 DEF SendDatagram
<1>2. ASSUME NEW h \in Stations, NEW a \in Addresses, RequestTimedOut(h, a)
      PROVE  WaitingMeansAsking' /\ DownIsEmpty'
  <2>1. isUp' = isUp /\ isUp[h] /\ arpCache[h][a].st = "pending" /\ arpCache[h][a].timer
    BY <1>2, PendingIsUp DEF RequestTimedOut
  <2>2. CASE Retry(h, a)
    <3> DEFINE e == [arpCache[h][a] EXCEPT !.numRetries = @ + 1]
    <3>1. arpCache' = [arpCache EXCEPT ![h][a] = e]
      BY <2>2 DEF Retry, ARPTypeOK
    <3>2. arpCache[h][a] \in Entries
      BY DEF ARPTypeOK
    <3>3. e.st = "pending" /\ e.timer
      BY <2>1, <3>2 DEF Entries
    <3>4. pendingPackets' = [pendingPackets EXCEPT ![h][a] = pendingPackets[h][a]]
      BY <2>2, SameEntry DEF Retry
    <3> HIDE DEF e
    <3> QED  BY <2>1, <3>1, <3>3, <3>4, OneEntry
  <2>3. CASE GiveUp(h, a)
    <3>1. Absent.st # "pending" /\ ~Absent.timer
      BY DEF Absent
    <3> QED  BY <2>1, <2>3, <3>1, OneEntry DEF GiveUp
  <2> QED  BY <1>2, <2>2, <2>3 DEF RequestTimedOut
<1>3. ASSUME NEW h \in Stations, NEW a \in Addresses, EntryExpires(h, a)
      PROVE  WaitingMeansAsking' /\ DownIsEmpty'
  <2>1. \A g \in Stations : \A b \in Addresses :
           /\ arpCache'[g][b].st = arpCache[g][b].st
           /\ arpCache'[g][b].timer = arpCache[g][b].timer
    <3>1. \A g \in Stations : \A b \in Addresses : arpCache[g][b] \in Entries
      BY DEF ARPTypeOK
    <3>2. \A g \in Stations : \A b \in Addresses :
             arpCache'[g][b] = IF g = h /\ b = a
                               THEN [arpCache[h][a] EXCEPT !.fresh = FALSE]
                               ELSE arpCache[g][b]
      BY <1>3 DEF EntryExpires, ARPTypeOK
    <3> QED  BY <3>1, <3>2 DEF Entries
  <2> QED  BY <1>3, <2>1 DEF EntryExpires, WaitingMeansAsking, DownIsEmpty
<1>4. ASSUME NEW h \in Stations, NEW f \in frames, FrameArrives(h, f)
      PROVE  WaitingMeansAsking' /\ DownIsEmpty'
  <2>1. f.srcIP \in Addresses
    BY DEF ARPTypeOK, ARPFrames
  <2>2. isUp' = isUp
    BY <1>4 DEF FrameArrives
  <2>3. CASE UNCHANGED <<arpCache, pendingPackets>>
    BY <2>2, <2>3 DEF WaitingMeansAsking, DownIsEmpty
  <2>4. CASE /\ isUp[h]
             /\ arpCache' = [arpCache EXCEPT ![h][f.srcIP] = Updated(f.srcMAC)]
             /\ arpResolutionCompleted(h, f.srcIP)
    <3>1. Updated(f.srcMAC).st # "pending" /\ ~Updated(f.srcMAC).timer
      BY DEF Updated, Absent
    <3>2. pendingPackets' = [pendingPackets EXCEPT ![h][f.srcIP] = <<>>]
      BY <2>4 DEF arpResolutionCompleted
    <3> QED  BY <2>1, <2>2, <2>4, <3>1, <3>2, OneEntry
  <2> QED  BY <1>4, <2>3, <2>4 DEF FrameArrives, ProcessARPPacket
<1>5. ASSUME NEW h \in Stations, Stop(h) PROVE WaitingMeansAsking' /\ DownIsEmpty'
  <2>1. \A g \in Stations : \A b \in Addresses :
           /\ arpCache'[g][b] = IF g = h THEN Absent ELSE arpCache[g][b]
           /\ pendingPackets'[g][b] = IF g = h THEN <<>> ELSE pendingPackets[g][b]
    BY <1>5 DEF Stop, ARPTypeOK
  <2>2. \A g \in Stations : g # h => isUp'[g] = isUp[g]
    BY <1>5 DEF Stop, ARPTypeOK
  <2>3. Absent.st = "absent" /\ Absent.timer = FALSE
    BY DEF Absent
  <2>4. ASSUME NEW g \in Stations, NEW b \in Addresses
        PROVE  /\ pendingPackets'[g][b] # <<>> => arpCache'[g][b].st = "pending"
               /\ arpCache'[g][b].st = "pending" <=> arpCache'[g][b].timer
               /\ arpCache'[g][b].timer => isUp'[g]
    <3>1. CASE g = h
      <4>1. arpCache'[g][b] = Absent /\ pendingPackets'[g][b] = <<>>
        BY <2>1, <3>1
      <4> QED  BY <2>3, <4>1
    <3>2. CASE g # h
      BY <2>1, <2>2, <3>2 DEF WaitingMeansAsking
    <3> QED  BY <3>1, <3>2
  <2>5. ASSUME NEW g \in Stations, ~isUp'[g], NEW b \in Addresses
        PROVE  arpCache'[g][b].st = "absent"
    <3>1. CASE g = h
      <4>1. arpCache'[g][b] = Absent
        BY <2>1, <3>1
      <4> QED  BY <2>3, <4>1
    <3>2. CASE g # h
      BY <2>1, <2>2, <2>5, <3>2 DEF DownIsEmpty
    <3> QED  BY <3>1, <3>2
  <2> QED  BY <2>4, <2>5 DEF WaitingMeansAsking, DownIsEmpty
<1>6. ASSUME NEW h \in Stations, Start(h) PROVE WaitingMeansAsking' /\ DownIsEmpty'
  <2>1. \A g \in Stations : isUp'[g] = IF g = h THEN TRUE ELSE isUp[g]
    BY <1>6 DEF Start, ARPTypeOK
  <2> QED  BY <1>6, <2>1 DEF Start, WaitingMeansAsking, DownIsEmpty
<1>7. CASE \/ \E f \in frames : LoseFrame(f)
           \/ UNCHANGED arpVars
  BY <1>7 DEF LoseFrame, arpVars, WaitingMeansAsking, DownIsEmpty
<1>8. CASE ARPNext
  <2>1. CASE \E h \in Stations : \E a \in Addresses :
                SendDatagram(h, a) \/ RequestTimedOut(h, a) \/ EntryExpires(h, a)
    BY <1>1, <1>2, <1>3, <2>1
  <2>2. CASE \E h \in Stations : \E f \in frames : FrameArrives(h, f)
    BY <1>4, <2>2
  <2>3. CASE \E h \in Stations : Stop(h) \/ Start(h)
    BY <1>5, <1>6, <2>3
  <2> QED  BY <1>7, <1>8, <2>1, <2>2, <2>3 DEF ARPNext
<1> QED  BY <1>7, <1>8

\* Packets wait for an address only while ARP is asking for it, with its timer
\* running and the node up.
THEOREM WaitingMeansAskingAlways == ARPSpec => []WaitingMeansAsking
<1>1. TablesInv => WaitingMeansAsking
  BY DEF TablesInv
<1> QED  BY TablesInit, TablesStep, <1>1, PTL DEF ARPSpec

\* No assertion of ARP or IPv4 fails: nothing waits for an address that is known,
\* no timer reaches a node that is down, a node starts with an empty cache.
THEOREM NoAssertionFails == ARPSpec => []ARPNoFault
<1>1. ARPInit => TablesInv /\ ARPNoFault
  BY TablesInit DEF ARPInit, ARPNoFault
<1>2. TablesInv /\ ARPNoFault /\ [ARPNext]_arpVars => ARPNoFault'
  <2> SUFFICES ASSUME TablesInv, ARPNoFault, [ARPNext]_arpVars PROVE ARPNoFault'
    OBVIOUS
  <2>1. ASSUME NEW h \in Stations, NEW a \in Addresses, SendDatagram(h, a)
        PROVE  ARPNoFault'
    <3>1. CASE Wait(h, a)
      BY <3>1 DEF Wait, ARPNoFault
    <3>2. CASE SendNow(h, a) /\ getMACAddressFor(h, a) # NoMac
      <4>1. arpCache[h][a].st = "resolved"
        BY <3>2 DEF getMACAddressFor
      <4>2. pendingPackets[h][a] = <<>>
        BY <4>1 DEF TablesInv, WaitingMeansAsking
      <4> QED  BY <3>2, <4>2 DEF SendNow, ARPNoFault
    <3> QED  BY <2>1, <3>1, <3>2 DEF SendDatagram
  <2>2. ASSUME NEW h \in Stations, NEW a \in Addresses, RequestTimedOut(h, a)
        PROVE  ARPNoFault'
    BY <2>2, PendingIsUp DEF RequestTimedOut, ARPNoFault
  <2>3. ASSUME NEW h \in Stations, Start(h) PROVE ARPNoFault'
    BY <2>3 DEF Start, ARPNoFault, TablesInv, DownIsEmpty
  <2>4. CASE \/ \E h \in Stations : \E a \in Addresses : EntryExpires(h, a)
             \/ \E h \in Stations : \E f \in frames : FrameArrives(h, f)
             \/ \E h \in Stations : Stop(h)
             \/ \E f \in frames : LoseFrame(f)
             \/ UNCHANGED arpVars
    BY <2>4 DEF EntryExpires, FrameArrives, Stop, LoseFrame, arpVars, ARPNoFault
  <2> QED  BY <2>1, <2>2, <2>3, <2>4 DEF ARPNext
<1> QED  BY <1>1, <1>2, TablesStep, PTL DEF ARPSpec

-----------------------------------------------------------------------------
\* What frames say.

LEMMA OwnersInit == ARPInit => OwnersInv
BY TypeInit DEF ARPInit, OwnersInv, FramesTrue, ResolvedToOwner, Absent

LEMMA OwnersStep == OwnersInv /\ [ARPNext]_arpVars => OwnersInv'
<1> SUFFICES ASSUME OwnersInv, [ARPNext]_arpVars
             PROVE  FramesTrue' /\ ResolvedToOwner'
  BY TypeStep DEF OwnersInv
<1> USE DEF OwnersInv
\* A step that leaves entries alone, or makes them unresolved, and adds only
\* requests keeps both.
<1>1. ASSUME \A g \in Stations : \A b \in Addresses :
                \/ arpCache'[g][b].st # "resolved"
                \/ /\ arpCache'[g][b].st = arpCache[g][b].st
                   /\ arpCache'[g][b].mac = arpCache[g][b].mac,
             NEW h \in Stations, NEW a \in Addresses,
             frames' \subseteq frames \cup ARPRequests(h, a)
      PROVE  FramesTrue' /\ ResolvedToOwner'
  <2>1. \A f \in ARPRequests(h, a) : f.srcIP = h /\ f.srcMAC = h
    BY DEF ARPRequests
  <2>2. FramesTrue'
    BY <1>1, <2>1 DEF FramesTrue, addressRecognized
  <2>3. ResolvedToOwner'
    BY <1>1 DEF ResolvedToOwner, addressRecognized
  <2> QED  BY <2>2, <2>3
<1>2. ASSUME NEW h \in Stations, NEW a \in Addresses,
             SendDatagram(h, a) \/ RequestTimedOut(h, a) \/ EntryExpires(h, a)
      PROVE  FramesTrue' /\ ResolvedToOwner'
  <2>1. frames' \subseteq frames \cup ARPRequests(h, a)
    BY <1>2 DEF SendDatagram, Wait, SendNow, RequestTimedOut, Retry, GiveUp, EntryExpires
  <2>2. \E e : /\ \/ arpCache' = arpCache /\ e = arpCache[h][a]
                  \/ arpCache' = [arpCache EXCEPT ![h][a] = e]
               /\ \/ e.st # "resolved"
                  \/ e.st = arpCache[h][a].st /\ e.mac = arpCache[h][a].mac
    <3>1. Initiated.st # "resolved" /\ Absent.st # "resolved"
      BY DEF Initiated, Absent
    <3>2. arpCache[h][a] \in Entries
      BY DEF ARPTypeOK
    <3>3. CASE UNCHANGED arpCache
      BY <3>3
    <3>4. CASE \/ arpCache' = [arpCache EXCEPT ![h][a] = Initiated]
               \/ arpCache' = [arpCache EXCEPT ![h][a] = Absent]
      BY <3>1, <3>4
    <3>5. CASE arpCache' = [arpCache EXCEPT ![h][a].numRetries = @ + 1]
      <4> DEFINE e == [arpCache[h][a] EXCEPT !.numRetries = @ + 1]
      <4>1. e.st = arpCache[h][a].st /\ e.mac = arpCache[h][a].mac
        BY <3>2 DEF Entries
      <4>2. arpCache' = [arpCache EXCEPT ![h][a] = e]
        BY <3>5
      <4> QED  BY <4>1, <4>2
    <3>6. CASE arpCache' = [arpCache EXCEPT ![h][a].fresh = FALSE]
      <4> DEFINE e == [arpCache[h][a] EXCEPT !.fresh = FALSE]
      <4>1. e.st = arpCache[h][a].st /\ e.mac = arpCache[h][a].mac
        BY <3>2 DEF Entries
      <4>2. arpCache' = [arpCache EXCEPT ![h][a] = e]
        BY <3>6
      <4> QED  BY <4>1, <4>2
    <3> QED
      BY <1>2, <3>3, <3>4, <3>5, <3>6
      DEF SendDatagram, Wait, SendNow, RequestTimedOut, Retry, GiveUp, EntryExpires
  <2>3. PICK e : /\ \/ arpCache' = arpCache /\ e = arpCache[h][a]
                    \/ arpCache' = [arpCache EXCEPT ![h][a] = e]
                 /\ \/ e.st # "resolved"
                    \/ e.st = arpCache[h][a].st /\ e.mac = arpCache[h][a].mac
    BY <2>2
  <2>4. \A g \in Stations : \A b \in Addresses :
           arpCache'[g][b] = IF g = h /\ b = a THEN e ELSE arpCache[g][b]
    BY <2>3 DEF ARPTypeOK
  <2> QED  BY <1>1, <2>1, <2>3, <2>4
<1>3. ASSUME NEW h \in Stations, NEW f \in frames, FrameArrives(h, f)
      PROVE  FramesTrue' /\ ResolvedToOwner'
  <2>1. /\ f \in ARPFrames /\ f.srcIP \in Addresses /\ f.srcMAC \in Stations
        /\ addressRecognized(f.srcMAC, f.srcIP)
    BY DEF ARPTypeOK, ARPFrames, FramesTrue
  <2>2. FramesTrue'
    <3>1. addressRecognized(h, f.destIP) =>
             addressRecognized(Reply(h, f).srcMAC, Reply(h, f).srcIP)
      BY DEF Reply
    <3>2. \A g \in frames' : \/ g \in frames
                             \/ addressRecognized(h, f.destIP) /\ g = Reply(h, f)
      BY <1>3 DEF FrameArrives, ProcessARPPacket
    <3> QED  BY <3>1, <3>2 DEF FramesTrue, addressRecognized
  <2>3. ResolvedToOwner'
    <3>1. CASE UNCHANGED arpCache
      BY <3>1 DEF ResolvedToOwner, addressRecognized
    <3>2. CASE arpCache' = [arpCache EXCEPT ![h][f.srcIP] = Updated(f.srcMAC)]
      <4>1. Updated(f.srcMAC).mac = f.srcMAC
        BY DEF Updated, Absent
      <4>2. \A g \in Stations : \A b \in Addresses :
               arpCache'[g][b] = IF g = h /\ b = f.srcIP THEN Updated(f.srcMAC)
                                 ELSE arpCache[g][b]
        BY <3>2, <2>1 DEF ARPTypeOK
      <4> QED  BY <2>1, <4>1, <4>2 DEF ResolvedToOwner, addressRecognized
    <3> QED  BY <1>3, <3>1, <3>2 DEF FrameArrives, ProcessARPPacket
  <2> QED  BY <2>2, <2>3
<1>4. ASSUME NEW h \in Stations, Stop(h) PROVE FramesTrue' /\ ResolvedToOwner'
  <2>1. \A g \in Stations : \A b \in Addresses :
           arpCache'[g][b] = IF g = h THEN Absent ELSE arpCache[g][b]
    BY <1>4 DEF Stop, ARPTypeOK
  <2>2. Absent.st # "resolved"
    BY DEF Absent
  <2>3. ResolvedToOwner'
    BY <2>1, <2>2 DEF ResolvedToOwner, addressRecognized
  <2> QED  BY <1>4, <2>3 DEF Stop, FramesTrue, addressRecognized
<1>5. CASE \/ \E h \in Stations : Start(h)
           \/ \E f \in frames : LoseFrame(f)
           \/ UNCHANGED arpVars
  BY <1>5 DEF Start, LoseFrame, arpVars, FramesTrue, ResolvedToOwner, addressRecognized
<1> QED  BY <1>2, <1>3, <1>4, <1>5 DEF ARPNext

\* An address is resolved to a station that has it or answers for it, however
\* late the answer.
THEOREM ResolvedToOwnerAlways == ARPSpec => []ResolvedToOwner
<1>1. OwnersInv => ResolvedToOwner
  BY DEF OwnersInv
<1> QED  BY OwnersInit, OwnersStep, <1>1, PTL DEF ARPSpec

-----------------------------------------------------------------------------
\* The order of packets.

LEMMA QueueInit == ARPInit => QueueInv
<1> SUFFICES ASSUME ARPInit PROVE QueuesAscend
  BY TablesInit DEF QueueInv
<1>1. \A h \in Stations : \A a \in Addresses : Queue(h, a) = <<>>
  BY DEF ARPInit, Queue
<1> QED  BY <1>1 DEF QueuesAscend, Ascending, UpTo

\* A step that leaves every queue as it is, or cuts off a part at its end.
LEMMA QueuesKept ==
    ASSUME QueueInv, ARPTypeOK', packets' = packets,
           \A h \in Stations : \A a \in Addresses :
              \/ Queue(h, a)' = Queue(h, a)
              \/ Queue(h, a)' = onWire[h][a]
    PROVE  QueuesAscend'
<1> SUFFICES ASSUME NEW h \in Stations, NEW a \in Addresses
             PROVE  (Ascending(Queue(h, a)) /\ UpTo(Queue(h, a), packets[h]))'
  BY DEF QueuesAscend
<1>1. Ascending(Queue(h, a)) /\ UpTo(Queue(h, a), packets[h])
  BY DEF QueueInv, QueuesAscend
<1>2. Ascending(onWire[h][a]) /\ UpTo(onWire[h][a], packets[h])
  <2>1. /\ onWire[h][a] \in Seq(Nat) /\ pendingPackets[h][a] \in Seq(Nat)
        /\ packets[h] \in Nat
    BY DEF QueueInv, TablesInv, ARPTypeOK
  <2> QED  BY <1>1, <2>1, PrefixAscends DEF Queue
<1> QED  BY <1>1, <1>2 DEF Ascending, UpTo

LEMMA QueueStep == QueueInv /\ [ARPNext]_arpVars => QueueInv'
<1> SUFFICES ASSUME QueueInv, [ARPNext]_arpVars PROVE QueuesAscend'
  BY TablesStep DEF QueueInv
<1>0. ARPTypeOK /\ ARPTypeOK'
  BY TypeStep DEF QueueInv, TablesInv
<1>q. ASSUME NEW h \in Stations, NEW a \in Addresses
      PROVE  /\ onWire[h][a] \in Seq(Nat) /\ pendingPackets[h][a] \in Seq(Nat)
             /\ Queue(h, a) \in Seq(Nat) /\ packets[h] \in Nat
  BY <1>0 DEF ARPTypeOK, Queue
<1>1. ASSUME NEW h \in Stations, NEW a \in Addresses, SendDatagram(h, a)
      PROVE  QueuesAscend'
  <2>1. /\ \A g \in Stations : packets'[g] = IF g = h THEN packets[h] + 1 ELSE packets[g]
    BY <1>0, <1>1 DEF SendDatagram, ARPTypeOK
  <2>2. Queue(h, a)' = Append(Queue(h, a), packets[h] + 1)
    <3>1. CASE Wait(h, a)
      <4>1. onWire'[h][a] = onWire[h][a]
        BY <3>1 DEF Wait
      <4>2. pendingPackets' = [pendingPackets EXCEPT ![h][a] = Append(@, packets'[h])]
        BY <3>1 DEF Wait
      <4>3. pendingPackets'[h][a] = Append(pendingPackets[h][a], packets[h] + 1)
        BY <1>0, <2>1, <4>2 DEF ARPTypeOK
      <4>4. ASSUME NEW s \in Seq(Nat), NEW t \in Seq(Nat), NEW n \in Nat
            PROVE  s \o Append(t, n + 1) = Append(s \o t, n + 1)
        <5>1. n + 1 \in Nat
          OBVIOUS
        <5> QED  BY <5>1, ConcatAppend
      <4>5. onWire[h][a] \o Append(pendingPackets[h][a], packets[h] + 1)
               = Append(onWire[h][a] \o pendingPackets[h][a], packets[h] + 1)
        <5>1. /\ onWire[h][a] \in Seq(Nat) /\ pendingPackets[h][a] \in Seq(Nat)
              /\ packets[h] \in Nat
          BY <1>q
        <5> QED  BY ONLY <4>4, <5>1
      <4> QED  BY <4>1, <4>3, <4>5 DEF Queue
    <3>2. CASE SendNow(h, a) /\ getMACAddressFor(h, a) # NoMac
      <4>1. pendingPackets[h][a] = <<>>
        BY <3>2 DEF getMACAddressFor, QueueInv, TablesInv, WaitingMeansAsking
      <4>2. onWire' = [onWire EXCEPT ![h][a] = Append(@, packets'[h])]
        BY <3>2 DEF SendNow
      <4>3. onWire'[h][a] = Append(onWire[h][a], packets[h] + 1)
        BY <1>0, <2>1, <4>2 DEF ARPTypeOK
      <4>4. pendingPackets'[h][a] = <<>>
        BY <3>2, <4>1 DEF SendNow
      <4>5. Append(onWire[h][a], packets[h] + 1) \in Seq(Nat)
        BY <1>q
      <4> QED  BY <1>q, <4>1, <4>3, <4>4, <4>5, ConcatEmpty DEF Queue
    <3> QED  BY <1>1, <3>1, <3>2 DEF SendDatagram
  <2>3. \A g \in Stations : \A b \in Addresses :
           g # h \/ b # a => Queue(g, b)' = Queue(g, b)
    <3>1. CASE Wait(h, a)
      <4>1. pendingPackets' = [pendingPackets EXCEPT ![h][a] = Append(@, packets'[h])]
        BY <3>1 DEF Wait
      <4>2. onWire' = onWire
        BY <3>1 DEF Wait
      <4> QED  BY <1>0, <4>1, <4>2 DEF Queue, ARPTypeOK
    <3>2. CASE SendNow(h, a)
      <4>1. onWire' = [onWire EXCEPT ![h][a] = Append(@, packets'[h])]
        BY <3>2 DEF SendNow
      <4>2. pendingPackets' = pendingPackets
        BY <3>2 DEF SendNow
      <4> QED  BY <1>0, <4>1, <4>2 DEF Queue, ARPTypeOK
    <3> QED  BY <1>1, <3>1, <3>2 DEF SendDatagram
  <2>4. ASSUME NEW g \in Stations, NEW b \in Addresses
        PROVE  Ascending(Queue(g, b)') /\ UpTo(Queue(g, b)', packets'[g])
    <3>1. Ascending(Queue(g, b)) /\ UpTo(Queue(g, b), packets[g])
      BY DEF QueueInv, QueuesAscend
    <3>2. CASE g = h /\ b = a
      <4>1. Queue(g, b) \in Seq(Nat) /\ packets[g] \in Nat
        BY <1>q
      <4>2. /\ Ascending(Append(Queue(g, b), packets[g] + 1))
            /\ UpTo(Append(Queue(g, b), packets[g] + 1), packets[g] + 1)
        BY <3>1, <4>1, AppendAscends
      <4>3. Queue(g, b)' = Append(Queue(g, b), packets[g] + 1)
        BY <2>2, <3>2
      <4> QED  BY <2>1, <3>2, <4>2, <4>3
    <3>3. CASE ~(g = h /\ b = a)
      <4>1. \A i \in DOMAIN Queue(g, b) : Queue(g, b)[i] \in Nat
        BY <1>q
      <4>2. Queue(g, b)' = Queue(g, b)
        BY <2>3, <3>3
      <4>3. packets[g] \in Nat /\ (packets'[g] = packets[g] \/ packets'[g] = packets[g] + 1)
        BY <1>q, <2>1
      <4>4. UpTo(Queue(g, b), packets'[g])
        BY <3>1, <4>1, <4>3 DEF UpTo
      <4> QED  BY <3>1, <4>2, <4>4
    <3> QED  BY <3>2, <3>3
  <2> QED  BY <2>4 DEF QueuesAscend, Ascending, UpTo
<1>2. ASSUME NEW h \in Stations, NEW f \in frames, FrameArrives(h, f)
      PROVE  QueuesAscend'
  <2>1. f.srcIP \in Addresses
    BY <1>0 DEF ARPTypeOK, ARPFrames
  <2>2. ASSUME arpResolutionCompleted(h, f.srcIP),
               NEW g \in Stations, NEW b \in Addresses
        PROVE  Queue(g, b)' = Queue(g, b)
    <3>1. CASE g = h /\ b = f.srcIP
      <4>1. /\ onWire'[g][b] = onWire[g][b] \o pendingPackets[g][b]
            /\ pendingPackets'[g][b] = <<>>
        BY <1>0, <2>2, <3>1 DEF arpResolutionCompleted, ARPTypeOK
      <4> QED  BY <1>q, <4>1, ConcatEmpty DEF Queue
    <3>2. CASE ~(g = h /\ b = f.srcIP)
      <4>1. onWire'[g][b] = onWire[g][b] /\ pendingPackets'[g][b] = pendingPackets[g][b]
        BY <1>0, <2>1, <2>2, <3>2 DEF arpResolutionCompleted, ARPTypeOK
      <4> QED  BY <4>1 DEF Queue
    <3> QED  BY <3>1, <3>2
  <2>3. \/ UNCHANGED <<onWire, pendingPackets>>
        \/ arpResolutionCompleted(h, f.srcIP)
    BY <1>2 DEF FrameArrives, ProcessARPPacket
  <2>4. \A g \in Stations : \A b \in Addresses : Queue(g, b)' = Queue(g, b)
    BY <2>2, <2>3 DEF Queue
  <2> QED  BY <1>0, <1>2, <2>4, QueuesKept DEF FrameArrives
<1>3. ASSUME \A g \in Stations : \A b \in Addresses :
                \/ pendingPackets'[g][b] = pendingPackets[g][b]
                \/ pendingPackets'[g][b] = <<>>,
             packets' = packets, onWire' = onWire
      PROVE  QueuesAscend'
  <2>1. ASSUME NEW g \in Stations, NEW b \in Addresses
        PROVE  Queue(g, b)' = Queue(g, b) \/ Queue(g, b)' = onWire[g][b]
    <3>1. CASE pendingPackets'[g][b] = pendingPackets[g][b]
      BY <1>3, <3>1 DEF Queue
    <3>2. CASE pendingPackets'[g][b] = <<>>
      BY <1>3, <1>q, <3>2, ConcatEmpty DEF Queue
    <3> QED  BY <1>3, <3>1, <3>2
  <2> QED  BY <1>0, <1>3, <2>1, QueuesKept
<1>4. ASSUME NEW h \in Stations, NEW a \in Addresses, RequestTimedOut(h, a)
      PROVE  QueuesAscend'
  <2>1. \/ pendingPackets' = pendingPackets
        \/ pendingPackets' = [pendingPackets EXCEPT ![h][a] = <<>>]
    BY <1>4 DEF RequestTimedOut, Retry, GiveUp
  <2>2. packets' = packets /\ onWire' = onWire
    BY <1>4 DEF RequestTimedOut, Retry, GiveUp
  <2>3. \A g \in Stations : \A b \in Addresses :
           \/ pendingPackets'[g][b] = pendingPackets[g][b]
           \/ pendingPackets'[g][b] = <<>>
    <3>1. CASE pendingPackets' = pendingPackets
      BY <3>1
    <3>2. CASE pendingPackets' = [pendingPackets EXCEPT ![h][a] = <<>>]
      BY <1>0, <3>2 DEF ARPTypeOK
    <3> QED  BY <2>1, <3>1, <3>2
  <2> QED  BY <1>3, <2>2, <2>3
<1>5. ASSUME NEW h \in Stations, Stop(h) PROVE QueuesAscend'
  <2>1. \A g \in Stations : \A b \in Addresses :
           pendingPackets'[g][b] = IF g = h THEN <<>> ELSE pendingPackets[g][b]
    BY <1>0, <1>5 DEF Stop, ARPTypeOK
  <2> QED  BY <1>3, <1>5, <2>1 DEF Stop
<1>6. CASE \/ \E h \in Stations : \E a \in Addresses : EntryExpires(h, a)
           \/ \E h \in Stations : Start(h)
           \/ \E f \in frames : LoseFrame(f)
           \/ UNCHANGED arpVars
  BY <1>3, <1>6 DEF EntryExpires, Start, LoseFrame, arpVars
<1> QED  BY <1>1, <1>2, <1>4, <1>5, <1>6 DEF ARPNext

\* Packets to one next hop leave in the order IPv4 sent them, whether they
\* waited for the address or not.
THEOREM PacketsKeepOrderAlways == ARPSpec => []PacketsKeepOrder
<1>1. QueueInv => PacketsKeepOrder
  <2> SUFFICES ASSUME QueueInv, NEW h \in Stations, NEW a \in Addresses
               PROVE  Ascending(onWire[h][a])
    BY DEF PacketsKeepOrder, Ascending
  <2>1. /\ onWire[h][a] \in Seq(Nat) /\ pendingPackets[h][a] \in Seq(Nat)
        /\ packets[h] \in Nat
    BY DEF QueueInv, TablesInv, ARPTypeOK
  <2>2. Ascending(Queue(h, a)) /\ UpTo(Queue(h, a), packets[h])
    BY DEF QueueInv, QueuesAscend
  <2> QED  BY <2>1, <2>2, PrefixAscends DEF Queue
<1> QED  BY QueueInit, QueueStep, <1>1, PTL DEF ARPSpec

=============================================================================
