----------------------- MODULE SCTPAssociationProofs ------------------------
(***************************************************************************)
(* What set-up and shutdown keep for any pair of hosts, any limits of the  *)
(* retransmissions and any number of packets.                              *)
(*                                                                         *)
(* Nearly every handler ends in Becomes(): it is enough that the new       *)
(* association and the new packets are of their types and that the timers  *)
(* of the association are right (Right), whatever the other host does.     *)
(*                                                                         *)
(* The tags need more, since what a host may believe depends on what the   *)
(* other one did and on every packet on its way.  Acts(h) sums up what a   *)
(* handler of host h does to the tags and to the state; that every step is *)
(* one (NextActs) is shown once, and the parts of TagsInv and MirrorInv    *)
(* are shown to be kept by Acts(h) alone.                                  *)
(***************************************************************************)
EXTENDS SCTPAssociation, TLAPS

USE SCTPAssumption

\* The associations that satisfy both invariants.
Right == {a \in Associations : RightTimers(a)}

TimersInv == SCTPTypeOK /\ SCTPTimersRight

Faults == {"none", "timer T1", "chunk deleted twice", "chunk never set"}

-----------------------------------------------------------------------------
\* The parts of a step.

LEMMA InvIsRight ==
    ASSUME TimersInv, NEW h \in Hosts
    PROVE  assoc[h] \in Right /\ assoc[h] \in Associations
BY DEF TimersInv, SCTPTypeOK, SCTPTimersRight, Right

LEMMA OtherIsHost ==
    ASSUME NEW h \in Hosts
    PROVE  Other(h) \in Hosts
<1>1. PICK a \in Hosts, b \in Hosts : a # b /\ Hosts = {a, b}
  BY DEF SCTPAssumption
<1>2. \E p \in Hosts : p # h
  BY <1>1
<1> QED  BY <1>2 DEF Other

LEMMA FreshTagIsTag ==
    ASSUME TagsLeft
    PROVE  FreshTag \in Tags
BY DEF TagsLeft, FreshTag

LEMMA NoAssociationIsRight == NoAssociation \in Right
BY DEF NoAssociation, Right, Associations, RightTimers, NoCookie, Cookies, Opening, Closing

LEMMA ChunkType ==
    ASSUME NEW h \in Hosts, NEW type \in Types, NEW a \in Associations
    PROVE  /\ Chunk(h, type, a) \in Chunks
           /\ Chunk(h, type, a).type = type
<1>1. Other(h) \in Hosts
  BY OtherIsHost
<1>2. a.localVTag \in Tags \cup {0}
  BY DEF Associations
<1> QED  BY <1>1, <1>2 DEF Chunk, Chunks, Cookies, NoCookie

LEMMA InitChunkType ==
    ASSUME NEW h \in Hosts, NEW a \in Associations
    PROVE  InitChunk(h, a) \in Chunks
<1>1. Chunk(h, "INIT", a) \in Chunks
  BY ChunkType DEF Types
<1>2. a.peerVTag \in Tags \cup {0}
  BY DEF Associations
<1> QED  BY <1>1, <1>2 DEF InitChunk, Chunks

LEMMA CookieEchoType ==
    ASSUME NEW h \in Hosts, NEW a \in Associations
    PROVE  CookieEcho(h, a) \in Chunks
<1>1. Chunk(h, "COOKIE_ECHO", a) \in Chunks
  BY ChunkType DEF Types
<1>2. a.cookieChunk \in Cookies
  BY DEF Associations
<1> QED  BY <1>1, <1>2 DEF CookieEcho, Chunks

LEMMA InitAckType ==
    ASSUME NEW h \in Hosts, NEW tag \in Tags \cup {0}, NEW initTag \in Tags \cup {0},
           NEW local \in Tags \cup {0}, NEW peer \in Tags \cup {0}
    PROVE  InitAck(h, tag, initTag, local, peer) \subseteq Chunks
<1>1. Other(h) \in Hosts
  BY OtherIsHost
<1> QED  BY <1>1 DEF InitAck, Chunks, Cookies, Types

LEMMA FromMainType ==
    ASSUME NEW h \in Hosts, NEW m \in Chunks
    PROVE  FromMain(h, m) \subseteq Chunks
<1>1. Other(h) \in Hosts
  BY OtherIsHost
<1>2. m.tag \in Tags \cup {0} /\ m.initTag \in Tags \cup {0}
  BY DEF Chunks
<1>3. NoCookie \in Cookies
  BY DEF NoCookie, Cookies
<1> QED  BY <1>1, <1>2, <1>3 DEF FromMain, Chunks, Types

LEMMA SentType ==
    ASSUME NEW rest \in SUBSET Chunks, NEW out \in SUBSET Chunks
    PROVE  Sent(rest, out) \subseteq Chunks
BY DEF Sent

\* A handler that ends with a right association keeps the invariant.
LEMMA BecomesKeeps ==
    ASSUME TimersInv, NEW h \in Hosts, NEW a \in Right, NEW in,
           NEW out \in SUBSET Chunks, NEW said \in SUBSET Indications,
           Becomes(h, a, in, out, said),
           UNCHANGED <<listening, opens>>,
           fault' \in Faults
    PROVE  TimersInv'
<1> USE DEF TimersInv, SCTPTypeOK, Faults
<1>1. assoc' = [assoc EXCEPT ![h] = a] /\ a \in Associations /\ RightTimers(a)
  BY DEF Becomes, Right
<1>2. assoc' \in [Hosts -> Associations]
  BY <1>1
<1>3. chunks' \subseteq Chunks
  <2>1. chunks \ in \in SUBSET Chunks
    OBVIOUS
  <2> QED  BY <2>1, SentType DEF Becomes
<1>4. told' \in [Hosts -> SUBSET Indications]
  BY DEF Becomes
<1>5. ASSUME NEW p \in Hosts PROVE RightTimers(assoc'[p])
  BY <1>1 DEF SCTPTimersRight
<1> QED  BY <1>2, <1>3, <1>4, <1>5 DEF SCTPTimersRight

LEMMA StaysKeeps ==
    ASSUME TimersInv, NEW h \in Hosts, NEW in,
           NEW out \in SUBSET Chunks, NEW said \in SUBSET Indications,
           Stays(h, in, out, said),
           UNCHANGED <<listening, opens>>,
           fault' \in Faults
    PROVE  TimersInv'
BY InvIsRight, BecomesKeeps DEF Stays

LEMMA RemovedKeeps ==
    ASSUME TimersInv, NEW h \in Hosts, NEW in,
           NEW out \in SUBSET Chunks, NEW said \in SUBSET Indications,
           Removed(h, in, out, said),
           UNCHANGED <<listening, opens>>,
           fault' \in Faults
    PROVE  TimersInv'
BY NoAssociationIsRight, BecomesKeeps DEF Removed

-----------------------------------------------------------------------------
\* The new associations of the handlers.

LEMMA EstablishedIsRight ==
    ASSUME NEW a \in Right
    PROVE  a.state \in Opening \cup {"CLOSED"} => Established(a) \in Right
BY DEF Established, Right, Associations, RightTimers, Opening, Closing

LEMMA ShutdownSentIsRight ==
    ASSUME NEW a \in Right, a.state = "ESTABLISHED"
    PROVE  ShutdownSent(a) \in Right
<1>1. a \in Associations /\ RightTimers(a)
  BY DEF Right
<1>2. 0 \in 0 .. MaxInitRetrans
  BY DEF SCTPAssumption
<1>3. a.timers \cup {"T2", "T5"} \in SUBSET {"T1", "T2", "T5"}
  BY <1>1 DEF Associations
<1>4. ShutdownSent(a) \in Associations
  BY <1>1, <1>2, <1>3 DEF ShutdownSent, Associations, Closing
<1>5. RightTimers(ShutdownSent(a))
  BY <1>1 DEF ShutdownSent, Associations, RightTimers, Opening, Closing
<1> QED  BY <1>4, <1>5 DEF Right

LEMMA ShutdownAckSentIsRight ==
    ASSUME NEW a \in Right, a.state \in {"ESTABLISHED", "SHUTDOWN_SENT"}
    PROVE  ShutdownAckSent(a) \in Right
<1>1. a \in Associations /\ RightTimers(a)
  BY DEF Right
<1>2. 0 \in 0 .. MaxInitRetrans
  BY DEF SCTPAssumption
<1>3. a.timers \cup {"T2", "T5"} \in SUBSET {"T1", "T2", "T5"}
  BY <1>1 DEF Associations
<1>4. ShutdownAckSent(a) \in Associations
  BY <1>1, <1>2, <1>3 DEF ShutdownAckSent, Associations, Closing
<1>5. RightTimers(ShutdownAckSent(a))
  BY <1>1 DEF ShutdownAckSent, Associations, RightTimers, Opening, Closing
<1> QED  BY <1>4, <1>5 DEF Right

LEMMA EchoedIsRight ==
    ASSUME NEW a \in Right, a.state = "COOKIE_WAIT",
           NEW tag \in Tags \cup {0}, NEW c \in Cookies
    PROVE  [a EXCEPT !.state = "COOKIE_ECHOED", !.localVTag = tag, !.cookieChunk = c]
              \in Right
<1> DEFINE b == [a EXCEPT !.state = "COOKIE_ECHOED", !.localVTag = tag,
                          !.cookieChunk = c]
<1>1. a \in Associations /\ RightTimers(a)
  BY DEF Right
<1>2. b \in Associations
  BY <1>1 DEF Associations, Opening
<1>3. RightTimers(b)
  BY <1>1 DEF Associations, RightTimers, Opening, Closing
<1> QED  BY <1>2, <1>3 DEF Right

LEMMA RestoredIsRight ==
    ASSUME NEW a \in Right, NEW c \in Cookies
    PROVE  Restored(a, c) \in Right /\ Restored(a, c).state = a.state
BY DEF Restored, Right, Associations, RightTimers, Opening, Closing, Cookies

-----------------------------------------------------------------------------
\* One lemma per action.

LEMMA InitKeeps == SCTPInit => TimersInv
<1> SUFFICES ASSUME SCTPInit PROVE TimersInv
  OBVIOUS
<1>1. NoAssociation \in Associations /\ RightTimers(NoAssociation)
  BY NoAssociationIsRight DEF Right
<1>2. \A h \in Hosts : MaxOpens[h] \in Nat
  BY DEF SCTPAssumption
<1> QED  BY <1>1, <1>2 DEF SCTPInit, TimersInv, SCTPTypeOK, SCTPTimersRight

LEMMA AssociateKeeps ==
    ASSUME TimersInv, NEW h \in Hosts, Associate(h), UNCHANGED listening
    PROVE  TimersInv'
<1> DEFINE a == [NoAssociation EXCEPT !.state = "COOKIE_WAIT",
                                      !.peerVTag = FreshTag, !.timers = {"T1"}]
<1>1. a \in Right
  BY FreshTagIsTag, NoAssociationIsRight
     DEF Associate, Right, Associations, RightTimers, Opening, Closing
<1>2. InitChunk(h, a) \in Chunks
  BY <1>1, InitChunkType DEF Right
<1>3. assoc' = [assoc EXCEPT ![h] = a] /\ chunks' = Sent(chunks, {InitChunk(h, a)})
  BY DEF Associate
<1> HIDE DEF a
<1>4. assoc' \in [Hosts -> Associations] /\ \A p \in Hosts : RightTimers(assoc'[p])
  BY <1>1, <1>3 DEF TimersInv, SCTPTypeOK, SCTPTimersRight, Right
<1>5. chunks' \subseteq Chunks
  BY <1>2, <1>3, SentType DEF TimersInv, SCTPTypeOK
<1>6. opens' \in [Hosts -> Nat] /\ \A p \in Hosts : opens'[p] <= MaxOpens[p]
  <2>1. opens \in [Hosts -> Nat] /\ \A p \in Hosts : opens[p] <= MaxOpens[p]
    BY DEF TimersInv, SCTPTypeOK
  <2>2. opens' = [opens EXCEPT ![h] = @ + 1] /\ opens[h] < MaxOpens[h]
    BY DEF Associate
  <2>3. \A p \in Hosts : MaxOpens[p] \in Nat
    BY DEF SCTPAssumption
  <2> QED  BY <2>1, <2>2, <2>3
<1>7. told' \in [Hosts -> SUBSET Indications] /\ fault' = fault
  BY DEF Associate
<1> QED  BY <1>4, <1>5, <1>6, <1>7 DEF TimersInv, SCTPTypeOK, SCTPTimersRight

LEMMA ShutdownKeeps ==
    ASSUME TimersInv, NEW h \in Hosts, Shutdown(h), UNCHANGED listening
    PROVE  TimersInv'
<1>1. assoc[h] \in Right /\ assoc[h] \in Associations
  BY InvIsRight
<1>2. ShutdownSent(assoc[h]) \in Right
  BY <1>1, ShutdownSentIsRight DEF Shutdown
<1>3. Chunk(h, "SHUTDOWN", assoc[h]) \in Chunks
  BY <1>1, ChunkType DEF Types
<1>4. fault' \in Faults
  BY DEF Shutdown, TimersInv, SCTPTypeOK, Faults
<1> QED  BY <1>2, <1>3, <1>4, BecomesKeeps DEF Shutdown

LEMMA CloseKeeps ==
    ASSUME TimersInv, NEW h \in Hosts, Close(h), UNCHANGED listening
    PROVE  TimersInv'
<1>1. Chunk(h, "SHUTDOWN", assoc[h]) \in Chunks
  BY InvIsRight, ChunkType DEF Types
<1>2. fault' \in Faults
  BY DEF Close, TimersInv, SCTPTypeOK, Faults
<1> QED  BY <1>1, <1>2, RemovedKeeps DEF Close, Indications

LEMMA AbortKeeps ==
    ASSUME TimersInv, NEW h \in Hosts, Abort(h), UNCHANGED listening
    PROVE  TimersInv'
<1>1. Chunk(h, "ABORT", assoc[h]) \in Chunks
  BY InvIsRight, ChunkType DEF Types
<1>2. fault' \in Faults
  BY DEF Abort, TimersInv, SCTPTypeOK, Faults
<1>3. (IF assoc[h].state = "ESTABLISHED" THEN {Chunk(h, "ABORT", assoc[h])} ELSE {})
         \subseteq Chunks
  BY <1>1
<1> QED  BY <1>2, <1>3, RemovedKeeps DEF Abort, Indications

LEMMA PacketFacts ==
    ASSUME TimersInv, NEW m \in chunks
    PROVE  /\ m \in Chunks /\ m.tag \in Tags \cup {0} /\ m.initTag \in Tags \cup {0}
           /\ m.cookie \in Cookies
BY DEF TimersInv, SCTPTypeOK, Chunks

LEMMA AssocFacts ==
    ASSUME TimersInv, NEW h \in Hosts
    PROVE  /\ assoc[h].localVTag \in Tags \cup {0} /\ assoc[h].peerVTag \in Tags \cup {0}
           /\ fault \in Faults
BY InvIsRight DEF TimersInv, SCTPTypeOK, Associations, Faults

LEMMA WrongTagKeeps ==
    ASSUME TimersInv, NEW h \in Hosts, NEW m \in chunks, WrongTag(h, m), UNCHANGED listening
    PROVE  TimersInv'
BY AssocFacts, StaysKeeps DEF WrongTag

LEMMA NoAssociationFoundKeeps ==
    ASSUME TimersInv, NEW h \in Hosts, NEW m \in chunks, NoAssociationFound(h, m),
           UNCHANGED listening
    PROVE  TimersInv'
<1>1. FromMain(h, m) \subseteq Chunks
  BY PacketFacts, FromMainType
<1> QED  BY <1>1, AssocFacts, StaysKeeps DEF NoAssociationFound

LEMMA ForkAssociationKeeps ==
    ASSUME TimersInv, NEW h \in Hosts, NEW m \in chunks, ForkAssociation(h, m), UNCHANGED listening
    PROVE  TimersInv'
<1> DEFINE a == [NoAssociation EXCEPT !.state = "CLOSED", !.localVTag = m.initTag,
                                      !.peerVTag = FreshTag]
           out == InitAck(h, m.initTag, FreshTag, m.initTag, FreshTag)
<1>1. FreshTag \in Tags \cup {0} /\ m.initTag \in Tags \cup {0}
  BY FreshTagIsTag, PacketFacts DEF ForkAssociation
<1>2. a \in Right
  BY <1>1, NoAssociationIsRight
     DEF NoAssociation, Right, Associations, RightTimers, Opening, Closing
<1>3. out \subseteq Chunks
  BY <1>1, InitAckType
<1>4. /\ assoc' = [assoc EXCEPT ![h] = a] /\ chunks' = Sent(chunks \ {m}, out)
      /\ told' \in [Hosts -> SUBSET Indications]
      /\ UNCHANGED <<opens, fault>>
  BY DEF ForkAssociation
<1> HIDE DEF a, out
<1>5. assoc' \in [Hosts -> Associations] /\ \A p \in Hosts : RightTimers(assoc'[p])
  BY <1>2, <1>4 DEF TimersInv, SCTPTypeOK, SCTPTimersRight, Right
<1>6. chunks' \subseteq Chunks
  <2>1. chunks \ {m} \in SUBSET Chunks
    BY DEF TimersInv, SCTPTypeOK
  <2> QED  BY <1>3, <1>4, <2>1, SentType
<1> QED  BY <1>4, <1>5, <1>6 DEF TimersInv, SCTPTypeOK, SCTPTimersRight

LEMMA ReceiveInitKeeps ==
    ASSUME TimersInv, NEW h \in Hosts, NEW m \in chunks, ReceiveInit(h, m), UNCHANGED listening
    PROVE  TimersInv'
<1> DEFINE a == assoc[h]
<1>1. m.initTag \in Tags \cup {0} /\ a.localVTag \in Tags \cup {0} /\ a.peerVTag \in Tags \cup {0}
  BY PacketFacts, AssocFacts
<1>2. /\ InitAck(h, a.localVTag, a.peerVTag, a.localVTag, a.peerVTag) \subseteq Chunks
      /\ InitAck(h, m.initTag, a.peerVTag, m.initTag, a.peerVTag) \subseteq Chunks
  BY <1>1, InitAckType
<1>3. TagsLeft => InitAck(h, m.initTag, FreshTag, a.localVTag, a.peerVTag) \subseteq Chunks
  BY <1>1, FreshTagIsTag, InitAckType
<1>4. fault' \in Faults /\ UNCHANGED opens
  BY AssocFacts DEF ReceiveInit
<1>5. \/ \E out \in SUBSET Chunks : Stays(h, {m}, out, {})
      \/ Removed(h, {m}, {}, {})
  BY <1>2, <1>3 DEF ReceiveInit
<1> QED  BY <1>4, <1>5, StaysKeeps, RemovedKeeps

LEMMA ReceiveInitAckKeeps ==
    ASSUME TimersInv, NEW h \in Hosts, NEW m \in chunks, ReceiveInitAck(h, m), UNCHANGED listening
    PROVE  TimersInv'
<1> DEFINE a == [assoc[h] EXCEPT !.state = "COOKIE_ECHOED", !.localVTag = m.initTag,
                                 !.cookieChunk = m.cookie]
<1>1. ASSUME assoc[h].state = "COOKIE_WAIT"
      PROVE  a \in Right /\ a \in Associations
  BY <1>1, InvIsRight, PacketFacts, EchoedIsRight DEF Right
<1>2. ASSUME assoc[h].state = "COOKIE_WAIT"
      PROVE  CookieEcho(h, a) \in Chunks
  BY <1>1, <1>2, CookieEchoType
<1>3. fault' \in Faults /\ UNCHANGED opens
  BY AssocFacts DEF ReceiveInitAck
<1>4. CASE assoc[h].state = "COOKIE_WAIT"
  <2>1. Becomes(h, a, {m}, {CookieEcho(h, a)}, {})
    BY <1>4 DEF ReceiveInitAck
  <2> HIDE DEF a
  <2> QED  BY <1>1, <1>2, <1>3, <1>4, <2>1, BecomesKeeps
<1>5. CASE assoc[h].state # "COOKIE_WAIT"
  BY <1>3, <1>5, StaysKeeps DEF ReceiveInitAck
<1> QED  BY <1>4, <1>5

LEMMA StaleCookieKeeps ==
    ASSUME TimersInv, NEW h \in Hosts, NEW m \in chunks, StaleCookie(h, m), UNCHANGED listening
    PROVE  TimersInv'
<1>1. Chunk(h, "ABORT", assoc[h]) \in Chunks
  BY InvIsRight, ChunkType DEF Types
<1> QED  BY <1>1, AssocFacts, RemovedKeeps DEF StaleCookie

LEMMA ReceiveCookieEchoKeeps ==
    ASSUME TimersInv, NEW h \in Hosts, NEW m \in chunks, ReceiveCookieEcho(h, m),
           UNCHANGED listening
    PROVE  TimersInv'
<1> DEFINE a == assoc[h]
           c == m.cookie
           joined == IF a.state = "COOKIE_WAIT" THEN Established(Restored(a, c))
                                                ELSE Restored(a, c)
           accept(b) == Becomes(h, b, {m}, {Chunk(h, "COOKIE_ACK", b)}, {})
<1>1. fault' \in Faults /\ UNCHANGED opens
  BY AssocFacts DEF ReceiveCookieEcho
<1>2. a \in Right /\ a \in Associations /\ c \in Cookies
  BY InvIsRight, PacketFacts
<1>3. Restored(a, c) \in Right /\ Restored(a, c).state = a.state
  BY <1>2, RestoredIsRight
<1>4. joined \in Right
  BY <1>3, EstablishedIsRight DEF Opening
<1>5. a.state = "CLOSED" => Established(a) \in Right
  BY <1>2, EstablishedIsRight
<1>6. \/ a.state = "CLOSED" /\ accept(Established(a))
      \/ Removed(h, {m}, {Chunk(h, "ABORT", a)}, {})
      \/ accept(Restored(a, c)) \/ accept(joined) \/ accept(a)
      \/ Stays(h, {m}, {}, {})
  BY Zenon DEF ReceiveCookieEcho
<1>7. ASSUME NEW b \in Right, accept(b) PROVE TimersInv'
  <2>1. Chunk(h, "COOKIE_ACK", b) \in Chunks
    BY ChunkType DEF Types, Right
  <2> QED  BY <1>1, <1>7, <2>1, BecomesKeeps
<1>8. ASSUME Removed(h, {m}, {Chunk(h, "ABORT", a)}, {}) PROVE TimersInv'
  <2>1. Chunk(h, "ABORT", a) \in Chunks
    BY <1>2, ChunkType DEF Types
  <2> QED  BY <1>1, <1>8, <2>1, RemovedKeeps
<1>9. ASSUME Stays(h, {m}, {}, {}) PROVE TimersInv'
  BY <1>1, <1>9, StaysKeeps
<1> HIDE DEF a, c, joined, accept
<1> QED  BY <1>2, <1>3, <1>4, <1>5, <1>6, <1>7, <1>8, <1>9

LEMMA ReceiveCookieAckKeeps ==
    ASSUME TimersInv, NEW h \in Hosts, NEW m \in chunks, ReceiveCookieAck(h, m), UNCHANGED listening
    PROVE  TimersInv'
<1>1. fault' \in Faults /\ UNCHANGED opens
  BY AssocFacts DEF ReceiveCookieAck
<1>2. CASE assoc[h].state = "COOKIE_ECHOED"
  <2>1. Established(assoc[h]) \in Right
    BY <1>2, InvIsRight, EstablishedIsRight DEF Opening
  <2> QED  BY <1>1, <1>2, <2>1, BecomesKeeps DEF ReceiveCookieAck
<1>3. CASE assoc[h].state # "COOKIE_ECHOED"
  BY <1>1, <1>3, StaysKeeps DEF ReceiveCookieAck
<1> QED  BY <1>2, <1>3

LEMMA ReceiveShutdownKeeps ==
    ASSUME TimersInv, NEW h \in Hosts, NEW m \in chunks, ReceiveShutdown(h, m), UNCHANGED listening
    PROVE  TimersInv'
<1>1. fault' \in Faults /\ UNCHANGED opens
  BY AssocFacts DEF ReceiveShutdown
<1>2. CASE assoc[h].state \in {"ESTABLISHED", "SHUTDOWN_SENT"}
  <2>1. ShutdownAckSent(assoc[h]) \in Right
    BY <1>2, InvIsRight, ShutdownAckSentIsRight
  <2>2. Chunk(h, "SHUTDOWN_ACK", assoc[h]) \in Chunks
    BY InvIsRight, ChunkType DEF Types
  <2> QED  BY <1>1, <1>2, <2>1, <2>2, BecomesKeeps DEF ReceiveShutdown
<1>3. CASE assoc[h].state \notin {"ESTABLISHED", "SHUTDOWN_SENT"}
  BY <1>1, <1>3, StaysKeeps DEF ReceiveShutdown
<1> QED  BY <1>2, <1>3

LEMMA ReceiveShutdownAckKeeps ==
    ASSUME TimersInv, NEW h \in Hosts, NEW m \in chunks, ReceiveShutdownAck(h, m),
           UNCHANGED listening
    PROVE  TimersInv'
<1> DEFINE a == assoc[h]
           quiet == [a EXCEPT !.timers = @ \ {"T2", "T5"}]
           deleted == [quiet EXCEPT !.shutdownChunk = IF @ = "kept" THEN "deleted" ELSE @]
           complete == {Chunk(h, "SHUTDOWN_COMPLETE", a)}
<1>1. fault' \in Faults /\ UNCHANGED opens
  BY AssocFacts DEF ReceiveShutdownAck, Faults
<1>2. a \in Associations /\ RightTimers(a)
  BY InvIsRight DEF Right
<1>3. quiet \in Associations /\ deleted \in Associations
  BY <1>2 DEF Associations
<1>4. a.state \in Opening \cup {"CLOSED"} => quiet \in Right
  <2>1. a.state \in Opening \cup {"CLOSED"} => RightTimers(quiet)
    BY <1>2 DEF Associations, RightTimers, Opening, Closing
  <2> QED  BY <1>3, <2>1 DEF Right
<1>5. a.state = "SHUTDOWN_ACK_SENT" => deleted \in Right
  <2>1. a.state = "SHUTDOWN_ACK_SENT" => RightTimers(deleted)
    BY <1>2 DEF Associations, RightTimers, Opening, Closing
  <2> QED  BY <1>3, <2>1 DEF Right
<1>6. complete \subseteq Chunks
  BY <1>2, ChunkType DEF Types
<1>7. \/ Stays(h, {m}, {}, {})
      \/ a.state \in Opening \cup {"CLOSED"} /\ Becomes(h, quiet, {m}, complete, {})
      \/ Removed(h, {m}, complete, {"CLOSED"})
      \/ a.state = "SHUTDOWN_ACK_SENT" /\ Becomes(h, deleted, {m}, complete, {"CLOSED"})
      \/ Stays(h, {m}, complete, {"CLOSED"})
  BY DEF ReceiveShutdownAck
<1>8. {"CLOSED"} \subseteq Indications
  BY DEF Indications
<1> HIDE DEF a, quiet, deleted, complete
<1> QED  BY <1>1, <1>4, <1>5, <1>6, <1>7, <1>8, BecomesKeeps, StaysKeeps, RemovedKeeps

LEMMA ReceiveShutdownCompleteKeeps ==
    ASSUME TimersInv, NEW h \in Hosts, NEW m \in chunks, ReceiveShutdownComplete(h, m),
           UNCHANGED listening
    PROVE  TimersInv'
<1>1. fault' \in Faults /\ UNCHANGED opens
  BY AssocFacts DEF ReceiveShutdownComplete, Faults
<1>2. Removed(h, {m}, {}, {"CLOSED"}) \/ Stays(h, {m}, {}, {})
  BY DEF ReceiveShutdownComplete
<1> QED  BY <1>1, <1>2, RemovedKeeps, StaysKeeps DEF Indications

LEMMA ReceiveAbortKeeps ==
    ASSUME TimersInv, NEW h \in Hosts, NEW m \in chunks, ReceiveAbort(h, m), UNCHANGED listening
    PROVE  TimersInv'
<1>1. fault' \in Faults /\ UNCHANGED opens
  BY AssocFacts DEF ReceiveAbort
<1>2. \/ Removed(h, {m}, {}, {"ABORT", "CLOSED"})
      \/ Stays(h, {m}, {}, {"ABORT"}) \/ Stays(h, {m}, {}, {})
  BY DEF ReceiveAbort
<1> QED  BY <1>1, <1>2, RemovedKeeps, StaysKeeps DEF Indications

LEMMA T1ExpiresKeeps ==
    ASSUME TimersInv, NEW h \in Hosts, T1Expires(h), UNCHANGED listening
    PROVE  TimersInv'
<1> DEFINE a == assoc[h]
           again == [a EXCEPT !.initRetransCounter = @ + 1]
<1>1. fault' \in Faults /\ UNCHANGED opens
  BY AssocFacts DEF T1Expires, Faults
<1>2. a \in Associations /\ RightTimers(a)
  BY InvIsRight DEF Right
<1>3. CASE GivesUp(a)
  <2>1. Removed(h, {}, {Chunk(h, "ABORT", a)}, {"CLOSED"})
    BY <1>3 DEF T1Expires
  <2>2. Chunk(h, "ABORT", a) \in Chunks
    BY <1>2, ChunkType DEF Types
  <2> QED  BY <1>1, <2>1, <2>2, RemovedKeeps DEF Indications
<1>4. CASE ~ GivesUp(a)
  <2>1. a.initRetransCounter + 1 \in 0 .. MaxInitRetrans
    BY <1>2, <1>4 DEF GivesUp, Associations, SCTPAssumption
  <2>2. again \in Right
    BY <1>2, <2>1 DEF Right, Associations, RightTimers
  <2>3. InitChunk(h, a) \in Chunks /\ CookieEcho(h, a) \in Chunks
    BY <1>2, InitChunkType, CookieEchoType
  <2>4. \/ Becomes(h, again, {}, {InitChunk(h, a)}, {})
        \/ Becomes(h, again, {}, {CookieEcho(h, a)}, {})
        \/ Stays(h, {}, {}, {})
    BY <1>4 DEF T1Expires
  <2> HIDE DEF a, again
  <2> QED  BY <1>1, <2>2, <2>3, <2>4, BecomesKeeps, StaysKeeps
<1> QED  BY <1>3, <1>4

LEMMA T2ExpiresKeeps ==
    ASSUME TimersInv, NEW h \in Hosts, T2Expires(h), UNCHANGED listening
    PROVE  TimersInv'
<1> DEFINE a == assoc[h]
           again == [a EXCEPT !.errorCount = @ + 1]
           out == CASE a.state = "SHUTDOWN_SENT" -> {Chunk(h, "SHUTDOWN", a)}
                    [] a.state = "SHUTDOWN_ACK_SENT" -> {Chunk(h, "SHUTDOWN_ACK", a)}
                    [] OTHER -> {}
<1>1. fault' \in Faults /\ UNCHANGED opens
  BY AssocFacts DEF T2Expires
<1>2. a \in Associations /\ RightTimers(a)
  BY InvIsRight DEF Right
<1>3. /\ Chunk(h, "ABORT", a) \in Chunks /\ Chunk(h, "SHUTDOWN", a) \in Chunks
      /\ Chunk(h, "SHUTDOWN_ACK", a) \in Chunks
  BY <1>2, ChunkType DEF Types
<1>4. out \subseteq Chunks
  BY <1>3
<1>5. a.errorCount < AssocMaxRetrans => again \in Right
  <2>1. a.errorCount < AssocMaxRetrans => a.errorCount + 1 \in 0 .. AssocMaxRetrans
    BY <1>2 DEF Associations, SCTPAssumption
  <2> QED  BY <1>2, <2>1 DEF Right, Associations, RightTimers
<1>6. \/ Removed(h, {}, {Chunk(h, "ABORT", a)}, {"CONN_LOST"})
      \/ a.errorCount < AssocMaxRetrans /\ Becomes(h, again, {}, out, {})
  BY DEF T2Expires
<1>7. {"CONN_LOST"} \subseteq Indications
  BY DEF Indications
<1> HIDE DEF a, again, out
<1> QED  BY <1>1, <1>3, <1>4, <1>5, <1>6, <1>7, RemovedKeeps, BecomesKeeps

LEMMA T5ExpiresKeeps ==
    ASSUME TimersInv, NEW h \in Hosts, T5Expires(h), UNCHANGED listening
    PROVE  TimersInv'
<1>1. Chunk(h, "ABORT", assoc[h]) \in Chunks
  BY InvIsRight, ChunkType DEF Types
<1>2. fault' \in Faults
  BY AssocFacts DEF T5Expires, Faults
<1> QED  BY <1>1, <1>2, RemovedKeeps DEF T5Expires, Indications

LEMMA LoseKeeps ==
    ASSUME TimersInv, NEW m \in chunks, Lose(m), UNCHANGED listening
    PROVE  TimersInv'
BY DEF TimersInv, SCTPTypeOK, SCTPTimersRight, Lose

-----------------------------------------------------------------------------
\* The invariant of the specification.

LEMMA NextKeeps ==
    ASSUME TimersInv, [SCTPNext]_sctpVars
    PROVE  TimersInv'
<1>1. CASE SCTPNext
  <2>1. UNCHANGED listening
    BY <1>1 DEF SCTPNext
  <2>2. ASSUME NEW h \in Hosts,
               \/ Associate(h) \/ Shutdown(h) \/ Close(h) \/ Abort(h)
               \/ T1Expires(h) \/ T2Expires(h) \/ T5Expires(h)
        PROVE  TimersInv'
    BY <2>1, <2>2, AssociateKeeps, ShutdownKeeps, CloseKeeps, AbortKeeps,
       T1ExpiresKeeps, T2ExpiresKeeps, T5ExpiresKeeps
  <2>3. ASSUME NEW h \in Hosts, NEW m \in chunks, Receive(h, m)
        PROVE  TimersInv'
    BY <2>1, <2>3, WrongTagKeeps, NoAssociationFoundKeeps, ForkAssociationKeeps,
       ReceiveInitKeeps, ReceiveInitAckKeeps, StaleCookieKeeps, ReceiveCookieEchoKeeps,
       ReceiveCookieAckKeeps, ReceiveShutdownKeeps, ReceiveShutdownAckKeeps,
       ReceiveShutdownCompleteKeeps, ReceiveAbortKeeps
       DEF Receive
  <2>4. ASSUME NEW m \in chunks, Lose(m)
        PROVE  TimersInv'
    BY <2>1, <2>4, LoseKeeps
  <2> QED  BY <1>1, <2>2, <2>3, <2>4 DEF SCTPNext
<1>2. CASE UNCHANGED sctpVars
  BY <1>2 DEF sctpVars, TimersInv, SCTPTypeOK, SCTPTimersRight
<1> QED  BY <1>1, <1>2

LEMMA TimersInvHolds == SCTPSpec => []TimersInv
BY InitKeeps, NextKeeps, PTL DEF SCTPSpec

\* Every association stays in its automaton, and no counter of retransmissions
\* passes its parameter: process_TIMEOUT_INIT_REXMIT() and _SHUTDOWN() give up.
THEOREM SCTPTypeCorrect == SCTPSpec => []SCTPTypeOK
<1>1. TimersInv => SCTPTypeOK
  BY DEF TimersInv
<1> QED  BY <1>1, TimersInvHolds, PTL

\* T1 runs exactly in COOKIE_WAIT and COOKIE_ECHOED, so process_TIMEOUT_INIT_REXMIT()
\* never throws; T2 and T5 run only, and in SHUTDOWN_SENT always, in a shutdown.
THEOREM SCTPTimersCorrect == SCTPSpec => []SCTPTimersRight
<1>1. TimersInv => SCTPTimersRight
  BY DEF TimersInv
<1> QED  BY <1>1, TimersInvHolds, PTL

-----------------------------------------------------------------------------
\* What an application hears of the end of its association.

Told(p) ==
    (assoc[p].state \in Opening \cup Synchronized /\ assoc'[p].state = "NONE")
    => \/ told'[p] \cap {"CLOSED", "CONN_LOST"} # {}
       \/ \E m \in chunks \ chunks' : m.to = p /\ m.type \in {"INIT", "COOKIE_ECHO"}

AllTold == \A p \in Hosts : Told(p)

LEMMA NobodyEnds ==
    ASSUME \A p \in Hosts : assoc'[p].state = "NONE" => assoc[p].state = "NONE"
    PROVE  AllTold
BY DEF AllTold, Told, Opening, Synchronized, Closing

\* The other host does not end, and this one does not either or is told.
LEMMA BecomesTells ==
    ASSUME TimersInv, NEW h \in Hosts, NEW a, NEW in, NEW out, NEW said,
           Becomes(h, a, in, out, said),
           \/ a.state # "NONE" \/ a = assoc[h]
           \/ said \cap {"CLOSED", "CONN_LOST"} # {}
    PROVE  AllTold
<1>1. /\ assoc' = [assoc EXCEPT ![h] = a] /\ assoc \in [Hosts -> Associations]
      /\ told'[h] = said
  BY DEF TimersInv, SCTPTypeOK, Becomes
<1>2. ASSUME NEW p \in Hosts PROVE Told(p)
  <2>1. CASE p = h
    BY <1>1, <2>1 DEF Told, Opening, Synchronized, Closing
  <2>2. CASE p # h
    <3>1. assoc'[p] = assoc[p]
      BY <1>1, <2>2
    <3> QED  BY <3>1 DEF Told, Opening, Synchronized, Closing
  <2> QED  BY <2>1, <2>2
<1> QED  BY <1>2 DEF AllTold

LEMMA StaysTells ==
    ASSUME TimersInv, NEW h \in Hosts, NEW in, NEW out, NEW said, Stays(h, in, out, said)
    PROVE  AllTold
BY BecomesTells DEF Stays

LEMMA RemovedTells ==
    ASSUME TimersInv, NEW h \in Hosts, NEW in, NEW out, NEW said,
           Removed(h, in, out, said), said \cap {"CLOSED", "CONN_LOST"} # {}
    PROVE  AllTold
BY BecomesTells DEF Removed

\* Nobody tells the application, but an INIT or a COOKIE_ECHO was taken.
LEMMA RemovedByPacket ==
    ASSUME TimersInv, NEW h \in Hosts, NEW m \in chunks, NEW out, NEW said,
           m.to = h, m.type \in {"INIT", "COOKIE_ECHO"}, m \notin out,
           Removed(h, {m}, out, said)
    PROVE  AllTold
<1>1. /\ assoc' = [assoc EXCEPT ![h] = NoAssociation]
      /\ assoc \in [Hosts -> Associations]
      /\ chunks' = Sent(chunks \ {m}, out)
  BY DEF TimersInv, SCTPTypeOK, Removed, Becomes
<1>2. m \in chunks \ chunks'
  BY <1>1 DEF Sent
<1>3. ASSUME NEW p \in Hosts PROVE Told(p)
  <2>1. CASE p = h
    BY <1>2, <2>1 DEF Told
  <2>2. CASE p # h
    <3>1. assoc'[p] = assoc[p]
      BY <1>1, <2>2
    <3> QED  BY <3>1 DEF Told, Opening, Synchronized, Closing
  <2> QED  BY <2>1, <2>2
<1> QED  BY <1>3 DEF AllTold

\* Of an association in CLOSED the application has not heard yet.
LEMMA ClosedRemoved ==
    ASSUME TimersInv, NEW h \in Hosts, NEW in, NEW out, NEW said,
           assoc[h].state = "CLOSED", Removed(h, in, out, said)
    PROVE  AllTold
<1>1. /\ assoc' = [assoc EXCEPT ![h] = NoAssociation]
      /\ assoc \in [Hosts -> Associations]
  BY DEF TimersInv, SCTPTypeOK, Removed, Becomes
<1>2. ASSUME NEW p \in Hosts PROVE Told(p)
  <2>1. CASE p = h
    BY <2>1 DEF Told, Opening, Synchronized, Closing
  <2>2. CASE p # h
    <3>1. assoc'[p] = assoc[p]
      BY <1>1, <2>2
    <3> QED  BY <3>1 DEF Told, Opening, Synchronized, Closing
  <2> QED  BY <2>1, <2>2
<1> QED  BY <1>2 DEF AllTold

LEMMA CommandsTell ==
    ASSUME TimersInv, NEW h \in Hosts, Associate(h) \/ Shutdown(h) \/ Close(h) \/ Abort(h)
    PROVE  AllTold
<1>1. CASE Associate(h)
  <2>1. \A p \in Hosts : assoc'[p].state = "NONE" => assoc[p].state = "NONE"
    BY <1>1 DEF Associate, TimersInv, SCTPTypeOK
  <2> QED  BY <2>1, NobodyEnds
<1>2. CASE Shutdown(h)
  <2>1. ShutdownSent(assoc[h]).state # "NONE"
    BY InvIsRight DEF ShutdownSent, Associations
  <2> QED  BY <1>2, <2>1, BecomesTells DEF Shutdown
<1>3. CASE Close(h)
  BY <1>3, RemovedTells DEF Close
<1>4. CASE Abort(h)
  BY <1>4, RemovedTells DEF Abort
<1> QED  BY <1>1, <1>2, <1>3, <1>4

LEMMA TimersTell ==
    ASSUME TimersInv, NEW h \in Hosts, T1Expires(h) \/ T2Expires(h) \/ T5Expires(h)
    PROVE  AllTold
<1>1. assoc[h] \in Associations /\ RightTimers(assoc[h])
  BY InvIsRight DEF Right
<1>2. CASE T1Expires(h)
  <2>1. assoc[h].state # "NONE"
    BY <1>1, <1>2 DEF T1Expires, RightTimers, Opening
  <2>2. [assoc[h] EXCEPT !.initRetransCounter = @ + 1].state = assoc[h].state
    BY <1>1 DEF Associations
  <2>3. \/ Removed(h, {}, {Chunk(h, "ABORT", assoc[h])}, {"CLOSED"})
        \/ \E out : Becomes(h, [assoc[h] EXCEPT !.initRetransCounter = @ + 1], {}, out, {})
        \/ Stays(h, {}, {}, {})
    BY <1>2 DEF T1Expires
  <2> QED  BY <2>1, <2>2, <2>3, BecomesTells, RemovedTells, StaysTells
<1>3. CASE T2Expires(h)
  <2>1. assoc[h].state # "NONE"
    BY <1>1, <1>3 DEF T2Expires, RightTimers, Closing
  <2>2. [assoc[h] EXCEPT !.errorCount = @ + 1].state = assoc[h].state
    BY <1>1 DEF Associations
  <2>3. \/ Removed(h, {}, {Chunk(h, "ABORT", assoc[h])}, {"CONN_LOST"})
        \/ \E out : Becomes(h, [assoc[h] EXCEPT !.errorCount = @ + 1], {}, out, {})
    BY <1>3 DEF T2Expires
  <2> QED  BY <2>1, <2>2, <2>3, BecomesTells, RemovedTells
<1>4. CASE T5Expires(h)
  BY <1>4, RemovedTells DEF T5Expires
<1> QED  BY <1>2, <1>3, <1>4

LEMMA SetUpTells ==
    ASSUME TimersInv, NEW h \in Hosts, NEW m \in chunks,
           \/ ForkAssociation(h, m) \/ ReceiveInit(h, m) \/ ReceiveInitAck(h, m)
           \/ StaleCookie(h, m) \/ ReceiveCookieEcho(h, m) \/ ReceiveCookieAck(h, m)
    PROVE  AllTold
<1>1. assoc[h] \in Associations
  BY InvIsRight
<1>2. CASE ForkAssociation(h, m)
  <2>1. \A p \in Hosts : assoc'[p].state = "NONE" => assoc[p].state = "NONE"
    BY <1>2 DEF ForkAssociation, TimersInv, SCTPTypeOK, NoAssociation
  <2> QED  BY <2>1, NobodyEnds
<1>3. CASE ReceiveInit(h, m)
  <2>1. (\E out : Stays(h, {m}, out, {})) \/ Removed(h, {m}, {}, {})
    BY <1>3 DEF ReceiveInit
  <2>2. m.to = h /\ m.type \in {"INIT", "COOKIE_ECHO"}
    BY <1>3 DEF ReceiveInit, Accepts, ForHost
  <2> QED  BY <2>1, <2>2, StaysTells, RemovedByPacket
<1>4. CASE ReceiveInitAck(h, m)
  <2> DEFINE a == [assoc[h] EXCEPT !.state = "COOKIE_ECHOED", !.localVTag = m.initTag,
                                   !.cookieChunk = m.cookie]
  <2>1. (\E out : Becomes(h, a, {m}, out, {})) \/ Stays(h, {m}, {}, {})
    BY <1>4 DEF ReceiveInitAck
  <2>2. a.state # "NONE"
    BY <1>1 DEF Associations
  <2> HIDE DEF a
  <2> QED  BY <2>1, <2>2, BecomesTells, StaysTells
<1>5. CASE StaleCookie(h, m)
  <2>1. m.to = h /\ m.type = "COOKIE_ECHO"
    BY <1>5 DEF StaleCookie, Accepts, ForHost
  <2>2. Chunk(h, "ABORT", assoc[h]).type = "ABORT"
    BY <1>1, ChunkType DEF Types
  <2>3. m \notin {Chunk(h, "ABORT", assoc[h])}
    BY <2>1, <2>2
  <2> QED  BY <1>5, <2>1, <2>3, RemovedByPacket DEF StaleCookie
<1>6. CASE ReceiveCookieEcho(h, m)
  <2> DEFINE a == assoc[h]
             c == m.cookie
             joined == IF a.state = "COOKIE_WAIT" THEN Established(Restored(a, c))
                                                  ELSE Restored(a, c)
             accept(b) == Becomes(h, b, {m}, {Chunk(h, "COOKIE_ACK", b)}, {})
  <2>1. a.state # "NONE"
    BY <1>6 DEF ReceiveCookieEcho, Accepts
  <2>2. /\ Established(a).state # "NONE" /\ Restored(a, c).state # "NONE"
        /\ joined.state # "NONE"
    BY <1>1, <2>1 DEF Established, Restored, Associations
  <2>3. \/ accept(Established(a)) \/ accept(Restored(a, c)) \/ accept(joined) \/ accept(a)
        \/ Stays(h, {m}, {}, {})
        \/ a.state = "CLOSED" /\ Removed(h, {m}, {Chunk(h, "ABORT", a)}, {})
    BY <1>6, Zenon DEF ReceiveCookieEcho
  <2>4. ASSUME NEW b, b.state # "NONE", accept(b) PROVE AllTold
    BY <2>4, BecomesTells
  <2> HIDE DEF c, joined, accept
  <2> QED  BY <2>1, <2>2, <2>3, <2>4, StaysTells, ClosedRemoved
<1>7. CASE ReceiveCookieAck(h, m)
  <2>1. Established(assoc[h]).state # "NONE"
    BY <1>1 DEF Established, Associations
  <2> QED  BY <1>7, <2>1, BecomesTells, StaysTells DEF ReceiveCookieAck
<1> QED  BY <1>2, <1>3, <1>4, <1>5, <1>6, <1>7

LEMMA OthersTell ==
    ASSUME TimersInv, NEW h \in Hosts, NEW m \in chunks,
           \/ WrongTag(h, m) \/ NoAssociationFound(h, m)
           \/ ReceiveShutdown(h, m) \/ ReceiveShutdownAck(h, m)
           \/ ReceiveShutdownComplete(h, m) \/ ReceiveAbort(h, m)
    PROVE  AllTold
<1>1. assoc[h] \in Associations
  BY InvIsRight
<1>2. CASE WrongTag(h, m) \/ NoAssociationFound(h, m)
  BY <1>2, StaysTells DEF WrongTag, NoAssociationFound
<1>3. CASE ReceiveShutdown(h, m)
  <2>1. ShutdownAckSent(assoc[h]).state # "NONE"
    BY <1>1 DEF ShutdownAckSent, Associations
  <2> QED  BY <1>3, <2>1, BecomesTells, StaysTells DEF ReceiveShutdown
<1>4. CASE ReceiveShutdownAck(h, m)
  <2> DEFINE a == assoc[h]
             quiet == [a EXCEPT !.timers = @ \ {"T2", "T5"}]
             deleted == [quiet EXCEPT !.shutdownChunk =
                             IF @ = "kept" THEN "deleted" ELSE @]
             complete == {Chunk(h, "SHUTDOWN_COMPLETE", a)}
  <2>1. a.state # "NONE"
    BY <1>4 DEF ReceiveShutdownAck, Accepts
  <2>2. quiet.state # "NONE" /\ deleted.state # "NONE"
    BY <1>1, <2>1 DEF Associations
  <2>3. \/ Stays(h, {m}, {}, {}) \/ Stays(h, {m}, complete, {"CLOSED"})
        \/ Becomes(h, quiet, {m}, complete, {})
        \/ Becomes(h, deleted, {m}, complete, {"CLOSED"})
        \/ Removed(h, {m}, complete, {"CLOSED"})
    BY <1>4 DEF ReceiveShutdownAck
  <2> HIDE DEF a, quiet, deleted, complete
  <2> QED  BY <2>2, <2>3, BecomesTells, StaysTells, RemovedTells
<1>5. CASE ReceiveShutdownComplete(h, m)
  BY <1>5, StaysTells, RemovedTells DEF ReceiveShutdownComplete
<1>6. CASE ReceiveAbort(h, m)
  BY <1>6, StaysTells, RemovedTells DEF ReceiveAbort
<1> QED  BY <1>2, <1>3, <1>4, <1>5, <1>6

\* Whichever handler removes the association of an application, it has sent
\* SCTP_I_CLOSED or SCTP_I_CONN_LOST; only the result false of processInitArrived()
\* and of processCookieEchoArrived() with a stale cookie say nothing.
THEOREM EndIsToldAlways == SCTPSpec => EndIsTold
<1>1. ASSUME TimersInv, SCTPNext PROVE AllTold
  <2>1. ASSUME NEW h \in Hosts, NEW m \in chunks, Receive(h, m) PROVE AllTold
    BY <1>1, <2>1, SetUpTells, OthersTell DEF Receive
  <2>2. ASSUME NEW m \in chunks, Lose(m) PROVE AllTold
    BY <2>2, NobodyEnds DEF Lose
  <2> QED  BY <1>1, <2>1, <2>2, CommandsTell, TimersTell DEF SCTPNext
<1>2. TimersInv /\ [SCTPNext]_sctpVars
      => [\A h \in Hosts :
             (assoc[h].state \in Opening \cup Synchronized /\ assoc'[h].state = "NONE")
             => \/ told'[h] \cap {"CLOSED", "CONN_LOST"} # {}
                \/ \E m \in chunks \ chunks' :
                      m.to = h /\ m.type \in {"INIT", "COOKIE_ECHO"}]_sctpVars
  BY <1>1 DEF AllTold, Told
<1> QED  BY <1>2, TimersInvHolds, PTL DEF SCTPSpec, EndIsTold

-----------------------------------------------------------------------------
\* What any handler may do to the tags and to the states, whichever it is.

Alive(h) == assoc[h].state # "NONE"

On(m, h, type) == m.to = h /\ m.type = type

\* The cookie that names the tags of an association.
Tie(a) == [local |-> a.localVTag, peer |-> a.peerVTag]

\* Nobody remembers this tag.
New(t) ==
    /\ t \in Tags
    /\ \A p \in Hosts : /\ t # assoc[p].localVTag /\ t # assoc[p].peerVTag
                        /\ t # assoc[p].cookieChunk.local /\ t # assoc[p].cookieChunk.peer
    /\ \A m \in chunks : /\ t # m.tag /\ t # m.initTag
                         /\ t # m.cookie.local /\ t # m.cookie.peer

SameTags(a, b) ==
    /\ b.localVTag = a.localVTag /\ b.peerVTag = a.peerVTag
    /\ b.cookieChunk = a.cookieChunk

\* Host h has accepted the packet k.
Took(h, k, type) == k \in chunks /\ On(k, h, type) /\ k.tag = assoc[h].peerVTag

Opened(h, a, b) ==
    /\ a.state = "NONE" /\ h \notin listening
    /\ b.state = "COOKIE_WAIT" /\ New(b.peerVTag)
    /\ b.localVTag = 0 /\ b.cookieChunk = NoCookie

Forked(h, a, b) ==
    /\ a.state = "NONE" /\ h \in listening
    /\ b.state = "CLOSED" /\ New(b.peerVTag) /\ b.cookieChunk = NoCookie
    /\ \E k \in chunks : On(k, h, "INIT") /\ b.localVTag = k.initTag

Echoed(h, a, b) ==
    /\ a.state = "COOKIE_WAIT" /\ b.state = "COOKIE_ECHOED"
    /\ b.peerVTag = a.peerVTag
    /\ \E k \in chunks : /\ Took(h, k, "INIT_ACK")
                         /\ b.localVTag = k.initTag /\ b.cookieChunk = k.cookie

Accepted(h, a, b) ==
    /\ a.state = "CLOSED" /\ b.state = "ESTABLISHED" /\ SameTags(a, b)
    /\ \E k \in chunks : Took(h, k, "COOKIE_ECHO")

Acknowledged(h, a, b) ==
    /\ a.state = "COOKIE_ECHOED" /\ b.state = "ESTABLISHED" /\ SameTags(a, b)
    /\ \E k \in chunks : Took(h, k, "COOKIE_ACK")

\* A cookie that another life of the peer got: with another tag of this host,
\* too, or with the present one.
Rejoined(h, a, b) ==
    /\ a.state \in Opening \cup {"ESTABLISHED"} /\ b.cookieChunk = a.cookieChunk
    /\ \E k \in chunks : /\ Took(h, k, "COOKIE_ECHO") /\ k.cookie.local # a.localVTag
                         /\ b.localVTag = k.cookie.local /\ b.peerVTag = k.cookie.peer
    /\ \/ b.peerVTag # a.peerVTag /\ b.state = a.state
       \/ /\ b.peerVTag = a.peerVTag
          /\ b.state = IF a.state = "COOKIE_WAIT" THEN "ESTABLISHED" ELSE a.state

ShutDown(h, a, b) ==
    a.state = "ESTABLISHED" /\ b.state = "SHUTDOWN_SENT" /\ SameTags(a, b)

Answered(h, a, b) ==
    /\ a.state \in {"ESTABLISHED", "SHUTDOWN_SENT"} /\ b.state = "SHUTDOWN_ACK_SENT"
    /\ SameTags(a, b)
    /\ \E k \in chunks : Took(h, k, "SHUTDOWN")

Goes(h, a, b) ==
    \/ b.state = a.state /\ SameTags(a, b)
    \/ b = NoAssociation
    \/ Forked(h, a, b) \/ Echoed(h, a, b) \/ Accepted(h, a, b) \/ Acknowledged(h, a, b)
    \/ Rejoined(h, a, b) \/ ShutDown(h, a, b) \/ Answered(h, a, b)

\* What a packet of host h says, when its association goes from a to b.
SaysInit(h, a, b, m) ==
    /\ m.type = "INIT" /\ b.state = "COOKIE_WAIT"
    /\ m.tag = b.localVTag /\ m.initTag = b.peerVTag

SaysInitAck(h, a, b, m) ==
    /\ m.type = "INIT_ACK"
    /\ \/ /\ b.state = "CLOSED" /\ m.tag = b.localVTag /\ m.initTag = b.peerVTag
          /\ m.cookie = Tie(b)
       \/ /\ a.state \in Opening /\ b = a /\ m.initTag = a.peerVTag
          /\ \E k \in chunks : /\ On(k, h, "INIT") /\ m.tag = k.initTag
                               /\ m.cookie.local = k.initTag /\ m.cookie.peer = a.peerVTag
       \/ /\ a.state = "ESTABLISHED" /\ b = a /\ New(m.initTag) /\ m.cookie = Tie(a)
          /\ \E k \in chunks : On(k, h, "INIT") /\ m.tag = k.initTag

SaysCookieEcho(h, a, b, m) ==
    /\ m.type = "COOKIE_ECHO" /\ b.state = "COOKIE_ECHOED"
    /\ m.tag = b.localVTag /\ m.cookie = b.cookieChunk

SaysCookieAck(h, a, b, m) ==
    /\ m.type = "COOKIE_ACK" /\ b.state # "NONE" /\ m.tag = b.localVTag
    /\ \E k \in chunks : /\ Took(h, k, "COOKIE_ECHO")
                         /\ a.state # "CLOSED" => b.localVTag = k.cookie.local

SaysShutdown(h, a, b, m) ==
    /\ m.type = "SHUTDOWN" /\ m.tag = a.localVTag
    /\ a.state \in {"ESTABLISHED", "SHUTDOWN_SENT"} /\ b.state \in {"SHUTDOWN_SENT", "NONE"}

SaysShutdownAck(h, a, b, m) ==
    m.type = "SHUTDOWN_ACK" /\ b.state = "SHUTDOWN_ACK_SENT" /\ m.tag = b.localVTag

SaysComplete(h, a, b, m) ==
    /\ m.type = "SHUTDOWN_COMPLETE"
    /\ \E k \in chunks : /\ On(k, h, "SHUTDOWN_ACK")
                         /\ \/ a.state = "NONE" /\ m.tag = k.tag
                            \/ a.state # "NONE" /\ k.tag = a.peerVTag /\ m.tag = a.localVTag

Says(h, a, b, m) ==
    /\ m.to = Other(h)
    /\ \/ m.type = "ABORT" \/ SaysInit(h, a, b, m) \/ SaysInitAck(h, a, b, m)
       \/ SaysCookieEcho(h, a, b, m) \/ SaysCookieAck(h, a, b, m)
       \/ SaysShutdown(h, a, b, m) \/ SaysShutdownAck(h, a, b, m) \/ SaysComplete(h, a, b, m)

\* The chunk that is deleted was that of an association without T2 and T5.
Quiet(a) ==
    a.shutdownChunk = "deleted"
    => a.state = "SHUTDOWN_ACK_SENT" /\ a.timers \cap {"T2", "T5"} = {}

Acts(h) ==
    /\ UNCHANGED listening
    /\ Quiet(assoc[h]) => Quiet(assoc'[h])
    /\ \A p \in Hosts \ {h} : assoc'[p] = assoc[p] /\ opens'[p] = opens[p]
    /\ \A m \in chunks' : m \in chunks \/ Says(h, assoc[h], assoc'[h], m)
    /\ \/ opens'[h] = opens[h] /\ Goes(h, assoc[h], assoc'[h])
       \/ opens'[h] = opens[h] + 1 /\ Opened(h, assoc[h], assoc'[h])

LEMMA FreshIsNew == TagsLeft => New(FreshTag)
<1> SUFFICES ASSUME TagsLeft PROVE New(FreshTag)
  OBVIOUS
<1> DEFINE t == FreshTag
<1>1. t \in Tags /\ t \notin UsedTags
  BY DEF TagsLeft, FreshTag
<1> HIDE DEF t
<1> DEFINE cookies == {assoc[h].cookieChunk : h \in Hosts} \cup {m.cookie : m \in chunks}
           ofHosts == {{assoc[h].localVTag, assoc[h].peerVTag} : h \in Hosts}
           ofPackets == {{m.tag, m.initTag} : m \in chunks}
           ofCookies == {{c.local, c.peer} : c \in cookies}
<1>2. UsedTags = (UNION ofHosts) \cup (UNION ofPackets) \cup (UNION ofCookies)
  BY Zenon DEF UsedTags
<1>3. /\ \A S \in ofHosts : t \notin S
      /\ \A S \in ofPackets : t \notin S
      /\ \A S \in ofCookies : t \notin S
  <2> HIDE DEF ofHosts, ofPackets, ofCookies
  <2> QED  BY <1>1, <1>2
<1>4. ASSUME NEW c \in cookies
      PROVE  t # c.local /\ t # c.peer
  <2>1. {c.local, c.peer} \in ofCookies
    OBVIOUS
  <2> HIDE DEF ofCookies
  <2> QED  BY <1>3, <2>1
<1>5. ASSUME NEW p \in Hosts
      PROVE  /\ t # assoc[p].localVTag /\ t # assoc[p].peerVTag
             /\ t # assoc[p].cookieChunk.local /\ t # assoc[p].cookieChunk.peer
  <2>1. t \notin {assoc[p].localVTag, assoc[p].peerVTag}
    <3>1. {assoc[p].localVTag, assoc[p].peerVTag} \in ofHosts
      OBVIOUS
    <3> HIDE DEF ofHosts
    <3> QED  BY <1>3, <3>1
  <2>2. t # assoc[p].cookieChunk.local /\ t # assoc[p].cookieChunk.peer
    <3>1. assoc[p].cookieChunk \in {assoc[q].cookieChunk : q \in Hosts}
      OBVIOUS
    <3> QED  BY <1>4, <3>1
  <2> QED  BY <2>1, <2>2
<1>6. ASSUME NEW m \in chunks
      PROVE  t # m.tag /\ t # m.initTag /\ t # m.cookie.local /\ t # m.cookie.peer
  <2>1. t # m.tag /\ t # m.initTag
    <3>1. {m.tag, m.initTag} \in ofPackets
      OBVIOUS
    <3> HIDE DEF ofPackets
    <3> QED  BY <1>3, <3>1
  <2>2. t # m.cookie.local /\ t # m.cookie.peer
    <3>1. m.cookie \in {k.cookie : k \in chunks}
      OBVIOUS
    <3> QED  BY <1>4, <3>1
  <2> QED  BY <2>1, <2>2
<1>7. New(t)
  BY <1>1, <1>5, <1>6 DEF New
<1> QED  BY <1>7 DEF t

LEMMA BecomesActs ==
    ASSUME TimersInv, NEW h \in Hosts, NEW b, NEW in, NEW out, NEW said,
           Becomes(h, b, in, out, said),
           Goes(h, assoc[h], b), Quiet(assoc[h]) => Quiet(b),
           \A m \in out : Says(h, assoc[h], b, m),
           UNCHANGED <<listening, opens>>
    PROVE  Acts(h)
<1>1. assoc' = [assoc EXCEPT ![h] = b] /\ assoc \in [Hosts -> Associations]
  BY DEF TimersInv, SCTPTypeOK, Becomes
<1>2. assoc'[h] = b /\ \A p \in Hosts \ {h} : assoc'[p] = assoc[p]
  BY <1>1
<1>3. \A m \in chunks' : m \in chunks \/ m \in out
  BY DEF Becomes, Sent
<1> QED  BY <1>2, <1>3 DEF Acts

LEMMA KeptGoes ==
    ASSUME NEW h, NEW a, NEW b, b.state = a.state, SameTags(a, b)
    PROVE  Goes(h, a, b)
BY DEF Goes

LEMMA StaysActs ==
    ASSUME TimersInv, NEW h \in Hosts, NEW in, NEW out, NEW said,
           Stays(h, in, out, said),
           \A m \in out : Says(h, assoc[h], assoc[h], m),
           UNCHANGED <<listening, opens>>
    PROVE  Acts(h)
<1>1. Goes(h, assoc[h], assoc[h])
  BY DEF Goes, SameTags
<1> QED  BY <1>1, BecomesActs DEF Stays

LEMMA RemovedActs ==
    ASSUME TimersInv, NEW h \in Hosts, NEW in, NEW out, NEW said,
           Removed(h, in, out, said),
           \A m \in out : Says(h, assoc[h], NoAssociation, m),
           UNCHANGED <<listening, opens>>
    PROVE  Acts(h)
<1>1. Goes(h, assoc[h], NoAssociation) /\ Quiet(NoAssociation)
  BY DEF Goes, Quiet, NoAssociation
<1> QED  BY <1>1, BecomesActs DEF Removed

LEMMA ChunkFields ==
    ASSUME NEW h, NEW type, NEW a
    PROVE  /\ Chunk(h, type, a).to = Other(h) /\ Chunk(h, type, a).type = type
           /\ Chunk(h, type, a).tag = a.localVTag
BY DEF Chunk

LEMMA InitChunkFields ==
    ASSUME NEW h, NEW a
    PROVE  /\ InitChunk(h, a).to = Other(h) /\ InitChunk(h, a).type = "INIT"
           /\ InitChunk(h, a).tag = a.localVTag /\ InitChunk(h, a).initTag = a.peerVTag
BY DEF InitChunk, Chunk

LEMMA CookieEchoFields ==
    ASSUME NEW h, NEW a
    PROVE  /\ CookieEcho(h, a).to = Other(h) /\ CookieEcho(h, a).type = "COOKIE_ECHO"
           /\ CookieEcho(h, a).tag = a.localVTag /\ CookieEcho(h, a).cookie = a.cookieChunk
BY DEF CookieEcho, Chunk

LEMMA InitAckFields ==
    ASSUME NEW h, NEW tag, NEW initTag, NEW local, NEW peer,
           NEW m \in InitAck(h, tag, initTag, local, peer)
    PROVE  /\ m.to = Other(h) /\ m.type = "INIT_ACK" /\ m.tag = tag /\ m.initTag = initTag
           /\ m.cookie = [local |-> local, peer |-> peer]
BY DEF InitAck

LEMMA AbortSaid ==
    ASSUME NEW h, NEW a, NEW b, NEW c
    PROVE  \A m \in {Chunk(h, "ABORT", c)} : Says(h, a, b, m)
BY ChunkFields DEF Says

LEMMA CommandsAct ==
    ASSUME TimersInv, NEW h \in Hosts, UNCHANGED listening,
           Associate(h) \/ Shutdown(h) \/ Close(h) \/ Abort(h)
    PROVE  Acts(h)
<1> DEFINE a == assoc[h]
<1>1. a \in Associations
  BY InvIsRight
<1>2. CASE Associate(h)
  <2> DEFINE b == [NoAssociation EXCEPT !.state = "COOKIE_WAIT",
                                        !.peerVTag = FreshTag, !.timers = {"T1"}]
  <2>1. /\ b.state = "COOKIE_WAIT" /\ b.peerVTag = FreshTag /\ b.localVTag = 0
        /\ b.cookieChunk = NoCookie /\ Quiet(b)
    BY DEF NoAssociation, Quiet
  <2>2. assoc' = [assoc EXCEPT ![h] = b] /\ chunks' = Sent(chunks, {InitChunk(h, b)})
    BY <1>2 DEF Associate
  <2> HIDE DEF b
  <2>3. assoc'[h] = b /\ \A p \in Hosts \ {h} : assoc'[p] = assoc[p]
    BY <2>2 DEF TimersInv, SCTPTypeOK
  <2>4. opens'[h] = opens[h] + 1 /\ \A p \in Hosts \ {h} : opens'[p] = opens[p]
    BY <1>2 DEF Associate, TimersInv, SCTPTypeOK
  <2>5. Opened(h, a, b)
    BY <1>2, <2>1, FreshIsNew DEF Opened, Associate
  <2>6. Says(h, a, b, InitChunk(h, b))
    BY <2>1, InitChunkFields DEF Says, SaysInit
  <2>7. \A m \in chunks' : m \in chunks \/ m = InitChunk(h, b)
    BY <2>2 DEF Sent
  <2> QED  BY <2>1, <2>3, <2>4, <2>5, <2>6, <2>7 DEF Acts
<1>3. CASE Shutdown(h)
  <2> DEFINE b == ShutdownSent(a)
  <2>1. b.state = "SHUTDOWN_SENT" /\ SameTags(a, b) /\ Quiet(b)
    BY <1>1 DEF ShutdownSent, SameTags, Associations, Quiet
  <2>2. Goes(h, a, b)
    BY <1>3, <2>1 DEF Goes, ShutDown, Shutdown
  <2>3. \A m \in {Chunk(h, "SHUTDOWN", a)} : Says(h, a, b, m)
    BY <1>3, <2>1, ChunkFields DEF Says, SaysShutdown, Shutdown
  <2> HIDE DEF b
  <2>4. Becomes(h, b, {}, {Chunk(h, "SHUTDOWN", a)}, {})
    BY <1>3 DEF Shutdown, b
  <2> QED  BY <1>3, <2>1, <2>2, <2>3, <2>4, BecomesActs DEF Shutdown
<1>4. CASE Close(h)
  <2>1. \A m \in {Chunk(h, "SHUTDOWN", a)} : Says(h, a, NoAssociation, m)
    BY <1>4, ChunkFields DEF Says, SaysShutdown, Close, NoAssociation
  <2> QED  BY <1>4, <2>1, RemovedActs DEF Close
<1>5. CASE Abort(h)
  <2> DEFINE out == IF a.state = "ESTABLISHED" THEN {Chunk(h, "ABORT", a)} ELSE {}
  <2>1. \A m \in out : Says(h, a, NoAssociation, m)
    BY AbortSaid
  <2>2. Removed(h, {}, out, {"CLOSED"})
    BY <1>5 DEF Abort
  <2> HIDE DEF out
  <2> QED  BY <1>5, <2>1, <2>2, RemovedActs DEF Abort
<1> QED  BY <1>2, <1>3, <1>4, <1>5

LEMMA TimersAct ==
    ASSUME TimersInv, NEW h \in Hosts, UNCHANGED listening,
           T1Expires(h) \/ T2Expires(h) \/ T5Expires(h)
    PROVE  Acts(h)
<1> DEFINE a == assoc[h]
<1>1. a \in Associations
  BY InvIsRight
<1>2. CASE T1Expires(h)
  <2> DEFINE b == [a EXCEPT !.initRetransCounter = @ + 1]
  <2>1. b.state = a.state /\ SameTags(a, b) /\ (Quiet(a) => Quiet(b))
    BY <1>1 DEF SameTags, Associations, Quiet
  <2>2. Goes(h, a, b)
    BY <2>1, KeptGoes
  <2>3. \/ Removed(h, {}, {Chunk(h, "ABORT", a)}, {"CLOSED"})
        \/ a.state = "COOKIE_WAIT" /\ Becomes(h, b, {}, {InitChunk(h, a)}, {})
        \/ a.state = "COOKIE_ECHOED" /\ Becomes(h, b, {}, {CookieEcho(h, a)}, {})
        \/ Stays(h, {}, {}, {})
    BY <1>2 DEF T1Expires
  <2> HIDE DEF b
  <2>4. a.state = "COOKIE_WAIT" => Says(h, a, b, InitChunk(h, a))
    BY <2>1, InitChunkFields DEF Says, SaysInit, SameTags
  <2>5. a.state = "COOKIE_ECHOED" => Says(h, a, b, CookieEcho(h, a))
    BY <2>1, CookieEchoFields DEF Says, SaysCookieEcho, SameTags
  <2>6. UNCHANGED opens
    BY <1>2 DEF T1Expires
  <2> HIDE DEF a
  <2>7. \A m \in {Chunk(h, "ABORT", a)} : Says(h, assoc[h], NoAssociation, m)
    BY AbortSaid
  <2> QED  BY <2>1, <2>2, <2>3, <2>4, <2>5, <2>6, <2>7, RemovedActs, BecomesActs, StaysActs DEF a
<1>3. CASE T2Expires(h)
  <2> DEFINE b == [a EXCEPT !.errorCount = @ + 1]
             out == CASE a.state = "SHUTDOWN_SENT" -> {Chunk(h, "SHUTDOWN", a)}
                      [] a.state = "SHUTDOWN_ACK_SENT" -> {Chunk(h, "SHUTDOWN_ACK", a)}
                      [] OTHER -> {}
  <2>1. b.state = a.state /\ SameTags(a, b) /\ (Quiet(a) => Quiet(b))
    BY <1>1 DEF SameTags, Associations, Quiet
  <2>2. Goes(h, a, b)
    BY <2>1, KeptGoes
  <2>3. \A m \in out : Says(h, a, b, m)
    BY <2>1, ChunkFields DEF Says, SaysShutdown, SaysShutdownAck, SameTags
  <2>4. \/ Removed(h, {}, {Chunk(h, "ABORT", a)}, {"CONN_LOST"})
        \/ Becomes(h, b, {}, out, {})
    BY <1>3 DEF T2Expires
  <2>5. UNCHANGED opens
    BY <1>3 DEF T2Expires
  <2> HIDE DEF b, out
  <2> QED  BY <2>1, <2>2, <2>3, <2>4, <2>5, AbortSaid, RemovedActs, BecomesActs
<1>4. CASE T5Expires(h)
  <2>1. /\ Removed(h, {}, {Chunk(h, "ABORT", a)}, {"CONN_LOST"})
        /\ UNCHANGED opens
    BY <1>4 DEF T5Expires
  <2>2. \A m \in {Chunk(h, "ABORT", a)} : Says(h, a, NoAssociation, m)
    BY AbortSaid
  <2> QED  BY <2>1, <2>2, RemovedActs
<1> QED  BY <1>2, <1>3, <1>4

LEMMA SetUpActs ==
    ASSUME TimersInv, NEW h \in Hosts, NEW m \in chunks, UNCHANGED listening,
           \/ ForkAssociation(h, m) \/ ReceiveInit(h, m) \/ ReceiveInitAck(h, m)
           \/ StaleCookie(h, m) \/ ReceiveCookieAck(h, m)
    PROVE  Acts(h)
<1> DEFINE a == assoc[h]
<1>1. a \in Associations
  BY InvIsRight
<1>2. CASE ForkAssociation(h, m)
  <2> DEFINE b == [NoAssociation EXCEPT !.state = "CLOSED", !.localVTag = m.initTag,
                                        !.peerVTag = FreshTag]
             out == InitAck(h, m.initTag, FreshTag, m.initTag, FreshTag)
  <2>1. /\ b.state = "CLOSED" /\ b.peerVTag = FreshTag /\ b.localVTag = m.initTag
        /\ b.cookieChunk = NoCookie /\ Quiet(b)
    BY DEF NoAssociation, Quiet
  <2>2. assoc' = [assoc EXCEPT ![h] = b] /\ chunks' = Sent(chunks \ {m}, out)
    BY <1>2 DEF ForkAssociation
  <2>3. /\ On(m, h, "INIT") /\ h \in listening /\ a.state = "NONE" /\ New(FreshTag)
        /\ UNCHANGED opens
    BY <1>2, FreshIsNew DEF ForkAssociation, ForHost, On
  <2>4. Tie(b) = [local |-> m.initTag, peer |-> FreshTag]
    BY <2>1 DEF Tie
  <2>5. \A k \in out : Says(h, a, b, k)
    BY <2>1, <2>4, InitAckFields DEF Says, SaysInitAck
  <2> HIDE DEF b, out
  <2>6. assoc'[h] = b /\ \A p \in Hosts \ {h} : assoc'[p] = assoc[p]
    BY <2>2 DEF TimersInv, SCTPTypeOK
  <2>7. Forked(h, a, b)
    BY <2>1, <2>3 DEF Forked
  <2>8. \A k \in chunks' : k \in chunks \/ k \in out
    BY <2>2 DEF Sent
  <2> QED  BY <2>1, <2>3, <2>5, <2>6, <2>7, <2>8 DEF Acts, Goes
<1>3. CASE ReceiveInit(h, m)
  <2>1. On(m, h, "INIT") /\ UNCHANGED opens
    BY <1>3 DEF ReceiveInit, Accepts, ForHost, On
  <2>2. CASE /\ a.state = "CLOSED"
             /\ Stays(h, {m}, InitAck(h, a.localVTag, a.peerVTag, a.localVTag, a.peerVTag), {})
    <3>1. \A k \in InitAck(h, a.localVTag, a.peerVTag, a.localVTag, a.peerVTag) : Says(h, a, a, k)
      BY <2>2, InitAckFields DEF Says, SaysInitAck, Tie
    <3> QED  BY <2>1, <2>2, <3>1, StaysActs
  <2>3. CASE /\ a.state \in Opening
             /\ Stays(h, {m}, InitAck(h, m.initTag, a.peerVTag, m.initTag, a.peerVTag), {})
    <3>1. ASSUME NEW k \in InitAck(h, m.initTag, a.peerVTag, m.initTag, a.peerVTag)
          PROVE  Says(h, a, a, k)
      <4>1. /\ k.to = Other(h) /\ k.type = "INIT_ACK" /\ k.tag = m.initTag
            /\ k.initTag = a.peerVTag
            /\ k.cookie = [local |-> m.initTag, peer |-> a.peerVTag]
        BY <3>1, InitAckFields
      <4> QED  BY <2>1, <2>3, <4>1 DEF Says, SaysInitAck
    <3> QED  BY <2>1, <2>3, <3>1, StaysActs
  <2>4. CASE /\ a.state = "ESTABLISHED" /\ TagsLeft
             /\ Stays(h, {m}, InitAck(h, m.initTag, FreshTag, a.localVTag, a.peerVTag), {})
    <3>1. New(FreshTag)
      BY <2>4, FreshIsNew
    <3>2. ASSUME NEW k \in InitAck(h, m.initTag, FreshTag, a.localVTag, a.peerVTag)
          PROVE  Says(h, a, a, k)
      <4>1. /\ k.to = Other(h) /\ k.type = "INIT_ACK" /\ k.tag = m.initTag
            /\ k.initTag = FreshTag /\ k.cookie = Tie(a)
        BY <3>2, InitAckFields DEF Tie
      <4>2. New(k.initTag)
        BY <3>1, <4>1
      <4> QED  BY <2>1, <2>4, <4>1, <4>2 DEF Says, SaysInitAck
    <3> QED  BY <2>1, <2>4, <3>2, StaysActs
  <2>5. CASE Stays(h, {m}, {}, {}) \/ Removed(h, {m}, {}, {})
    BY <2>1, <2>5, StaysActs, RemovedActs
  <2> QED  BY <1>3, <2>2, <2>3, <2>4, <2>5 DEF ReceiveInit
<1>4. CASE ReceiveInitAck(h, m)
  <2> DEFINE b == [a EXCEPT !.state = "COOKIE_ECHOED", !.localVTag = m.initTag,
                            !.cookieChunk = m.cookie]
  <2>1. /\ b.state = "COOKIE_ECHOED" /\ b.localVTag = m.initTag /\ b.peerVTag = a.peerVTag
        /\ b.cookieChunk = m.cookie
        /\ a.state = "COOKIE_WAIT" /\ Quiet(a) => Quiet(b)
    BY <1>1 DEF Associations, Quiet
  <2>2. Took(h, m, "INIT_ACK") /\ UNCHANGED opens
    BY <1>4 DEF ReceiveInitAck, Accepts, ForHost, Took, On
  <2>3. \/ a.state = "COOKIE_WAIT" /\ Becomes(h, b, {m}, {CookieEcho(h, b)}, {})
        \/ Stays(h, {m}, {}, {})
    BY <1>4 DEF ReceiveInitAck
  <2> HIDE DEF b
  <2>4. a.state = "COOKIE_WAIT" => Goes(h, a, b)
    BY <2>1, <2>2 DEF Goes, Echoed
  <2>5. Says(h, a, b, CookieEcho(h, b))
    BY <2>1, CookieEchoFields DEF Says, SaysCookieEcho
  <2> QED  BY <2>1, <2>2, <2>3, <2>4, <2>5, BecomesActs, StaysActs
<1>5. CASE StaleCookie(h, m)
  BY <1>5, AbortSaid, RemovedActs DEF StaleCookie
<1>6. CASE ReceiveCookieAck(h, m)
  <2> DEFINE b == Established(a)
  <2>1. /\ b.state = "ESTABLISHED" /\ SameTags(a, b)
        /\ a.state = "COOKIE_ECHOED" /\ Quiet(a) => Quiet(b)
    BY <1>1 DEF Established, SameTags, Associations, Quiet
  <2>2. Took(h, m, "COOKIE_ACK") /\ UNCHANGED opens
    BY <1>6 DEF ReceiveCookieAck, Accepts, ForHost, Took, On
  <2>3. \/ a.state = "COOKIE_ECHOED" /\ Becomes(h, b, {m}, {}, {})
        \/ Stays(h, {m}, {}, {})
    BY <1>6 DEF ReceiveCookieAck
  <2> HIDE DEF b
  <2>4. a.state = "COOKIE_ECHOED" => Goes(h, a, b)
    BY <2>1, <2>2 DEF Goes, Acknowledged
  <2> QED  BY <2>1, <2>2, <2>3, <2>4, BecomesActs, StaysActs
<1> QED  BY <1>2, <1>3, <1>4, <1>5, <1>6

LEMMA CookieActs ==
    ASSUME TimersInv, NEW h \in Hosts, NEW m \in chunks, UNCHANGED listening,
           ReceiveCookieEcho(h, m)
    PROVE  Acts(h)
<1> DEFINE a == assoc[h]
           c == m.cookie
           r == Restored(a, c)
           joined == IF a.state = "COOKIE_WAIT" THEN Established(r) ELSE r
           accept(b) == Becomes(h, b, {m}, {Chunk(h, "COOKIE_ACK", b)}, {})
<1>1. a \in Associations /\ c \in Cookies /\ a.state # "NONE"
  BY InvIsRight, PacketFacts DEF ReceiveCookieEcho, Accepts
<1>2. Took(h, m, "COOKIE_ECHO") /\ UNCHANGED opens
  BY DEF ReceiveCookieEcho, Accepts, ForHost, Took, On
<1>3. /\ r.state = a.state /\ r.localVTag = c.local /\ r.peerVTag = c.peer
      /\ r.cookieChunk = a.cookieChunk /\ r \in Associations
      /\ Quiet(a) => Quiet(r)
  BY <1>1 DEF Restored, Associations, Cookies, Quiet
<1>4. /\ joined.state = IF a.state = "COOKIE_WAIT" THEN "ESTABLISHED" ELSE a.state
      /\ joined.localVTag = c.local /\ joined.peerVTag = c.peer
      /\ joined.cookieChunk = a.cookieChunk
      /\ Quiet(a) => Quiet(joined)
  <2> HIDE DEF r
  <2> QED  BY <1>3 DEF Established, Associations, Quiet
<1>5. /\ Established(a).state = "ESTABLISHED" /\ SameTags(a, Established(a))
      /\ a.state = "CLOSED" /\ Quiet(a) => Quiet(Established(a))
  BY <1>1 DEF Established, SameTags, Associations, Quiet
<1>6. \/ a.state = "CLOSED" /\ accept(Established(a))
      \/ Removed(h, {m}, {Chunk(h, "ABORT", a)}, {})
      \/ /\ a.state \in Opening \cup {"ESTABLISHED"} /\ c.local # a.localVTag
         /\ c.peer # a.peerVTag /\ accept(r)
      \/ /\ a.state \in Opening \cup {"ESTABLISHED"} /\ c.local # a.localVTag
         /\ c.peer = a.peerVTag /\ accept(joined)
      \/ a.state # "CLOSED" /\ c.local = a.localVTag /\ accept(a)
      \/ Stays(h, {m}, {}, {})
  BY Zenon DEF ReceiveCookieEcho, Opening
<1>7. ASSUME NEW b, accept(b), Goes(h, a, b), Quiet(a) => Quiet(b), b.state # "NONE",
             a.state # "CLOSED" => b.localVTag = c.local
      PROVE  Acts(h)
  <2>1. Says(h, a, b, Chunk(h, "COOKIE_ACK", b))
    BY <1>2, <1>7, ChunkFields DEF Says, SaysCookieAck, Took
  <2> QED  BY <1>2, <1>7, <2>1, BecomesActs
<1> HIDE DEF accept, r, joined, c
<1>8. CASE a.state = "CLOSED" /\ accept(Established(a))
  <2>1. Goes(h, a, Established(a))
    BY <1>2, <1>5, <1>8 DEF Goes, Accepted
  <2> QED  BY <1>5, <1>7, <1>8, <2>1
<1>9. CASE /\ a.state \in Opening \cup {"ESTABLISHED"} /\ c.local # a.localVTag
           /\ c.peer # a.peerVTag /\ accept(r)
  <2>1. Rejoined(h, a, r)
    BY <1>2, <1>3, <1>9 DEF Rejoined, c
  <2>2. Goes(h, a, r)
    BY <2>1 DEF Goes
  <2> QED  BY <1>1, <1>3, <1>7, <1>9, <2>2
<1>10. CASE /\ a.state \in Opening \cup {"ESTABLISHED"} /\ c.local # a.localVTag
            /\ c.peer = a.peerVTag /\ accept(joined)
  <2>1. Rejoined(h, a, joined)
    BY <1>2, <1>4, <1>10 DEF Rejoined, c
  <2>2. Goes(h, a, joined)
    BY <2>1 DEF Goes
  <2> QED  BY <1>1, <1>4, <1>7, <1>10, <2>2
<1>11. CASE a.state # "CLOSED" /\ c.local = a.localVTag /\ accept(a)
  <2>1. Goes(h, a, a)
    BY DEF Goes, SameTags
  <2> QED  BY <1>1, <1>7, <1>11, <2>1
<1>12. CASE Removed(h, {m}, {Chunk(h, "ABORT", a)}, {}) \/ Stays(h, {m}, {}, {})
  BY <1>2, <1>12, AbortSaid, RemovedActs, StaysActs
<1> QED  BY <1>6, <1>8, <1>9, <1>10, <1>11, <1>12

LEMMA ShutdownActs ==
    ASSUME TimersInv, NEW h \in Hosts, NEW m \in chunks, UNCHANGED listening,
           \/ ReceiveShutdown(h, m) \/ ReceiveShutdownAck(h, m)
           \/ ReceiveShutdownComplete(h, m)
    PROVE  Acts(h)
<1> DEFINE a == assoc[h]
<1>1. a \in Associations
  BY InvIsRight
<1>2. CASE ReceiveShutdown(h, m)
  <2> DEFINE b == ShutdownAckSent(a)
  <2>1. /\ b.state = "SHUTDOWN_ACK_SENT" /\ SameTags(a, b)
        /\ a.state \in {"ESTABLISHED", "SHUTDOWN_SENT"} /\ Quiet(a) => Quiet(b)
    BY <1>1 DEF ShutdownAckSent, SameTags, Associations, Quiet
  <2>2. Took(h, m, "SHUTDOWN") /\ UNCHANGED opens
    BY <1>2 DEF ReceiveShutdown, Accepts, ForHost, Took, On
  <2>3. \/ /\ a.state \in {"ESTABLISHED", "SHUTDOWN_SENT"}
           /\ Becomes(h, b, {m}, {Chunk(h, "SHUTDOWN_ACK", a)}, {})
        \/ Stays(h, {m}, {}, {})
    BY <1>2 DEF ReceiveShutdown
  <2> HIDE DEF b
  <2>4. a.state \in {"ESTABLISHED", "SHUTDOWN_SENT"} => Goes(h, a, b)
    BY <2>1, <2>2 DEF Goes, Answered
  <2>5. Says(h, a, b, Chunk(h, "SHUTDOWN_ACK", a))
    BY <2>1, ChunkFields DEF Says, SaysShutdownAck, SameTags
  <2> QED  BY <2>1, <2>2, <2>3, <2>4, <2>5, BecomesActs, StaysActs
<1>3. CASE ReceiveShutdownAck(h, m)
  <2> DEFINE quiet == [a EXCEPT !.timers = @ \ {"T2", "T5"}]
             deleted == [quiet EXCEPT !.shutdownChunk = IF @ = "kept" THEN "deleted" ELSE @]
             complete == {Chunk(h, "SHUTDOWN_COMPLETE", a)}
  <2>1. Took(h, m, "SHUTDOWN_ACK") /\ a.state # "NONE" /\ UNCHANGED opens
    BY <1>3 DEF ReceiveShutdownAck, Accepts, ForHost, Took, On
  <2>2. ASSUME NEW b PROVE \A k \in complete : Says(h, a, b, k)
    BY <2>1, ChunkFields DEF Says, SaysComplete, Took
  <2>3. quiet.state = a.state /\ SameTags(a, quiet) /\ (Quiet(a) => Quiet(quiet))
    BY <1>1 DEF SameTags, Associations, Quiet
  <2>4. /\ deleted.state = a.state /\ SameTags(a, deleted)
        /\ a.state = "SHUTDOWN_ACK_SENT" => Quiet(deleted)
    BY <1>1 DEF SameTags, Associations, Quiet
  <2>5. \/ Stays(h, {m}, {}, {}) \/ Stays(h, {m}, complete, {"CLOSED"})
        \/ Becomes(h, quiet, {m}, complete, {})
        \/ /\ a.state = "SHUTDOWN_ACK_SENT"
           /\ Becomes(h, deleted, {m}, complete, {"CLOSED"})
        \/ Removed(h, {m}, complete, {"CLOSED"})
    BY <1>3 DEF ReceiveShutdownAck
  <2>6. Goes(h, a, quiet) /\ Goes(h, a, deleted)
    BY <2>3, <2>4, KeptGoes
  <2> HIDE DEF quiet, deleted, complete
  <2> QED  BY <2>1, <2>2, <2>3, <2>4, <2>5, <2>6, BecomesActs, StaysActs, RemovedActs
<1>4. CASE ReceiveShutdownComplete(h, m)
  <2>1. (Removed(h, {m}, {}, {"CLOSED"}) \/ Stays(h, {m}, {}, {})) /\ UNCHANGED opens
    BY <1>4 DEF ReceiveShutdownComplete
  <2> QED  BY <2>1, StaysActs, RemovedActs
<1> QED  BY <1>2, <1>3, <1>4

LEMMA OthersAct ==
    ASSUME TimersInv, NEW h \in Hosts, NEW m \in chunks, UNCHANGED listening,
           WrongTag(h, m) \/ NoAssociationFound(h, m) \/ ReceiveAbort(h, m)
    PROVE  Acts(h)
<1>1. CASE WrongTag(h, m)
  BY <1>1, StaysActs DEF WrongTag
<1>2. CASE NoAssociationFound(h, m)
  <2>1. assoc[h].state = "NONE" /\ m.to = h
    BY <1>2 DEF NoAssociationFound, ForHost
  <2>2. ASSUME NEW k \in FromMain(h, m) PROVE Says(h, assoc[h], assoc[h], k)
    <3>1. k.to = Other(h)
      BY <2>2 DEF FromMain
    <3>2. \/ k.type = "ABORT"
          \/ k.type = "SHUTDOWN_COMPLETE" /\ m.type = "SHUTDOWN_ACK" /\ k.tag = m.tag
      BY <2>2 DEF FromMain
    <3> QED  BY <2>1, <3>1, <3>2 DEF Says, SaysComplete, On
  <2> QED  BY <1>2, <2>2, StaysActs DEF NoAssociationFound
<1>3. CASE ReceiveAbort(h, m)
  BY <1>3, StaysActs, RemovedActs DEF ReceiveAbort
<1> QED  BY <1>1, <1>2, <1>3

LEMMA LoseActs ==
    ASSUME TimersInv, NEW m \in chunks, Lose(m), UNCHANGED listening
    PROVE  \E h \in Hosts : Acts(h)
<1>1. PICK h \in Hosts : TRUE
  <2>1. \E a, b \in Hosts : a # b
    BY SCTPAssumption DEF SCTPAssumption
  <2> QED  BY <2>1
<1>2. Goes(h, assoc[h], assoc[h])
  BY DEF Goes, SameTags
<1>3. Acts(h)
  BY <1>2 DEF Acts, Lose
<1> QED  BY <1>3

\* A step of the system is a step of one host as described.
LEMMA NextActs ==
    ASSUME TimersInv, SCTPNext
    PROVE  \E h \in Hosts : Acts(h)
<1>1. UNCHANGED listening
  BY DEF SCTPNext
<1>2. ASSUME NEW h \in Hosts, NEW m \in chunks, Receive(h, m) PROVE Acts(h)
  BY <1>1, <1>2, SetUpActs, CookieActs, ShutdownActs, OthersAct DEF Receive
<1> QED  BY <1>1, <1>2, CommandsAct, TimersAct, LoseActs DEF SCTPNext

-----------------------------------------------------------------------------
\* The inductive invariant of the tags.  Its parts speak of a host w, whose
\* application listens or has opened at most once, and of the other host o.

TagsSet(h) ==
    /\ Alive(h) => assoc[h].peerVTag # 0
    /\ assoc[h].state \notin {"NONE", "COOKIE_WAIT"} => assoc[h].localVTag # 0
    /\ assoc[h].state = "COOKIE_ECHOED" =>
          assoc[h].cookieChunk.local # 0 /\ assoc[h].cookieChunk.peer # 0
    /\ assoc[h].state = "CLOSED" => h \in listening
    /\ Quiet(assoc[h])

TagsSent(m) ==
    /\ m.type \in {"INIT", "INIT_ACK"} => m.initTag # 0
    /\ m.type \in {"INIT_ACK", "COOKIE_ECHO"} => m.cookie.local # 0 /\ m.cookie.peer # 0

\* Whoever uses a tag has drawn it.
NonZero == (\A h \in Hosts : TagsSet(h)) /\ (\A m \in chunks : TagsSent(m))

\* The packet m shows that host h has drawn the tag t.
Shows(m, h, t) ==
    \/ m.to = Other(h) /\ m.type \in {"INIT", "INIT_ACK"} /\ t = m.initTag
    \/ m.to = h /\ m.type \notin {"SHUTDOWN_COMPLETE", "ABORT"} /\ t = m.tag
    \/ On(m, Other(h), "INIT_ACK") /\ t = m.cookie.peer
    \/ On(m, h, "COOKIE_ECHO") /\ t = m.cookie.peer
    \/ On(m, h, "INIT_ACK") /\ t = m.cookie.local
    \/ On(m, Other(h), "COOKIE_ECHO") /\ t = m.cookie.local

Owns(h, t) ==
    \/ t = assoc[h].peerVTag \/ t = assoc[Other(h)].localVTag
    \/ t = assoc[h].cookieChunk.local \/ t = assoc[Other(h)].cookieChunk.peer
    \/ \E m \in chunks : Shows(m, h, t)

\* No tag was drawn by both hosts.
OwnersDiffer == \A h \in Hosts, t \in Tags : ~ (Owns(h, t) /\ Owns(Other(h), t))

\* A host that listens draws all its tags in ForkAssociation().
OnlyForks(w) ==
    w \in listening =>
    /\ opens[w] = 0 /\ assoc[w].state \notin Opening
    /\ \A m \in chunks : ~ On(m, Other(w), "INIT") /\ ~ On(m, Other(w), "COOKIE_ECHO")

\* Every cookie of a fork names the tags of the fork.
OneCookie(w) ==
    w \in listening /\ Alive(w) =>
    /\ \A m \in chunks : On(m, Other(w), "INIT_ACK") /\ m.initTag = assoc[w].peerVTag
                         => m.cookie = Tie(assoc[w])
    /\ assoc[Other(w)].state = "COOKIE_ECHOED" /\ assoc[Other(w)].localVTag = assoc[w].peerVTag
          => assoc[Other(w)].cookieChunk = Tie(assoc[w])
    /\ \A m \in chunks : On(m, w, "COOKIE_ECHO") /\ m.tag = assoc[w].peerVTag
                         => m.cookie = Tie(assoc[w])

\* A host in COOKIE_WAIT has not echoed a cookie, so a fork that answers it is new.
NotYetHeard(w) ==
    w \in listening /\ assoc[Other(w)].state = "COOKIE_WAIT" =>
    /\ assoc[Other(w)].localVTag = 0
    /\ \A m \in chunks : /\ On(m, Other(w), "SHUTDOWN_ACK") => m.tag # assoc[Other(w)].peerVTag
                         /\ On(m, w, "COOKIE_ECHO") => m.cookie.local # assoc[Other(w)].peerVTag
    /\ Alive(w) /\ assoc[w].localVTag = assoc[Other(w)].peerVTag => assoc[w].state = "CLOSED"

\* The host does not listen and has opened at most once.
Single(w) == w \notin listening /\ opens[w] <= 1

Unopened(w) ==
    Single(w) /\ opens[w] = 0 =>
    /\ assoc[w].state = "NONE" /\ assoc[Other(w)].state \in {"NONE", "COOKIE_WAIT"}
    /\ \A m \in chunks : m.type = "ABORT" \/ On(m, w, "INIT")

\* Nothing was set up before the only association leaves COOKIE_WAIT.
Waiting(w) ==
    Single(w) /\ assoc[w].state = "COOKIE_WAIT" =>
    /\ assoc[w].localVTag = 0
    /\ assoc[Other(w)].state \in {"NONE", "CLOSED"} \cup Opening
    /\ \A m \in chunks : /\ ~ On(m, Other(w), "COOKIE_ECHO") /\ ~ On(m, Other(w), "COOKIE_ACK")
                         /\ On(m, w, "INIT_ACK") => m.cookie.local = assoc[w].peerVTag

\* Nothing was shut down before the only association leaves ESTABLISHED, and
\* the host was asked for nothing that it has not sent.
NotShutDown(w) ==
    /\ Single(w) /\ assoc[w].state \in Opening \cup {"ESTABLISHED"} =>
          /\ assoc[Other(w)].state # "SHUTDOWN_ACK_SENT"
          /\ \A m \in chunks : /\ m.type \notin {"SHUTDOWN_ACK", "SHUTDOWN_COMPLETE"}
                               /\ ~ On(m, Other(w), "SHUTDOWN")
    /\ Single(w) /\ assoc[w].state = "SHUTDOWN_SENT" =>
          \A m \in chunks : ~ On(m, Other(w), "SHUTDOWN_ACK") /\ ~ On(m, w, "SHUTDOWN_COMPLETE")

\* The only tag of the host is the one that everybody knows.
OneTag(w) ==
    Single(w) /\ Alive(w) =>
    /\ \A m \in chunks :
          /\ On(m, Other(w), "INIT") => m.initTag = assoc[w].peerVTag
          /\ On(m, Other(w), "INIT_ACK") => m.cookie.peer = assoc[w].peerVTag
          /\ On(m, Other(w), "COOKIE_ECHO") => m.cookie.local = assoc[w].peerVTag
          /\ On(m, w, "COOKIE_ECHO") => m.cookie.peer = assoc[w].peerVTag
    /\ assoc[w].state = "COOKIE_ECHOED" => assoc[w].cookieChunk.local = assoc[w].peerVTag
    /\ assoc[Other(w)].state = "COOKIE_ECHOED"
          => assoc[Other(w)].cookieChunk.peer = assoc[w].peerVTag
    /\ Other(w) \in listening /\ Alive(Other(w))
          => assoc[Other(w)].localVTag = assoc[w].peerVTag

OneLocal(w) ==
    Single(w) => \A m, n \in chunks :
        On(m, Other(w), "COOKIE_ECHO") /\ On(n, Other(w), "COOKIE_ECHO")
        => m.cookie.local = n.cookie.local

\* A COOKIE_ECHO that reaches the other host with the cookie of a life before
\* finds the tag of this host there.
LateCookie(w) ==
    Single(w) /\ Alive(Other(w)) =>
    /\ \A m \in chunks :
          /\ On(m, w, "INIT_ACK") /\ m.initTag = assoc[Other(w)].peerVTag
             => m.cookie.peer = assoc[Other(w)].peerVTag
          /\ On(m, Other(w), "COOKIE_ECHO") /\ m.tag = assoc[Other(w)].peerVTag
             => \/ m.cookie.peer = assoc[Other(w)].peerVTag
                \/ m.cookie.local = assoc[Other(w)].localVTag
          /\ On(m, w, "COOKIE_ECHO") /\ Alive(w) /\ m.tag = assoc[w].peerVTag
             => \/ m.cookie.local # assoc[Other(w)].peerVTag
                \/ assoc[Other(w)].localVTag = assoc[w].peerVTag
    /\ assoc[w].state = "COOKIE_ECHOED" /\ assoc[w].localVTag = assoc[Other(w)].peerVTag
       => \/ assoc[w].cookieChunk.peer = assoc[Other(w)].peerVTag
          \/ assoc[Other(w)].localVTag = assoc[w].peerVTag
    /\ assoc[Other(w)].state = "COOKIE_WAIT" =>
          /\ assoc[Other(w)].localVTag = 0
          /\ \A m \in chunks :
                On(m, w, "COOKIE_ECHO") => m.cookie.local # assoc[Other(w)].peerVTag

\* What is answered to a SHUTDOWN_ACK reaches the association that sent it.
LateAck(h) ==
    /\ Alive(h) /\ Alive(Other(h)) /\ assoc[h].state # "SHUTDOWN_ACK_SENT"
       /\ assoc[Other(h)].localVTag = assoc[h].peerVTag
       => \A m \in chunks : On(m, Other(h), "SHUTDOWN_ACK") => m.tag # assoc[Other(h)].peerVTag
    /\ Alive(h) /\ assoc[h].state # "SHUTDOWN_ACK_SENT"
       => \A m \in chunks : On(m, h, "SHUTDOWN_COMPLETE") => m.tag # assoc[h].peerVTag

SomeoneOpensOnce == \E w \in Hosts : opens[w] <= 1

TagsInv ==
    /\ NonZero /\ OwnersDiffer
    /\ \A w \in Hosts :
          /\ OnlyForks(w) /\ OneCookie(w) /\ NotYetHeard(w)
          /\ Unopened(w) /\ Waiting(w) /\ NotShutDown(w)
          /\ OneTag(w) /\ OneLocal(w) /\ LateCookie(w)
    /\ SomeoneOpensOnce => \A h \in Hosts : LateAck(h)

\* Two lives each at most: both hosts write the tag that the other one expects.
Mirror(w) ==
    Single(w) /\ Alive(w) =>
    /\ Single(Other(w)) /\ Alive(Other(w)) =>
          /\ assoc[Other(w)].localVTag \in {0, assoc[w].peerVTag}
          /\ assoc[Other(w)].state = "COOKIE_WAIT" =>
                \A m \in chunks : On(m, Other(w), "INIT_ACK") => m.initTag = assoc[w].peerVTag
    /\ Other(w) \in listening /\ assoc[w].state # "COOKIE_WAIT" =>
          /\ assoc[Other(w)].state \in Synchronized
                => assoc[w].localVTag = assoc[Other(w)].peerVTag
          /\ \A m \in chunks : On(m, Other(w), "COOKIE_ECHO") => m.tag = assoc[w].localVTag

-----------------------------------------------------------------------------
\* The parts of the invariant, each kept by whatever a host does.

LEMMA PairOf ==
    ASSUME NEW w \in Hosts
    PROVE  /\ Other(w) \in Hosts /\ Other(w) # w /\ Other(Other(w)) = w
           /\ \A h \in Hosts : h = w \/ h = Other(w)
<1>1. PICK a \in Hosts, b \in Hosts : a # b /\ Hosts = {a, b}
  BY SCTPAssumption DEF SCTPAssumption
<1>2. \E p \in Hosts : p # w
  BY <1>1
<1>3. Other(w) \in Hosts /\ Other(w) # w
  BY <1>2 DEF Other
<1>4. \E p \in Hosts : p # Other(w)
  BY <1>3
<1>5. Other(Other(w)) \in Hosts /\ Other(Other(w)) # Other(w)
  BY <1>4 DEF Other
<1> QED  BY <1>1, <1>3, <1>5

\* The other host does not change.
LEMMA Frame ==
    ASSUME NEW x \in Hosts, Acts(x)
    PROVE  /\ assoc'[Other(x)] = assoc[Other(x)] /\ opens'[Other(x)] = opens[Other(x)]
           /\ listening' = listening
BY PairOf DEF Acts

LEMMA OpensGrow ==
    ASSUME TimersInv, NEW x \in Hosts, Acts(x), NEW w \in Hosts
    PROVE  /\ opens[w] \in Nat /\ opens'[w] \in Nat
           /\ opens[w] <= opens'[w]
           /\ opens'[w] <= 1 => opens[w] <= 1
           /\ opens'[w] = 0 => opens[w] = 0
<1>1. opens[w] \in Nat /\ opens[x] \in Nat
  BY DEF TimersInv, SCTPTypeOK
<1>2. opens'[w] = opens[w] \/ opens'[w] = opens[w] + 1
  BY DEF Acts
<1> QED  BY <1>1, <1>2

LEMMA SingleBefore ==
    ASSUME TimersInv, NEW x \in Hosts, Acts(x), NEW w \in Hosts, Single(w)'
    PROVE  Single(w)
BY OpensGrow, Frame DEF Single

\* A host opens from NONE, and then counts.
LEMMA OpenedCounts ==
    ASSUME TimersInv, NEW x \in Hosts, Acts(x), Opened(x, assoc[x], assoc'[x])
    PROVE  opens'[x] = opens[x] + 1
BY DEF Acts, Goes, Opened, Forked, Echoed, Accepted, Acknowledged, Rejoined, ShutDown,
       Answered, NoAssociation

LEMMA NewPacket ==
    ASSUME NEW x \in Hosts, Acts(x), NEW m \in chunks', m \notin chunks
    PROVE  Says(x, assoc[x], assoc'[x], m) /\ m.to = Other(x)
BY DEF Acts, Says

LEMMA NonZeroKept ==
    ASSUME TagsInv, NEW x \in Hosts, Acts(x)
    PROVE  NonZero'
<1>1. ASSUME NEW h \in Hosts PROVE TagsSet(h)'
  <2>1. CASE h = x
    <3>1. TagsSet(x) /\ \A m \in chunks : TagsSent(m)
      BY DEF TagsInv, NonZero
    <3>2. Quiet(assoc'[x])
      BY <3>1 DEF Acts, TagsSet
    <3>3. CASE Goes(x, assoc[x], assoc'[x])
      <4>1. CASE Rejoined(x, assoc[x], assoc'[x])
        <5>1. PICK k \in chunks : /\ Took(x, k, "COOKIE_ECHO")
                                  /\ assoc'[x].localVTag = k.cookie.local
                                  /\ assoc'[x].peerVTag = k.cookie.peer
          BY <4>1 DEF Rejoined
        <5>2. k.cookie.local # 0 /\ k.cookie.peer # 0
          BY <3>1, <5>1 DEF TagsSent, Took, On
        <5> QED  BY <2>1, <3>1, <3>2, <4>1, <5>1, <5>2 DEF TagsSet, Rejoined, Opening, Alive
      <4>2. CASE Echoed(x, assoc[x], assoc'[x])
        <5>1. PICK k \in chunks : /\ Took(x, k, "INIT_ACK")
                                  /\ assoc'[x].localVTag = k.initTag
                                  /\ assoc'[x].cookieChunk = k.cookie
          BY <4>2 DEF Echoed
        <5>2. k.initTag # 0 /\ k.cookie.local # 0 /\ k.cookie.peer # 0
          BY <3>1, <5>1 DEF TagsSent, Took, On
        <5> QED  BY <2>1, <3>1, <3>2, <4>2, <5>1, <5>2 DEF TagsSet, Echoed, Alive
      <4>3. CASE Forked(x, assoc[x], assoc'[x])
        <5>1. PICK k \in chunks : On(k, x, "INIT") /\ assoc'[x].localVTag = k.initTag
          BY <4>3 DEF Forked
        <5>2. k.initTag # 0
          BY <3>1, <5>1 DEF TagsSent, On
        <5>3. assoc'[x].peerVTag # 0 /\ x \in listening'
          BY <4>3, Frame DEF Forked, New, Tags
        <5> QED  BY <2>1, <3>1, <3>2, <4>3, <5>1, <5>2, <5>3 DEF TagsSet, Forked, Alive
      <4>4. CASE assoc'[x] = NoAssociation
        BY <2>1, <3>2, <4>4 DEF TagsSet, NoAssociation, Alive
      <4>5. CASE \/ assoc'[x].state = assoc[x].state /\ SameTags(assoc[x], assoc'[x])
                 \/ Accepted(x, assoc[x], assoc'[x]) \/ Acknowledged(x, assoc[x], assoc'[x])
                 \/ ShutDown(x, assoc[x], assoc'[x]) \/ Answered(x, assoc[x], assoc'[x])
        BY <2>1, <3>1, <3>2, <4>5, Frame
           DEF TagsSet, SameTags, Accepted, Acknowledged, ShutDown, Answered, Alive
      <4> QED  BY <3>3, <4>1, <4>2, <4>3, <4>4, <4>5 DEF Goes
    <3>4. CASE Opened(x, assoc[x], assoc'[x])
      BY <2>1, <3>2, <3>4 DEF TagsSet, Opened, New, Tags, Alive
    <3> QED  BY <3>3, <3>4 DEF Acts
  <2>2. CASE h # x
    <3>1. TagsSet(h)
      BY DEF TagsInv, NonZero
    <3> QED  BY <2>2, <3>1 DEF Acts, TagsSet, Alive
  <2> QED  BY <2>1, <2>2
<1>2. ASSUME NEW m \in chunks', m \notin chunks PROVE TagsSent(m)
  <2>1. \A h \in Hosts : TagsSet(h)' /\ TagsSet(h)
    BY <1>1 DEF TagsInv, NonZero
  <2>2. \A k \in chunks : TagsSent(k)
    BY DEF TagsInv, NonZero
  <2>3. Says(x, assoc[x], assoc'[x], m)
    BY <1>2, NewPacket
  <2>4. CASE SaysInit(x, assoc[x], assoc'[x], m)
    BY <2>1, <2>4 DEF SaysInit, TagsSent, TagsSet, Alive
  <2>5. CASE SaysInitAck(x, assoc[x], assoc'[x], m)
    <3>1. CASE assoc'[x].state = "CLOSED"
               /\ m.initTag = assoc'[x].peerVTag /\ m.cookie = Tie(assoc'[x])
      BY <2>1, <2>5, <3>1 DEF SaysInitAck, TagsSent, TagsSet, Tie, Alive
    <3>2. CASE /\ assoc[x].state \in Opening /\ m.initTag = assoc[x].peerVTag
               /\ \E k \in chunks : /\ On(k, x, "INIT")
                                    /\ m.cookie.local = k.initTag
                                    /\ m.cookie.peer = assoc[x].peerVTag
      BY <2>1, <2>2, <2>5, <3>2 DEF SaysInitAck, TagsSent, TagsSet, On, Alive, Opening
    <3>3. CASE assoc[x].state = "ESTABLISHED" /\ New(m.initTag) /\ m.cookie = Tie(assoc[x])
      BY <2>1, <2>5, <3>3 DEF SaysInitAck, TagsSent, TagsSet, Tie, New, Tags, Alive
    <3> QED  BY <2>5, <3>1, <3>2, <3>3 DEF SaysInitAck
  <2>6. CASE SaysCookieEcho(x, assoc[x], assoc'[x], m)
    BY <2>1, <2>6 DEF SaysCookieEcho, TagsSent, TagsSet
  <2> QED  BY <2>3, <2>4, <2>5, <2>6 DEF Says, SaysCookieAck, SaysShutdown, SaysShutdownAck,
              SaysComplete, TagsSent
<1>3. \A m \in chunks' : TagsSent(m)
  BY <1>2 DEF TagsInv, NonZero
<1> QED  BY <1>1, <1>3 DEF NonZero

\* The tags that an association holds after a step are old or were just drawn.
LEMMA TagsFrom ==
    ASSUME NEW x \in Hosts, Acts(x)
    PROVE  /\ assoc'[x].peerVTag = 0 \/ Owns(x, assoc'[x].peerVTag) \/ New(assoc'[x].peerVTag)
           /\ assoc'[x].localVTag = 0 \/ Owns(Other(x), assoc'[x].localVTag)
           /\ assoc'[x].cookieChunk.local = 0 \/ Owns(x, assoc'[x].cookieChunk.local)
           /\ assoc'[x].cookieChunk.peer = 0 \/ Owns(Other(x), assoc'[x].cookieChunk.peer)
<1> DEFINE a == assoc[x]
           b == assoc'[x]
           o == Other(x)
<1>1. o \in Hosts /\ Other(o) = x
  BY PairOf
<1>2. /\ Owns(x, a.peerVTag) /\ Owns(o, a.localVTag)
      /\ Owns(x, a.cookieChunk.local) /\ Owns(o, a.cookieChunk.peer)
  BY <1>1 DEF Owns
<1>3. ASSUME NEW k \in chunks, k.to = x
      PROVE  /\ k.type \in {"INIT", "INIT_ACK"} => Owns(o, k.initTag)
             /\ k.type = "COOKIE_ECHO" => Owns(o, k.cookie.local) /\ Owns(x, k.cookie.peer)
             /\ k.type = "INIT_ACK" => Owns(x, k.cookie.local) /\ Owns(o, k.cookie.peer)
  BY <1>1, <1>3 DEF Owns, Shows, On
<1>4. CASE \/ b.state = a.state /\ SameTags(a, b)
           \/ Accepted(x, a, b) \/ Acknowledged(x, a, b) \/ ShutDown(x, a, b) \/ Answered(x, a, b)
  BY <1>2, <1>4 DEF SameTags, Accepted, Acknowledged, ShutDown, Answered
<1>5. CASE b = NoAssociation
  BY <1>5 DEF NoAssociation, NoCookie
<1>6. CASE Forked(x, a, b)
  BY <1>3, <1>6 DEF Forked, NoCookie, On
<1>7. CASE Opened(x, a, b)
  BY <1>7 DEF Opened, NoCookie
<1>8. CASE Echoed(x, a, b)
  <2>1. PICK k \in chunks : /\ Took(x, k, "INIT_ACK")
                            /\ b.localVTag = k.initTag /\ b.cookieChunk = k.cookie
    BY <1>8 DEF Echoed
  <2>2. k.to = x /\ k.type = "INIT_ACK"
    BY <2>1 DEF Took, On
  <2>3. b.peerVTag = a.peerVTag
    BY <1>8 DEF Echoed
  <2> HIDE DEF a, b, o
  <2> QED  BY <1>2, <1>3, <2>1, <2>2, <2>3 DEF a, b, o
<1>9. CASE Rejoined(x, a, b)
  <2>1. PICK k \in chunks : /\ Took(x, k, "COOKIE_ECHO")
                            /\ b.localVTag = k.cookie.local /\ b.peerVTag = k.cookie.peer
    BY <1>9 DEF Rejoined
  <2>2. k.to = x /\ k.type = "COOKIE_ECHO"
    BY <2>1 DEF Took, On
  <2>3. b.cookieChunk = a.cookieChunk
    BY <1>9 DEF Rejoined
  <2> QED  BY <1>2, <1>3, <2>1, <2>2, <2>3
<1>10. Goes(x, a, b) \/ Opened(x, a, b)
  BY DEF Acts
<1> QED  BY <1>4, <1>5, <1>6, <1>7, <1>8, <1>9, <1>10 DEF Goes

\* And those that a new packet shows.
LEMMA TagsShown ==
    ASSUME NEW x \in Hosts, Acts(x), NEW m \in chunks', m \notin chunks,
           NEW q \in Hosts, NEW t \in Tags, Shows(m, q, t)
    PROVE  Owns(q, t) \/ (New(t) /\ q = x)
<1> DEFINE a == assoc[x]
           b == assoc'[x]
           o == Other(x)
<1>1. o \in Hosts /\ Other(o) = x /\ o # x /\ (q = x \/ q = o)
  BY PairOf
<1>2. /\ Owns(x, a.peerVTag) /\ Owns(o, a.localVTag)
      /\ Owns(x, a.cookieChunk.local) /\ Owns(o, a.cookieChunk.peer)
  BY <1>1 DEF Owns
<1>3. /\ b.peerVTag = 0 \/ Owns(x, b.peerVTag) \/ New(b.peerVTag)
      /\ b.localVTag = 0 \/ Owns(o, b.localVTag)
      /\ b.cookieChunk.local = 0 \/ Owns(x, b.cookieChunk.local)
      /\ b.cookieChunk.peer = 0 \/ Owns(o, b.cookieChunk.peer)
  BY TagsFrom
<1>4. ASSUME NEW k \in chunks, On(k, x, "INIT") PROVE Owns(o, k.initTag)
  BY <1>1, <1>4 DEF Owns, Shows, On
<1>5. m.to = o /\ Says(x, a, b, m)
  BY NewPacket
<1>6. t # 0
  BY DEF Tags
<1> HIDE DEF a, b, o
<1>7. CASE SaysInit(x, a, b, m)
  BY <1>1, <1>3, <1>5, <1>6, <1>7 DEF SaysInit, Shows, On
<1>8. CASE SaysInitAck(x, a, b, m)
  <2>0. m.type = "INIT_ACK"
    BY <1>8 DEF SaysInitAck
  <2>1. CASE /\ m.tag = b.localVTag /\ m.initTag = b.peerVTag /\ m.cookie = Tie(b)
    <3>1. m.cookie.local = b.localVTag /\ m.cookie.peer = b.peerVTag
      BY <2>1 DEF Tie
    <3> QED  BY <1>1, <1>3, <1>5, <1>6, <2>0, <2>1, <3>1 DEF Shows, On
  <2>2. CASE /\ m.initTag = a.peerVTag
             /\ \E k \in chunks : /\ On(k, x, "INIT") /\ m.tag = k.initTag
                                  /\ m.cookie.local = k.initTag /\ m.cookie.peer = a.peerVTag
    BY <1>1, <1>2, <1>4, <1>5, <2>0, <2>2 DEF Shows, On
  <2>3. CASE /\ New(m.initTag) /\ m.cookie = Tie(a)
             /\ \E k \in chunks : On(k, x, "INIT") /\ m.tag = k.initTag
    <3>1. m.cookie.local = a.localVTag /\ m.cookie.peer = a.peerVTag
      BY <2>3 DEF Tie
    <3>2. Owns(o, m.tag)
      BY <1>4, <2>3
    <3>3. New(m.initTag)
      BY <2>3
    <3>4. \/ t \in {m.initTag, m.cookie.peer} /\ q = x
          \/ t \in {m.tag, m.cookie.local} /\ q = o
      BY <1>1, <1>5, <2>0 DEF Shows, On
    <3> HIDE DEF New
    <3> QED  BY <1>2, <3>1, <3>2, <3>3, <3>4
  <2> QED  BY <1>8, <2>1, <2>2, <2>3 DEF SaysInitAck
<1>9. CASE SaysCookieEcho(x, a, b, m)
  BY <1>1, <1>3, <1>5, <1>6, <1>9 DEF SaysCookieEcho, Shows, On
<1>10. CASE \/ SaysCookieAck(x, a, b, m) \/ SaysShutdownAck(x, a, b, m)
  BY <1>1, <1>3, <1>5, <1>6, <1>10 DEF SaysCookieAck, SaysShutdownAck, Shows, On
<1>11. CASE SaysShutdown(x, a, b, m)
  BY <1>1, <1>2, <1>5, <1>6, <1>11 DEF SaysShutdown, Shows, On
<1>12. CASE SaysComplete(x, a, b, m) \/ m.type = "ABORT"
  BY <1>5, <1>12 DEF SaysComplete, Shows, On
<1> QED  BY <1>5, <1>7, <1>8, <1>9, <1>10, <1>11, <1>12 DEF Says

LEMMA OwnersDifferKept ==
    ASSUME TagsInv, NEW x \in Hosts, Acts(x)
    PROVE  OwnersDiffer'
<1>1. ASSUME NEW q \in Hosts, NEW t \in Tags, Owns(q, t)'
      PROVE  Owns(q, t) \/ (New(t) /\ q = x)
  <2>0. t # 0 /\ Other(q) \in Hosts /\ Other(Other(q)) = q /\ (x = q \/ x = Other(q))
    BY PairOf DEF Tags
  <2>1. ASSUME NEW m \in chunks', Shows(m, q, t)
        PROVE  Owns(q, t) \/ (New(t) /\ q = x)
    <3>1. CASE m \in chunks
      BY <2>1, <3>1 DEF Owns
    <3> QED  BY <2>1, <3>1, TagsShown
  <2>2. CASE x = q
    <3>1. assoc'[Other(q)] = assoc[Other(q)]
      BY <2>2, Frame
    <3>2. \/ t \in {assoc'[q].peerVTag, assoc'[q].cookieChunk.local}
          \/ t \in {assoc[Other(q)].localVTag, assoc[Other(q)].cookieChunk.peer}
          \/ \E m \in chunks' : Shows(m, q, t)
      BY <1>1, <3>1 DEF Owns, Shows, On
    <3>3. CASE t \in {assoc'[q].peerVTag, assoc'[q].cookieChunk.local}
      <4> HIDE DEF Owns, New
      <4> QED  BY <2>0, <2>2, <3>3, TagsFrom
    <3>4. CASE t \in {assoc[Other(q)].localVTag, assoc[Other(q)].cookieChunk.peer}
      BY <3>4 DEF Owns
    <3> QED  BY <2>1, <3>2, <3>3, <3>4
  <2>3. CASE x = Other(q)
    <3>1. assoc'[q] = assoc[q]
      BY <2>0, <2>3, Frame
    <3>2. \/ t \in {assoc[q].peerVTag, assoc[q].cookieChunk.local}
          \/ t \in {assoc'[x].localVTag, assoc'[x].cookieChunk.peer}
          \/ \E m \in chunks' : Shows(m, q, t)
      BY <1>1, <2>3, <3>1 DEF Owns, Shows, On
    <3>3. CASE t \in {assoc'[x].localVTag, assoc'[x].cookieChunk.peer}
      <4> HIDE DEF Owns, New
      <4> QED  BY <2>0, <2>3, <3>3, TagsFrom
    <3>4. CASE t \in {assoc[q].peerVTag, assoc[q].cookieChunk.local}
      BY <3>4 DEF Owns
    <3> QED  BY <2>1, <3>2, <3>3, <3>4
  <2> QED  BY <2>0, <2>2, <2>3
<1>2. ASSUME NEW q \in Hosts, NEW t, New(t) PROVE ~ Owns(q, t)
  <2>1. Other(q) \in Hosts
    BY PairOf
  <2> QED  BY <1>2, <2>1 DEF New, Owns, Shows, On
<1>3. ASSUME NEW h \in Hosts, NEW t \in Tags, Owns(h, t)', Owns(Other(h), t)' PROVE FALSE
  <2>1. Other(h) \in Hosts /\ Other(h) # h
    BY PairOf
  <2>2. Owns(h, t) \/ (New(t) /\ h = x)
    BY <1>1, <1>3
  <2>3. Owns(Other(h), t) \/ (New(t) /\ Other(h) = x)
    BY <1>1, <1>3, <2>1
  <2>4. ~ (Owns(h, t) /\ Owns(Other(h), t))
    BY DEF TagsInv, OwnersDiffer
  <2> QED  BY <1>2, <2>1, <2>2, <2>3, <2>4
<1> QED  BY <1>3 DEF OwnersDiffer

\* A cookie of another life never reaches a host that only forks, nor its peer.
LEMMA ForksNotRejoined ==
    ASSUME TagsInv, NEW w \in Hosts, w \in listening, NEW x \in Hosts
    PROVE  ~ Rejoined(x, assoc[x], assoc'[x])
<1> SUFFICES ASSUME Rejoined(x, assoc[x], assoc'[x]) PROVE FALSE
  OBVIOUS
<1>1. PICK k \in chunks : Took(x, k, "COOKIE_ECHO") /\ k.cookie.local # assoc[x].localVTag
  BY DEF Rejoined
<1>2. OnlyForks(w) /\ OneCookie(w) /\ Alive(x)
  BY DEF TagsInv, Rejoined, Opening, Alive
<1>3. CASE x = w
  <2>1. k.cookie = Tie(assoc[w])
    BY <1>1, <1>2, <1>3 DEF OneCookie, Took, On
  <2> QED  BY <1>1, <1>3, <2>1 DEF Tie
<1>4. CASE x = Other(w)
  BY <1>1, <1>2, <1>4 DEF OnlyForks, Took
<1> QED  BY <1>3, <1>4, PairOf

LEMMA OnlyForksKept ==
    ASSUME TimersInv, TagsInv, NEW x \in Hosts, Acts(x), NEW w \in Hosts
    PROVE  OnlyForks(w)'
<1> SUFFICES ASSUME w \in listening PROVE OnlyForks(w)'
  BY DEF OnlyForks, Acts
<1>1. OnlyForks(w)
  BY DEF TagsInv
<1>2. CASE x = w
  <2>1. opens'[w] = opens[w] /\ Goes(w, assoc[w], assoc'[w])
    BY <1>2 DEF Acts, Opened
  <2>2. assoc'[w].state \notin Opening
    BY <1>1, <2>1, ForksNotRejoined
       DEF OnlyForks, Goes, Forked, Echoed, Accepted, Acknowledged, ShutDown, Answered,
           NoAssociation, Opening
  <2>3. ASSUME NEW m \in chunks', m \notin chunks
        PROVE  ~ On(m, Other(w), "INIT") /\ ~ On(m, Other(w), "COOKIE_ECHO")
    BY <1>2, <2>2, <2>3, NewPacket
       DEF Says, SaysInit, SaysInitAck, SaysCookieEcho, SaysCookieAck, SaysShutdown,
           SaysShutdownAck, SaysComplete, On, Opening
  <2> QED  BY <1>1, <2>1, <2>2, <2>3 DEF OnlyForks, On
<1>3. CASE x = Other(w)
  <2>1. Other(x) = w /\ w # x
    BY <1>3, PairOf
  <2>2. ASSUME NEW m \in chunks', m \notin chunks PROVE m.to = w
    BY <2>1, <2>2, NewPacket
  <2> QED  BY <1>1, <1>3, <2>1, <2>2, Frame DEF OnlyForks, On
<1> QED  BY <1>2, <1>3, PairOf

LEMMA OneCookieKept ==
    ASSUME TimersInv, TagsInv, NEW x \in Hosts, Acts(x), NEW w \in Hosts
    PROVE  OneCookie(w)'
<1> DEFINE o == Other(w)
<1> SUFFICES ASSUME w \in listening, assoc'[w].state # "NONE" PROVE OneCookie(w)'
  BY DEF OneCookie, Acts, Alive
<1>1. OnlyForks(w) /\ OneCookie(w)
  BY DEF TagsInv
<1>2. ~ Rejoined(x, assoc[x], assoc'[x])
  BY ForksNotRejoined
<1>3. CASE x = w
  <2>1. assoc'[o] = assoc[o] /\ o # w
    BY <1>3, PairOf, Frame
  <2>2. Goes(w, assoc[w], assoc'[w])
    BY <1>3 DEF Acts, Opened
  <2>3. ASSUME NEW m \in chunks', m \notin chunks
        PROVE  /\ ~ On(m, w, "COOKIE_ECHO")
               /\ On(m, o, "INIT_ACK") /\ m.initTag = assoc'[w].peerVTag
                  => m.cookie = Tie(assoc'[w])
    <3>1. m.to = o /\ Says(w, assoc[w], assoc'[w], m)
      BY <1>3, <2>3, NewPacket
    <3>2. m.type = "INIT_ACK" => SaysInitAck(w, assoc[w], assoc'[w], m)
      BY <3>1 DEF Says, SaysInit, SaysCookieEcho, SaysCookieAck, SaysShutdown,
                  SaysShutdownAck, SaysComplete
    <3>3. assoc[w].state \notin Opening
      BY <1>1 DEF OnlyForks
    <3> QED  BY <2>1, <3>1, <3>2, <3>3 DEF SaysInitAck, New, On
  <2>4. CASE /\ assoc[w].state # "NONE" /\ SameTags(assoc[w], assoc'[w])
    <3>1. Tie(assoc'[w]) = Tie(assoc[w]) /\ assoc'[w].peerVTag = assoc[w].peerVTag
      BY <2>4 DEF SameTags, Tie
    <3> QED  BY <1>1, <2>1, <2>3, <2>4, <3>1 DEF OneCookie, Alive
  <2>5. CASE Forked(w, assoc[w], assoc'[w])
    <3>1. New(assoc'[w].peerVTag)
      BY <2>5 DEF Forked
    <3>2. /\ assoc[o].localVTag # assoc'[w].peerVTag
          /\ \A m \in chunks : m.tag # assoc'[w].peerVTag /\ m.initTag # assoc'[w].peerVTag
      BY <3>1, PairOf DEF New
    <3> QED  BY <2>1, <2>3, <3>2 DEF OneCookie, On
  <2> QED  BY <1>1, <1>2, <1>3, <2>2, <2>4, <2>5
           DEF Goes, Accepted, Acknowledged, Echoed, ShutDown, Answered, NoAssociation,
               OnlyForks, Opening
<1>4. CASE x = o
  <2>1. assoc'[w] = assoc[w] /\ Other(o) = w /\ o # w
    BY <1>4, PairOf, Frame
  <2>2. Alive(w)
    BY <2>1 DEF Alive
  <2>3. assoc'[o].state = "COOKIE_ECHOED" /\ assoc'[o].localVTag = assoc[w].peerVTag
        => assoc'[o].cookieChunk = Tie(assoc[w])
    <3>1. CASE Echoed(o, assoc[o], assoc'[o])
      <4>1. PICK k \in chunks : /\ On(k, o, "INIT_ACK") /\ assoc'[o].localVTag = k.initTag
                                /\ assoc'[o].cookieChunk = k.cookie
        BY <3>1 DEF Echoed, Took
      <4> QED  BY <1>1, <2>2, <4>1 DEF OneCookie
    <3>2. CASE assoc'[o].state = assoc[o].state /\ SameTags(assoc[o], assoc'[o])
      BY <1>1, <2>2, <3>2 DEF OneCookie, SameTags
    <3> QED  BY <1>2, <1>4, <3>1, <3>2
             DEF Acts, Goes, Opened, Forked, Accepted, Acknowledged, ShutDown, Answered,
                 NoAssociation
  <2>4. ASSUME NEW m \in chunks', m \notin chunks
        PROVE  /\ ~ On(m, o, "INIT_ACK")
               /\ On(m, w, "COOKIE_ECHO") /\ m.tag = assoc[w].peerVTag => m.cookie = Tie(assoc[w])
    <3>1. m.to = w /\ Says(o, assoc[o], assoc'[o], m)
      BY <1>4, <2>1, <2>4, NewPacket
    <3>2. m.type = "COOKIE_ECHO" => SaysCookieEcho(o, assoc[o], assoc'[o], m)
      BY <3>1 DEF Says, SaysInit, SaysInitAck, SaysCookieAck, SaysShutdown,
                  SaysShutdownAck, SaysComplete
    <3> QED  BY <2>1, <2>3, <3>1, <3>2 DEF SaysCookieEcho, On
  <2> QED  BY <1>1, <2>1, <2>2, <2>3, <2>4 DEF OneCookie, On
<1> QED  BY <1>3, <1>4, PairOf

LEMMA NotYetHeardKept ==
    ASSUME TimersInv, TagsInv, NEW x \in Hosts, Acts(x), NEW w \in Hosts
    PROVE  NotYetHeard(w)'
<1> DEFINE o == Other(w)
<1> SUFFICES ASSUME w \in listening, assoc'[o].state = "COOKIE_WAIT" PROVE NotYetHeard(w)'
  BY DEF NotYetHeard, Acts
<1>1. OnlyForks(w) /\ OneCookie(w) /\ NotYetHeard(w)
  BY DEF TagsInv
<1>2. ~ Rejoined(x, assoc[x], assoc'[x])
  BY ForksNotRejoined
<1>3. CASE x = w
  <2>1. assoc'[o] = assoc[o] /\ o # w
    BY <1>3, PairOf, Frame
  <2>2. Goes(w, assoc[w], assoc'[w])
    BY <1>3 DEF Acts, Opened
  <2>3. assoc'[w].state # "NONE" /\ assoc'[w].localVTag = assoc[o].peerVTag
        => assoc'[w].state = "CLOSED"
    <3>1. CASE Accepted(w, assoc[w], assoc'[w])
      <4>1. PICK k \in chunks : On(k, w, "COOKIE_ECHO") /\ k.tag = assoc[w].peerVTag
        BY <3>1 DEF Accepted, Took
      <4>2. k.cookie = Tie(assoc[w])
        BY <1>1, <3>1, <4>1 DEF OneCookie, Alive, Accepted
      <4>3. k.cookie.local # assoc[o].peerVTag
        BY <1>1, <2>1, <4>1 DEF NotYetHeard
      <4> QED  BY <3>1, <4>2, <4>3 DEF Tie, Accepted, SameTags
    <3> QED  BY <1>1, <1>2, <1>3, <2>1, <2>2, <3>1
             DEF Goes, Forked, Echoed, Acknowledged, ShutDown, Answered, NoAssociation,
                 NotYetHeard, OnlyForks, Opening, Alive, SameTags
  <2>4. ASSUME NEW m \in chunks', m \notin chunks
        PROVE  /\ ~ On(m, w, "COOKIE_ECHO")
               /\ On(m, o, "SHUTDOWN_ACK") => m.tag # assoc[o].peerVTag
    <3>1. m.to = o /\ Says(w, assoc[w], assoc'[w], m)
      BY <1>3, <2>4, NewPacket
    <3>2. m.type = "SHUTDOWN_ACK" => SaysShutdownAck(w, assoc[w], assoc'[w], m)
      BY <3>1 DEF Says, SaysInit, SaysInitAck, SaysCookieAck, SaysShutdown,
                  SaysCookieEcho, SaysComplete
    <3> QED  BY <2>1, <2>3, <3>1, <3>2 DEF SaysShutdownAck, On
  <2> QED  BY <1>1, <2>1, <2>3, <2>4 DEF NotYetHeard, On, Alive
<1>4. CASE x = o
  <2>1. assoc'[w] = assoc[w] /\ Other(o) = w /\ o # w
    BY <1>4, PairOf, Frame
  <2>2. ASSUME NEW m \in chunks', m \notin chunks
        PROVE  ~ On(m, w, "COOKIE_ECHO") /\ ~ On(m, o, "SHUTDOWN_ACK")
    <3>1. m.to = w /\ Says(o, assoc[o], assoc'[o], m)
      BY <1>4, <2>1, <2>2, NewPacket
    <3> QED  BY <2>1, <3>1
             DEF Says, SaysInit, SaysInitAck, SaysCookieEcho, SaysCookieAck, SaysShutdown,
                 SaysShutdownAck, SaysComplete, On
  <2>3. CASE Opened(o, assoc[o], assoc'[o])
    <3>1. New(assoc'[o].peerVTag) /\ assoc'[o].localVTag = 0
      BY <2>3 DEF Opened
    <3>2. /\ assoc[w].localVTag # assoc'[o].peerVTag
          /\ \A m \in chunks : m.tag # assoc'[o].peerVTag /\ m.cookie.local # assoc'[o].peerVTag
      BY <3>1 DEF New
    <3> QED  BY <2>1, <2>2, <3>1, <3>2 DEF NotYetHeard, On
  <2>4. CASE assoc'[o].state = assoc[o].state /\ SameTags(assoc[o], assoc'[o])
    BY <1>1, <2>1, <2>2, <2>4 DEF NotYetHeard, On, SameTags, Alive
  <2> QED  BY <1>2, <1>4, <2>3, <2>4
           DEF Acts, Goes, Forked, Echoed, Accepted, Acknowledged, ShutDown, Answered,
               NoAssociation
<1> QED  BY <1>3, <1>4, PairOf

\* What a new packet says, by its type.
LEMMA SaidOf ==
    ASSUME NEW x \in Hosts, Acts(x), NEW m \in chunks', m \notin chunks
    PROVE  /\ m.to = Other(x)
           /\ m.type = "INIT" => SaysInit(x, assoc[x], assoc'[x], m)
           /\ m.type = "INIT_ACK" => SaysInitAck(x, assoc[x], assoc'[x], m)
           /\ m.type = "COOKIE_ECHO" => SaysCookieEcho(x, assoc[x], assoc'[x], m)
           /\ m.type = "COOKIE_ACK" => SaysCookieAck(x, assoc[x], assoc'[x], m)
           /\ m.type = "SHUTDOWN" => SaysShutdown(x, assoc[x], assoc'[x], m)
           /\ m.type = "SHUTDOWN_ACK" => SaysShutdownAck(x, assoc[x], assoc'[x], m)
           /\ m.type = "SHUTDOWN_COMPLETE" => SaysComplete(x, assoc[x], assoc'[x], m)
           /\ m.type \in Types
<1>1. m.to = Other(x) /\ Says(x, assoc[x], assoc'[x], m)
  BY NewPacket
<1> DEFINE a == assoc[x]
           b == assoc'[x]
<1>2. /\ SaysInit(x, a, b, m) => m.type = "INIT"
      /\ SaysInitAck(x, a, b, m) => m.type = "INIT_ACK"
      /\ SaysCookieEcho(x, a, b, m) => m.type = "COOKIE_ECHO"
      /\ SaysCookieAck(x, a, b, m) => m.type = "COOKIE_ACK"
      /\ SaysShutdown(x, a, b, m) => m.type = "SHUTDOWN"
      /\ SaysShutdownAck(x, a, b, m) => m.type = "SHUTDOWN_ACK"
      /\ SaysComplete(x, a, b, m) => m.type = "SHUTDOWN_COMPLETE"
  BY DEF SaysInit, SaysInitAck, SaysCookieEcho, SaysCookieAck, SaysShutdown,
         SaysShutdownAck, SaysComplete
<1> HIDE DEF a, b
<1>3. \/ m.type = "ABORT" \/ SaysInit(x, a, b, m) \/ SaysInitAck(x, a, b, m)
      \/ SaysCookieEcho(x, a, b, m) \/ SaysCookieAck(x, a, b, m)
      \/ SaysShutdown(x, a, b, m) \/ SaysShutdownAck(x, a, b, m) \/ SaysComplete(x, a, b, m)
  BY <1>1 DEF Says, a, b
<1>4. m.type \in Types
  BY <1>2, <1>3 DEF Types
<1> QED  BY <1>1, <1>2, <1>3, <1>4 DEF a, b

LEMMA UnopenedKept ==
    ASSUME TimersInv, TagsInv, NEW x \in Hosts, Acts(x), NEW w \in Hosts
    PROVE  Unopened(w)'
<1> DEFINE o == Other(w)
<1> SUFFICES ASSUME Single(w)', opens'[w] = 0 PROVE Unopened(w)'
  BY DEF Unopened
<1>1. /\ Single(w) /\ opens[w] = 0 /\ w \notin listening
      /\ assoc[w].state = "NONE" /\ assoc[o].state \in {"NONE", "COOKIE_WAIT"}
      /\ \A m \in chunks : m.type = "ABORT" \/ On(m, w, "INIT")
  <2>1. Unopened(w) /\ Single(w) /\ opens[w] = 0
    BY SingleBefore, OpensGrow DEF TagsInv
  <2> QED  BY <2>1 DEF Unopened, Single
<1>2. Other(o) = w /\ o # w /\ o \in Hosts
  BY PairOf
<1>3. CASE x = w
  <2>1. assoc'[o] = assoc[o]
    BY <1>3, Frame
  <2>2. ~ Opened(w, assoc[w], assoc'[w])
    <3>1. opens[w] + 1 # opens[w]
      BY <1>1
    <3> QED  BY <1>1, <1>3, <3>1, OpenedCounts
  <2>3. assoc'[w].state = "NONE"
    BY <1>1, <1>3, <2>2
       DEF Acts, Goes, Forked, Echoed, Accepted, Acknowledged, Rejoined, ShutDown, Answered,
           NoAssociation, Opening
  <2>4. ASSUME NEW m \in chunks', m \notin chunks PROVE m.type = "ABORT"
    BY <1>1, <1>3, <2>3, <2>4, SaidOf
       DEF SaysInit, SaysInitAck, SaysCookieEcho, SaysCookieAck, SaysShutdown,
           SaysShutdownAck, SaysComplete, On, Types, Opening
  <2> QED  BY <1>1, <2>1, <2>3, <2>4 DEF Unopened, On
<1>4. CASE x = o
  <2>1. assoc'[w] = assoc[w]
    BY <1>2, <1>4, Frame
  <2>2. assoc'[o].state \in {"NONE", "COOKIE_WAIT"}
    BY <1>1, <1>2, <1>4
       DEF Acts, Goes, Opened, Forked, Echoed, Accepted, Acknowledged, Rejoined, ShutDown,
           Answered, NoAssociation, Took, On
  <2>3. ASSUME NEW m \in chunks', m \notin chunks PROVE m.type = "ABORT" \/ On(m, w, "INIT")
    BY <1>1, <1>2, <1>4, <2>2, <2>3, SaidOf
       DEF SaysInit, SaysInitAck, SaysCookieEcho, SaysCookieAck, SaysShutdown,
           SaysShutdownAck, SaysComplete, On, Types, Took
  <2> QED  BY <1>1, <2>1, <2>2, <2>3 DEF Unopened, On
<1> QED  BY <1>3, <1>4, PairOf

\* The only association of a host keeps the tag that it has drawn.
LEMMA SameLife ==
    ASSUME TimersInv, TagsInv, NEW x \in Hosts, Acts(x), Single(x),
           Rejoined(x, assoc[x], assoc'[x])
    PROVE  /\ assoc'[x].peerVTag = assoc[x].peerVTag
           /\ assoc'[x].state \in {"COOKIE_ECHOED", "ESTABLISHED"}
<1>1. PICK k \in chunks : /\ Took(x, k, "COOKIE_ECHO")
                          /\ assoc'[x].peerVTag = k.cookie.peer
  BY DEF Rejoined
<1>2. OneTag(x) /\ Alive(x)
  BY DEF TagsInv, Rejoined, Alive, Opening
<1>3. k.cookie.peer = assoc[x].peerVTag
  BY <1>1, <1>2 DEF OneTag, Took
<1> QED  BY <1>1, <1>3 DEF Rejoined, Opening

LEMMA WaitingKept ==
    ASSUME TimersInv, TagsInv, NEW x \in Hosts, Acts(x), NEW w \in Hosts
    PROVE  Waiting(w)'
<1> DEFINE o == Other(w)
<1> SUFFICES ASSUME Single(w)', assoc'[w].state = "COOKIE_WAIT" PROVE Waiting(w)'
  BY DEF Waiting
<1>1. Single(w) /\ Waiting(w) /\ Unopened(w) /\ OneTag(w)
  BY SingleBefore DEF TagsInv
<1>2. Other(o) = w /\ o # w /\ o \in Hosts
  BY PairOf
<1>3. \A m \in chunks : TagsSent(m)
  BY DEF TagsInv, NonZero
<1>4. CASE x = w
  <2>1. assoc'[o] = assoc[o]
    BY <1>4, Frame
  <2>2. CASE Opened(w, assoc[w], assoc'[w])
    <3>1. opens[w] = 0
      <4>1. opens'[w] = opens[w] + 1 /\ opens[w] \in Nat /\ opens'[w] <= 1
        BY <1>4, <2>2, OpenedCounts, OpensGrow DEF Single
      <4> QED  BY <4>1
    <3>2. /\ assoc[o].state \in {"NONE", "COOKIE_WAIT"}
          /\ \A m \in chunks : m.type = "ABORT" \/ On(m, w, "INIT")
      BY <1>1, <3>1 DEF Unopened
    <3>3. ASSUME NEW m \in chunks', m \notin chunks
          PROVE  m.type \notin {"COOKIE_ECHO", "COOKIE_ACK"} /\ ~ On(m, w, "INIT_ACK")
      BY <1>2, <1>4, <2>2, <3>2, <3>3, SaidOf
         DEF Opened, SaysCookieEcho, SaysCookieAck, On, Took
    <3> QED  BY <1>2, <2>1, <2>2, <3>2, <3>3 DEF Waiting, Opened, On, Opening
  <2>3. CASE assoc'[w].state = assoc[w].state /\ SameTags(assoc[w], assoc'[w])
    <3>1. /\ assoc[w].state = "COOKIE_WAIT" /\ assoc[w].localVTag = 0
          /\ assoc[o].state \in {"NONE", "CLOSED"} \cup Opening
          /\ \A m \in chunks : /\ ~ On(m, o, "COOKIE_ECHO") /\ ~ On(m, o, "COOKIE_ACK")
                               /\ On(m, w, "INIT_ACK") => m.cookie.local = assoc[w].peerVTag
      BY <1>1, <2>3 DEF Waiting
    <3>2. ASSUME NEW m \in chunks', m \notin chunks
          PROVE  m.type \notin {"COOKIE_ECHO", "COOKIE_ACK"} /\ ~ On(m, w, "INIT_ACK")
      <4>1. ASSUME NEW k \in chunks, Took(w, k, "COOKIE_ECHO") PROVE k.cookie.local # 0
        BY <1>3, <4>1 DEF Took, On, TagsSent
      <4>2. assoc'[w].localVTag = 0
        BY <2>3, <3>1 DEF SameTags
      <4> QED  BY <1>2, <1>4, <3>1, <3>2, <4>1, <4>2, SaidOf
                  DEF SaysCookieEcho, SaysCookieAck, On
    <3> QED  BY <2>1, <2>3, <3>1, <3>2 DEF Waiting, SameTags, On
  <2> QED  BY <1>1, <1>4, <2>2, <2>3, SameLife
           DEF Acts, Goes, Forked, Echoed, Accepted, Acknowledged, ShutDown, Answered,
               NoAssociation
<1>5. CASE x = o
  <2>1. assoc'[w] = assoc[w]
    BY <1>2, <1>5, Frame
  <2>2. /\ assoc[w].localVTag = 0
        /\ assoc[o].state \in {"NONE", "CLOSED"} \cup Opening
        /\ \A m \in chunks : /\ ~ On(m, o, "COOKIE_ECHO") /\ ~ On(m, o, "COOKIE_ACK")
                             /\ On(m, w, "INIT_ACK") => m.cookie.local = assoc[w].peerVTag
    BY <1>1, <2>1 DEF Waiting
  <2>3. assoc'[o].state \in {"NONE", "CLOSED"} \cup Opening
    BY <1>5, <2>2
       DEF Acts, Goes, Opened, Forked, Echoed, Accepted, Acknowledged, Rejoined, ShutDown,
           Answered, NoAssociation, Took, Opening
  <2>4. ASSUME NEW k \in chunks, On(k, o, "INIT") PROVE k.initTag = assoc[w].peerVTag
    BY <1>1, <2>1, <2>4 DEF OneTag, Alive
  <2>5. assoc'[o].state = "CLOSED" => assoc'[o].localVTag = assoc[w].peerVTag
    <3>1. assoc[o].state = "CLOSED" => assoc[o].localVTag = assoc[w].peerVTag
      <4>1. assoc[o].state = "CLOSED" => o \in listening
        BY <1>2 DEF TagsInv, NonZero, TagsSet
      <4> QED  BY <1>1, <2>1, <4>1 DEF OneTag, Alive
    <3>2. Forked(o, assoc[o], assoc'[o]) => assoc'[o].localVTag = assoc[w].peerVTag
      BY <2>4 DEF Forked
    <3> QED  BY <1>5, <2>2, <3>1, <3>2
             DEF Acts, Goes, Opened, Echoed, Accepted, Acknowledged, Rejoined, ShutDown,
                 Answered, NoAssociation, Took, SameTags
  <2>6. ASSUME NEW m \in chunks', m \notin chunks
        PROVE  /\ m.to = w
               /\ m.type = "INIT_ACK" => m.cookie.local = assoc[w].peerVTag
    <3>1. m.to = w /\ (m.type = "INIT_ACK" => SaysInitAck(o, assoc[o], assoc'[o], m))
      BY <1>2, <1>5, <2>6, SaidOf
    <3> QED  BY <2>2, <2>4, <2>5, <3>1 DEF SaysInitAck, Tie, Opening
  <2> QED  BY <1>2, <2>1, <2>2, <2>3, <2>6 DEF Waiting, On
<1> QED  BY <1>4, <1>5, PairOf

LEMMA NotShutDownKept ==
    ASSUME TimersInv, TagsInv, NEW x \in Hosts, Acts(x), NEW w \in Hosts
    PROVE  NotShutDown(w)'
<1> DEFINE o == Other(w)
           Early == Opening \cup {"ESTABLISHED"}
<1> SUFFICES ASSUME Single(w)' PROVE NotShutDown(w)'
  BY DEF NotShutDown
<1>1. Single(w) /\ NotShutDown(w) /\ Unopened(w)
  BY SingleBefore DEF TagsInv
<1>2. Other(o) = w /\ o # w /\ o \in Hosts /\ w \notin listening
  BY PairOf, <1>1 DEF Single
<1>3. CASE x = w
  <2>1. assoc'[o] = assoc[o]
    BY <1>3, Frame
  <2>2. ASSUME NEW m \in chunks', m \notin chunks
        PROVE  /\ ~ On(m, w, "SHUTDOWN_COMPLETE")
               /\ m.type = "SHUTDOWN" => assoc'[w].state \notin Early
               /\ m.type = "SHUTDOWN_ACK" => assoc'[w].state = "SHUTDOWN_ACK_SENT"
               /\ m.type = "SHUTDOWN_COMPLETE" => \E k \in chunks : On(k, w, "SHUTDOWN_ACK")
    BY <1>2, <1>3, <2>2, SaidOf
       DEF SaysShutdown, SaysShutdownAck, SaysComplete, On, Opening
  <2>3. assoc[w].state \notin Early /\ assoc'[w].state \in Early => Opened(w, assoc[w], assoc'[w])
    <3>1. assoc[w].state # "CLOSED"
      BY <1>2 DEF TagsInv, NonZero, TagsSet
    <3> QED  BY <1>3, <3>1
             DEF Acts, Goes, Forked, Echoed, Accepted, Acknowledged, Rejoined, ShutDown,
                 Answered, NoAssociation, Opening
  <2>4. assoc'[w].state = "SHUTDOWN_SENT" => assoc[w].state \in {"ESTABLISHED", "SHUTDOWN_SENT"}
    BY <1>3
       DEF Acts, Goes, Opened, Forked, Echoed, Accepted, Acknowledged, Rejoined, ShutDown,
           Answered, NoAssociation, Opening
  <2>5. Opened(w, assoc[w], assoc'[w])
        => /\ assoc[o].state # "SHUTDOWN_ACK_SENT"
           /\ \A m \in chunks : m.type = "ABORT" \/ On(m, w, "INIT")
    <3> SUFFICES ASSUME Opened(w, assoc[w], assoc'[w])
                 PROVE  /\ assoc[o].state # "SHUTDOWN_ACK_SENT"
                        /\ \A m \in chunks : m.type = "ABORT" \/ On(m, w, "INIT")
      OBVIOUS
    <3>1. opens'[w] = opens[w] + 1 /\ opens[w] \in Nat /\ opens'[w] <= 1
      BY <1>3, OpenedCounts, OpensGrow DEF Single
    <3>2. opens[w] = 0
      BY <3>1
    <3> QED  BY <1>1, <3>2 DEF Unopened
  <2>6. assoc'[w].state \in Early =>
           /\ assoc[o].state # "SHUTDOWN_ACK_SENT"
           /\ \A m \in chunks : /\ m.type \notin {"SHUTDOWN_ACK", "SHUTDOWN_COMPLETE"}
                                /\ ~ On(m, o, "SHUTDOWN")
    <3>1. CASE assoc[w].state \in Early
      BY <1>1, <3>1 DEF NotShutDown
    <3> QED  BY <2>3, <2>5, <3>1 DEF On
  <2>7. assoc'[w].state \in Early =>
           \A m \in chunks' : /\ m.type \notin {"SHUTDOWN_ACK", "SHUTDOWN_COMPLETE"}
                              /\ ~ On(m, o, "SHUTDOWN")
    BY <2>2, <2>6 DEF On, Opening
  <2>8. assoc'[w].state = "SHUTDOWN_SENT" =>
           \A m \in chunks' : ~ On(m, o, "SHUTDOWN_ACK") /\ ~ On(m, w, "SHUTDOWN_COMPLETE")
    <3>1. assoc'[w].state = "SHUTDOWN_SENT" =>
             \A m \in chunks : ~ On(m, o, "SHUTDOWN_ACK") /\ ~ On(m, w, "SHUTDOWN_COMPLETE")
      BY <1>1, <2>4 DEF NotShutDown, On
    <3> QED  BY <2>2, <3>1 DEF On
  <2> QED  BY <2>1, <2>6, <2>7, <2>8 DEF NotShutDown, On
<1>4. CASE x = o
  <2>1. assoc'[w] = assoc[w]
    BY <1>2, <1>4, Frame
  <2>2. ASSUME NEW m \in chunks', m \notin chunks
        PROVE  /\ m.to = w
               /\ m.type = "SHUTDOWN_ACK" => assoc'[o].state = "SHUTDOWN_ACK_SENT"
               /\ m.type = "SHUTDOWN_COMPLETE" => \E k \in chunks : On(k, o, "SHUTDOWN_ACK")
    BY <1>2, <1>4, <2>2, SaidOf DEF SaysShutdownAck, SaysComplete, On
  <2>3. CASE assoc[w].state \in Early
    <3>1. /\ assoc[o].state # "SHUTDOWN_ACK_SENT"
          /\ \A m \in chunks : /\ m.type \notin {"SHUTDOWN_ACK", "SHUTDOWN_COMPLETE"}
                               /\ ~ On(m, o, "SHUTDOWN")
      BY <1>1, <2>3 DEF NotShutDown
    <3>2. assoc'[o].state # "SHUTDOWN_ACK_SENT"
      BY <1>4, <3>1
         DEF Acts, Goes, Opened, Forked, Echoed, Accepted, Acknowledged, Rejoined, ShutDown,
             Answered, NoAssociation, Opening, Took
    <3>3. \A m \in chunks' : /\ m.type \notin {"SHUTDOWN_ACK", "SHUTDOWN_COMPLETE"}
                             /\ ~ On(m, o, "SHUTDOWN")
      BY <1>2, <2>2, <3>1, <3>2 DEF On
    <3> QED  BY <2>1, <2>3, <3>2, <3>3 DEF NotShutDown, On, Opening
  <2>4. CASE assoc[w].state = "SHUTDOWN_SENT"
    <3>1. \A m \in chunks : ~ On(m, o, "SHUTDOWN_ACK") /\ ~ On(m, w, "SHUTDOWN_COMPLETE")
      BY <1>1, <2>4 DEF NotShutDown
    <3>2. \A m \in chunks' : ~ On(m, o, "SHUTDOWN_ACK") /\ ~ On(m, w, "SHUTDOWN_COMPLETE")
      BY <1>2, <2>2, <3>1 DEF On
    <3> QED  BY <2>1, <2>4, <3>2 DEF NotShutDown, On, Opening
  <2> QED  BY <2>1, <2>3, <2>4 DEF NotShutDown
<1> QED  BY <1>3, <1>4, PairOf

\* The association of a host that opens no second time, once it exists.
LEMMA FirstLife ==
    ASSUME TimersInv, TagsInv, NEW w \in Hosts, Acts(w), Single(w)', assoc'[w].state # "NONE"
    PROVE  \/ /\ Opened(w, assoc[w], assoc'[w])
              /\ assoc[Other(w)].state \in {"NONE", "COOKIE_WAIT"}
              /\ \A m \in chunks : m.type = "ABORT" \/ On(m, w, "INIT")
           \/ Alive(w) /\ assoc'[w].peerVTag = assoc[w].peerVTag
<1>1. Single(w) /\ Unopened(w) /\ w \notin listening
  BY SingleBefore DEF TagsInv, Single
<1>2. CASE Opened(w, assoc[w], assoc'[w])
  <2>1. opens'[w] = opens[w] + 1 /\ opens[w] \in Nat /\ opens'[w] <= 1
    BY <1>2, OpenedCounts, OpensGrow DEF Single
  <2>2. opens[w] = 0
    BY <2>1
  <2> QED  BY <1>1, <1>2, <2>2 DEF Unopened
<1>3. CASE Rejoined(w, assoc[w], assoc'[w])
  BY <1>1, <1>3, SameLife DEF Rejoined, Opening, Alive
<1> QED  BY <1>1, <1>2, <1>3
         DEF Acts, Goes, Forked, Echoed, Accepted, Acknowledged, ShutDown, Answered,
             NoAssociation, SameTags, Alive

LEMMA OneTagKept ==
    ASSUME TimersInv, TagsInv, NEW x \in Hosts, Acts(x), NEW w \in Hosts
    PROVE  OneTag(w)'
<1> DEFINE o == Other(w)
           t == assoc'[w].peerVTag
<1> SUFFICES ASSUME Single(w)', assoc'[w].state # "NONE" PROVE OneTag(w)'
  BY DEF OneTag, Alive
<1>1. /\ Single(w) /\ OneTag(w) /\ Waiting(w) /\ OnlyForks(o)
      /\ w \notin listening /\ listening' = listening
  BY SingleBefore, PairOf, Frame DEF TagsInv, Single
<1>2. Other(o) = w /\ o # w /\ o \in Hosts
  BY PairOf
<1>3. CASE x = w
  <2>1. assoc'[o] = assoc[o]
    BY <1>3, Frame
  <2>2. CASE /\ Opened(w, assoc[w], assoc'[w])
             /\ assoc[o].state \in {"NONE", "COOKIE_WAIT"}
             /\ \A m \in chunks : m.type = "ABORT" \/ On(m, w, "INIT")
    <3>1. ASSUME NEW m \in chunks', m \notin chunks
          PROVE  /\ m.to = o /\ m.type \notin {"INIT_ACK", "COOKIE_ECHO"}
                 /\ m.type = "INIT" => m.initTag = t
      BY <1>3, <2>2, <3>1, SaidOf
         DEF Opened, SaysInit, SaysInitAck, SaysCookieEcho, Opening
    <3>2. o \in listening => assoc[o].state = "NONE"
      BY <1>1, <2>2 DEF OnlyForks, Opening
    <3> QED  BY <1>1, <1>2, <2>1, <2>2, <3>1, <3>2 DEF OneTag, Opened, On, Alive
  <2>3. CASE Alive(w) /\ t = assoc[w].peerVTag
    <3>1. assoc'[w].state = "COOKIE_ECHOED" => assoc'[w].cookieChunk.local = t
      <4>1. CASE Echoed(w, assoc[w], assoc'[w])
        <5>1. PICK k \in chunks : On(k, w, "INIT_ACK") /\ assoc'[w].cookieChunk = k.cookie
          BY <4>1 DEF Echoed, Took
        <5> QED  BY <1>1, <2>3, <4>1, <5>1 DEF Waiting, Echoed
      <4>2. CASE assoc[w].state = assoc'[w].state /\ assoc'[w].cookieChunk = assoc[w].cookieChunk
        BY <1>1, <2>3, <4>2 DEF OneTag
      <4>3. CASE Rejoined(w, assoc[w], assoc'[w])
        <5>1. assoc'[w].state = "COOKIE_ECHOED" => assoc[w].state = "COOKIE_ECHOED"
          BY <1>1, <4>3, SameLife DEF Rejoined
        <5> QED  BY <4>2, <4>3, <5>1 DEF Rejoined
      <4> QED  BY <1>3, <4>1, <4>2, <4>3
               DEF Acts, Goes, Opened, Forked, Accepted, Acknowledged, ShutDown, Answered,
                   NoAssociation, SameTags
    <3>2. assoc'[w].state # "CLOSED"
      <4>1. assoc[w].state # "CLOSED"
        BY <1>1 DEF TagsInv, NonZero, TagsSet
      <4> QED  BY <1>1, <1>3, <4>1
               DEF Acts, Goes, Opened, Forked, Echoed, Accepted, Acknowledged, Rejoined,
                   ShutDown, Answered, NoAssociation, Opening
    <3>3. ASSUME NEW m \in chunks', m \notin chunks
          PROVE  /\ m.to = o
                 /\ m.type = "INIT" => m.initTag = t
                 /\ m.type = "INIT_ACK" => m.cookie.peer = t
                 /\ m.type = "COOKIE_ECHO" => m.cookie.local = t
      <4>1. /\ m.to = o
            /\ m.type = "INIT" => SaysInit(w, assoc[w], assoc'[w], m)
            /\ m.type = "INIT_ACK" => SaysInitAck(w, assoc[w], assoc'[w], m)
            /\ m.type = "COOKIE_ECHO" => SaysCookieEcho(w, assoc[w], assoc'[w], m)
        BY <1>3, <3>3, SaidOf
      <4>2. Tie(assoc[w]).peer = assoc[w].peerVTag
        BY DEF Tie
      <4>3. SaysInitAck(w, assoc[w], assoc'[w], m) => m.cookie.peer = assoc[w].peerVTag
        BY <3>2, <4>2 DEF SaysInitAck
      <4>4. SaysInit(w, assoc[w], assoc'[w], m) => m.initTag = t
        BY DEF SaysInit
      <4>5. SaysCookieEcho(w, assoc[w], assoc'[w], m) => m.cookie.local = t
        BY <3>1 DEF SaysCookieEcho
      <4> QED  BY <2>3, <4>1, <4>3, <4>4, <4>5
    <3> QED  BY <1>1, <1>2, <2>1, <2>3, <3>1, <3>3 DEF OneTag, On, Alive
  <2> QED  BY <1>3, <2>2, <2>3, FirstLife
<1>4. CASE x = o
  <2>1. assoc'[w] = assoc[w]
    BY <1>2, <1>4, Frame
  <2>2. assoc'[o].state = "COOKIE_ECHOED" => assoc'[o].cookieChunk.peer = t
    <3>1. CASE Echoed(o, assoc[o], assoc'[o])
      <4>1. PICK k \in chunks : On(k, o, "INIT_ACK") /\ assoc'[o].cookieChunk = k.cookie
        BY <3>1 DEF Echoed, Took
      <4> QED  BY <1>1, <2>1, <4>1 DEF OneTag, Alive
    <3>2. CASE assoc[o].state = assoc'[o].state /\ assoc'[o].cookieChunk = assoc[o].cookieChunk
      BY <1>1, <2>1, <3>2 DEF OneTag, Alive
    <3> QED  BY <1>4, <3>1, <3>2
             DEF Acts, Goes, Opened, Forked, Accepted, Acknowledged, ShutDown, Answered,
                 NoAssociation, SameTags, Rejoined
  <2>3. o \in listening /\ assoc'[o].state # "NONE" => assoc'[o].localVTag = t
    <3> SUFFICES ASSUME o \in listening, assoc'[o].state # "NONE" PROVE assoc'[o].localVTag = t
      OBVIOUS
    <3>1. ~ Rejoined(o, assoc[o], assoc'[o]) /\ assoc[o].state \notin Opening
      BY <1>1, <1>2, ForksNotRejoined DEF OnlyForks
    <3>2. Forked(o, assoc[o], assoc'[o]) => assoc'[o].localVTag = t
      BY <1>1, <2>1 DEF Forked, OneTag, Alive
    <3>3. assoc[o].state # "NONE" => assoc[o].localVTag = t
      BY <1>1, <2>1 DEF OneTag, Alive
    <3> QED  BY <1>4, <3>1, <3>2, <3>3
             DEF Acts, Goes, Opened, Echoed, Accepted, Acknowledged, ShutDown, Answered,
                 NoAssociation, SameTags, Opening
  <2>4. ASSUME NEW m \in chunks', m \notin chunks
        PROVE  m.to = w /\ (m.type = "COOKIE_ECHO" => m.cookie.peer = t)
    BY <1>2, <1>4, <2>2, <2>4, SaidOf DEF SaysCookieEcho
  <2> QED  BY <1>1, <1>2, <2>1, <2>2, <2>3, <2>4 DEF OneTag, On, Alive
<1> QED  BY <1>3, <1>4, PairOf

LEMMA OneLocalKept ==
    ASSUME TimersInv, TagsInv, NEW x \in Hosts, Acts(x), NEW w \in Hosts
    PROVE  OneLocal(w)'
<1> SUFFICES ASSUME Single(w)' PROVE OneLocal(w)'
  BY DEF OneLocal
<1>1. Single(w) /\ OneLocal(w) /\ Other(w) # w
  BY SingleBefore, PairOf DEF TagsInv
<1>2. CASE assoc'[w].state # "NONE"
  BY <1>2, OneTagKept DEF OneTag, OneLocal, Alive
<1>3. CASE assoc'[w].state = "NONE"
  <2>1. ASSUME NEW m \in chunks', m \notin chunks PROVE ~ On(m, Other(w), "COOKIE_ECHO")
    <3>1. CASE x = w
      BY <1>3, <2>1, <3>1, SaidOf DEF SaysCookieEcho, On
    <3>2. CASE x = Other(w)
      BY <1>1, <2>1, <3>2, SaidOf, PairOf DEF On
    <3> QED  BY <3>1, <3>2, PairOf
  <2> QED  BY <1>1, <2>1 DEF OneLocal, On
<1> QED  BY <1>2, <1>3

LEMMA LateCookieKeptHere ==
    ASSUME TimersInv, TagsInv, NEW w \in Hosts, Acts(w)
    PROVE  LateCookie(w)'
<1> DEFINE o == Other(w)
           p == assoc[o].peerVTag
           l == assoc[o].localVTag
<1> SUFFICES ASSUME Single(w)', assoc[o].state # "NONE" PROVE LateCookie(w)'
  <2>1. assoc'[o] = assoc[o]
    BY Frame
  <2> QED  BY <2>1 DEF LateCookie, Alive
<1>1. Single(w) /\ LateCookie(w) /\ OneTag(w)'
  BY SingleBefore, OneTagKept DEF TagsInv
<1>2. Other(o) = w /\ o # w /\ o \in Hosts /\ assoc'[o] = assoc[o]
  BY PairOf, Frame
<1>3. /\ \A m \in chunks :
            /\ On(m, w, "INIT_ACK") /\ m.initTag = p => m.cookie.peer = p
            /\ On(m, o, "COOKIE_ECHO") /\ m.tag = p => m.cookie.peer = p \/ m.cookie.local = l
            /\ On(m, w, "COOKIE_ECHO") /\ Alive(w) /\ m.tag = assoc[w].peerVTag
               => m.cookie.local # p \/ l = assoc[w].peerVTag
      /\ assoc[w].state = "COOKIE_ECHOED" /\ assoc[w].localVTag = p
         => assoc[w].cookieChunk.peer = p \/ l = assoc[w].peerVTag
      /\ assoc[o].state = "COOKIE_WAIT" =>
            l = 0 /\ \A m \in chunks : On(m, w, "COOKIE_ECHO") => m.cookie.local # p
  BY <1>1 DEF LateCookie, Alive
<1>4. assoc'[w].state = "COOKIE_ECHOED" /\ assoc'[w].localVTag = p
      => assoc'[w].cookieChunk.peer = p \/ l = assoc'[w].peerVTag
  <2>1. CASE Echoed(w, assoc[w], assoc'[w])
    <3>1. PICK k \in chunks : /\ On(k, w, "INIT_ACK") /\ assoc'[w].localVTag = k.initTag
                              /\ assoc'[w].cookieChunk = k.cookie
      BY <2>1 DEF Echoed, Took
    <3> QED  BY <1>3, <3>1
  <2>2. CASE assoc[w].state = assoc'[w].state /\ SameTags(assoc[w], assoc'[w])
    BY <1>3, <2>2 DEF SameTags
  <2>3. CASE Rejoined(w, assoc[w], assoc'[w])
    <3>1. PICK k \in chunks : /\ On(k, w, "COOKIE_ECHO") /\ k.tag = assoc[w].peerVTag
                              /\ assoc'[w].localVTag = k.cookie.local
      BY <2>3 DEF Rejoined, Took
    <3>2. Alive(w) /\ assoc'[w].peerVTag = assoc[w].peerVTag
      BY <1>1, <2>3, SameLife DEF Rejoined, Alive, Opening
    <3> QED  BY <1>3, <3>1, <3>2
  <2> QED  BY <2>1, <2>2, <2>3
           DEF Acts, Goes, Opened, Forked, Accepted, Acknowledged, ShutDown, Answered,
               NoAssociation
<1>5. ASSUME NEW m \in chunks', m \notin chunks
      PROVE  /\ m.to = o
             /\ m.type = "COOKIE_ECHO" /\ m.tag = p => m.cookie.peer = p \/ m.cookie.local = l
  <2>1. m.to = o /\ (m.type = "COOKIE_ECHO" => SaysCookieEcho(w, assoc[w], assoc'[w], m))
    BY <1>5, SaidOf
  <2>2. SaysCookieEcho(w, assoc[w], assoc'[w], m)
        => /\ assoc'[w].state = "COOKIE_ECHOED" /\ m.tag = assoc'[w].localVTag
           /\ m.cookie = assoc'[w].cookieChunk
    BY DEF SaysCookieEcho
  <2>3. assoc'[w].state = "COOKIE_ECHOED" => assoc'[w].cookieChunk.local = assoc'[w].peerVTag
    BY <1>1 DEF OneTag, Alive
  <2> QED  BY <1>4, <2>1, <2>2, <2>3
<1>6. assoc'[w].state # "NONE" =>
         \A m \in chunks : On(m, w, "COOKIE_ECHO") /\ m.tag = assoc'[w].peerVTag
                           => m.cookie.local # p \/ l = assoc'[w].peerVTag
  <2> SUFFICES ASSUME assoc'[w].state # "NONE", NEW m \in chunks, On(m, w, "COOKIE_ECHO"),
                      m.tag = assoc'[w].peerVTag
               PROVE  m.cookie.local # p \/ l = assoc'[w].peerVTag
    OBVIOUS
  <2>1. Alive(w) /\ assoc'[w].peerVTag = assoc[w].peerVTag
    BY FirstLife DEF On
  <2> QED  BY <1>3, <2>1
<1> QED  BY <1>2, <1>3, <1>4, <1>5, <1>6 DEF LateCookie, Alive, On

LEMMA LateCookieKeptThere ==
    ASSUME TimersInv, TagsInv, NEW w \in Hosts, Acts(Other(w))
    PROVE  LateCookie(w)'
<1> DEFINE o == Other(w)
           p == assoc'[o].peerVTag
           l == assoc'[o].localVTag
<1> SUFFICES ASSUME Single(w)', assoc'[o].state # "NONE" PROVE LateCookie(w)'
  BY DEF LateCookie, Alive
<1>1. Other(o) = w /\ o # w /\ o \in Hosts
  BY PairOf
<1>2. Single(w) /\ LateCookie(w) /\ OneTag(w) /\ OneLocal(w)
  BY <1>1, SingleBefore DEF TagsInv
<1>3. assoc'[w] = assoc[w]
  BY <1>1, Frame
<1>4. TagsSet(w) /\ \A m \in chunks : TagsSent(m)
  BY DEF TagsInv, NonZero
<1> DEFINE Asks(m) == On(m, w, "INIT_ACK") /\ m.initTag = p => m.cookie.peer = p
           Here(m) == On(m, o, "COOKIE_ECHO") /\ m.tag = p
                      => m.cookie.peer = p \/ m.cookie.local = l
           There(m) == On(m, w, "COOKIE_ECHO") /\ Alive(w) /\ m.tag = assoc[w].peerVTag
                       => m.cookie.local # p \/ l = assoc[w].peerVTag
           Held == assoc[w].state = "COOKIE_ECHOED" /\ assoc[w].localVTag = p
                   => assoc[w].cookieChunk.peer = p \/ l = assoc[w].peerVTag
           Wait == assoc'[o].state = "COOKIE_WAIT" =>
                      l = 0 /\ \A m \in chunks : On(m, w, "COOKIE_ECHO") => m.cookie.local # p
<1>5. assoc[o].state # "NONE" =>
      /\ \A m \in chunks :
            /\ On(m, w, "INIT_ACK") /\ m.initTag = assoc[o].peerVTag
               => m.cookie.peer = assoc[o].peerVTag
            /\ On(m, o, "COOKIE_ECHO") /\ m.tag = assoc[o].peerVTag
               => m.cookie.peer = assoc[o].peerVTag \/ m.cookie.local = assoc[o].localVTag
            /\ On(m, w, "COOKIE_ECHO") /\ Alive(w) /\ m.tag = assoc[w].peerVTag
               => m.cookie.local # assoc[o].peerVTag \/ assoc[o].localVTag = assoc[w].peerVTag
      /\ assoc[w].state = "COOKIE_ECHOED" /\ assoc[w].localVTag = assoc[o].peerVTag
         => \/ assoc[w].cookieChunk.peer = assoc[o].peerVTag
            \/ assoc[o].localVTag = assoc[w].peerVTag
      /\ assoc[o].state = "COOKIE_WAIT" =>
            /\ assoc[o].localVTag = 0
            /\ \A m \in chunks : On(m, w, "COOKIE_ECHO") => m.cookie.local # assoc[o].peerVTag
  BY <1>2 DEF LateCookie, Alive
<1>6. ASSUME NEW m \in chunks', m \notin chunks
      PROVE  /\ m.to = w
             /\ m.type = "INIT_ACK" => SaysInitAck(o, assoc[o], assoc'[o], m)
             /\ m.type = "COOKIE_ECHO"
                => assoc'[o].state = "COOKIE_ECHOED" /\ m.tag = l
  BY <1>1, <1>6, SaidOf DEF SaysCookieEcho
\* A packet that the step has sent.
<1>7. ASSUME NEW m \in chunks', m \notin chunks, assoc[o].state # "NONE" => assoc[o].peerVTag = p
      PROVE  Asks(m) /\ Here(m) /\ There(m)
  <2>1. m.to = w
    BY <1>6, <1>7
  <2>2. Asks(m)
    <3> SUFFICES ASSUME m.type = "INIT_ACK", m.initTag = p PROVE m.cookie.peer = p
      BY DEF On
    <3>1. SaysInitAck(o, assoc[o], assoc'[o], m)
      BY <1>6, <1>7
    <3>2. CASE m.cookie = Tie(assoc'[o])
      BY <3>2 DEF Tie
    <3>3. CASE assoc[o].state \in Opening /\ m.cookie.peer = assoc[o].peerVTag
      BY <1>7, <3>3 DEF Opening
    <3>4. CASE assoc[o].state = "ESTABLISHED" /\ New(m.initTag)
      BY <1>1, <1>7, <3>4 DEF New
    <3> QED  BY <3>1, <3>2, <3>3, <3>4 DEF SaysInitAck
  <2>3. Here(m)
    BY <1>1, <2>1 DEF On
  <2>4. There(m)
    BY <1>6, <1>7 DEF On
  <2> QED  BY <2>2, <2>3, <2>4
<1>8. ASSUME NEW m \in chunks', m \notin chunks
      PROVE  m.type = "COOKIE_ECHO" => assoc'[o].state # "COOKIE_WAIT"
  BY <1>6, <1>8
\* The packets on their way, and what the association has.
<1>9. (\A m \in chunks : Asks(m) /\ Here(m) /\ There(m)) /\ Held /\ Wait
      /\ (assoc[o].state # "NONE" => assoc[o].peerVTag = p)
  <2>1. CASE Forked(o, assoc[o], assoc'[o]) \/ Opened(o, assoc[o], assoc'[o])
    <3>1. New(p) /\ assoc[o].state = "NONE" /\ (assoc'[o].state = "COOKIE_WAIT" => l = 0)
      BY <2>1 DEF Forked, Opened
    <3>2. /\ \A m \in chunks : p # m.tag /\ p # m.initTag /\ p # m.cookie.local
          /\ assoc[w].localVTag # p
      BY <3>1 DEF New
    <3> QED  BY <3>1, <3>2
  <2>2. CASE assoc[o].state # "NONE" /\ assoc[o].peerVTag = p /\ assoc[o].localVTag = l
             /\ (assoc'[o].state = "COOKIE_WAIT" => assoc[o].state = "COOKIE_WAIT")
    BY <1>5, <2>2
  <2>3. CASE Echoed(o, assoc[o], assoc'[o])
    <3>1. /\ assoc[o].state = "COOKIE_WAIT" /\ assoc[o].peerVTag = p
          /\ assoc'[o].state = "COOKIE_ECHOED" /\ assoc[o].localVTag = 0
      BY <1>5, <2>3 DEF Echoed
    <3>2. \A m \in chunks : On(m, o, "COOKIE_ECHO") => m.cookie.local # 0
      BY <1>4 DEF TagsSent, On
    <3>3. assoc[w].state = "COOKIE_ECHOED" => assoc[w].peerVTag # 0
      BY <1>4 DEF TagsSet, Alive
    <3> QED  BY <1>5, <3>1, <3>2, <3>3
  <2>4. CASE Rejoined(o, assoc[o], assoc'[o])
    <3>1. PICK k \in chunks : /\ On(k, o, "COOKIE_ECHO") /\ k.tag = assoc[o].peerVTag
                              /\ k.cookie.local # assoc[o].localVTag
                              /\ l = k.cookie.local /\ p = k.cookie.peer
      BY <2>4 DEF Rejoined, Took
    <3>2. assoc[o].state # "NONE"
      BY <2>4 DEF Rejoined, Opening
    <3>3. p = assoc[o].peerVTag
      BY <1>5, <3>1, <3>2
    <3>4. assoc'[o].state # "COOKIE_WAIT"
      BY <2>4, <3>3 DEF Rejoined, Opening
    <3>5. \A m \in chunks : On(m, o, "COOKIE_ECHO") => m.cookie.local = l
      BY <1>2, <3>1 DEF OneLocal
    <3>6. assoc[w].state # "NONE" => l = assoc[w].peerVTag
      BY <1>2, <3>1 DEF OneTag, Alive
    <3> QED  BY <1>5, <3>2, <3>3, <3>4, <3>5, <3>6 DEF Alive
  <2> HIDE DEF Asks, Here, There, Held, Wait
  <2> QED  BY <2>1, <2>2, <2>3, <2>4
           DEF Acts, Goes, Accepted, Acknowledged, ShutDown, Answered, NoAssociation, SameTags
<1>10. \A m \in chunks' : Asks(m) /\ Here(m) /\ There(m)
  <2> HIDE DEF Asks, Here, There, Held, Wait
  <2> QED  BY <1>7, <1>9
<1>11. assoc'[o].state = "COOKIE_WAIT" =>
          l = 0 /\ \A m \in chunks' : On(m, w, "COOKIE_ECHO") => m.cookie.local # p
  BY <1>8, <1>9 DEF On
<1> QED  BY <1>3, <1>9, <1>10, <1>11 DEF LateCookie, Alive, On

LEMMA LateCookieKept ==
    ASSUME TimersInv, TagsInv, NEW x \in Hosts, Acts(x), NEW w \in Hosts
    PROVE  LateCookie(w)'
BY LateCookieKeptHere, LateCookieKeptThere, PairOf

\* Of two hosts of which one listens or opens no second time, neither takes a
\* new tag from a cookie.
LEMMA PeerStays ==
    ASSUME TimersInv, TagsInv, SomeoneOpensOnce, NEW x \in Hosts, Acts(x),
           Rejoined(x, assoc[x], assoc'[x])
    PROVE  /\ assoc'[x].peerVTag = assoc[x].peerVTag
           /\ Single(x) \/ Single(Other(x))
<1>1. \A w \in Hosts : w \notin listening
  BY ForksNotRejoined
<1>2. PICK w \in Hosts : Single(w)
  BY <1>1 DEF SomeoneOpensOnce, Single
<1>3. CASE w = x
  BY <1>2, <1>3, SameLife
<1>4. CASE w = Other(x)
  <2>1. Other(w) = x /\ Alive(x)
    BY <1>4, PairOf DEF Alive, Rejoined, Opening
  <2>2. LateCookie(w)
    BY DEF TagsInv
  <2>3. PICK k \in chunks : /\ Took(x, k, "COOKIE_ECHO") /\ k.cookie.local # assoc[x].localVTag
                            /\ assoc'[x].peerVTag = k.cookie.peer
    BY DEF Rejoined
  <2>4. k.cookie.peer = assoc[x].peerVTag
    BY <1>2, <2>1, <2>2, <2>3 DEF LateCookie, Took
  <2> QED  BY <1>2, <1>4, <2>3, <2>4
<1> QED  BY <1>3, <1>4, PairOf

\* An association that is still set up gets no SHUTDOWN_ACK from a later life
\* of the other host.
LEMMA NoLateAck ==
    ASSUME TimersInv, TagsInv, SomeoneOpensOnce, NEW h \in Hosts,
           Alive(h), assoc[h].state # "SHUTDOWN_ACK_SENT",
           \/ assoc[Other(h)].state = "COOKIE_WAIT"
           \/ /\ assoc[Other(h)].state \in Opening \cup {"ESTABLISHED"}
              /\ Single(h) \/ Single(Other(h))
    PROVE  \A m \in chunks : On(m, Other(h), "SHUTDOWN_ACK") => m.tag # assoc[Other(h)].peerVTag
<1> DEFINE o == Other(h)
<1>1. Other(o) = h /\ o # h /\ o \in Hosts
  BY PairOf
<1>2. CASE Single(o)
  <2>1. NotShutDown(o) /\ assoc[o].state \in Opening \cup {"ESTABLISHED"}
    BY <1>1 DEF TagsInv, Opening
  <2> QED  BY <1>2, <2>1 DEF NotShutDown, On
<1>3. CASE Single(h)
  <2>1. NotShutDown(h)
    BY DEF TagsInv
  <2>2. assoc[h].state \in Opening \cup {"ESTABLISHED", "SHUTDOWN_SENT"}
    <3>1. assoc[h].state # "CLOSED"
      BY <1>3 DEF TagsInv, NonZero, TagsSet, Single
    <3>2. assoc[h] \in Associations
      BY InvIsRight
    <3> QED  BY <3>1, <3>2 DEF Associations, Alive, Closing
  <2> QED  BY <1>3, <2>1, <2>2 DEF NotShutDown, On
<1>4. CASE h \in listening /\ assoc[o].state = "COOKIE_WAIT"
  <2>1. NotYetHeard(h)
    BY DEF TagsInv
  <2> QED  BY <1>4, <2>1 DEF NotYetHeard
<1>5. CASE o \in listening
  <2>1. OnlyForks(o) /\ ~ Single(o)
    BY <1>1, <1>5 DEF TagsInv, Single
  <2>2. assoc[o].state \notin Opening
    BY <1>5, <2>1 DEF OnlyForks
  <2> QED  BY <1>3, <2>1, <2>2 DEF Opening
<1>6. Single(h) \/ Single(o) \/ h \in listening \/ o \in listening
  BY <1>1, PairOf DEF SomeoneOpensOnce, Single
<1> QED  BY <1>2, <1>3, <1>4, <1>5, <1>6

LEMMA LateAckKept ==
    ASSUME TimersInv, TagsInv, SomeoneOpensOnce, NEW x \in Hosts, Acts(x), NEW h \in Hosts
    PROVE  LateAck(h)'
<1> DEFINE o == Other(h)
           SAS == "SHUTDOWN_ACK_SENT"
<1> SUFFICES ASSUME assoc'[h].state # "NONE", assoc'[h].state # SAS
             PROVE  /\ assoc'[o].state # "NONE" /\ assoc'[o].localVTag = assoc'[h].peerVTag
                       => \A m \in chunks' : On(m, o, "SHUTDOWN_ACK") => m.tag # assoc'[o].peerVTag
                    /\ \A m \in chunks' :
                          On(m, h, "SHUTDOWN_COMPLETE") => m.tag # assoc'[h].peerVTag
  BY DEF LateAck, Alive, On
<1>1. Other(o) = h /\ o # h /\ o \in Hosts
  BY PairOf
<1>2. LateAck(h)
  BY DEF TagsInv
<1>3. CASE x = h
  <2>1. assoc'[o] = assoc[o]
    BY <1>3, Frame
  <2>2. \/ New(assoc'[h].peerVTag)
        \/ Alive(h) /\ assoc[h].state # SAS /\ assoc'[h].peerVTag = assoc[h].peerVTag
    BY <1>3, PeerStays
       DEF Acts, Goes, Opened, Forked, Echoed, Accepted, Acknowledged, Rejoined, ShutDown,
           Answered, NoAssociation, SameTags, Opening, Alive
  <2>3. ASSUME NEW m \in chunks', m \notin chunks
        PROVE  m.to = o /\ m.type # "SHUTDOWN_ACK"
    BY <1>3, <2>3, SaidOf DEF SaysShutdownAck
  <2>4. CASE New(assoc'[h].peerVTag)
    <3>1. assoc[o].localVTag # assoc'[h].peerVTag /\ \A m \in chunks : m.tag # assoc'[h].peerVTag
      BY <1>1, <2>4 DEF New
    <3> QED  BY <1>1, <2>1, <2>3, <3>1 DEF On
  <2>5. CASE Alive(h) /\ assoc[h].state # SAS /\ assoc'[h].peerVTag = assoc[h].peerVTag
    BY <1>1, <1>2, <2>1, <2>3, <2>5 DEF LateAck, On, Alive
  <2> QED  BY <2>2, <2>4, <2>5
<1>4. CASE x = o
  <2>1. assoc'[h] = assoc[h] /\ Alive(h) /\ assoc[h].state # SAS
    BY <1>1, <1>4, Frame DEF Alive
  <2>2. ASSUME assoc'[o].state # "NONE", assoc'[o].localVTag = assoc[h].peerVTag,
               NEW m \in chunks', On(m, o, "SHUTDOWN_ACK")
        PROVE  m.tag # assoc'[o].peerVTag
    <3>1. m \in chunks
      BY <1>1, <1>4, <2>2, NewPacket DEF On
    <3>2. CASE Opened(o, assoc[o], assoc'[o]) \/ Forked(o, assoc[o], assoc'[o])
      BY <3>1, <3>2 DEF Opened, Forked, New
    <3>3. CASE Echoed(o, assoc[o], assoc'[o])
      BY <2>1, <2>2, <3>1, <3>3, NoLateAck DEF Echoed
    <3>4. CASE Rejoined(o, assoc[o], assoc'[o])
      <4>1. assoc'[o].peerVTag = assoc[o].peerVTag /\ (Single(o) \/ Single(h))
        BY <1>1, <1>4, <3>4, PeerStays
      <4>2. assoc[o].state \in Opening \cup {"ESTABLISHED"}
        BY <3>4 DEF Rejoined
      <4> QED  BY <2>1, <2>2, <3>1, <4>1, <4>2, NoLateAck
    <3>5. CASE assoc[o].state # "NONE" /\ SameTags(assoc[o], assoc'[o])
      BY <1>2, <2>1, <2>2, <3>1, <3>5 DEF LateAck, Alive, SameTags
    <3> QED  BY <1>4, <2>2, <3>2, <3>3, <3>4, <3>5
             DEF Acts, Goes, Accepted, Acknowledged, ShutDown, Answered, NoAssociation
  <2>3. ASSUME NEW m \in chunks', On(m, h, "SHUTDOWN_COMPLETE")
        PROVE  m.tag # assoc[h].peerVTag
    <3>1. CASE m \in chunks
      BY <1>2, <2>1, <2>3, <3>1 DEF LateAck
    <3>2. CASE m \notin chunks
      <4>1. SaysComplete(o, assoc[o], assoc'[o], m)
        BY <1>4, <2>3, <3>2, SaidOf DEF On
      <4>2. PICK k \in chunks :
               /\ On(k, o, "SHUTDOWN_ACK")
               /\ \/ assoc[o].state = "NONE" /\ m.tag = k.tag
                  \/ /\ assoc[o].state # "NONE" /\ k.tag = assoc[o].peerVTag
                     /\ m.tag = assoc[o].localVTag
        BY <4>1 DEF SaysComplete
      <4>3. k.tag # assoc[h].peerVTag
        <5>1. assoc[h].peerVTag \in Tags
          <6>1. assoc[h].peerVTag # 0
            BY <2>1 DEF TagsInv, NonZero, TagsSet
          <6>2. assoc[h].peerVTag \in Tags \cup {0}
            BY InvIsRight DEF Associations
          <6> QED  BY <6>1, <6>2
        <5>2. Owns(h, assoc[h].peerVTag)
          BY DEF Owns
        <5>3. Owns(o, k.tag)
          BY <4>2 DEF Owns, Shows, On
        <5> QED  BY <5>1, <5>2, <5>3 DEF TagsInv, OwnersDiffer
      <4> QED  BY <1>2, <2>1, <4>2, <4>3 DEF LateAck, Alive
    <3> QED  BY <3>1, <3>2
  <2> QED  BY <2>1, <2>2, <2>3
<1> QED  BY <1>3, <1>4, PairOf

LEMMA TagsInvKept ==
    ASSUME TimersInv, TagsInv, SCTPNext
    PROVE  TagsInv'
<1>1. PICK x \in Hosts : Acts(x)
  BY NextActs
<1>2. NonZero' /\ OwnersDiffer'
  BY <1>1, NonZeroKept, OwnersDifferKept
<1>3. ASSUME NEW w \in Hosts
      PROVE  /\ OnlyForks(w)' /\ OneCookie(w)' /\ NotYetHeard(w)'
             /\ Unopened(w)' /\ Waiting(w)' /\ NotShutDown(w)'
             /\ OneTag(w)' /\ OneLocal(w)' /\ LateCookie(w)'
  BY <1>1, OnlyForksKept, OneCookieKept, NotYetHeardKept, UnopenedKept, WaitingKept,
     NotShutDownKept, OneTagKept, OneLocalKept, LateCookieKept
<1>4. SomeoneOpensOnce' => \A h \in Hosts : LateAck(h)'
  <2>1. SomeoneOpensOnce' => SomeoneOpensOnce
    BY <1>1, OpensGrow DEF SomeoneOpensOnce
  <2> QED  BY <1>1, <2>1, LateAckKept
<1> QED  BY <1>2, <1>3, <1>4 DEF TagsInv

LEMMA TagsInvAtFirst == SCTPInit => TagsInv
<1> SUFFICES ASSUME SCTPInit PROVE TagsInv
  OBVIOUS
<1>1. /\ \A h \in Hosts : assoc[h] = NoAssociation /\ opens[h] = 0
      /\ chunks = {}
  BY DEF SCTPInit
<1>2. \A h \in Hosts : /\ assoc[h].state = "NONE" /\ assoc[h].peerVTag = 0
                       /\ assoc[h].localVTag = 0 /\ assoc[h].cookieChunk.local = 0
                       /\ assoc[h].cookieChunk.peer = 0 /\ assoc[h].shutdownChunk = "NULL"
  BY <1>1 DEF NoAssociation, NoCookie
<1>3. NonZero
  BY <1>1, <1>2 DEF NonZero, TagsSet, Quiet, Alive
<1>4. OwnersDiffer
  BY <1>1, <1>2, PairOf DEF OwnersDiffer, Owns, Tags
<1>5. ASSUME NEW w \in Hosts
      PROVE  /\ OnlyForks(w) /\ OneCookie(w) /\ NotYetHeard(w)
             /\ Unopened(w) /\ Waiting(w) /\ NotShutDown(w)
             /\ OneTag(w) /\ OneLocal(w) /\ LateCookie(w) /\ LateAck(w)
  <2>1. Other(w) \in Hosts
    BY PairOf
  <2> QED  BY <1>1, <1>2, <2>1
           DEF OnlyForks, OneCookie, NotYetHeard, Unopened, Waiting, NotShutDown, OneTag,
               OneLocal, LateCookie, LateAck, Alive, Opening
<1> QED  BY <1>3, <1>4, <1>5 DEF TagsInv

-----------------------------------------------------------------------------
\* Two applications that both listen never talk.
Silent(w) == w \in listening /\ Other(w) \in listening => assoc[w].state = "NONE"

MirrorInv == TagsInv /\ \A w \in Hosts : Mirror(w) /\ Silent(w)

LEMMA SilentKept ==
    ASSUME MirrorInv, NEW x \in Hosts, Acts(x), NEW w \in Hosts
    PROVE  Silent(w)'
<1> SUFFICES ASSUME w \in listening, Other(w) \in listening PROVE assoc'[w].state = "NONE"
  BY Frame DEF Silent
<1>1. assoc[w].state = "NONE" /\ OnlyForks(Other(w))
  BY PairOf DEF MirrorInv, Silent, TagsInv
<1>2. CASE x = w
  <2>1. \A k \in chunks : ~ On(k, w, "INIT")
    BY <1>1, PairOf DEF OnlyForks
  <2> QED  BY <1>1, <1>2, <2>1
           DEF Acts, Goes, Opened, Forked, Echoed, Accepted, Acknowledged, Rejoined, ShutDown,
               Answered, NoAssociation, Opening
<1>3. CASE x # w
  BY <1>1, <1>3 DEF Acts
<1> QED  BY <1>2, <1>3

\* Both ends opened, each once.
LEMMA TwoOpenMirror ==
    ASSUME TimersInv, MirrorInv, NEW x \in Hosts, Acts(x), NEW w \in Hosts,
           Single(w)', assoc'[w].state # "NONE",
           Single(Other(w))', assoc'[Other(w)].state # "NONE"
    PROVE  /\ assoc'[Other(w)].localVTag \in {0, assoc'[w].peerVTag}
           /\ assoc'[Other(w)].state = "COOKIE_WAIT" =>
                 \A m \in chunks' : On(m, Other(w), "INIT_ACK") => m.initTag = assoc'[w].peerVTag
<1> DEFINE o == Other(w)
<1>0. TagsInv /\ Mirror(w)
  BY DEF MirrorInv
<1>1. Other(o) = w /\ o # w /\ o \in Hosts
  BY PairOf
<1>2. /\ Single(w) /\ Single(o) /\ w \notin listening /\ o \notin listening
      /\ Waiting(o) /\ OneTag(w) /\ Unopened(o)
  BY <1>0, <1>1, SingleBefore DEF TagsInv, Single
<1>3. CASE x = w
  <2>1. assoc'[o] = assoc[o] /\ Alive(o)
    BY <1>3, Frame DEF Alive
  <2>2. CASE /\ Opened(w, assoc[w], assoc'[w])
             /\ assoc[o].state \in {"NONE", "COOKIE_WAIT"}
             /\ \A m \in chunks : m.type = "ABORT" \/ On(m, w, "INIT")
    <3>1. assoc[o].localVTag = 0
      BY <1>2, <2>1, <2>2 DEF Waiting, Alive
    <3>2. ASSUME NEW m \in chunks', m \notin chunks PROVE m.type # "INIT_ACK"
      BY <1>3, <2>2, <3>2, SaidOf DEF Opened, SaysInitAck, Opening
    <3> QED  BY <2>1, <2>2, <3>1, <3>2 DEF On
  <2>3. CASE Alive(w) /\ assoc'[w].peerVTag = assoc[w].peerVTag
    <3>1. /\ assoc[o].localVTag \in {0, assoc[w].peerVTag}
          /\ assoc[o].state = "COOKIE_WAIT" =>
                \A m \in chunks : On(m, o, "INIT_ACK") => m.initTag = assoc[w].peerVTag
      BY <1>0, <1>2, <2>1, <2>3 DEF Mirror
    <3>2. ASSUME NEW m \in chunks', m \notin chunks, m.type = "INIT_ACK",
                 assoc[o].state = "COOKIE_WAIT"
          PROVE  m.initTag = assoc[w].peerVTag
      <4>1. SaysInitAck(w, assoc[w], assoc'[w], m)
        BY <1>3, <3>2, SaidOf
      <4>2. assoc[w].state # "ESTABLISHED"
        BY <1>1, <1>2, <3>2 DEF Waiting, Opening
      <4> QED  BY <2>3, <4>1, <4>2 DEF SaysInitAck
    <3> QED  BY <2>1, <2>3, <3>1, <3>2 DEF On
  <2> QED  BY <1>0, <1>3, <2>2, <2>3, FirstLife
<1>4. CASE x = o
  <2>1. assoc'[w] = assoc[w] /\ Alive(w)
    BY <1>1, <1>4, Frame DEF Alive
  <2>2. ASSUME NEW m \in chunks', m \notin chunks PROVE m.to = w
    BY <1>1, <1>4, <2>2, NewPacket
  <2>3. CASE /\ Opened(o, assoc[o], assoc'[o])
             /\ \A m \in chunks : m.type = "ABORT" \/ On(m, o, "INIT")
    BY <1>1, <2>2, <2>3 DEF Opened, On
  <2>4. CASE Alive(o)
    <3>1. /\ assoc[o].localVTag \in {0, assoc[w].peerVTag}
          /\ assoc[o].state = "COOKIE_WAIT" =>
                \A m \in chunks : On(m, o, "INIT_ACK") => m.initTag = assoc[w].peerVTag
      BY <1>0, <1>2, <2>1, <2>4 DEF Mirror
    <3>2. CASE Echoed(o, assoc[o], assoc'[o])
      <4>1. PICK k \in chunks : On(k, o, "INIT_ACK") /\ assoc'[o].localVTag = k.initTag
        BY <3>2 DEF Echoed, Took
      <4> QED  BY <2>1, <3>1, <3>2, <4>1 DEF Echoed
    <3>3. CASE Rejoined(o, assoc[o], assoc'[o])
      <4>1. PICK k \in chunks : On(k, o, "COOKIE_ECHO") /\ assoc'[o].localVTag = k.cookie.local
        BY <3>3 DEF Rejoined, Took
      <4>2. assoc'[o].state # "COOKIE_WAIT"
        BY <1>0, <1>1, <1>2, <1>4, <3>3, SameLife
      <4>3. k.cookie.local = assoc[w].peerVTag
        BY <1>2, <2>1, <4>1 DEF OneTag
      <4> QED  BY <2>1, <4>1, <4>2, <4>3
    <3>4. CASE /\ SameTags(assoc[o], assoc'[o])
               /\ assoc'[o].state = "COOKIE_WAIT" => assoc[o].state = "COOKIE_WAIT"
      BY <1>1, <2>1, <2>2, <3>1, <3>4 DEF SameTags, On
    <3> QED  BY <1>2, <1>4, <2>4, <3>2, <3>3, <3>4
             DEF Acts, Goes, Opened, Forked, Accepted, Acknowledged, ShutDown, Answered,
                 NoAssociation, Alive
  <2> QED  BY <1>0, <1>1, <1>4, <2>3, <2>4, FirstLife
<1> QED  BY <1>3, <1>4, PairOf

\* One end listens, the other one opened once.
LEMMA OneOpenMirror ==
    ASSUME TimersInv, MirrorInv, NEW x \in Hosts, Acts(x), NEW w \in Hosts,
           Single(w)', assoc'[w].state \notin {"NONE", "COOKIE_WAIT"}, Other(w) \in listening
    PROVE  /\ assoc'[Other(w)].state \in Synchronized
                 => assoc'[w].localVTag = assoc'[Other(w)].peerVTag
           /\ \A m \in chunks' : On(m, Other(w), "COOKIE_ECHO") => m.tag = assoc'[w].localVTag
<1> DEFINE o == Other(w)
<1>0. TagsInv /\ Mirror(w)
  BY DEF MirrorInv
<1>1. Other(o) = w /\ o # w /\ o \in Hosts
  BY PairOf
<1>2. Single(w) /\ w \notin listening /\ Waiting(w)
  BY <1>0, SingleBefore DEF TagsInv, Single
<1>3. ~ Rejoined(x, assoc[x], assoc'[x])
  BY <1>0, <1>1, ForksNotRejoined
<1>4. Alive(w) /\ assoc[w].state # "COOKIE_WAIT" =>
      /\ assoc[o].state \in Synchronized => assoc[w].localVTag = assoc[o].peerVTag
      /\ \A m \in chunks : On(m, o, "COOKIE_ECHO") => m.tag = assoc[w].localVTag
  BY <1>0, <1>2 DEF Mirror
<1>5. CASE x = w
  <2>1. assoc'[o] = assoc[o]
    BY <1>5, Frame
  <2>2. ASSUME NEW m \in chunks', m \notin chunks, m.type = "COOKIE_ECHO"
        PROVE  m.tag = assoc'[w].localVTag
    BY <1>5, <2>2, SaidOf DEF SaysCookieEcho
  <2>3. CASE assoc[w].state = "COOKIE_WAIT"
    <3>1. /\ assoc[o].state \notin Synchronized
          /\ \A m \in chunks : ~ On(m, o, "COOKIE_ECHO")
      BY <1>2, <2>3 DEF Waiting, Synchronized, Closing, Opening
    <3> QED  BY <2>1, <2>2, <3>1 DEF On
  <2>4. CASE /\ Alive(w) /\ assoc[w].state # "COOKIE_WAIT" /\ SameTags(assoc[w], assoc'[w])
    BY <1>4, <2>1, <2>2, <2>4 DEF SameTags, On
  <2> QED  BY <1>2, <1>3, <1>5, <2>3, <2>4
           DEF Acts, Goes, Opened, Forked, Echoed, Accepted, Acknowledged, ShutDown, Answered,
               NoAssociation, Alive
<1>6. CASE x = o
  <2>1. assoc'[w] = assoc[w] /\ Alive(w)
    BY <1>1, <1>6, Frame DEF Alive
  <2>2. ASSUME NEW m \in chunks', m \notin chunks PROVE m.to = w
    BY <1>1, <1>6, <2>2, NewPacket
  <2>3. assoc'[o].state \in Synchronized => assoc'[w].localVTag = assoc'[o].peerVTag
    <3>1. CASE Accepted(o, assoc[o], assoc'[o])
      <4>1. PICK k \in chunks : On(k, o, "COOKIE_ECHO") /\ k.tag = assoc[o].peerVTag
        BY <3>1 DEF Accepted, Took
      <4> QED  BY <1>4, <2>1, <3>1, <4>1 DEF Accepted, SameTags
    <3>2. CASE assoc[o].state \in Synchronized /\ SameTags(assoc[o], assoc'[o])
      BY <1>4, <2>1, <3>2 DEF SameTags
    <3>3. assoc[o].state \notin Opening
      BY <1>0, <1>1 DEF TagsInv, OnlyForks
    <3> QED  BY <1>3, <1>6, <3>1, <3>2, <3>3
             DEF Acts, Goes, Opened, Forked, Echoed, Acknowledged, ShutDown, Answered,
                 NoAssociation, Synchronized, Closing, Opening
  <2> QED  BY <1>1, <1>4, <2>1, <2>2, <2>3 DEF On
<1> QED  BY <1>5, <1>6, PairOf

LEMMA MirrorInvKept ==
    ASSUME TimersInv, MirrorInv, SCTPNext
    PROVE  MirrorInv'
<1>1. PICK x \in Hosts : Acts(x)
  BY NextActs
<1>2. ASSUME NEW w \in Hosts PROVE Mirror(w)' /\ Silent(w)'
  <2>1. listening' = listening
    BY <1>1 DEF Acts
  <2> QED  BY <1>1, <2>1, SilentKept, TwoOpenMirror, OneOpenMirror DEF Mirror, Alive
<1>3. TagsInv'
  BY TagsInvKept DEF MirrorInv
<1> QED  BY <1>2, <1>3 DEF MirrorInv

LEMMA MirrorInvAtFirst == SCTPInit => MirrorInv
<1> SUFFICES ASSUME SCTPInit PROVE MirrorInv
  OBVIOUS
<1>1. \A h \in Hosts : assoc[h].state = "NONE"
  BY DEF SCTPInit, NoAssociation
<1>2. \A w \in Hosts : Mirror(w) /\ Silent(w)
  BY <1>1 DEF Mirror, Silent, Alive
<1> QED  BY <1>2, TagsInvAtFirst DEF MirrorInv

\* TagsInv and MirrorInv speak of the associations, the packets, the opens and
\* the listening applications, all of which a stuttering step keeps.
LEMMA MirrorInvStutters ==
    ASSUME MirrorInv, UNCHANGED sctpVars
    PROVE  MirrorInv'
<1>1. UNCHANGED <<listening, assoc, chunks, opens>>
  BY DEF sctpVars
<1> QED  BY <1>1
         DEF MirrorInv, TagsInv, NonZero, TagsSet, TagsSent, OwnersDiffer, Owns, Shows,
             OnlyForks, OneCookie, NotYetHeard, Single, Unopened, Waiting, NotShutDown,
             OneTag, OneLocal, LateCookie, LateAck, SomeoneOpensOnce, Mirror, Silent, Alive

LEMMA MirrorInvHolds == SCTPSpec => []MirrorInv
<1>1. TimersInv /\ MirrorInv /\ [SCTPNext]_sctpVars => MirrorInv'
  BY MirrorInvKept, MirrorInvStutters
<1> QED  BY <1>1, MirrorInvAtFirst, TimersInvHolds, PTL DEF SCTPSpec

\* processCookieEchoArrived() and processInitAckArrived() leave two associations
\* with the tags of each other, whatever crosses and however late a cookie comes,
\* as long as no host opens twice.
THEOREM TagsAlwaysMirror == SCTPSpec => []TagsMirror
<1>1. ASSUME MirrorInv, \A h \in Hosts : opens[h] <= 1, NEW h \in Hosts,
             assoc[h].state \in Synchronized, assoc[Other(h)].state \in Synchronized
      PROVE  assoc[h].localVTag = assoc[Other(h)].peerVTag
  <2> DEFINE o == Other(h)
  <2>1. Other(o) = h /\ o \in Hosts
    BY PairOf
  <2>2. /\ Alive(h) /\ Alive(o)
        /\ {assoc[h].state, assoc[o].state} \cap {"NONE", "COOKIE_WAIT"} = {}
    BY <1>1 DEF Alive, Synchronized, Closing
  <2>3. Mirror(h) /\ Mirror(o) /\ Silent(h) /\ TagsSet(h) /\ OneTag(o)
    BY <1>1, <2>1 DEF MirrorInv, TagsInv, NonZero
  <2>4. CASE h \notin listening /\ o \notin listening
    <3>1. assoc[h].localVTag \in {0, assoc[o].peerVTag}
      BY <1>1, <2>1, <2>2, <2>3, <2>4 DEF Mirror, Single
    <3>2. assoc[h].localVTag # 0
      BY <2>2, <2>3 DEF TagsSet
    <3> QED  BY <3>1, <3>2
  <2>5. CASE h \notin listening /\ o \in listening
    BY <1>1, <2>2, <2>3, <2>5 DEF Mirror, Single
  <2>6. CASE h \in listening /\ o \notin listening
    BY <1>1, <2>1, <2>2, <2>3, <2>6 DEF OneTag, Single
  <2>7. CASE h \in listening /\ o \in listening
    BY <2>2, <2>3, <2>7 DEF Silent
  <2> QED  BY <2>4, <2>5, <2>6, <2>7
<1>2. MirrorInv => TagsMirror
  BY <1>1 DEF TagsMirror
<1> QED  BY <1>2, MirrorInvHolds, PTL

LEMMA FaultsKept ==
    ASSUME TimersInv, TagsInv, SCTPNext
    PROVE  SCTPFaultsExplained'
<1> SUFFICES ASSUME fault' # "none" PROVE SCTPFaultsExplained'
  BY DEF SCTPFaultsExplained
<1>1. fault = "none"
  BY DEF SCTPNext
<1>2. ASSUME NEW h \in Hosts, T1Expires(h) PROVE FALSE
  <2>1. "T1" \in assoc[h].timers => assoc[h].state \in Opening
    BY DEF TimersInv, SCTPTimersRight, RightTimers
  <2> QED  BY <1>1, <1>2, <2>1 DEF T1Expires
<1>3. ASSUME NEW h \in Hosts, T5Expires(h) PROVE FALSE
  <2>1. Quiet(assoc[h])
    BY DEF TagsInv, NonZero, TagsSet
  <2> QED  BY <1>1, <1>3, <2>1 DEF T5Expires, Quiet
<1>4. ASSUME NEW h \in Hosts, NEW m \in chunks, ReceiveShutdownAck(h, m)
      PROVE  SCTPFaultsExplained'
  <2>1. /\ assoc[h].state = "SHUTDOWN_ACK_SENT" /\ assoc[h].shutdownChunk = "deleted"
        /\ fault' = "chunk deleted twice"
        /\ Stays(h, {m}, {Chunk(h, "SHUTDOWN_COMPLETE", assoc[h])}, {"CLOSED"})
    BY <1>1, <1>4 DEF ReceiveShutdownAck
  <2>2. assoc' = [assoc EXCEPT ![h] = assoc[h]] /\ assoc \in [Hosts -> Associations]
    BY <2>1 DEF Stays, Becomes, TimersInv, SCTPTypeOK
  <2>3. assoc'[h] = assoc[h]
    BY <2>2
  <2> QED  BY <2>1, <2>3 DEF SCTPFaultsExplained
<1>5. ASSUME NEW h \in Hosts, NEW m \in chunks, ReceiveShutdownComplete(h, m)
      PROVE  SCTPFaultsExplained'
  <2>1. /\ assoc[h].state # "SHUTDOWN_ACK_SENT" /\ fault' = "chunk never set"
        /\ UNCHANGED opens /\ Alive(h)
        /\ On(m, h, "SHUTDOWN_COMPLETE") /\ m.tag = assoc[h].peerVTag
    BY <1>1, <1>5 DEF ReceiveShutdownComplete, Accepts, ForHost, Alive, On
  <2>2. ~ LateAck(h)
    BY <2>1 DEF LateAck
  <2>3. \A p \in Hosts : ~ (opens[p] <= 1)
    BY <2>2 DEF TagsInv, SomeoneOpensOnce
  <2>4. \A p \in Hosts : opens[p] \in Nat
    BY DEF TimersInv, SCTPTypeOK
  <2>5. \A p \in Hosts : opens[p] > 1
    BY <2>3, <2>4
  <2> QED  BY <2>1, <2>5 DEF SCTPFaultsExplained
<1>6. ASSUME NEW h \in Hosts, \/ Associate(h) \/ Shutdown(h) \/ Close(h) \/ Abort(h)
                              \/ T2Expires(h)
      PROVE  FALSE
  BY <1>1, <1>6 DEF Associate, Shutdown, Close, Abort, T2Expires
<1>7. ASSUME NEW h \in Hosts, NEW m \in chunks,
             \/ WrongTag(h, m)        \/ NoAssociationFound(h, m)
             \/ ForkAssociation(h, m) \/ ReceiveInit(h, m)
             \/ ReceiveInitAck(h, m)  \/ StaleCookie(h, m)
             \/ ReceiveCookieEcho(h, m) \/ ReceiveCookieAck(h, m)
             \/ ReceiveShutdown(h, m) \/ ReceiveAbort(h, m)
      PROVE  FALSE
  BY <1>1, <1>7 DEF WrongTag, NoAssociationFound, ForkAssociation, ReceiveInit, ReceiveInitAck,
                    StaleCookie, ReceiveCookieEcho, ReceiveCookieAck, ReceiveShutdown,
                    ReceiveAbort
<1>8. ASSUME NEW m \in chunks, Lose(m) PROVE FALSE
  BY <1>1, <1>8 DEF Lose
<1> QED  BY <1>2, <1>3, <1>4, <1>5, <1>6, <1>7, <1>8 DEF SCTPNext, Receive

\* T1 always finds a state that it knows, and a chunk kept for retransmission is
\* deleted twice or without having been set only after SHUTDOWNs that crossed, or
\* when both hosts opened again.
THEOREM SCTPFaultsAlwaysExplained == SCTPSpec => []SCTPFaultsExplained
<1>1. SCTPInit => SCTPFaultsExplained
  BY DEF SCTPInit, SCTPFaultsExplained
<1>2. TimersInv /\ MirrorInv /\ SCTPFaultsExplained /\ [SCTPNext]_sctpVars
      => SCTPFaultsExplained'
  <2>1. UNCHANGED sctpVars /\ SCTPFaultsExplained => SCTPFaultsExplained'
    BY DEF sctpVars, SCTPFaultsExplained
  <2> QED  BY <2>1, FaultsKept DEF MirrorInv
<1> QED  BY <1>1, <1>2, MirrorInvHolds, TimersInvHolds, PTL DEF SCTPSpec

=============================================================================
