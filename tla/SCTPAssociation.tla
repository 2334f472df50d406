-------------------------- MODULE SCTPAssociation --------------------------
(***************************************************************************)
(* Set-up and shutdown of an SCTP association (transport/sctp): the        *)
(* four-way handshake with its cookie, INIT collisions, retransmission by  *)
(* T1 and T2, the guard timer T5, ABORT, and packets that find no          *)
(* association.  Two hosts use one pair of ports; a host whose application *)
(* listens forks an association for an INIT, the other hosts open actively *)
(* and may do so again.  Packets carry one chunk; they are lost, delayed,  *)
(* reordered and, by the retransmissions, duplicated.                      *)
(*                                                                         *)
(* No user data is sent, so nothing is ever outstanding: SHUTDOWN_PENDING  *)
(* and SHUTDOWN_RECEIVED are passed through within one handler.  There is  *)
(* one path and no path management.  As in the code, peerVTag is the tag a *)
(* host expects in packets and localVTag the tag it writes into them.      *)
(***************************************************************************)
EXTENDS Naturals, FiniteSets

CONSTANTS Hosts,            \* the two ends
          Passive,          \* hosts whose application may issue OPEN_PASSIVE
          MaxTag,           \* bound: tags that exist at the same time
          MaxInitRetrans,   \* parameter maxInitRetrans
          AssocMaxRetrans,  \* parameter assocMaxRetrans
          MaxOnWay,         \* bound: packets on their way
          MaxOpens          \* bound: ASSOCIATE commands of a host

ASSUME SCTPAssumption ==
    /\ \E a, b \in Hosts : a # b /\ Hosts = {a, b}
    /\ MaxTag \in Nat /\ MaxInitRetrans \in Nat /\ AssocMaxRetrans \in Nat
    /\ MaxOnWay \in Nat /\ MaxOpens \in [Hosts -> Nat]

VARIABLES
    listening, \* hosts whose application issued OPEN_PASSIVE, with fork
    assoc,     \* the association of each host
    chunks,    \* packets on their way, each with one chunk
    told,      \* what the last step told the applications of an end
    opens,     \* number of ASSOCIATE commands (bound)
    fault      \* what ended the simulation

sctpVars == <<listening, assoc, chunks, told, opens, fault>>

Other(h) == CHOOSE p \in Hosts : p # h

Opening == {"COOKIE_WAIT", "COOKIE_ECHOED"}
Closing == {"SHUTDOWN_SENT", "SHUTDOWN_ACK_SENT"}

Tags     == 1 .. MaxTag     \* 0 is no tag
Cookies  == [local : Tags \cup {0}, peer : Tags \cup {0}]
NoCookie == [local |-> 0, peer |-> 0]

\* NONE is the absence of an association, CLOSED an association that waits for
\* the COOKIE_ECHO.  shutdownChunk is kept for retransmission.
Associations ==
    [state : {"NONE", "CLOSED", "ESTABLISHED"} \cup Opening \cup Closing,
     localVTag : Tags \cup {0}, peerVTag : Tags \cup {0},
     timers : SUBSET {"T1", "T2", "T5"},
     initRetransCounter : 0 .. MaxInitRetrans,
     errorCount : 0 .. AssocMaxRetrans,
     cookieChunk : Cookies,
     shutdownChunk : {"NULL", "kept", "deleted"}]

Types == {"INIT", "INIT_ACK", "COOKIE_ECHO", "COOKIE_ACK", "SHUTDOWN",
          "SHUTDOWN_ACK", "SHUTDOWN_COMPLETE", "ABORT"}

Chunks == [to : Hosts, type : Types, tag : Tags \cup {0},
            initTag : Tags \cup {0}, cookie : Cookies]

\* Indications of an end.  SCTP_I_ESTABLISHED, _SHUTDOWN_RECEIVED and
\* _PEER_CLOSED are left out.
Indications == {"CLOSED", "ABORT", "CONN_LOST"}

\* Every association is in a state of its automaton with tags, timers and
\* counters of its range: initRetransCounter and errorCount never pass the
\* limits that process_TIMEOUT_INIT_REXMIT() and _SHUTDOWN() compare them with.
SCTPTypeOK ==
    /\ listening \subseteq Passive
    /\ assoc \in [Hosts -> Associations]
    /\ chunks \subseteq Chunks
    /\ told \in [Hosts -> SUBSET Indications]
    /\ opens \in [Hosts -> Nat] /\ \A h \in Hosts : opens[h] <= MaxOpens[h]
    /\ fault \in {"none", "timer T1", "chunk deleted twice", "chunk never set"}

NoAssociation ==
    [state |-> "NONE", localVTag |-> 0, peerVTag |-> 0, timers |-> {},
     initRetransCounter |-> 0, errorCount |-> 0, cookieChunk |-> NoCookie,
     shutdownChunk |-> "NULL"]

SCTPInit ==
    /\ listening \in SUBSET Passive
    /\ assoc = [h \in Hosts |-> NoAssociation]
    /\ chunks = {}
    /\ told = [h \in Hosts |-> {}]
    /\ opens = [h \in Hosts |-> 0]
    /\ fault = "none"

-----------------------------------------------------------------------------

\* A random tag: one that nobody remembers and no packet carries.
UsedTags ==
    (UNION {{assoc[h].localVTag, assoc[h].peerVTag} : h \in Hosts})
    \cup (UNION {{m.tag, m.initTag} : m \in chunks})
    \cup (UNION {{c.local, c.peer} : c \in
             {assoc[h].cookieChunk : h \in Hosts} \cup {m.cookie : m \in chunks}})
FreshTag == CHOOSE t \in Tags \ UsedTags : TRUE
TagsLeft == Tags \ UsedTags # {}

\* A packet of the association a of host h; sendToIP() writes the tag.
Chunk(h, type, a) == [to |-> Other(h), type |-> type, tag |-> a.localVTag,
                      initTag |-> 0, cookie |-> NoCookie]
CookieEcho(h, a) == [Chunk(h, "COOKIE_ECHO", a) EXCEPT !.cookie = a.cookieChunk]
InitChunk(h, a) == [Chunk(h, "INIT", a) EXCEPT !.initTag = a.peerVTag]

\* What does not fit on the way is lost.
Sent(rest, out) ==
    IF Cardinality(rest \cup out) <= MaxOnWay THEN rest \cup out ELSE rest

\* A handler of host h ends with the association a: it has taken the packets
\* in, sent the packets out and given the application the indications said.
Becomes(h, a, in, out, said) ==
    /\ assoc' = [assoc EXCEPT ![h] = a]
    /\ chunks' = Sent(chunks \ in, out)
    /\ told' = [p \in Hosts |-> IF p = h THEN said ELSE {}]

Stays(h, in, out, said) == Becomes(h, assoc[h], in, out, said)

\* removeAssociation(), which stops every timer.
Removed(h, in, out, said) == Becomes(h, NoAssociation, in, out, said)

\* Wrong: T1 runs on.
BadEstablished(a) == [a EXCEPT !.state = "ESTABLISHED"]

\* Entering ESTABLISHED stops T1.
Established(a) ==
    [a EXCEPT !.state = "ESTABLISHED", !.timers = @ \ {"T1"}]

\* sendShutdown()
ShutdownSent(a) ==
    [a EXCEPT !.state = "SHUTDOWN_SENT", !.timers = @ \cup {"T2", "T5"},
              !.initRetransCounter = 0, !.shutdownChunk = "kept"]

\* Wrong: no timer is started.
BadShutdownAckSent(a) ==
    [a EXCEPT !.state = "SHUTDOWN_ACK_SENT", !.initRetransCounter = 0]

\* sendShutdownAck()
ShutdownAckSent(a) ==
    [a EXCEPT !.state = "SHUTDOWN_ACK_SENT", !.timers = @ \cup {"T2", "T5"},
              !.initRetransCounter = 0]

-----------------------------------------------------------------------------
(* Commands of the application. *)

Associate(h) ==
    /\ h \notin listening
    /\ assoc[h].state = "NONE"
    /\ opens[h] < MaxOpens[h] /\ TagsLeft
    /\ LET a == [NoAssociation EXCEPT !.state = "COOKIE_WAIT",
                                      !.peerVTag = FreshTag, !.timers = {"T1"}]
       IN  /\ assoc' = [assoc EXCEPT ![h] = a]
           /\ chunks' = Sent(chunks, {InitChunk(h, a)})
    /\ told' = [p \in Hosts |-> {}]
    /\ opens' = [opens EXCEPT ![h] = @ + 1]
    /\ UNCHANGED fault

\* SCTP_C_SHUTDOWN
Shutdown(h) ==
    /\ assoc[h].state = "ESTABLISHED"
    /\ Becomes(h, ShutdownSent(assoc[h]), {}, {Chunk(h, "SHUTDOWN", assoc[h])}, {})
    /\ UNCHANGED <<opens, fault>>

\* SCTP_C_CLOSE: the event goes on to CLOSED after the SHUTDOWN was sent.
Close(h) ==
    /\ assoc[h].state = "ESTABLISHED"
    /\ Removed(h, {}, {Chunk(h, "SHUTDOWN", assoc[h])}, {"CLOSED"})
    /\ UNCHANGED <<opens, fault>>

\* SCTP_C_ABORT: the peer hears of it in ESTABLISHED only.
Abort(h) ==
    /\ assoc[h].state \notin {"NONE", "CLOSED"}
    /\ Removed(h, {}, IF assoc[h].state = "ESTABLISHED"
                      THEN {Chunk(h, "ABORT", assoc[h])} ELSE {}, {"CLOSED"})
    /\ UNCHANGED <<opens, fault>>

-----------------------------------------------------------------------------
(* Chunks. *)

ForHost(h, m) == m \in chunks /\ m.to = h

\* Wrong: the tag is not verified.
BadAccepts(h, m) == ForHost(h, m) /\ assoc[h].state # "NONE"

\* process_RCV_Message() goes on to the chunk.
Accepts(h, m) ==
    /\ ForHost(h, m)
    /\ assoc[h].state # "NONE"
    /\ m.type \in {"INIT", "ABORT"} \/ m.tag = assoc[h].peerVTag

\* VTag incorrect.  An INIT_ACK without an association finds the listening
\* one, which has no tag yet.
WrongTag(h, m) ==
    /\ ForHost(h, m)
    /\ \/ assoc[h].state # "NONE" /\ ~ Accepts(h, m)
       \/ assoc[h].state = "NONE" /\ h \in listening /\ m.type = "INIT_ACK"
    /\ Stays(h, {m}, {}, {})
    /\ UNCHANGED <<opens, fault>>

\* What SCTP answers by itself to a packet without association.
FromMain(h, m) ==
    LET answer(type, tag) == {[to |-> Other(h), type |-> type, tag |-> tag,
                               initTag |-> 0, cookie |-> NoCookie]}
    IN  CASE m.type = "SHUTDOWN_ACK" -> answer("SHUTDOWN_COMPLETE", m.tag)
          [] m.type \in {"ABORT", "SHUTDOWN_COMPLETE"} -> {}
          [] m.type = "INIT" -> answer("ABORT", m.initTag)
          [] OTHER -> answer("ABORT", m.tag)

NoAssociationFound(h, m) ==
    /\ ForHost(h, m)
    /\ assoc[h].state = "NONE"
    /\ ~ (h \in listening /\ m.type \in {"INIT", "INIT_ACK"})
    /\ Stays(h, {m}, FromMain(h, m), {})
    /\ UNCHANGED <<opens, fault>>

\* sendInitAck(): tag for the packet, tag announced, tags in the cookie.
InitAck(h, tag, initTag, local, peer) ==
    {[to |-> Other(h), type |-> "INIT_ACK", tag |-> tag, initTag |-> initTag,
      cookie |-> [local |-> local, peer |-> peer]]}

\* The listening socket forks an association, which stays in CLOSED.
ForkAssociation(h, m) ==
    /\ ForHost(h, m) /\ m.type = "INIT"
    /\ h \in listening /\ assoc[h].state = "NONE" /\ TagsLeft
    /\ assoc' = [assoc EXCEPT ![h] =
           [NoAssociation EXCEPT !.state = "CLOSED", !.localVTag = m.initTag,
                                 !.peerVTag = FreshTag]]
    /\ chunks' = Sent(chunks \ {m},
                       InitAck(h, m.initTag, FreshTag, m.initTag, FreshTag))
    /\ told' = [p \in Hosts |-> {}]
    /\ UNCHANGED <<opens, fault>>

\* processInitArrived() for an association that exists.  In CLOSED the answer
\* is made from what the first INIT left; in ESTABLISHED a tag is drawn and
\* not kept; an INIT in SHUTDOWN_SENT is processed by no branch and the
\* result, false, removes the association.
ReceiveInit(h, m) ==
    /\ Accepts(h, m) /\ m.type = "INIT"
    /\ LET a == assoc[h]
       IN  \/ /\ a.state = "CLOSED"
              /\ Stays(h, {m}, InitAck(h, a.localVTag, a.peerVTag,
                                       a.localVTag, a.peerVTag), {})
           \/ /\ a.state \in Opening
              /\ Stays(h, {m}, InitAck(h, m.initTag, a.peerVTag,
                                       m.initTag, a.peerVTag), {})
           \/ /\ a.state = "ESTABLISHED" /\ TagsLeft
              /\ Stays(h, {m}, InitAck(h, m.initTag, FreshTag,
                                       a.localVTag, a.peerVTag), {})
           \/ /\ a.state = "SHUTDOWN_ACK_SENT"
              /\ Stays(h, {m}, {}, {})
           \/ /\ a.state = "SHUTDOWN_SENT"
              /\ Removed(h, {m}, {}, {})
    /\ UNCHANGED <<opens, fault>>

\* Wrong: an INIT_ACK is processed in COOKIE_ECHOED, too.
BadReceiveInitAck(h, m) ==
    /\ Accepts(h, m) /\ m.type = "INIT_ACK"
    /\ LET a == [assoc[h] EXCEPT !.state = "COOKIE_ECHOED",
                                 !.localVTag = m.initTag, !.cookieChunk = m.cookie]
       IN  IF assoc[h].state \in Opening
           THEN Becomes(h, a, {m}, {CookieEcho(h, a)}, {})
           ELSE Stays(h, {m}, {}, {})
    /\ UNCHANGED <<opens, fault>>

\* processInitAckArrived(); T1 runs on with its first interval.
ReceiveInitAck(h, m) ==
    /\ Accepts(h, m) /\ m.type = "INIT_ACK"
    /\ IF assoc[h].state = "COOKIE_WAIT"
       THEN LET a == [assoc[h] EXCEPT !.state = "COOKIE_ECHOED",
                                      !.localVTag = m.initTag,
                                      !.cookieChunk = m.cookie]
            IN  Becomes(h, a, {m}, {CookieEcho(h, a)}, {})
       ELSE Stays(h, {m}, {}, {})
    /\ UNCHANGED <<opens, fault>>

\* processCookieEchoArrived() with a cookie older than validCookieLifetime.
StaleCookie(h, m) ==
    /\ Accepts(h, m) /\ m.type = "COOKIE_ECHO"
    /\ Removed(h, {m}, {Chunk(h, "ABORT", assoc[h])}, {})
    /\ UNCHANGED <<opens, fault>>

\* Retrieve information from the cookie.
Restored(a, c) == [a EXCEPT !.localVTag = c.local, !.peerVTag = c.peer]

\* The same with a valid cookie.  Whether the tie tags agree is left open
\* where the code compares them.
ReceiveCookieEcho(h, m) ==
    /\ Accepts(h, m) /\ m.type = "COOKIE_ECHO"
    /\ LET a == assoc[h]
           c == m.cookie
           joined == IF a.state = "COOKIE_WAIT" THEN Established(Restored(a, c))
                                               ELSE Restored(a, c)
           accept(b) == Becomes(h, b, {m}, {Chunk(h, "COOKIE_ACK", b)}, {})
           sameTags == c.local = a.localVTag /\ c.peer = a.peerVTag
       IN  \/ /\ a.state = "CLOSED"
              /\ accept(Established(a))
           \/ /\ a.state = "CLOSED" /\ ~ sameTags
              /\ Removed(h, {m}, {Chunk(h, "ABORT", a)}, {})
           \/ \* case A: the peer restarted
              /\ a.state \in Opening \cup {"ESTABLISHED"}
              /\ c.local # a.localVTag /\ c.peer # a.peerVTag
              /\ accept(Restored(a, c)) \/ Stays(h, {m}, {}, {})
           \/ \* case B: set-up collision
              /\ a.state \in Opening \cup {"ESTABLISHED"}
              /\ c.peer = a.peerVTag /\ c.local # a.localVTag
              /\ accept(joined)
           \/ /\ a.state \in Opening \cup {"ESTABLISHED"} /\ sameTags
              /\ accept(a)
           \/ /\ \/ a.state \in Closing
                 \/ c.local = a.localVTag /\ c.peer # a.peerVTag /\ a.state # "CLOSED"
              /\ Stays(h, {m}, {}, {})
    /\ UNCHANGED <<opens, fault>>

ReceiveCookieAck(h, m) ==
    /\ Accepts(h, m) /\ m.type = "COOKIE_ACK"
    /\ IF assoc[h].state = "COOKIE_ECHOED"
       THEN Becomes(h, Established(assoc[h]), {m}, {}, {})
       ELSE Stays(h, {m}, {}, {})
    /\ UNCHANGED <<opens, fault>>

\* A SHUTDOWN is answered in ESTABLISHED, and in SHUTDOWN_SENT when two cross.
ReceiveShutdown(h, m) ==
    /\ Accepts(h, m) /\ m.type = "SHUTDOWN"
    /\ LET a == assoc[h]
       IN  IF a.state \in {"ESTABLISHED", "SHUTDOWN_SENT"}
           THEN Becomes(h, ShutdownAckSent(a), {m}, {Chunk(h, "SHUTDOWN_ACK", a)}, {})
           ELSE Stays(h, {m}, {}, {})
    /\ UNCHANGED <<opens, fault>>

\* In SHUTDOWN_ACK_SENT no transition follows: the association stays, without
\* its timers, and shutdownChunk is deleted.
ReceiveShutdownAck(h, m) ==
    /\ Accepts(h, m) /\ m.type = "SHUTDOWN_ACK"
    /\ LET a == assoc[h]
           quiet == [a EXCEPT !.timers = @ \ {"T2", "T5"}]
           complete == {Chunk(h, "SHUTDOWN_COMPLETE", a)}
       IN  \/ /\ a.state = "ESTABLISHED"
              /\ Stays(h, {m}, {}, {})
              /\ UNCHANGED fault
           \/ /\ a.state \in Opening \cup {"CLOSED"}
              /\ Becomes(h, quiet, {m}, complete, {})
              /\ UNCHANGED fault
           \/ /\ a.state = "SHUTDOWN_SENT"
              /\ Removed(h, {m}, complete, {"CLOSED"})
              /\ UNCHANGED fault
           \/ /\ a.state = "SHUTDOWN_ACK_SENT" /\ a.shutdownChunk # "deleted"
              /\ Becomes(h, [quiet EXCEPT !.shutdownChunk =
                                 IF @ = "kept" THEN "deleted" ELSE @],
                         {m}, complete, {"CLOSED"})
              /\ UNCHANGED fault
           \/ /\ a.state = "SHUTDOWN_ACK_SENT" /\ a.shutdownChunk = "deleted"
              /\ fault' = "chunk deleted twice"
              /\ Stays(h, {m}, complete, {"CLOSED"})
    /\ UNCHANGED opens

\* shutdownAckChunk has a value only after a SHUTDOWN_ACK was sent.
ReceiveShutdownComplete(h, m) ==
    /\ Accepts(h, m) /\ m.type = "SHUTDOWN_COMPLETE"
    /\ IF assoc[h].state = "SHUTDOWN_ACK_SENT"
       THEN Removed(h, {m}, {}, {"CLOSED"}) /\ UNCHANGED fault
       ELSE Stays(h, {m}, {}, {}) /\ fault' = "chunk never set"
    /\ UNCHANGED opens

\* Wrong: the association is removed without entering CLOSED.
BadReceiveAbort(h, m) ==
    /\ Accepts(h, m) /\ m.type = "ABORT"
    /\ IF m.tag \in {assoc[h].localVTag, assoc[h].peerVTag}
       THEN Removed(h, {m}, {}, {"ABORT"})
       ELSE Stays(h, {m}, {}, {})
    /\ UNCHANGED <<opens, fault>>

\* Either tag will do.  In CLOSED the association stays.
ReceiveAbort(h, m) ==
    /\ Accepts(h, m) /\ m.type = "ABORT"
    /\ LET a == assoc[h]
       IN  IF m.tag \in {a.localVTag, a.peerVTag}
           THEN IF a.state = "CLOSED" THEN Stays(h, {m}, {}, {"ABORT"})
                                      ELSE Removed(h, {m}, {}, {"ABORT", "CLOSED"})
           ELSE Stays(h, {m}, {}, {})
    /\ UNCHANGED <<opens, fault>>

Receive(h, m) ==
    \/ WrongTag(h, m)        \/ NoAssociationFound(h, m)
    \/ ForkAssociation(h, m) \/ ReceiveInit(h, m)
    \/ ReceiveInitAck(h, m)  \/ StaleCookie(h, m)
    \/ ReceiveCookieEcho(h, m) \/ ReceiveCookieAck(h, m)
    \/ ReceiveShutdown(h, m) \/ ReceiveShutdownAck(h, m)
    \/ ReceiveShutdownComplete(h, m) \/ ReceiveAbort(h, m)

Lose(m) ==
    /\ chunks' = chunks \ {m}
    /\ told' = [p \in Hosts |-> {}]
    /\ UNCHANGED <<assoc, opens, fault>>

-----------------------------------------------------------------------------
(* Timers. *)

\* Wrong: the counter is compared before it is incremented.
BadGivesUp(a) == a.initRetransCounter > MaxInitRetrans

\* The counter is incremented first and compared then.
GivesUp(a) == a.initRetransCounter = MaxInitRetrans

\* process_TIMEOUT_INIT_REXMIT()
T1Expires(h) ==
    /\ "T1" \in assoc[h].timers
    /\ LET a == assoc[h]
           again == [a EXCEPT !.initRetransCounter = @ + 1]
       IN  IF GivesUp(a)
           THEN Removed(h, {}, {Chunk(h, "ABORT", a)}, {"CLOSED"})
           ELSE CASE a.state = "COOKIE_WAIT" -> Becomes(h, again, {}, {InitChunk(h, a)}, {})
                  [] a.state = "COOKIE_ECHOED" -> Becomes(h, again, {}, {CookieEcho(h, a)}, {})
                  [] OTHER -> Stays(h, {}, {}, {})
    /\ fault' = IF GivesUp(assoc[h]) \/ assoc[h].state \in Opening THEN fault ELSE "timer T1"
    /\ UNCHANGED opens

\* process_TIMEOUT_SHUTDOWN()
T2Expires(h) ==
    /\ "T2" \in assoc[h].timers
    /\ LET a == assoc[h]
           again == [a EXCEPT !.errorCount = @ + 1]
       IN  \/ /\ a.errorCount = AssocMaxRetrans
              /\ Removed(h, {}, {Chunk(h, "ABORT", a)}, {"CONN_LOST"})
           \/ /\ a.errorCount < AssocMaxRetrans
              /\ Becomes(h, again, {},
                         CASE a.state = "SHUTDOWN_SENT" -> {Chunk(h, "SHUTDOWN", a)}
                           [] a.state = "SHUTDOWN_ACK_SENT" -> {Chunk(h, "SHUTDOWN_ACK", a)}
                           [] OTHER -> {}, {})
    /\ UNCHANGED <<opens, fault>>

T5Expires(h) ==
    /\ "T5" \in assoc[h].timers
    /\ Removed(h, {}, {Chunk(h, "ABORT", assoc[h])}, {"CONN_LOST"})
    /\ fault' = IF assoc[h].shutdownChunk = "deleted" THEN "chunk deleted twice" ELSE fault
    /\ UNCHANGED opens

-----------------------------------------------------------------------------

\* A fault ends the simulation; a listening application goes on listening.
SCTPNext ==
    /\ fault = "none" /\ UNCHANGED listening
    /\ \/ \E h \in Hosts : \/ Associate(h) \/ Shutdown(h) \/ Close(h) \/ Abort(h)
                           \/ T1Expires(h) \/ T2Expires(h) \/ T5Expires(h)
                           \/ \E m \in chunks : Receive(h, m)
       \/ \E m \in chunks : Lose(m)

\* A timer that was started fires unless it is stopped.
TimersFire(h) ==
    fault = "none" /\ UNCHANGED listening /\ (T1Expires(h) \/ T2Expires(h))

SCTPFairness == \A h \in Hosts : WF_sctpVars(TimersFire(h))

SCTPSpec == SCTPInit /\ [][SCTPNext]_sctpVars /\ SCTPFairness

-----------------------------------------------------------------------------
(* Properties. *)

RightTimers(a) ==
    /\ "T1" \in a.timers <=> a.state \in Opening
    /\ a.state \notin Closing => a.timers \cap {"T2", "T5"} = {}
    /\ a.state = "SHUTDOWN_SENT" => {"T2", "T5"} \subseteq a.timers

\* T1 runs exactly while the association is set up; T2 and T5 run only while it
\* is shut down, and always in SHUTDOWN_SENT: stateEntered() stops T1,
\* sendShutdown() and sendShutdownAck() start the others, and every way out
\* stops them.  (A SHUTDOWN_ACK in SHUTDOWN_ACK_SENT stops them and stays.)
SCTPTimersRight == \A h \in Hosts : RightTimers(assoc[h])

Synchronized == Closing \cup {"ESTABLISHED"}

\* Two hosts that both have an association set up understand each other: each
\* writes the tag the other one expects, after an ordinary set-up, after two
\* INITs that crossed and whatever cookie arrives late.  It is not so when a host
\* opens again: processCookieEchoArrived() takes the tags of a cookie from the
\* life before for those of a collision.
TagsMirror ==
    (\A h \in Hosts : opens[h] <= 1) =>
    \A h \in Hosts :
        (assoc[h].state \in Synchronized /\ assoc[Other(h)].state \in Synchronized)
        => assoc[h].localVTag = assoc[Other(h)].peerVTag

\* T1 never finds a state that it does not know ("INIT-REXMIT timer expired
\* while in state"), and the chunks kept for retransmission are deleted once and
\* only when they exist -- but for the second SHUTDOWN_ACK that follows crossing
\* SHUTDOWNs, and but for a SHUTDOWN_COMPLETE that was meant for a life before,
\* which takes two hosts that both opened again: the collision of two cookies
\* gave the answer to an old SHUTDOWN_ACK the tag of the new life.
SCTPFaultsExplained ==
    fault # "none" =>
        \/ /\ fault = "chunk deleted twice"
           /\ \E h \in Hosts : /\ assoc[h].state = "SHUTDOWN_ACK_SENT"
                               /\ assoc[h].shutdownChunk = "deleted"
        \/ /\ fault = "chunk never set"
           /\ \A h \in Hosts : opens[h] > 1

\* An application that has opened, or has a connection, is told when it ends, by
\* SCTP_I_CLOSED or SCTP_I_CONN_LOST -- unless processInitArrived() or a stale
\* cookie returned false, which removes the association without a word.
EndIsTold ==
    [][\A h \in Hosts :
          (assoc[h].state \in Opening \cup Synchronized /\ assoc'[h].state = "NONE")
          => \/ told'[h] \cap {"CLOSED", "CONN_LOST"} # {}
             \/ \E m \in chunks \ chunks' : m.to = h /\ m.type \in {"INIT", "COOKIE_ECHO"}]_sctpVars

\* The set-up is over, or so is the shutdown: not for the association that
\* crossing SHUTDOWNs left without timers.
Settled(h) ==
    \/ assoc[h].state \notin Opening \cup Closing
    \/ assoc[h].shutdownChunk = "deleted"
    \/ fault # "none"

\* Whatever is lost, every set-up and every shutdown comes to an end, because T1
\* and T2 give up after maxInitRetrans and assocMaxRetrans.
SetUpAndShutdownEnd == \A h \in Hosts : []<>Settled(h)
=============================================================================
