------------------------------ MODULE TCPDemux ------------------------------
(***************************************************************************)
(* The connection tables of the TCP module of one host, and the sockets of *)
(* the applications above it: which connection a segment or a command      *)
(* reaches, forking of listening connections, ephemeral ports, and what    *)
(* happens when commands and indications cross.                            *)
(*                                                                         *)
(* A connection is here its state, its socket pair, and whether it has put *)
(* off a CLOSE; what a segment does to it beyond that (TCPConnection) is a *)
(* choice among the events process_RCV_SEGMENT() can return in its state.  *)
(* Data is left out: whether some is queued is a choice where it matters.  *)
(***************************************************************************)
EXTENDS Naturals, Sequences, FiniteSets

CONSTANTS
    PortStart, PortEnd,  \* EPHEMERAL_PORTRANGE_START, EPHEMERAL_PORTRANGE_END
    ServicePorts,        \* ports that applications listen on
    ListenAddrs,         \* and local addresses they bind to
    Remotes,             \* remote sockets: an address and a port each
    MaxId,               \* bound: connection ids handed out
    MaxCmds, MaxInds,    \* bounds: commands in flight, and indications (those of
                         \* one handler may be more)
    MaxCrossed,          \* bound: ids that a command and an indication have
                         \* crossed for, at one time
    MaxSockets           \* bound: sockets with which the application opens no more

Blank == "blank"                    \* IPvXAddress(), port -1: no remote socket
AnyAddr == "any"                    \* IPvXAddress(): any local address
HostAddr == "host"                  \* the address of this host
Ports == PortStart .. PortEnd - 1

ASSUME DemuxAssumption ==
    /\ PortStart \in Nat /\ PortEnd \in Nat /\ PortStart < PortEnd
    /\ ServicePorts \subseteq Nat
    /\ ListenAddrs \subseteq {AnyAddr, HostAddr}
    /\ Blank \notin Remotes
    /\ MaxId \in Nat /\ MaxCmds \in Nat /\ MaxInds \in Nat
    /\ MaxCrossed \in Nat /\ MaxSockets \in Nat

VARIABLES
    tcp,      \* the TCP module: its connections (conn), tcpAppConnMap (byId),
              \* tcpConnMap (byPair), usedEphemeralPorts (used),
              \* lastEphemeralPort (last), the error that ended the run (fault)
    nextId,   \* ev.getUniqueNumber()
    sock,     \* sock[id]: the state of the application's socket with this id,
              \* while it is not CLOSED or SOCKERROR
    cmds,     \* commands on their way to TCP
    inds,     \* indications on their way to the applications
    crossed   \* ids for which a command and an indication have crossed

demuxVars == <<tcp, nextId, sock, cmds, inds, crossed>>

Empty == [x \in {} |-> x]
Put(f, x, y) == [z \in DOMAIN f \cup {x} |-> IF z = x THEN y ELSE f[z]]
Drop(f, x) == [z \in DOMAIN f \ {x} |-> f[z]]

NewTCP == [conn |-> Empty, byId |-> Empty, byPair |-> Empty,
           used |-> [p \in Ports |-> 0], last |-> PortStart, fault |-> "none"]

DemuxInit ==
    /\ tcp = NewTCP
    /\ nextId = 1
    /\ sock = Empty
    /\ cmds = <<>> /\ inds = <<>>
    /\ crossed = {}

Up == tcp.fault = "none"

-----------------------------------------------------------------------------
(* The tables.                                                             *)

Pair(c) == <<c.la, c.lp, c.r>>

FreshObject(t) == CHOOSE o \in 1 .. Cardinality(DOMAIN t.conn) + 1 : o \notin DOMAIN t.conn

\* findConnForSegment(): the most specific socket pair first.
PairsFor(lp, r) == <<<<HostAddr, lp, r>>, <<AnyAddr, lp, r>>,
                     <<HostAddr, lp, Blank>>, <<AnyAddr, lp, Blank>>>>

FindConnForSegment(o, lp, r) ==
    \E i \in 1 .. 4 :
        /\ PairsFor(lp, r)[i] \in DOMAIN tcp.byPair
        /\ tcp.byPair[PairsFor(lp, r)[i]] = o
        /\ \A j \in 1 .. i - 1 : PairsFor(lp, r)[j] \notin DOMAIN tcp.byPair

\* getEphemeralPort(): the k-th port after the last one handed out, and the
\* first of them that is free.
PortAfter(t, k) == PortStart + ((t.last - PortStart + k) % (PortEnd - PortStart))
FreePorts(t) == {k \in 1 .. PortEnd - PortStart : t.used[PortAfter(t, k)] = 0}
GetEphemeralPort(t) ==
    PortAfter(t, CHOOSE k \in FreePorts(t) : \A j \in FreePorts(t) : k <= j)

AddSockPair(t, o, c) ==
    IF Pair(c) \in DOMAIN t.byPair
    THEN [t EXCEPT !.fault = "address in use"]
    ELSE [t EXCEPT !.conn = Put(@, o, c),
                   !.byPair = Put(@, Pair(c), o),
                   !.used = [p \in Ports |-> IF p = c.lp THEN @[p] + 1 ELSE @[p]]]

UpdateSockPair(t, o, r) ==
    LET c == t.conn[o]
        d == [c EXCEPT !.la = HostAddr, !.r = r]
    IN  IF Pair(c) \in DOMAIN t.byPair /\ t.byPair[Pair(c)] = o
        THEN [t EXCEPT !.conn[o] = d,
                       !.byPair = Put(Drop(@, Pair(c)), Pair(d), o)]
        ELSE [t EXCEPT !.fault = "not in table"]

\* Mutant: the forked connection is not entered under its new id.
BadAddForkedConnection(t, o, o2, r, id) ==
    LET c == t.conn[o]
        clone == [c EXCEPT !.r = Blank, !.active = FALSE, !.fork = TRUE, !.st = "LISTEN"]
        u == AddSockPair(UpdateSockPair(t, o, r), o2, clone)
    IN  IF u.fault # "none" THEN u
        ELSE [u EXCEPT !.conn[o].id = id, !.byId = Put(@, c.id, o2)]

\* cloneListeningConnection() and addForkedConnection(): the clone o2 keeps
\* listening under the old id, the connection goes on under a new one.
AddForkedConnection(t, o, o2, r, id) ==
    LET c == t.conn[o]
        clone == [c EXCEPT !.r = Blank, !.active = FALSE, !.fork = TRUE, !.st = "LISTEN"]
        u == AddSockPair(UpdateSockPair(t, o, r), o2, clone)
    IN  IF u.fault # "none" THEN u
        ELSE [u EXCEPT !.conn[o].id = id,
                       !.byId = Put(Put(Drop(@, c.id), id, o), c.id, o2)]

\* Mutant: erase(localPort) takes every occurrence of the port.
BadRemoveConnection(t, o) ==
    LET c == t.conn[o]
    IN  [t EXCEPT !.conn = Drop(@, o), !.byId = Drop(@, c.id), !.byPair = Drop(@, Pair(c)),
                  !.used = [p \in Ports |-> IF p = c.lp THEN 0 ELSE @[p]]]

RemoveConnection(t, o) ==
    LET c == t.conn[o]
    IN  [t EXCEPT !.conn = Drop(@, o),
                  !.byId = Drop(@, c.id),
                  !.byPair = Drop(@, Pair(c)),
                  !.used = [p \in Ports |->
                               IF p = c.lp /\ @[p] > 0 THEN @[p] - 1 ELSE @[p]]]

-----------------------------------------------------------------------------
(* The state machine of a connection.                                      *)

AnySynchronized == [ABORT |-> "CLOSED", RCV_RST |-> "CLOSED", RCV_UNEXP_SYN |-> "CLOSED"]

Extend(f, g) == [x \in DOMAIN f \cup DOMAIN g |-> IF x \in DOMAIN g THEN g[x] ELSE f[x]]

FSM == [
    INIT |-> [OPEN_PASSIVE |-> "LISTEN", OPEN_ACTIVE |-> "SYN_SENT"],
    LISTEN |-> [CLOSE |-> "CLOSED", ABORT |-> "CLOSED", RCV_SYN |-> "SYN_RCVD"],
    SYN_SENT |-> [CLOSE |-> "CLOSED", ABORT |-> "CLOSED", TIMEOUT_CONN_ESTAB |-> "CLOSED",
                  RCV_RST |-> "CLOSED", RCV_SYN_ACK |-> "ESTABLISHED", RCV_SYN |-> "SYN_RCVD"],
    SYN_RCVD |-> Extend(AnySynchronized,
                 [CLOSE |-> "FIN_WAIT_1", TIMEOUT_CONN_ESTAB |-> "CLOSED",
                  RCV_ACK |-> "ESTABLISHED", RCV_FIN |-> "CLOSE_WAIT"]),
    ESTABLISHED |-> Extend(AnySynchronized, [CLOSE |-> "FIN_WAIT_1", RCV_FIN |-> "CLOSE_WAIT"]),
    CLOSE_WAIT |-> Extend(AnySynchronized, [CLOSE |-> "LAST_ACK"]),
    LAST_ACK |-> Extend(AnySynchronized, [RCV_ACK |-> "CLOSED"]),
    FIN_WAIT_1 |-> Extend(AnySynchronized, [RCV_FIN |-> "CLOSING", RCV_ACK |-> "FIN_WAIT_2",
                                         RCV_FIN_ACK |-> "TIME_WAIT"]),
    FIN_WAIT_2 |-> Extend(AnySynchronized, [RCV_FIN |-> "TIME_WAIT"]),
    CLOSING |-> Extend(AnySynchronized, [RCV_ACK |-> "TIME_WAIT"]),
    TIME_WAIT |-> Extend(AnySynchronized, [TIMEOUT_2MSL |-> "CLOSED"])]

\* A passive connection goes back to LISTEN.
Relistens(c, ev) == c.st = "SYN_RCVD" /\ ~c.active /\ ev \in {"RCV_RST", "TIMEOUT_CONN_ESTAB"}

Goto(c, ev) ==
    IF Relistens(c, ev) THEN "LISTEN"
    ELSE IF ev \in DOMAIN FSM[c.st] THEN FSM[c.st][ev] ELSE c.st

\* stateEntered(): what the application is told.
Entered(old, new, ev) ==
    IF new = old THEN <<>>
    ELSE CASE new = "CLOSE_WAIT" -> <<"PEER_CLOSED">>
           [] new = "TIME_WAIT" -> <<"CLOSED">>
           [] new = "CLOSED" /\ old # "TIME_WAIT" /\ ev # "ABORT" -> <<"CLOSED">>
           [] OTHER -> <<>>

Told(id, kinds) == [i \in DOMAIN kinds |-> [id |-> id, kind |-> kinds[i]]]

\* An error ends the run: nothing else of the event matters.
Fault(t) == /\ tcp' = [tcp EXCEPT !.fault = t.fault]
            /\ UNCHANGED inds

\* A handler took the tables to t and told the application about connection o
\* what is in said; then the state machine runs, and a connection that is
\* closed goes.
Perform(t, o, ev, said) ==
    IF t.fault # "none" THEN Fault(t)
    ELSE LET c == t.conn[o]
             new == Goto(c, ev)
             out == Told(c.id, said \o Entered(c.st, new, ev))
             u == [t EXCEPT !.conn[o].st = new]
         IN  /\ tcp' = IF new = "CLOSED" THEN RemoveConnection(u, o) ELSE u
             /\ inds' = inds \o out
             /\ inds = <<>> \/ Len(inds') <= MaxInds

-----------------------------------------------------------------------------
(* The applications: TCPSocket.                                            *)

\* A socket in CLOSED or SOCKERROR takes no command any more: it is renewed or
\* deleted, and what it still hears makes no difference.
Becomes(id, st) == sock' = IF st \in {"CLOSED", "SOCKERROR"}
                           THEN [i \in DOMAIN sock \ {id} |-> sock[i]]
                           ELSE Put(sock, id, st)

About(queue) == {queue[i].id : i \in DOMAIN queue}

SocketCommand(cmd, st) ==
    /\ Len(cmds) < MaxCmds
    /\ cmds' = Append(cmds, cmd)
    /\ Becomes(cmd.id, st)
    /\ UNCHANGED <<tcp, inds>>

\* bind() and listen(); the host has one listening socket at a time.
Listen ==
    /\ Up /\ nextId <= MaxId /\ Cardinality(DOMAIN sock) < MaxSockets
    /\ \A id \in DOMAIN sock : sock[id] # "LISTENING"
    /\ \E la \in ListenAddrs, lp \in ServicePorts, f \in BOOLEAN :
          SocketCommand([kind |-> "OPEN_PASSIVE", id |-> nextId, la |-> la, lp |-> lp,
                   r |-> Blank, fork |-> f], "LISTENING")
    /\ nextId' = nextId + 1

\* connect() of a socket that is not bound, or renewed; one attempt at a time.
Connect ==
    /\ Up /\ nextId <= MaxId /\ Cardinality(DOMAIN sock) < MaxSockets
    /\ \A id \in DOMAIN sock : sock[id] # "CONNECTING"
    /\ \E r \in Remotes :
          SocketCommand([kind |-> "OPEN_ACTIVE", id |-> nextId, r |-> r], "CONNECTING")
    /\ nextId' = nextId + 1

\* Mutant: close() does not change the state of the socket.
BadCloseSocket(id) ==
    /\ Up
    /\ sock[id] \in {"CONNECTED", "PEER_CLOSED", "CONNECTING", "LISTENING"}
    /\ SocketCommand([kind |-> "CLOSE", id |-> id], sock[id])
    /\ UNCHANGED nextId

CloseSocket(id) ==
    /\ Up
    /\ sock[id] \in {"CONNECTED", "PEER_CLOSED", "CONNECTING", "LISTENING"}
    /\ SocketCommand([kind |-> "CLOSE", id |-> id],
               IF sock[id] = "CONNECTED" THEN "LOCALLY_CLOSED" ELSE "CLOSED")
    /\ UNCHANGED nextId

AbortSocket(id) ==
    /\ Up
    /\ SocketCommand([kind |-> "ABORT", id |-> id], "CLOSED")
    /\ UNCHANGED nextId

SocketState == [ESTABLISHED |-> "CONNECTED", PEER_CLOSED |-> "PEER_CLOSED",
                CLOSED |-> "CLOSED", CONNECTION_REFUSED |-> "SOCKERROR",
                CONNECTION_RESET |-> "SOCKERROR", TIMED_OUT |-> "SOCKERROR"]

\* processMessage(); an indication with an unknown id makes a new socket.
SocketHears ==
    /\ Up /\ inds # <<>>
    /\ Becomes(Head(inds).id, SocketState[Head(inds).kind])
    /\ inds' = Tail(inds)
    /\ UNCHANGED <<tcp, nextId, cmds>>

-----------------------------------------------------------------------------
(* TCP::handleMessage().                                                   *)

ClosingStates == {"LAST_ACK", "FIN_WAIT_1", "FIN_WAIT_2", "CLOSING", "TIME_WAIT"}

\* The send queue may hold data that was not sent: an application may send
\* while it is connecting, not while it is listening.
MayHoldData(c) ==
    c.st \in {"ESTABLISHED", "CLOSE_WAIT"} \/ (c.st = "SYN_RCVD" /\ c.active)

\* Mutant: a CLOSE that is put off is not remembered.
BadCloseConnection(o) ==
    IF tcp.conn[o].st \in ClosingStates
    THEN Fault([tcp EXCEPT !.fault = "duplicate CLOSE"])
    ELSE \/ Perform(tcp, o, "CLOSE", <<>>)
         \/ MayHoldData(tcp.conn[o]) /\ Perform(tcp, o, "IGNORE", <<>>)

\* process_CLOSE(): with data in the queue the FIN has to wait (send_fin), and
\* the FSM does not see the CLOSE.
CloseConnection(o) ==
    IF tcp.conn[o].st \in ClosingStates
    THEN Fault([tcp EXCEPT !.fault = "duplicate CLOSE"])
    ELSE \/ Perform(tcp, o, "CLOSE", <<>>)
         \/ /\ MayHoldData(tcp.conn[o])
            /\ Perform([tcp EXCEPT !.conn[o].deferred = TRUE], o, "IGNORE", <<>>)

\* A command for an unknown id makes a new connection.
ProcessCommand(cmd) ==
    LET known == cmd.id \in DOMAIN tcp.byId
        o == IF known THEN tcp.byId[cmd.id] ELSE FreshObject(tcp)
        t == [tcp EXCEPT !.byId = Put(@, cmd.id, o)]
        new == [id |-> cmd.id, st |-> "INIT", active |-> cmd.kind = "OPEN_ACTIVE",
                la |-> AnyAddr, lp |-> 0, r |-> Blank, fork |-> FALSE, deferred |-> FALSE]
        fails(e) == Fault([tcp EXCEPT !.fault = e])
    IN  CASE cmd.kind \in {"OPEN_ACTIVE", "OPEN_PASSIVE"} /\ known ->
                fails("already exists")
          [] cmd.kind = "OPEN_ACTIVE" /\ ~known ->
                IF FreePorts(t) = {} THEN fails("ports exhausted")
                ELSE LET p == GetEphemeralPort(t)
                     IN  Perform(AddSockPair([t EXCEPT !.last = p], o,
                                             [new EXCEPT !.lp = p, !.r = cmd.r]),
                                 o, "OPEN_ACTIVE", <<>>)
          [] cmd.kind = "OPEN_PASSIVE" /\ ~known ->
                Perform(AddSockPair(t, o, [new EXCEPT !.la = cmd.la, !.lp = cmd.lp,
                                                      !.fork = cmd.fork]),
                        o, "OPEN_PASSIVE", <<>>)
          [] cmd.kind \in {"CLOSE", "ABORT"} /\ ~known -> fails("not open")
          [] cmd.kind = "CLOSE" /\ known -> CloseConnection(o)
          [] cmd.kind = "ABORT" /\ known -> Perform(tcp, o, "ABORT", <<>>)

CommandArrives ==
    /\ Up /\ cmds # <<>>
    /\ ProcessCommand(Head(cmds))
    /\ cmds' = IF tcp'.fault = "none" THEN Tail(cmds) ELSE cmds
    /\ UNCHANGED <<nextId, sock>>

\* The events process_RCV_SEGMENT() returns in the states after LISTEN, with
\* the indications it sends itself.  Once the FIN that waited has gone out, a
\* segment makes up for the CLOSE, whatever else it brings.
Outcomes(c) ==
    LET close(said) == IF c.deferred THEN {<<"CLOSE", said>>} ELSE {}
        reset == {<<"RCV_UNEXP_SYN", <<"CONNECTION_RESET">>>>}
        rst(said) == {<<"RCV_RST", said>>}
        quiet(evs) == {<<ev, <<>>>> : ev \in evs}
    IN  CASE c.st = "SYN_SENT" ->
                {<<"RCV_SYN_ACK", <<"ESTABLISHED">>>>} \cup quiet({"RCV_SYN"})
                    \cup rst(<<"CONNECTION_RESET">>)
          [] c.st = "SYN_RCVD" ->
                {<<"RCV_ACK", <<"ESTABLISHED">>>>, <<"RCV_FIN", <<"ESTABLISHED">>>>}
                    \cup rst(IF c.active THEN <<"CONNECTION_REFUSED">> ELSE <<>>) \cup reset
                    \cup close(<<"ESTABLISHED">>)
          [] c.st = "ESTABLISHED" -> quiet({"RCV_FIN"}) \cup rst(<<"CONNECTION_RESET">>)
                                         \cup reset \cup close(<<>>)
          [] c.st = "CLOSE_WAIT" -> rst(<<"CONNECTION_RESET">>) \cup reset \cup close(<<>>)
          [] c.st = "FIN_WAIT_1" -> quiet({"RCV_FIN", "RCV_ACK", "RCV_FIN_ACK"})
                                        \cup rst(<<"CONNECTION_RESET">>) \cup reset
          [] c.st = "FIN_WAIT_2" -> quiet({"RCV_FIN"}) \cup rst(<<"CONNECTION_RESET">>) \cup reset
          [] c.st \in {"CLOSING", "LAST_ACK"} -> quiet({"RCV_ACK"}) \cup rst(<<>>) \cup reset
          [] OTHER -> rst(<<>>) \cup reset      \* TIME_WAIT

\* A SYN for a listening connection; other segments leave it alone.
SynArrives(o, r) ==
    /\ UNCHANGED cmds
    /\ tcp.conn[o].st = "LISTEN"
    /\ IF tcp.conn[o].fork
       THEN /\ nextId <= MaxId
            /\ nextId' = nextId + 1
            /\ Perform(AddForkedConnection(tcp, o, FreshObject(tcp), r, nextId),
                       o, "RCV_SYN", <<>>)
       ELSE /\ Perform(UpdateSockPair(tcp, o, r), o, "RCV_SYN", <<>>)
            /\ UNCHANGED nextId

\* A segment for another connection; a SYN in SYN_SENT tells it the local address.
OtherSegmentArrives(o, r) ==
    /\ UNCHANGED <<cmds, nextId>>
    /\ tcp.conn[o].st # "LISTEN"
    /\ \E e \in Outcomes(tcp.conn[o]) :
          Perform(IF tcp.conn[o].st = "SYN_SENT" /\ e[1] # "RCV_RST"
                  THEN UpdateSockPair(tcp, o, r) ELSE tcp, o, e[1], e[2])

SegmentReaches(o) ==
    /\ Up
    /\ \E r \in Remotes, lp \in Ports \cup ServicePorts :
          /\ FindConnForSegment(o, lp, r)
          /\ SynArrives(o, r) \/ OtherSegmentArrives(o, r)
    /\ UNCHANGED sock

Expires(o, ev, said) ==
    /\ UNCHANGED <<cmds, nextId, sock>>
    /\ Perform(tcp, o, ev, said)

ConnEstabTimer(o) ==
    /\ Up
    /\ tcp.conn[o].st \in {"SYN_SENT", "SYN_RCVD"}
    /\ Expires(o, "TIMEOUT_CONN_ESTAB", IF tcp.conn[o].active THEN <<"TIMED_OUT">> ELSE <<>>)

\* The retransmission limit; that of SYNs is not reached before CONN_ESTAB.
RexmitLimit(o) ==
    /\ Up
    /\ tcp.conn[o].st \in {"ESTABLISHED", "CLOSE_WAIT", "FIN_WAIT_1", "CLOSING", "LAST_ACK"}
    /\ Expires(o, "ABORT", <<"TIMED_OUT">>)

TimeWaitTimer(o) ==
    /\ Up
    /\ tcp.conn[o].st = "TIME_WAIT"
    /\ Expires(o, "TIMEOUT_2MSL", <<>>)

\* reset(); commands are dropped while the host is down, and its applications
\* start again with new sockets.
Crash ==
    /\ Up
    /\ tcp' = NewTCP
    /\ cmds' = <<>> /\ inds' = <<>> /\ sock' = Empty
    /\ UNCHANGED nextId

-----------------------------------------------------------------------------

\* A command and an indication for one id are both on their way; remembered
\* while anything of that id is left.
Crossings ==
    /\ crossed' = (crossed \cup (About(cmds') \cap About(inds')))
                   \cap (About(cmds') \cup About(inds') \cup DOMAIN sock' \cup DOMAIN tcp'.byId)
    /\ Cardinality(crossed') <= MaxCrossed

DemuxNext ==
    /\ \/ Listen \/ Connect \/ SocketHears \/ CommandArrives \/ Crash
       \/ \E id \in DOMAIN sock : CloseSocket(id) \/ AbortSocket(id)
       \/ \E o \in DOMAIN tcp.conn :
             SegmentReaches(o) \/ ConnEstabTimer(o) \/ RexmitLimit(o) \/ TimeWaitTimer(o)
    /\ Crossings

DemuxSpec == DemuxInit /\ [][DemuxNext]_demuxVars

-----------------------------------------------------------------------------
(* Properties.                                                             *)

\* The two tables name the same connections, each once: forking, the new id of
\* a forked connection, a socket pair that becomes qualified and a removal
\* leave neither an entry of a connection that is gone nor a connection that
\* commands or segments no longer find.
TablesAgree ==
    /\ DOMAIN tcp.byId = {tcp.conn[o].id : o \in DOMAIN tcp.conn}
    /\ DOMAIN tcp.byPair = {Pair(tcp.conn[o]) : o \in DOMAIN tcp.conn}
    /\ \A o \in DOMAIN tcp.conn : /\ tcp.byId[tcp.conn[o].id] = o
                                  /\ tcp.byPair[Pair(tcp.conn[o])] = o

\* The ports counted as used are those of the connections that exist, once for
\* each of them: a port is neither given out twice nor lost.
PortsCounted ==
    \A p \in Ports : tcp.used[p] = Cardinality({o \in DOMAIN tcp.conn : tcp.conn[o].lp = p})

\* Applications that keep to the order of TCPSocket make TCP fail in four ways
\* only: no ephemeral port is left; a command that crossed an indication finds
\* its connection gone or closing; a CLOSE was put off, the application heard of
\* the connection after it (PEER_CLOSED, or ESTABLISHED), and closed once more;
\* and a listening connection that no application has (a forked one that went
\* back to LISTEN, or a clone of it) takes the address.
FaultsExplained ==
    LET id == Head(cmds).id
    IN  /\ tcp.fault \notin {"already exists", "not in table"}
        /\ tcp.fault = "ports exhausted" =>
              \A p \in Ports : \E o \in DOMAIN tcp.conn : tcp.conn[o].lp = p
        /\ tcp.fault = "not open" => id \in crossed
        /\ tcp.fault = "duplicate CLOSE" => id \in crossed \/ tcp.conn[tcp.byId[id]].deferred
        /\ tcp.fault = "address in use" =>
              \E o \in DOMAIN tcp.conn :
                  /\ tcp.conn[o].st = "LISTEN"
                  /\ tcp.conn[o].id \notin DOMAIN sock \cup About(cmds)

\* When nothing is on its way between a socket and its connection, and nothing
\* has crossed, the socket is in the state that belongs to the connection's.  If
\* a CLOSE was put off, the connection may be behind its socket, which is closed,
\* or ahead of it: the socket took PEER_CLOSED or ESTABLISHED for a new state.
\* Otherwise a connection without a socket is closing or was forked and not yet
\* announced.
SocketsAgree ==
    LET matching == [
            LISTENING |-> {"LISTEN", "SYN_RCVD"},
            CONNECTING |-> {"SYN_SENT", "SYN_RCVD"},
            CONNECTED |-> {"ESTABLISHED"},
            PEER_CLOSED |-> {"CLOSE_WAIT"},
            LOCALLY_CLOSED |-> {"FIN_WAIT_1", "FIN_WAIT_2", "CLOSING"}]
        closedLate == [
            LISTENING |-> {}, CONNECTING |-> {},
            CONNECTED |-> {"FIN_WAIT_1", "FIN_WAIT_2", "CLOSING"},
            PEER_CLOSED |-> {"LAST_ACK"},
            LOCALLY_CLOSED |-> {"ESTABLISHED"}]
        settled(id) == id \notin crossed \cup About(cmds) \cup About(inds)
        fits(c) == IF c.id \in DOMAIN sock
                   THEN \/ c.st \in matching[sock[c.id]]
                        \/ c.deferred /\ c.st \in closedLate[sock[c.id]]
                   ELSE \/ c.st \in ClosingStates
                        \/ c.st \in {"SYN_RCVD", "LISTEN"} /\ c.fork
                        \/ c.st \in {"SYN_RCVD", "CLOSE_WAIT"} /\ c.deferred
    IN  Up => /\ \A o \in DOMAIN tcp.conn : settled(tcp.conn[o].id) => fits(tcp.conn[o])
              /\ \A id \in DOMAIN sock : settled(id) => id \in DOMAIN tcp.byId

\* A port has one listening connection, as the application asked for one ("if
\* this was a forked connection, it should rather close than go back to
\* listening", TCPConnectionRcvSegment.cc:1301).
OneListener ==
    \A o1, o2 \in DOMAIN tcp.conn :
        /\ tcp.conn[o1].st = "LISTEN" /\ tcp.conn[o2].st = "LISTEN"
        /\ tcp.conn[o1].lp = tcp.conn[o2].lp
        => o1 = o2

=============================================================================
