--------------------------- MODULE OSPFAdjacency ---------------------------
(***************************************************************************)
(* Two OSPF routers on a point-to-point link form an adjacency             *)
(* (networklayer/ospfv2): the neighbor state machine (neighbor/), the      *)
(* database description, request, update and acknowledgement handlers      *)
(* (messagehandler/) and flooding (interface/OSPFInterface.cc).            *)
(*                                                                         *)
(* A router's record holds its Neighbor object for the other router and    *)
(* its link state database, one LSA per router of which only the sequence  *)
(* number is kept (0: none).  A handler is an operator on the record, in   *)
(* the order of the code's calls; the packets it sends gather in out.  The *)
(* link delivers in order and may lose packets; an LSA ignored within       *)
(* MIN_LS_ARRIVAL, an answer withheld within MIN_LS_INTERVAL are such losses. *)
(* Authentication, MTU mismatch, ageing, the routing table are left out.   *)
(***************************************************************************)
EXTENDS Naturals, SequencesExt

CONSTANTS Routers,      \* the two router ids
          HeadersPerDD, \* LSA headers that fit in a packet
          MaxVersion,   \* bound: sequence number of an LSA
          MaxDDSeq,     \* bound: sequence number of a DD packet
          MaxTransit,   \* bound: packets on their way to a router
          MaxDisturbances  \* bound: disturbances, early timers, changes elsewhere

VARIABLES nbr,     \* what each router knows: neighbor object and database
          link,    \* packets on their way to each router, in order
          seed,    \* ddSequenceNumberInitSeed
          disturbances,  \* number of disturbances (bound)
          lostDD   \* a DD packet of the exchange was lost (history)

ospfVars == <<nbr, link, seed, disturbances, lostDD>>

Peer(r) == CHOOSE p \in Routers : p # r

States == <<"DOWN", "INIT", "EXCHANGE_START", "EXCHANGE", "LOADING", "FULL">>
Rank(st) == CHOOSE i \in DOMAIN States : States[i] = st
AtLeast(x, st) == Rank(x.st) >= Rank(st)

NoLSAs == [k \in Routers |-> 0]
DD(I, M, MS, seq, lsas) == [type |-> "DD", I |-> I, M |-> M, MS |-> MS,
                            seq |-> seq, lsas |-> lsas]
NoDD == DD(FALSE, FALSE, FALSE, 0, <<>>)
PacketID(p) == [p EXCEPT !.lsas = <<>>]

\* The Neighbor object; timers: those of its own that are scheduled (the flags
\* ...TimerActive are TRUE just then).
NewNeighbor(r) ==
    [self |-> r, st |-> "DOWN", rel |-> "NONE", ddSeq |-> 0, inited |-> FALSE,
     lastRcv |-> DD(TRUE, TRUE, FALSE, 0, <<>>), lastSent |-> NoDD,
     summary |-> <<>>, req |-> NoLSAs, rxmt |-> NoLSAs, timers |-> {},
     acks |-> {}, db |-> [NoLSAs EXCEPT ![r] = 1], out |-> <<>>, fault |-> FALSE]

OSPFInit == /\ nbr = [r \in Routers |-> NewNeighbor(r)]
            /\ link = [r \in Routers |-> <<>>]
            /\ seed = 0
            /\ disturbances = 0
            /\ lostDD = FALSE

-----------------------------------------------------------------------------

SendPacket(x, p) == [x EXCEPT !.out = Append(@, p)]

\* scheduleAt() of a scheduled message is an error.
StartTimer(x, t) == [x EXCEPT !.fault = @ \/ t \in x.timers, !.timers = @ \cup {t}]
ClearTimer(x, t) == [x EXCEPT !.timers = @ \ {t}]
RestartTimer(x, t) == StartTimer(ClearTimer(x, t), t)
EnsureTimer(x, t) == [x EXCEPT !.timers = @ \cup {t}]

BadReset(x) == [x EXCEPT !.rxmt = NoLSAs, !.summary = <<>>, !.req = NoLSAs,
                         !.lastSent = NoDD]

\* Neighbor::reset(): not lastReceivedDDPacket.
Reset(x) == [x EXCEPT !.rxmt = NoLSAs, !.summary = <<>>, !.req = NoLSAs,
                      !.timers = @ \cap {"inactivity"}, !.lastSent = NoDD]

\* sendDatabaseDescriptionPacket(init)
SendDD(x, init) ==
    LET n == IF init THEN 0
             ELSE IF Len(x.summary) < HeadersPerDD THEN Len(x.summary) ELSE HeadersPerDD
        rest == SubSeq(x.summary, n + 1, Len(x.summary))
        p == DD(init, init \/ rest # <<>>, init \/ x.rel = "MASTER", x.ddSeq,
                SubSeq(x.summary, 1, n))
    IN  SendPacket([x EXCEPT !.summary = rest, !.lastSent = p], p)

\* retransmitDatabaseDescriptionPacket(); without one to send it returns false.
ResendDD(x) == IF x.lastSent = NoDD THEN x ELSE SendPacket(x, x.lastSent)

\* createDatabaseSummary(): the headers of the whole database.
CreateSummary(x) ==
    SetToSortSeq({[key |-> k, ver |-> x.db[k]] : k \in {k \in Routers : x.db[k] # 0}},
                 LAMBDA a, b : a.key < b.key)

Requested(x) == {k \in Routers : x.req[k] # 0}

SendRequest(x) == SendPacket(x, [type |-> "LSR", keys |-> Requested(x)])
SendUpdate(x, lsas) == SendPacket(x, [type |-> "LSU", lsas |-> lsas])

\* After a DD packet: ask for what is on the request list.
RequestMissing(x) ==
    IF Requested(x) # {} /\ "request" \notin x.timers
    THEN StartTimer(SendRequest(x), "request") ELSE x

-----------------------------------------------------------------------------

\* floodLSA() (1)(d) to (5), for the neighbor on this link.
Retransmit(x, k) ==
    IF AtLeast(x, "EXCHANGE")
    THEN EnsureTimer(SendUpdate([x EXCEPT !.rxmt[k] = x.db[k]],
                                {[key |-> k, ver |-> x.db[k]]}), "update")
    ELSE x

\* changeState(): entering or leaving FULL the router LSA is originated anew and
\* flooded.
ChangeState(x, st) ==
    LET y == [x EXCEPT !.st = st]
    IN  IF x.st = "FULL" \/ st = "FULL"
        THEN Retransmit([y EXCEPT !.db[x.self] = @ + 1], x.self) ELSE y

\* removeFromRequestList(): in LOADING, the last one is LOADING_DONE.
RemoveRequest(x, k) ==
    LET y == [x EXCEPT !.req[k] = 0]
    IN  IF y.st = "LOADING" /\ Requested(y) = {}
        THEN ChangeState(ClearTimer(y, "request"), "FULL") ELSE y

\* floodLSA() for an LSA that came from this neighbor: (1)(b), (1)(c).
FloodReceived(x, l) ==
    IF x.st \in {"EXCHANGE", "LOADING"} /\ x.req[l.key] # 0 /\ x.req[l.key] <= l.ver
    THEN RemoveRequest(x, l.key) ELSE x

\* SEQUENCE_NUMBER_MISMATCH and BAD_LINK_STATE_REQUEST.
Mismatch(x) ==
    LET y == [Reset(x) EXCEPT !.ddSeq = @ + 1]
    IN  ChangeState(StartTimer(SendDD(y, TRUE), "dd"), "EXCHANGE_START")

NegotiationDone(x) ==
    LET y == SendDD([x EXCEPT !.summary = CreateSummary(x)], FALSE)
    IN  [ClearTimer(y, "dd") EXCEPT !.st = "EXCHANGE"]

\* EXCHANGE_DONE: nothing in EXCHANGE_START.
ExchangeDone(x) ==
    IF x.st # "EXCHANGE" THEN x
    ELSE LET y == StartTimer(x, "dd")
         IN  IF Requested(x) = {}
             THEN ChangeState(ClearTimer(y, "request"), "FULL")
             ELSE ChangeState(y, "LOADING")

-----------------------------------------------------------------------------

\* processDDPacket(): headers of newer LSAs go on the request list.
AddRequests(x, lsas) ==
    LET For(k) == {i \in DOMAIN lsas : lsas[i].key = k /\ lsas[i].ver > x.db[k]}
    IN  [x EXCEPT !.req = [k \in Routers |->
            IF @[k] # 0 \/ For(k) = {} THEN @[k] ELSE lsas[Min(For(k))].ver]]

BadMasterNext(x, p, starting) ==
    LET y == [x EXCEPT !.ddSeq = @ + 1]
    IN  IF ~p.M THEN ExchangeDone(y)
        ELSE IF starting THEN y ELSE SendDD(y, FALSE)

MasterNext(x, p, starting) ==
    LET y == [x EXCEPT !.ddSeq = @ + 1]
    IN  IF y.summary = <<>> /\ ~p.M THEN ExchangeDone(y)
        ELSE IF starting THEN y ELSE SendDD(y, FALSE)

SlaveNext(x, p, starting) ==
    LET y == [x EXCEPT !.ddSeq = p.seq]
        z == IF starting THEN y ELSE SendDD(y, FALSE)
    IN  IF ~p.M /\ z.summary = <<>> THEN ExchangeDone(z) ELSE z

ProcessDDPacket(x, p, starting) ==
    LET y == AddRequests(x, p.lsas)
    IN  IF y.rel = "MASTER" THEN MasterNext(y, p, starting)
                            ELSE SlaveNext(y, p, starting)

Negotiated(x, p, rel) ==
    LET y == [x EXCEPT !.rel = rel, !.lastRcv = PacketID(p),
                       !.ddSeq = IF rel = "SLAVE" THEN p.seq ELSE @]
    IN  RequestMissing(NegotiationDone(ProcessDDPacket(y, p, TRUE)))

InExchangeStart(x, p) ==
    IF p.I /\ p.M /\ p.MS /\ p.lsas = <<>>
    THEN IF Peer(x.self) > x.self THEN Negotiated(x, p, "SLAVE")
                                  ELSE SendDD(x, TRUE)
    ELSE IF ~p.I /\ ~p.MS /\ p.seq = x.ddSeq /\ Peer(x.self) < x.self
    THEN Negotiated(x, p, "MASTER")
    ELSE x

InExchange(x, p) ==
    IF PacketID(p) = x.lastRcv
    THEN IF x.rel = "SLAVE" THEN ResendDD(x) ELSE x
    ELSE IF \/ p.MS # (x.rel = "SLAVE")
            \/ p.I
            \/ p.seq # (IF x.rel = "MASTER" THEN x.ddSeq ELSE x.ddSeq + 1)
    THEN Mismatch(x)
    ELSE RequestMissing(ProcessDDPacket([x EXCEPT !.lastRcv = PacketID(p)], p, FALSE))

InLoadingOrFull(x, p) ==
    IF PacketID(p) # x.lastRcv \/ p.I THEN Mismatch(x)
    ELSE IF x.rel # "SLAVE" THEN x
    ELSE IF x.lastSent = NoDD THEN Mismatch(x) ELSE ResendDD(x)

\* TWOWAY_RECEIVED: the first time ddSequenceNumber comes from the seed.
TwoWayReceived(x) ==
    IF x.st # "INIT" THEN x
    ELSE LET y == [x EXCEPT !.ddSeq = IF x.inited THEN @ + 1 ELSE seed,
                            !.inited = TRUE]
         IN  [StartTimer(SendDD(y, TRUE), "dd") EXCEPT !.st = "EXCHANGE_START"]

\* DatabaseDescriptionHandler::processPacket()
ReceiveDD(x, p) ==
    CASE x.st = "INIT"           -> TwoWayReceived(x)
      [] x.st = "EXCHANGE_START" -> InExchangeStart(x, p)
      [] x.st = "EXCHANGE"       -> InExchange(x, p)
      [] x.st \in {"LOADING", "FULL"} -> InLoadingOrFull(x, p)
      [] OTHER                   -> x

\* LinkStateRequestHandler::processPacket(): one update packet per LSA.
ReceiveLSR(x, p) ==
    IF ~AtLeast(x, "EXCHANGE") THEN x
    ELSE IF \E k \in p.keys : x.db[k] = 0 THEN Mismatch(x)
    ELSE LET lsas == SetToSeq({[key |-> k, ver |-> x.db[k]] : k \in p.keys})
         IN  FoldLeft(LAMBDA y, l : SendUpdate(y, {l}), x, lsas)

\* LinkStateUpdateHandler::processPacket() for one LSA.  (Routers do not lose
\* their own LSA, so nobody else has a newer instance of it.)
InstallLSA(x, l) ==
    LET y == FloodReceived(x, l)
        newer == x.db[l.key] # 0
    IN  [y EXCEPT !.db[l.key] = l.ver,
                  !.rxmt[l.key] = IF newer THEN 0 ELSE @,
                  !.acks = IF newer THEN @ \cup {l} ELSE @]

DuplicateLSA(x, l) ==
    IF x.rxmt[l.key] # 0
    THEN [x EXCEPT !.rxmt[l.key] = 0]
    ELSE SendPacket(x, [type |-> "ACK", lsas |-> {l}])

ReceiveLSA(x, l) ==
    IF ~AtLeast(x, "EXCHANGE") THEN x
    ELSE IF l.ver > x.db[l.key] THEN InstallLSA(x, l)
    ELSE IF x.req[l.key] # 0 THEN Mismatch(x)
    ELSE IF l.ver = x.db[l.key] THEN DuplicateLSA(x, l)
    ELSE SendUpdate(x, {[key |-> l.key, ver |-> x.db[l.key]]})

ReceiveLSU(x, p) == FoldLeft(ReceiveLSA, x, SetToSeq(p.lsas))

BadReceiveAck(x, p) ==
    IF ~AtLeast(x, "EXCHANGE") THEN x
    ELSE LET acked == {k \in Routers : \E l \in p.lsas : l.key = k}
             y == [x EXCEPT !.rxmt = [k \in Routers |-> IF k \in acked THEN 0 ELSE @[k]]]
         IN  IF y.rxmt = NoLSAs THEN ClearTimer(y, "update") ELSE y

\* LinkStateAcknowledgementHandler::processPacket(): the instance must match.
ReceiveAck(x, p) ==
    IF ~AtLeast(x, "EXCHANGE") THEN x
    ELSE LET acked == {k \in Routers : [key |-> k, ver |-> x.rxmt[k]] \in p.lsas}
             y == [x EXCEPT !.rxmt = [k \in Routers |-> IF k \in acked THEN 0 ELSE @[k]]]
         IN  IF y.rxmt = NoLSAs THEN ClearTimer(y, "update") ELSE y

\* HelloHandler::processPacket(): HELLO_RECEIVED, then TWOWAY_RECEIVED or
\* ONEWAY_RECEIVED.
ReceiveHello(x, p) ==
    LET y == RestartTimer([x EXCEPT !.st = IF @ = "DOWN" THEN "INIT" ELSE @],
                          "inactivity")
    IN  IF p.seen THEN TwoWayReceived(y)
        ELSE IF AtLeast(y, "EXCHANGE_START") THEN ChangeState(Reset(y), "INIT")
        ELSE y

Receive(x, p) == CASE p.type = "HELLO" -> ReceiveHello(x, p)
                   [] p.type = "DD"    -> ReceiveDD(x, p)
                   [] p.type = "LSR"   -> ReceiveLSR(x, p)
                   [] p.type = "LSU"   -> ReceiveLSU(x, p)
                   [] p.type = "ACK"   -> ReceiveAck(x, p)

-----------------------------------------------------------------------------

\* What a handler leaves becomes the state, what it sent goes on the way.
Done(r, x, arriving) ==
    /\ x.ddSeq <= MaxDDSeq /\ x.db[r] <= MaxVersion
    /\ nbr' = [nbr EXCEPT ![r] = [x EXCEPT !.out = <<>>]]
    /\ link' = [link EXCEPT ![Peer(r)] = @ \o x.out, ![r] = arriving]
    /\ \A q \in Routers : Len(link'[q]) <= MaxTransit
    /\ seed' = IF x.inited /\ ~nbr[r].inited THEN seed + 1 ELSE seed

PacketArrives(r) ==
    /\ link[r] # <<>>
    /\ Done(r, Receive(nbr[r], Head(link[r])), Tail(link[r]))
    /\ UNCHANGED <<disturbances, lostDD>>

\* An early timer: packets are on the way that might make it needless.
Timely == \A r \in Routers : \A i \in DOMAIN link[r] : link[r][i].type = "HELLO"
Disturb == disturbances < MaxDisturbances /\ disturbances' = disturbances + 1
Expires(r, t) == /\ t \in nbr[r].timers
                 /\ IF Timely THEN UNCHANGED disturbances ELSE Disturb
                 /\ UNCHANGED lostDD

DDTimer(r) ==
    LET x == ClearTimer(nbr[r], "dd")
    IN  /\ Expires(r, "dd")
        /\ Done(r, CASE x.st = "EXCHANGE_START" -> StartTimer(ResendDD(x), "dd")
                     [] x.st \in {"LOADING", "FULL"} -> [x EXCEPT !.lastSent = NoDD]
                     [] OTHER -> x, link[r])

RequestTimer(r) ==
    LET x == ClearTimer(nbr[r], "request")
    IN  /\ Expires(r, "request")
        /\ Done(r, IF x.st \in {"EXCHANGE", "LOADING"}
                   THEN StartTimer(SendRequest(x), "request") ELSE x, link[r])

\* retransmitUpdatePacket()
UpdateTimer(r) ==
    LET x == ClearTimer(nbr[r], "update")
        lsas == {[key |-> k, ver |-> x.rxmt[k]] : k \in {k \in Routers : x.rxmt[k] # 0}}
    IN  /\ Expires(r, "update")
        /\ Done(r, IF AtLeast(x, "EXCHANGE")
                   THEN StartTimer(SendUpdate(x, lsas), "update") ELSE x, link[r])

\* The neighbor has been silent for RouterDeadInterval: hellos were lost.
InactivityTimer(r) ==
    LET x == ClearTimer(nbr[r], "inactivity")
    IN  /\ "inactivity" \in nbr[r].timers
        /\ Disturb /\ UNCHANGED lostDD
        /\ Done(r, ChangeState(Reset(x), "DOWN"), link[r])

\* sendDelayedAcknowledgements()
SendDelayedAcks(r) ==
    /\ nbr[r].acks # {}
    /\ Done(r, SendPacket([nbr[r] EXCEPT !.acks = {}],
                          [type |-> "ACK", lsas |-> nbr[r].acks]), link[r])
    /\ UNCHANGED <<disturbances, lostDD>>

\* The hello timer: the router names the neighbor once it is INIT or above.
\* (Bound: not while something is on the way.)
HelloTimer(r) ==
    /\ link[Peer(r)] = <<>>
    /\ Done(r, SendPacket(nbr[r], [type |-> "HELLO", seen |-> AtLeast(nbr[r], "INIT")]),
            link[r])
    /\ UNCHANGED <<disturbances, lostDD>>

\* A link elsewhere changes: the router LSA is originated anew and flooded.
Reoriginate(r) ==
    /\ Disturb /\ UNCHANGED lostDD
    /\ Done(r, Retransmit([nbr[r] EXCEPT !.db[r] = @ + 1], r), link[r])

LosePacket(r) ==
    /\ link[r] # <<>> /\ Disturb
    /\ link' = [link EXCEPT ![r] = Tail(@)]
    /\ lostDD' = (lostDD \/ (Head(link[r]).type = "DD"))
    /\ UNCHANGED <<nbr, seed>>

OSPFNext == \E r \in Routers :
    \/ PacketArrives(r) \/ HelloTimer(r) \/ DDTimer(r) \/ RequestTimer(r)
    \/ UpdateTimer(r) \/ SendDelayedAcks(r) \/ InactivityTimer(r)
    \/ Reoriginate(r) \/ LosePacket(r)

\* The simulator delivers every timer message and the link what it does not lose.
OSPFFairness == \A r \in Routers :
    /\ WF_ospfVars(PacketArrives(r)) /\ WF_ospfVars(HelloTimer(r))
    /\ WF_ospfVars(DDTimer(r))       /\ WF_ospfVars(RequestTimer(r))
    /\ WF_ospfVars(UpdateTimer(r))   /\ WF_ospfVars(SendDelayedAcks(r))

OSPFSpec == OSPFInit /\ [][OSPFNext]_ospfVars /\ OSPFFairness

-----------------------------------------------------------------------------

BothFull == \A r \in Routers : nbr[r].st = "FULL"

\* Fully adjacent routers have the same database, but for what the router with
\* the newer instance is still retransmitting.
FullMeansSynchronized ==
    BothFull => \A r \in Routers : \A k \in Routers :
        nbr[r].db[k] > nbr[Peer(r)].db[k] => nbr[r].rxmt[k] = nbr[r].db[k]

\* No timer is started twice; while there is something to retransmit its timer
\* runs, and a timer runs only in the states that handle it.  A timer may run with
\* nothing to retransmit: removeFromRequestList() leaves the request timer alone
\* in EXCHANGE, and the update timer goes on with an empty list.
OSPFTimersRight ==
    \A r \in Routers : LET x == nbr[r] IN
        /\ ~x.fault
        /\ x.st = "EXCHANGE_START" => "dd" \in x.timers
        /\ x.st = "LOADING" => "request" \in x.timers /\ Requested(x) # {}
        /\ x.rxmt # NoLSAs => "update" \in x.timers
        /\ "request" \in x.timers => x.st \in {"EXCHANGE", "LOADING"}
        /\ "update" \in x.timers => AtLeast(x, "EXCHANGE")

\* The adjacency is formed in the end and the databases agree, unless a DD packet
\* was lost.
AdjacencyForms ==
    <>(lostDD \/ (BothFull /\ \A r, q \in Routers : nbr[r].db = nbr[q].db))

=============================================================================
