--------------------------- MODULE TCPDemuxProofs ---------------------------
(***************************************************************************)
(* The tables of the TCP module, its errors and the sockets above it, for  *)
(* every number of connections, commands and indications and every set of  *)
(* ports and addresses.                                                    *)
(*                                                                         *)
(* DemuxInv is the inductive invariant.  The lemmas of the first part say  *)
(* what each table operation does to a table that is in order (InOrder).   *)
(* The second part takes one id at a time: while no command and indication *)
(* about it have crossed, its commands, indications, socket and connection *)
(* fit together (Agreed), and each move of the state machine leaves them   *)
(* so.  A connection that has put off a CLOSE fits more of them than       *)
(* another one (StillOpen, PeerClosed): its socket was closed before it,   *)
(* or took an indication sent before the FIN for the latest news.  The     *)
(* last part takes the actions one by one.                                 *)
(***************************************************************************)
EXTENDS TCPDemux, TLAPS, FiniteSetTheorems, WellFoundedInduction

TableFields == {"conn", "byId", "byPair", "used", "last", "fault"}
ConnFields == {"id", "st", "active", "la", "lp", "r", "fork", "deferred"}

\* tcpAppConnMap names the connections under their ids, each once.
IdsInOrder(t) ==
    /\ \A o \in DOMAIN t.conn : t.conn[o].id \in DOMAIN t.byId /\ t.byId[t.conn[o].id] = o
    /\ \A i \in DOMAIN t.byId : t.byId[i] \in DOMAIN t.conn /\ t.conn[t.byId[i]].id = i

\* tcpConnMap names them under their socket pairs, each once.
PairsInOrder(t) ==
    /\ \A o \in DOMAIN t.conn : /\ Pair(t.conn[o]) \in DOMAIN t.byPair
                                /\ t.byPair[Pair(t.conn[o])] = o
    /\ \A x \in DOMAIN t.byPair : /\ t.byPair[x] \in DOMAIN t.conn
                                  /\ Pair(t.conn[t.byPair[x]]) = x

OnPort(t, p) == {o \in DOMAIN t.conn : t.conn[o].lp = p}

PortsInOrder(t) ==
    /\ DOMAIN t.used = Ports
    /\ \A p \in Ports : t.used[p] = Cardinality(OnPort(t, p))

Shaped(t) ==
    /\ DOMAIN t = TableFields
    /\ IsFiniteSet(DOMAIN t.conn)
    /\ \A o \in DOMAIN t.conn : DOMAIN t.conn[o] = ConnFields
    /\ t.last \in Ports

IdsBelow(t, n) == \A o \in DOMAIN t.conn : t.conn[o].id \in Nat /\ t.conn[o].id < n

InOrder(t, n) ==
    /\ Shaped(t) /\ IdsBelow(t, n)
    /\ IdsInOrder(t) /\ PairsInOrder(t) /\ PortsInOrder(t)

-----------------------------------------------------------------------------
\* new TCPConnection: the object is not one of those that exist.
LEMMA FreshObjectIsNew ==
    ASSUME NEW t, IsFiniteSet(DOMAIN t.conn)
    PROVE  FreshObject(t) \notin DOMAIN t.conn
<1> DEFINE n == Cardinality(DOMAIN t.conn)
<1>1. n \in Nat
  BY FS_CardinalityType
<1>2. Cardinality(1 .. n + 1) = n + 1
  BY <1>1, FS_Interval
<1>3. ~ (1 .. n + 1 \subseteq DOMAIN t.conn)
  <2>1. SUFFICES ASSUME 1 .. n + 1 \subseteq DOMAIN t.conn PROVE FALSE
    OBVIOUS
  <2>2. Cardinality(1 .. n + 1) <= n
    BY <2>1, FS_Subset
  <2> QED  BY <1>1, <1>2, <2>2
<1>4. \E o \in 1 .. n + 1 : o \notin DOMAIN t.conn
  BY <1>3
<1> QED  BY <1>4 DEF FreshObject

\* The properties of the module, stated of a table.
LEMMA InOrderMeans ==
    ASSUME IdsInOrder(tcp), PairsInOrder(tcp), PortsInOrder(tcp)
    PROVE  TablesAgree /\ PortsCounted
<1>1. DOMAIN tcp.byId = {tcp.conn[o].id : o \in DOMAIN tcp.conn}
  BY DEF IdsInOrder
<1>2. DOMAIN tcp.byPair = {Pair(tcp.conn[o]) : o \in DOMAIN tcp.conn}
  BY DEF PairsInOrder
<1>3. PortsCounted
  BY DEF PortsInOrder, OnPort, PortsCounted
<1> QED  BY <1>1, <1>2, <1>3 DEF IdsInOrder, PairsInOrder, TablesAgree

-----------------------------------------------------------------------------
(* The table operations.                                                   *)

\* usedEphemeralPorts with port p counted once more, and once less.
OneMore(used, p) == [q \in Ports |-> IF q = p THEN used[q] + 1 ELSE used[q]]
OneLess(used, p) == [q \in Ports |-> IF q = p /\ used[q] > 0 THEN used[q] - 1 ELSE used[q]]

\* A connection that is told its addresses.
Qualified(c, r) == [c EXCEPT !.la = HostAddr, !.r = r]

LEMMA QualifiedFacts ==
    ASSUME NEW c, DOMAIN c = ConnFields, NEW r
    PROVE  LET d == Qualified(c, r)
           IN  /\ DOMAIN d = ConnFields
               /\ d.id = c.id /\ d.lp = c.lp /\ d.st = c.st
               /\ d.active = c.active /\ d.fork = c.fork /\ d.r = r
               /\ d.deferred = c.deferred
               /\ Pair(d) = <<HostAddr, c.lp, r>>
BY DEF Qualified, ConnFields, Pair

\* addSockPair() of a new connection.
LEMMA AddSockPairKeeps ==
    ASSUME NEW t, Shaped(t), PairsInOrder(t), PortsInOrder(t),
           NEW o, o \notin DOMAIN t.conn, NEW c, DOMAIN c = ConnFields,
           Pair(c) \notin DOMAIN t.byPair
    PROVE  LET u == AddSockPair(t, o, c)
           IN  /\ Shaped(u) /\ PairsInOrder(u) /\ PortsInOrder(u)
               /\ u.byId = t.byId /\ u.fault = t.fault
               /\ DOMAIN u.conn = DOMAIN t.conn \cup {o}
               /\ u.conn[o] = c
               /\ \A x \in DOMAIN t.conn : u.conn[x] = t.conn[x]
<1> DEFINE u == AddSockPair(t, o, c)
<1>0. DOMAIN t = TableFields
  BY DEF Shaped
<1>1. /\ DOMAIN u = TableFields /\ u.last = t.last
      /\ u.byId = t.byId /\ u.fault = t.fault
      /\ u.conn = Put(t.conn, o, c)
      /\ u.byPair = Put(t.byPair, Pair(c), o)
      /\ u.used = OneMore(t.used, c.lp)
  BY <1>0 DEF AddSockPair, TableFields, OneMore
<1> HIDE DEF u
<1>2. /\ DOMAIN u.conn = DOMAIN t.conn \cup {o}
      /\ u.conn[o] = c
      /\ \A x \in DOMAIN t.conn : x # o /\ u.conn[x] = t.conn[x]
  BY <1>1 DEF Put
<1>3. /\ DOMAIN u.byPair = DOMAIN t.byPair \cup {Pair(c)}
      /\ u.byPair[Pair(c)] = o
      /\ \A x \in DOMAIN t.byPair : u.byPair[x] = t.byPair[x]
  BY <1>1 DEF Put
<1>4. Shaped(u)
  BY <1>1, <1>2, FS_AddElement DEF Shaped
<1>5. PairsInOrder(u)
  BY <1>2, <1>3 DEF PairsInOrder
<1>6. ASSUME NEW p \in Ports PROVE u.used[p] = Cardinality(OnPort(u, p))
  <2>1. IsFiniteSet(OnPort(t, p))
    BY FS_Subset DEF OnPort, Shaped
  <2>2. CASE p = c.lp
    <3>1. OnPort(u, p) = OnPort(t, p) \cup {o} /\ o \notin OnPort(t, p)
      BY <1>2, <2>2 DEF OnPort
    <3>2. Cardinality(OnPort(u, p)) = Cardinality(OnPort(t, p)) + 1
      BY <2>1, <3>1, FS_AddElement
    <3>3. u.used[p] = t.used[p] + 1
      BY <1>1, <2>2 DEF OneMore
    <3> QED  BY <3>2, <3>3 DEF PortsInOrder
  <2>3. CASE p # c.lp
    <3>1. OnPort(u, p) = OnPort(t, p)
      BY <1>2, <2>3 DEF OnPort
    <3> QED  BY <1>1, <2>3, <3>1 DEF PortsInOrder, OneMore
  <2> QED  BY <2>2, <2>3
<1>7. DOMAIN u.used = Ports
  BY <1>1 DEF OneMore
<1> QED  BY <1>1, <1>2, <1>4, <1>5, <1>6, <1>7 DEF PortsInOrder, u

\* updateSockPair(): nobody else has the socket pair that o is given.
Updatable(t, o, r) ==
    \/ <<HostAddr, t.conn[o].lp, r>> \notin DOMAIN t.byPair
    \/ <<HostAddr, t.conn[o].lp, r>> = Pair(t.conn[o])

LEMMA UpdateSockPairFacts ==
    ASSUME NEW t, Shaped(t), PairsInOrder(t), NEW o \in DOMAIN t.conn, NEW r
    PROVE  LET u == UpdateSockPair(t, o, r)
               c == t.conn[o]
               d == Qualified(c, r)
           IN  /\ DOMAIN u = TableFields
               /\ u.byId = t.byId /\ u.last = t.last
               /\ u.fault = t.fault /\ u.used = t.used
               /\ DOMAIN u.conn = DOMAIN t.conn
               /\ u.conn[o] = d /\ DOMAIN d = ConnFields
               /\ d.id = c.id /\ d.lp = c.lp /\ Pair(d) = <<HostAddr, c.lp, r>>
               /\ \A x \in DOMAIN t.conn : x # o => u.conn[x] = t.conn[x]
               /\ u.byPair = Put(Drop(t.byPair, Pair(c)), Pair(d), o)
<1> DEFINE u == UpdateSockPair(t, o, r)
           c == t.conn[o]
           d == Qualified(c, r)
<1>1. Pair(c) \in DOMAIN t.byPair /\ t.byPair[Pair(c)] = o
  BY DEF PairsInOrder
<1>2. u = [t EXCEPT !.conn[o] = d, !.byPair = Put(Drop(@, Pair(c)), Pair(d), o)]
  BY <1>1 DEF UpdateSockPair, Qualified
<1>3. /\ DOMAIN d = ConnFields
      /\ d.id = c.id /\ d.lp = c.lp /\ Pair(d) = <<HostAddr, c.lp, r>>
  BY QualifiedFacts DEF Shaped
<1> HIDE DEF d
<1>5. DOMAIN t = TableFields
  BY DEF Shaped
<1>6. /\ DOMAIN u = TableFields
      /\ u.byId = t.byId /\ u.last = t.last
      /\ u.fault = t.fault /\ u.used = t.used
      /\ u.conn = [t.conn EXCEPT ![o] = d]
      /\ u.byPair = Put(Drop(t.byPair, Pair(c)), Pair(d), o)
  BY <1>2, <1>5 DEF TableFields
<1> HIDE DEF u
<1> QED  BY <1>3, <1>6 DEF u, d

LEMMA UpdateSockPairKeeps ==
    ASSUME NEW t, Shaped(t), PairsInOrder(t), PortsInOrder(t),
           NEW o \in DOMAIN t.conn, NEW r, Updatable(t, o, r)
    PROVE  LET u == UpdateSockPair(t, o, r)
           IN  /\ Shaped(u) /\ PairsInOrder(u) /\ PortsInOrder(u)
               /\ DOMAIN u.byPair = (DOMAIN t.byPair \ {Pair(t.conn[o])})
                                        \cup {<<HostAddr, t.conn[o].lp, r>>}
<1> DEFINE u == UpdateSockPair(t, o, r)
           c == t.conn[o]
           d == Qualified(c, r)
<1>1. /\ DOMAIN u = TableFields
      /\ u.last = t.last /\ u.used = t.used
      /\ DOMAIN u.conn = DOMAIN t.conn
      /\ u.conn[o] = d /\ DOMAIN d = ConnFields
      /\ d.lp = c.lp /\ Pair(d) = <<HostAddr, c.lp, r>>
      /\ \A x \in DOMAIN t.conn : x # o => u.conn[x] = t.conn[x]
      /\ u.byPair = Put(Drop(t.byPair, Pair(c)), Pair(d), o)
  BY UpdateSockPairFacts
<1>2. Pair(d) \notin DOMAIN t.byPair \/ Pair(d) = Pair(c)
  BY <1>1 DEF Updatable
<1> HIDE DEF u, d
<1>3. /\ DOMAIN u.byPair = (DOMAIN t.byPair \ {Pair(c)}) \cup {Pair(d)}
      /\ u.byPair[Pair(d)] = o
      /\ \A x \in DOMAIN t.byPair : x # Pair(c) => /\ x # Pair(d)
                                                   /\ u.byPair[x] = t.byPair[x]
  BY <1>1, <1>2 DEF Put, Drop
<1>4. Shaped(u)
  BY <1>1 DEF Shaped
<1>5. PairsInOrder(u)
  <2>1. \A x \in DOMAIN t.conn : x # o => Pair(t.conn[x]) # Pair(c)
    BY DEF PairsInOrder
  <2> QED  BY <1>1, <1>3, <2>1 DEF PairsInOrder
<1>6. \A p \in Ports : OnPort(u, p) = OnPort(t, p)
  BY <1>1 DEF OnPort
<1>7. PortsInOrder(u)
  BY <1>1, <1>6 DEF PortsInOrder
<1> QED  BY <1>1, <1>3, <1>4, <1>5, <1>7 DEF u

LEMMA UpdateSockPairInOrder ==
    ASSUME NEW t, NEW n, InOrder(t, n), NEW o \in DOMAIN t.conn, NEW r, Updatable(t, o, r)
    PROVE  InOrder(UpdateSockPair(t, o, r), n)
<1> DEFINE u == UpdateSockPair(t, o, r)
<1>1. Shaped(u) /\ PairsInOrder(u) /\ PortsInOrder(u)
  BY UpdateSockPairKeeps DEF InOrder
<1>2. /\ u.byId = t.byId /\ DOMAIN u.conn = DOMAIN t.conn
      /\ u.conn[o].id = t.conn[o].id
      /\ \A x \in DOMAIN t.conn : x # o => u.conn[x] = t.conn[x]
  BY UpdateSockPairFacts DEF InOrder
<1> HIDE DEF u
<1> QED  BY <1>1, <1>2 DEF InOrder, IdsBelow, IdsInOrder, u

\* removeConnection().
LEMMA RemoveConnectionInOrder ==
    ASSUME NEW t, NEW n, InOrder(t, n), NEW o \in DOMAIN t.conn
    PROVE  LET u == RemoveConnection(t, o)
           IN  /\ InOrder(u, n)
               /\ DOMAIN u.conn = DOMAIN t.conn \ {o}
               /\ DOMAIN u.byId = DOMAIN t.byId \ {t.conn[o].id}
               /\ \A x \in DOMAIN t.conn : x # o => u.conn[x] = t.conn[x]
               /\ u.fault = t.fault
<1> DEFINE u == RemoveConnection(t, o)
           c == t.conn[o]
<1>0. /\ DOMAIN t = TableFields /\ Shaped(t)
      /\ IdsInOrder(t) /\ PairsInOrder(t) /\ PortsInOrder(t)
  BY DEF InOrder, Shaped
<1>1. /\ DOMAIN u = TableFields /\ u.last = t.last /\ u.fault = t.fault
      /\ u.conn = Drop(t.conn, o)
      /\ u.byId = Drop(t.byId, c.id)
      /\ u.byPair = Drop(t.byPair, Pair(c))
      /\ u.used = OneLess(t.used, c.lp)
  BY <1>0 DEF RemoveConnection, TableFields, OneLess
<1> HIDE DEF u
<1>2. /\ DOMAIN u.conn = DOMAIN t.conn \ {o}
      /\ \A x \in DOMAIN t.conn : x # o => u.conn[x] = t.conn[x]
  BY <1>1 DEF Drop
<1>3. /\ DOMAIN u.byId = DOMAIN t.byId \ {c.id}
      /\ \A x \in DOMAIN t.byId : x # c.id => u.byId[x] = t.byId[x]
  BY <1>1 DEF Drop
<1>4. /\ DOMAIN u.byPair = DOMAIN t.byPair \ {Pair(c)}
      /\ \A x \in DOMAIN t.byPair : x # Pair(c) => u.byPair[x] = t.byPair[x]
  BY <1>1 DEF Drop
<1>5. Shaped(u)
  BY <1>0, <1>1, <1>2, FS_RemoveElement DEF Shaped
<1>6. IdsInOrder(u)
  BY <1>0, <1>2, <1>3 DEF IdsInOrder
<1>7. PairsInOrder(u)
  BY <1>0, <1>2, <1>4 DEF PairsInOrder
<1>8. IdsBelow(u, n)
  BY <1>2 DEF InOrder, IdsBelow
<1>9. ASSUME NEW p \in Ports PROVE u.used[p] = Cardinality(OnPort(u, p))
  <2>1. IsFiniteSet(OnPort(t, p))
    BY <1>0, FS_Subset DEF OnPort, Shaped
  <2>2. t.used[p] = Cardinality(OnPort(t, p))
    BY <1>0 DEF PortsInOrder
  <2>3. CASE p = c.lp
    <3>1. OnPort(u, p) = OnPort(t, p) \ {o} /\ o \in OnPort(t, p)
      BY <1>2, <2>3 DEF OnPort
    <3>2. Cardinality(OnPort(u, p)) = Cardinality(OnPort(t, p)) - 1
      BY <2>1, <3>1, FS_RemoveElement
    <3>3. Cardinality(OnPort(t, p)) \in Nat /\ Cardinality(OnPort(t, p)) # 0
      BY <2>1, <3>1, FS_CardinalityType, FS_EmptySet
    <3>4. u.used[p] = IF t.used[p] > 0 THEN t.used[p] - 1 ELSE t.used[p]
      BY <1>1, <2>3 DEF OneLess
    <3> QED  BY <2>2, <3>2, <3>3, <3>4
  <2>4. CASE p # c.lp
    <3>1. OnPort(u, p) = OnPort(t, p)
      BY <1>2, <2>4 DEF OnPort
    <3> QED  BY <1>1, <2>2, <2>4, <3>1 DEF OneLess
  <2> QED  BY <2>3, <2>4
<1>10. PortsInOrder(u)
  BY <1>1, <1>9 DEF PortsInOrder, OneLess
<1> QED
  BY <1>1, <1>2, <1>3, <1>5, <1>6, <1>7, <1>8, <1>10 DEF InOrder, u

\* Table t with object o under id i, and l as the port handed out last.
EnteredAs(t, i, o, l) == [t EXCEPT !.byId = Put(@, i, o), !.last = l]

\* A new connection, entered under its id before its socket pair: OPEN.
LEMMA OpenInOrder ==
    ASSUME NEW t, NEW n, InOrder(t, n),
           NEW o, o \notin DOMAIN t.conn, NEW l \in Ports,
           NEW c, DOMAIN c = ConnFields, Pair(c) \notin DOMAIN t.byPair,
           c.id \notin DOMAIN t.byId, c.id \in Nat, c.id < n
    PROVE  LET u == AddSockPair(EnteredAs(t, c.id, o, l), o, c)
           IN  /\ InOrder(u, n) /\ u.fault = t.fault
               /\ DOMAIN u.conn = DOMAIN t.conn \cup {o} /\ u.conn[o] = c
               /\ DOMAIN u.byId = DOMAIN t.byId \cup {c.id}
               /\ \A x \in DOMAIN t.conn : u.conn[x] = t.conn[x]
<1> DEFINE s == EnteredAs(t, c.id, o, l)
           u == AddSockPair(s, o, c)
<1>0. /\ DOMAIN t = TableFields /\ Shaped(t)
      /\ IdsInOrder(t) /\ PairsInOrder(t) /\ PortsInOrder(t)
  BY DEF InOrder, Shaped
<1>1. /\ DOMAIN s = TableFields /\ s.last = l /\ s.fault = t.fault
      /\ s.conn = t.conn /\ s.byPair = t.byPair /\ s.used = t.used
      /\ s.byId = Put(t.byId, c.id, o)
  BY <1>0 DEF TableFields, EnteredAs
<1> HIDE DEF s
<1>2. Shaped(s) /\ PairsInOrder(s) /\ PortsInOrder(s)
  BY <1>0, <1>1 DEF Shaped, PairsInOrder, PortsInOrder, OnPort
<1>3. o \notin DOMAIN s.conn /\ Pair(c) \notin DOMAIN s.byPair
  BY <1>1
<1>4. /\ Shaped(u) /\ PairsInOrder(u) /\ PortsInOrder(u)
      /\ u.byId = s.byId /\ u.fault = s.fault
      /\ DOMAIN u.conn = DOMAIN s.conn \cup {o}
      /\ u.conn[o] = c
      /\ \A x \in DOMAIN s.conn : u.conn[x] = s.conn[x]
  BY <1>2, <1>3, AddSockPairKeeps
<1> HIDE DEF u
<1>5. /\ DOMAIN u.conn = DOMAIN t.conn \cup {o} /\ u.conn[o] = c
      /\ \A x \in DOMAIN t.conn : u.conn[x] = t.conn[x]
      /\ u.byId = Put(t.byId, c.id, o) /\ u.fault = t.fault
  BY <1>1, <1>4
<1>6. /\ DOMAIN u.byId = DOMAIN t.byId \cup {c.id}
      /\ u.byId[c.id] = o
      /\ \A x \in DOMAIN t.byId : x # c.id => u.byId[x] = t.byId[x]
  BY <1>5 DEF Put
<1>7. IdsInOrder(u)
  BY <1>0, <1>5, <1>6 DEF IdsInOrder
<1>8. IdsBelow(u, n)
  BY <1>5 DEF InOrder, IdsBelow
<1> QED  BY <1>4, <1>5, <1>6, <1>7, <1>8 DEF InOrder, u, s

\* The listening connection that a fork leaves behind.
Clone(c) == [c EXCEPT !.r = Blank, !.active = FALSE, !.fork = TRUE, !.st = "LISTEN"]

LEMMA CloneFacts ==
    ASSUME NEW c, DOMAIN c = ConnFields
    PROVE  LET d == Clone(c)
           IN  /\ DOMAIN d = ConnFields
               /\ d.id = c.id /\ d.lp = c.lp /\ d.st = "LISTEN"
               /\ d.active = FALSE /\ d.fork = TRUE /\ d.r = Blank
               /\ d.deferred = c.deferred
               /\ Pair(d) = <<c.la, c.lp, Blank>>
BY DEF Clone, ConnFields, Pair

\* A connection is given a new id.
LEMMA NewIdFacts ==
    ASSUME NEW t, DOMAIN t = TableFields, NEW o \in DOMAIN t.conn,
           DOMAIN t.conn[o] = ConnFields, NEW id, NEW f
    PROVE  LET u == [t EXCEPT !.conn[o].id = id, !.byId = f]
           IN  /\ DOMAIN u = TableFields /\ u.fault = t.fault /\ u.last = t.last
               /\ u.byPair = t.byPair /\ u.used = t.used /\ u.byId = f
               /\ DOMAIN u.conn = DOMAIN t.conn
               /\ u.conn[o] = [t.conn[o] EXCEPT !.id = id]
               /\ \A x \in DOMAIN t.conn : x # o => u.conn[x] = t.conn[x]
<1> DEFINE u == [t EXCEPT !.conn[o].id = id, !.byId = f]
<1>1. /\ DOMAIN u = TableFields /\ u.fault = t.fault /\ u.last = t.last
      /\ u.byPair = t.byPair /\ u.used = t.used /\ u.byId = f
      /\ u.conn = [t.conn EXCEPT ![o].id = id]
  BY DEF TableFields
<1> HIDE DEF u
<1>2. /\ DOMAIN u.conn = DOMAIN t.conn
      /\ u.conn[o] = [t.conn[o] EXCEPT !.id = id]
      /\ \A x \in DOMAIN t.conn : x # o => u.conn[x] = t.conn[x]
  BY <1>1
<1> QED  BY <1>1, <1>2 DEF u

\* The connection that a fork makes of c, under id n.
Forked(c, r, n) == [Qualified(c, r) EXCEPT !.id = n]

\* Table u after connection o of t was forked: o2 goes on listening, and o has
\* id n; or the address of o2 was taken.
ForkedTo(t, u, o, o2, r, n) ==
    \/ u.fault = "address in use" /\ t.conn[o].r # Blank
    \/ /\ u.fault = "none"
       /\ InOrder(u, n + 1)
       /\ DOMAIN u.conn = DOMAIN t.conn \cup {o2}
       /\ u.conn[o] = Forked(t.conn[o], r, n)
       /\ u.conn[o2] = Clone(t.conn[o])
       /\ \A x \in DOMAIN t.conn : x # o => u.conn[x] = t.conn[x]
       /\ DOMAIN u.byId = DOMAIN t.byId \cup {n}

\* cloneListeningConnection() and addForkedConnection().
LEMMA ForkInOrder ==
    ASSUME NEW t, NEW n \in Nat, InOrder(t, n), t.fault = "none",
           NEW o \in DOMAIN t.conn, NEW o2, o2 \notin DOMAIN t.conn,
           NEW r, r # Blank, Updatable(t, o, r)
    PROVE  ForkedTo(t, AddForkedConnection(t, o, o2, r, n), o, o2, r, n)
<1> DEFINE c == t.conn[o]
           d == Clone(c)
           t1 == UpdateSockPair(t, o, r)
           t2 == AddSockPair(t1, o2, d)
           f == Put(Put(Drop(t2.byId, c.id), n, o), c.id, o2)
           t3 == [t2 EXCEPT !.conn[o].id = n, !.byId = f]
           u == AddForkedConnection(t, o, o2, r, n)
<1>1. u = IF t2.fault # "none" THEN t2 ELSE t3
  BY DEF AddForkedConnection, Clone
<1>2. /\ Shaped(t) /\ IdsInOrder(t) /\ PairsInOrder(t) /\ PortsInOrder(t) /\ IdsBelow(t, n)
      /\ DOMAIN c = ConnFields
  BY DEF InOrder, Shaped
<1>3. /\ DOMAIN d = ConnFields /\ d.id = c.id /\ Pair(d) = <<c.la, c.lp, Blank>>
  BY <1>2, CloneFacts
<1>4. /\ DOMAIN t1 = TableFields
      /\ t1.byId = t.byId /\ t1.fault = "none"
      /\ DOMAIN t1.conn = DOMAIN t.conn
      /\ t1.conn[o] = Qualified(c, r)
      /\ \A x \in DOMAIN t.conn : x # o => t1.conn[x] = t.conn[x]
  BY <1>2, UpdateSockPairFacts
<1>5. /\ Shaped(t1) /\ PairsInOrder(t1) /\ PortsInOrder(t1)
      /\ DOMAIN t1.byPair = (DOMAIN t.byPair \ {Pair(c)}) \cup {<<HostAddr, c.lp, r>>}
  BY <1>2, UpdateSockPairKeeps
<1> HIDE DEF u, d, t1
<1>6. CASE Pair(d) \in DOMAIN t1.byPair
  <2>1. t2 = [t1 EXCEPT !.fault = "address in use"]
    BY <1>6 DEF AddSockPair
  <2>2. t2.fault = "address in use"
    BY <1>4, <2>1 DEF TableFields
  <2>3. u.fault = "address in use"
    BY <1>1, <2>2
  <2>4. c.r # Blank
    BY <1>3, <1>5, <1>6 DEF Pair
  <2> QED  BY <2>3, <2>4 DEF u, ForkedTo
<1>7. CASE Pair(d) \notin DOMAIN t1.byPair
  <2>1. /\ Shaped(t2) /\ PairsInOrder(t2) /\ PortsInOrder(t2)
        /\ t2.byId = t1.byId /\ t2.fault = t1.fault
        /\ DOMAIN t2.conn = DOMAIN t1.conn \cup {o2}
        /\ t2.conn[o2] = d
        /\ \A x \in DOMAIN t1.conn : t2.conn[x] = t1.conn[x]
    BY <1>3, <1>4, <1>5, <1>7, AddSockPairKeeps
  <2> DEFINE e == [Qualified(c, r) EXCEPT !.id = n]
  <2>2. t2.conn[o] = Qualified(c, r) /\ o \in DOMAIN t2.conn
    BY <1>4, <2>1
  <2>3. DOMAIN t2 = TableFields /\ DOMAIN t2.conn[o] = ConnFields
    BY <2>1, <2>2 DEF Shaped
  <2> HIDE DEF t2, f
  <2>4. /\ DOMAIN t3 = TableFields /\ t3.fault = t2.fault /\ t3.last = t2.last
        /\ t3.byPair = t2.byPair /\ t3.used = t2.used /\ t3.byId = f
        /\ DOMAIN t3.conn = DOMAIN t2.conn
        /\ t3.conn[o] = e
        /\ \A x \in DOMAIN t2.conn : x # o => t3.conn[x] = t2.conn[x]
    BY <2>2, <2>3, NewIdFacts
  <2>5. u = t3
    BY <1>1, <1>4, <2>1
  <2>6. /\ DOMAIN e = ConnFields /\ e.id = n /\ Pair(e) = Pair(t2.conn[o])
        /\ e.lp = t2.conn[o].lp
    BY <2>2, <2>3 DEF ConnFields, Pair
  <2> HIDE DEF t3, e
  <2>7. Shaped(t3) /\ PairsInOrder(t3) /\ PortsInOrder(t3)
    <3>1. Shaped(t3)
      BY <2>1, <2>4, <2>6 DEF Shaped
    <3>2. PairsInOrder(t3)
      BY <2>1, <2>2, <2>4, <2>6 DEF PairsInOrder
    <3>3. \A p \in Ports : OnPort(t3, p) = OnPort(t2, p)
      BY <2>2, <2>4, <2>6 DEF OnPort
    <3>4. PortsInOrder(t3)
      BY <2>1, <2>4, <3>3 DEF PortsInOrder
    <3> QED  BY <3>1, <3>2, <3>4
  <2>8. /\ DOMAIN t3.conn = DOMAIN t.conn \cup {o2} /\ o2 # o
        /\ t3.conn[o] = e /\ t3.conn[o2] = d
        /\ \A x \in DOMAIN t.conn : x # o => t3.conn[x] = t.conn[x]
    BY <1>4, <2>1, <2>4
  <2>9. c.id \in Nat /\ c.id < n /\ c.id # n /\ c.id \in DOMAIN t.byId
        /\ n \notin DOMAIN t.byId
    BY <1>2 DEF IdsBelow, IdsInOrder
  <2>10. /\ DOMAIN f = DOMAIN t.byId \cup {n}
         /\ f[n] = o /\ f[c.id] = o2
         /\ \A x \in DOMAIN t.byId : x # c.id => f[x] = t.byId[x]
    BY <1>4, <2>1, <2>9 DEF f, Put, Drop
  <2>11. IdsInOrder(t3)
    BY <1>2, <1>3, <2>4, <2>6, <2>8, <2>9, <2>10 DEF IdsInOrder
  <2>12. IdsBelow(t3, n + 1)
    BY <1>2, <1>3, <2>6, <2>8, <2>9 DEF IdsBelow
  <2>13. InOrder(t3, n + 1) /\ t3.fault = "none"
    BY <1>4, <2>1, <2>4, <2>7, <2>11, <2>12 DEF InOrder
  <2>14. DOMAIN t3.byId = DOMAIN t.byId \cup {n}
    BY <2>4, <2>10
  <2> QED  BY <2>5, <2>8, <2>13, <2>14 DEF u, d, e, Forked, ForkedTo
<1> QED  BY <1>6, <1>7

\* A connection changes, but for its id and its socket pair.
LEMMA ConnInOrder ==
    ASSUME NEW t, NEW n, InOrder(t, n), NEW o \in DOMAIN t.conn,
           NEW d, DOMAIN d = ConnFields, d.id = t.conn[o].id, d.lp = t.conn[o].lp,
           Pair(d) = Pair(t.conn[o])
    PROVE  LET u == [t EXCEPT !.conn[o] = d]
           IN  /\ InOrder(u, n) /\ u.fault = t.fault
               /\ DOMAIN u.conn = DOMAIN t.conn /\ u.byId = t.byId
               /\ u.conn[o] = d
               /\ \A x \in DOMAIN t.conn : x # o => u.conn[x] = t.conn[x]
<1> DEFINE u == [t EXCEPT !.conn[o] = d]
<1>0. /\ DOMAIN t = TableFields /\ Shaped(t)
      /\ IdsInOrder(t) /\ PairsInOrder(t) /\ PortsInOrder(t) /\ IdsBelow(t, n)
  BY DEF InOrder, Shaped
<1>1. /\ DOMAIN u = TableFields /\ u.fault = t.fault /\ u.last = t.last
      /\ u.byPair = t.byPair /\ u.used = t.used /\ u.byId = t.byId
      /\ u.conn = [t.conn EXCEPT ![o] = d]
  BY <1>0 DEF TableFields
<1> HIDE DEF u
<1>2. /\ DOMAIN u.conn = DOMAIN t.conn /\ u.conn[o] = d
      /\ \A x \in DOMAIN t.conn : x # o => u.conn[x] = t.conn[x]
  BY <1>1
<1>4. Shaped(u)
  BY <1>0, <1>1, <1>2 DEF Shaped
<1>5. IdsInOrder(u) /\ IdsBelow(u, n)
  BY <1>0, <1>1, <1>2 DEF IdsInOrder, IdsBelow
<1>6. PairsInOrder(u)
  BY <1>0, <1>1, <1>2 DEF PairsInOrder
<1>7. \A p \in Ports : OnPort(u, p) = OnPort(t, p)
  BY <1>2 DEF OnPort
<1>8. PortsInOrder(u)
  BY <1>0, <1>1, <1>7 DEF PortsInOrder
<1> QED  BY <1>1, <1>2, <1>4, <1>5, <1>6, <1>8 DEF InOrder, u

\* Its state changes, or it puts off a CLOSE.
LEMMA StateInOrder ==
    ASSUME NEW t, NEW n, InOrder(t, n), NEW o \in DOMAIN t.conn, NEW st
    PROVE  LET u == [t EXCEPT !.conn[o].st = st]
           IN  /\ InOrder(u, n) /\ u.fault = t.fault
               /\ DOMAIN u.conn = DOMAIN t.conn /\ u.byId = t.byId
               /\ u.conn[o] = [t.conn[o] EXCEPT !.st = st]
               /\ u.conn[o].id = t.conn[o].id
               /\ \A x \in DOMAIN t.conn : x # o => u.conn[x] = t.conn[x]
<1> DEFINE d == [t.conn[o] EXCEPT !.st = st]
<1>1. /\ DOMAIN d = ConnFields /\ d.id = t.conn[o].id /\ d.lp = t.conn[o].lp
      /\ Pair(d) = Pair(t.conn[o])
  BY DEF InOrder, Shaped, ConnFields, Pair
<1>2. [t EXCEPT !.conn[o].st = st] = [t EXCEPT !.conn[o] = d]
  OBVIOUS
<1> HIDE DEF d
<1> DEFINE v == [t EXCEPT !.conn[o] = d]
<1>3. /\ InOrder(v, n) /\ v.fault = t.fault
      /\ DOMAIN v.conn = DOMAIN t.conn /\ v.byId = t.byId /\ v.conn[o] = d
      /\ \A x \in DOMAIN t.conn : x # o => v.conn[x] = t.conn[x]
  BY <1>1, ConnInOrder
<1> HIDE DEF v
<1>4. [t EXCEPT !.conn[o].st = st] = v
  BY <1>2 DEF v
<1> QED  BY <1>1, <1>3, <1>4 DEF d

LEMMA DeferInOrder ==
    ASSUME NEW t, NEW n, InOrder(t, n), NEW o \in DOMAIN t.conn
    PROVE  LET u == [t EXCEPT !.conn[o].deferred = TRUE]
           IN  /\ InOrder(u, n) /\ u.fault = t.fault
               /\ DOMAIN u.conn = DOMAIN t.conn /\ u.byId = t.byId
               /\ u.conn[o] = [t.conn[o] EXCEPT !.deferred = TRUE]
               /\ \A x \in DOMAIN t.conn : x # o => u.conn[x] = t.conn[x]
<1> DEFINE d == [t.conn[o] EXCEPT !.deferred = TRUE]
<1>1. /\ DOMAIN d = ConnFields /\ d.id = t.conn[o].id /\ d.lp = t.conn[o].lp
      /\ Pair(d) = Pair(t.conn[o])
  BY DEF InOrder, Shaped, ConnFields, Pair
<1>2. [t EXCEPT !.conn[o].deferred = TRUE] = [t EXCEPT !.conn[o] = d]
  OBVIOUS
<1> HIDE DEF d
<1> DEFINE v == [t EXCEPT !.conn[o] = d]
<1>3. /\ InOrder(v, n) /\ v.fault = t.fault
      /\ DOMAIN v.conn = DOMAIN t.conn /\ v.byId = t.byId /\ v.conn[o] = d
      /\ \A x \in DOMAIN t.conn : x # o => v.conn[x] = t.conn[x]
  BY <1>1, ConnInOrder
<1> HIDE DEF v
<1>4. [t EXCEPT !.conn[o].deferred = TRUE] = v
  BY <1>2 DEF v
<1> QED  BY <1>1, <1>3, <1>4 DEF d

-----------------------------------------------------------------------------
(* The connection with a given id: what commands and indications see.      *)

Absent == [st |-> "ABSENT"]
At(t, i) == IF i \in DOMAIN t.byId THEN t.conn[t.byId[i]] ELSE Absent

LEMMA AtFacts ==
    ASSUME NEW t, IdsInOrder(t)
    PROVE  /\ \A o \in DOMAIN t.conn : At(t, t.conn[o].id) = t.conn[o]
           /\ \A i \in DOMAIN t.byId : \E o \in DOMAIN t.conn :
                 t.conn[o].id = i /\ At(t, i) = t.conn[o]
           /\ \A i : i \notin DOMAIN t.byId => At(t, i) = Absent
BY DEF At, IdsInOrder

\* What a table operation on one connection leaves of the others.
LEMMA AtOthers ==
    ASSUME NEW t, NEW u, IdsInOrder(t), IdsInOrder(u), NEW i,
           \A j \in DOMAIN t.byId : j # i => j \in DOMAIN u.byId,
           \A j \in DOMAIN u.byId : j # i => j \in DOMAIN t.byId,
           \A o \in DOMAIN t.conn : t.conn[o].id # i => /\ o \in DOMAIN u.conn
                                                       /\ u.conn[o] = t.conn[o]
    PROVE  \A j : j # i => At(u, j) = At(t, j)
<1> SUFFICES ASSUME NEW j, j # i PROVE At(u, j) = At(t, j)
  OBVIOUS
<1>1. CASE j \in DOMAIN t.byId
  <2>1. PICK o \in DOMAIN t.conn : t.conn[o].id = j /\ At(t, j) = t.conn[o]
    BY <1>1, AtFacts
  <2>2. o \in DOMAIN u.conn /\ u.conn[o] = t.conn[o]
    BY <2>1
  <2> QED  BY <2>1, <2>2, AtFacts
<1>2. CASE j \notin DOMAIN t.byId
  BY <1>2 DEF At
<1> QED  BY <1>1, <1>2

\* The state machine took connection c of table t to new.
Performed(t, n, c, new, kinds) ==
    /\ InOrder(tcp', n) /\ tcp'.fault = "none"
    /\ inds' = inds \o Told(c.id, kinds)
    /\ At(tcp', c.id) = IF new = "CLOSED" THEN Absent ELSE [c EXCEPT !.st = new]
    /\ \A j : j # c.id => At(tcp', j) = At(t, j)

\* The state machine runs on connection o of table t.
LEMMA PerformFacts ==
    ASSUME NEW t, NEW n, InOrder(t, n), t.fault = "none", NEW o \in DOMAIN t.conn,
           NEW ev, NEW said, Perform(t, o, ev, said)
    PROVE  LET c == t.conn[o]
           IN  Performed(t, n, c, Goto(c, ev), said \o Entered(c.st, Goto(c, ev), ev))
<1> DEFINE c == t.conn[o]
           new == Goto(c, ev)
           u == [t EXCEPT !.conn[o].st = new]
<1>1. /\ tcp' = IF new = "CLOSED" THEN RemoveConnection(u, o) ELSE u
      /\ inds' = inds \o Told(c.id, said \o Entered(c.st, new, ev))
  BY DEF Perform
<1> HIDE DEF new
<1>2. /\ InOrder(u, n) /\ u.fault = t.fault
      /\ DOMAIN u.conn = DOMAIN t.conn /\ u.byId = t.byId
      /\ u.conn[o] = [c EXCEPT !.st = new] /\ u.conn[o].id = c.id
      /\ \A x \in DOMAIN t.conn : x # o => u.conn[x] = t.conn[x]
  BY StateInOrder
<1>3. IdsInOrder(t) /\ IdsInOrder(u)
  BY <1>2 DEF InOrder
<1> HIDE DEF u
<1>4. \A x \in DOMAIN t.conn : t.conn[x].id = c.id => x = o
  BY <1>3 DEF IdsInOrder
<1>5. CASE new # "CLOSED"
  <2>1. tcp' = u
    BY <1>1, <1>5
  <2>2. At(u, c.id) = [c EXCEPT !.st = new]
    <3>1. o \in DOMAIN u.conn
      BY <1>2
    <3>2. At(u, u.conn[o].id) = u.conn[o]
      BY <1>3, <3>1, AtFacts
    <3> QED  BY <1>2, <3>2, Zenon
  <2>3. \A j : j # c.id => At(u, j) = At(t, j)
    <3>1. \A x \in DOMAIN t.conn : t.conn[x].id # c.id => /\ x \in DOMAIN u.conn
                                                         /\ u.conn[x] = t.conn[x]
      BY <1>2
    <3> HIDE DEF c
    <3> QED  BY <1>2, <1>3, <3>1, AtOthers
  <2>4. At(tcp', c.id) = [c EXCEPT !.st = new]
    BY <2>1, <2>2
  <2> QED  BY <1>1, <1>2, <1>5, <2>1, <2>3, <2>4 DEF new, Performed
<1>6. CASE new = "CLOSED"
  <2> DEFINE v == RemoveConnection(u, o)
  <2>1. tcp' = v
    BY <1>1, <1>6
  <2>2. /\ InOrder(v, n) /\ v.fault = u.fault
        /\ DOMAIN v.conn = DOMAIN u.conn \ {o}
        /\ DOMAIN v.byId = DOMAIN u.byId \ {u.conn[o].id}
        /\ \A x \in DOMAIN u.conn : x # o => v.conn[x] = u.conn[x]
    <3>1. o \in DOMAIN u.conn
      BY <1>2
    <3>2. InOrder(u, n)
      BY <1>2
    <3> QED  BY <3>1, <3>2, RemoveConnectionInOrder
  <2> HIDE DEF v
  <2>3. At(v, c.id) = Absent
    BY <1>2, <2>2 DEF At
  <2>4. IdsInOrder(v)
    BY <2>2 DEF InOrder
  <2>5. \A j : j # c.id => At(v, j) = At(t, j)
    <3>1. \A x \in DOMAIN t.conn : t.conn[x].id # c.id => /\ x \in DOMAIN v.conn
                                                         /\ v.conn[x] = t.conn[x]
      BY <1>2, <2>2
    <3>2. DOMAIN v.byId = DOMAIN t.byId \ {c.id}
      BY <1>2, <2>2
    <3> HIDE DEF c
    <3> QED  BY <1>3, <2>4, <3>1, <3>2, AtOthers
  <2>6. At(tcp', c.id) = Absent
    BY <2>1, <2>3
  <2> QED  BY <1>1, <1>2, <1>6, <2>1, <2>2, <2>5, <2>6 DEF new, Performed
<1> QED  BY <1>5, <1>6

-----------------------------------------------------------------------------
(* Finding a connection, and a port.                                       *)

\* findConnForSegment() takes the most specific pair, so that the connection it
\* finds can be given the pair of the segment.
LEMMA FoundIsUpdatable ==
    ASSUME PairsInOrder(tcp), NEW o, NEW lp, NEW r, FindConnForSegment(o, lp, r)
    PROVE  Updatable(tcp, o, r)
<1> DEFINE x(i) == PairsFor(lp, r)[i]
<1>1. PICK i \in 1 .. 4 : /\ x(i) \in DOMAIN tcp.byPair /\ tcp.byPair[x(i)] = o
                          /\ \A j \in 1 .. i - 1 : x(j) \notin DOMAIN tcp.byPair
  BY DEF FindConnForSegment
<1>2. /\ x(1) = <<HostAddr, lp, r>> /\ x(2) = <<AnyAddr, lp, r>>
      /\ x(3) = <<HostAddr, lp, Blank>> /\ x(4) = <<AnyAddr, lp, Blank>>
  BY DEF PairsFor
<1>3. Pair(tcp.conn[o]) = x(i)
  BY <1>1 DEF PairsInOrder
<1>4. tcp.conn[o].lp = lp
  BY <1>2, <1>3 DEF Pair
<1>5. CASE i = 1
  BY <1>2, <1>3, <1>4, <1>5 DEF Updatable
<1>6. CASE i # 1
  <2>1. 1 \in 1 .. i - 1
    BY <1>6
  <2>2. x(1) \notin DOMAIN tcp.byPair
    BY <1>1, <2>1
  <2> QED  BY <1>2, <1>4, <2>2 DEF Updatable
<1> QED  BY <1>5, <1>6

\* getEphemeralPort() goes round the ports: each comes up.
LEMMA PortAfterType ==
    ASSUME NEW t, t.last \in Ports, NEW k \in Nat PROVE PortAfter(t, k) \in Ports
<1> DEFINE n == PortEnd - PortStart
           d == t.last - PortStart + k
<1>1. n \in Nat /\ n > 0 /\ d \in Nat /\ PortStart \in Nat /\ PortEnd \in Nat
  BY DemuxAssumption DEF Ports
<1> HIDE DEF d
<1>2. d % n \in 0 .. n - 1
  BY <1>1
<1> QED  BY <1>1, <1>2 DEF PortAfter, Ports, d

LEMMA EveryPortComesUp ==
    ASSUME NEW t, t.last \in Ports, NEW p \in Ports
    PROVE  \E k \in 1 .. PortEnd - PortStart : PortAfter(t, k) = p
<1> DEFINE n == PortEnd - PortStart
           a == t.last - PortStart
           b == p - PortStart
<1>1. /\ n \in Nat /\ n > 0 /\ a \in 0 .. n - 1 /\ b \in 0 .. n - 1
      /\ PortStart \in Nat /\ PortEnd \in Nat /\ p \in Nat
  BY DemuxAssumption DEF Ports
<1> HIDE DEF n, a, b
<1>2. CASE b > a
  <2>1. (a + (b - a)) % n = b
    BY <1>1
  <2>2. b - a \in 1 .. n
    BY <1>1, <1>2
  <2> QED  BY <1>1, <2>1, <2>2 DEF PortAfter, n, a, b
<1>3. CASE b <= a
  <2>1. (a + (b - a + n)) % n = b
    BY <1>1
  <2>2. b - a + n \in 1 .. n
    BY <1>1, <1>3
  <2> QED  BY <1>1, <2>1, <2>2 DEF PortAfter, n, a, b
<1> QED  BY <1>1, <1>2, <1>3

LEMMA LeastNatural ==
    ASSUME NEW K, K \subseteq Nat, K # {}
    PROVE  \E k \in K : \A j \in K : k <= j
<1> DEFINE R == StrictSubsetOrdering(Nat)
           T == {1 .. k : k \in K}
<1>1. IsWellFoundedOn(R, FiniteSubsetsOf(Nat))
  BY FS_StrictSubsetOrderingWellFounded
<1>2. T \subseteq FiniteSubsetsOf(Nat) /\ T # {}
  <2>1. ASSUME NEW k \in K PROVE 1 .. k \in SUBSET Nat /\ IsFiniteSet(1 .. k)
    BY FS_Interval
  <2> QED  BY <2>1 DEF FiniteSubsetsOf
<1>3. \E x \in T : \A y \in T : <<y, x>> \notin R
  BY <1>1, <1>2, WFMin
<1>4. PICK k \in K : \A j \in K : <<1 .. j, 1 .. k>> \notin R
  BY <1>3
<1>5. ASSUME NEW j \in K, j < k PROVE FALSE
  <2>1. j \in Nat /\ k \in Nat
    OBVIOUS
  <2>2. 1 .. j \subseteq 1 .. k /\ k \in 1 .. k /\ k \notin 1 .. j
    BY <2>1, <1>5
  <2>3. <<1 .. j, 1 .. k>> \in (SUBSET Nat) \X (SUBSET Nat) /\ 1 .. j # 1 .. k
    BY <2>1, <2>2
  <2>4. <<1 .. j, 1 .. k>> \in R
    BY <2>2, <2>3 DEF StrictSubsetOrdering
  <2> QED  BY <1>4, <2>4
<1> QED  BY <1>5

LEMMA GetEphemeralPortType ==
    ASSUME NEW t, t.last \in Ports, FreePorts(t) # {}
    PROVE  LET p == GetEphemeralPort(t) IN p \in Ports /\ t.used[p] = 0
<1> DEFINE K == FreePorts(t)
<1>1. K \subseteq Nat
  BY DemuxAssumption DEF FreePorts
<1>2. PICK k \in K : \A j \in K : k <= j
  BY <1>1, LeastNatural
<1> DEFINE k0 == CHOOSE i \in K : \A j \in K : i <= j
<1>4. k0 \in K
  BY <1>2
<1>5. k0 \in Nat /\ t.used[PortAfter(t, k0)] = 0
  BY <1>1, <1>4 DEF FreePorts
<1>6. PortAfter(t, k0) \in Ports
  BY <1>5, PortAfterType
<1> QED  BY <1>5, <1>6 DEF GetEphemeralPort

\* No port is free: each has a connection.
LEMMA NoFreePort ==
    ASSUME NEW t, t.last \in Ports, PortsInOrder(t), FreePorts(t) = {},
           IsFiniteSet(DOMAIN t.conn), NEW p \in Ports
    PROVE  \E o \in DOMAIN t.conn : t.conn[o].lp = p
<1>1. PICK k \in 1 .. PortEnd - PortStart : PortAfter(t, k) = p
  BY EveryPortComesUp
<1>2. t.used[p] # 0
  BY <1>1 DEF FreePorts
<1>3. OnPort(t, p) # {}
  BY <1>2, FS_EmptySet DEF PortsInOrder
<1> QED  BY <1>3 DEF OnPort

\* A free port: it has none, and no socket pair with it is taken.
LEMMA FreePortIsFree ==
    ASSUME NEW t, Shaped(t), PairsInOrder(t), PortsInOrder(t),
           NEW p \in Ports, t.used[p] = 0, NEW la, NEW r
    PROVE  <<la, p, r>> \notin DOMAIN t.byPair
<1>1. IsFiniteSet(OnPort(t, p))
  BY FS_Subset DEF OnPort, Shaped
<1>2. OnPort(t, p) = {}
  BY <1>1, FS_EmptySet DEF PortsInOrder
<1>3. \A o \in DOMAIN t.conn : t.conn[o].lp # p
  BY <1>2 DEF OnPort
<1> QED  BY <1>3 DEF PairsInOrder, Pair

-----------------------------------------------------------------------------
(* Sockets and connections: what holds of an id while commands or          *)
(* indications about it are on their way.                                  *)

States == {"LISTEN", "SYN_SENT", "SYN_RCVD", "ESTABLISHED", "CLOSE_WAIT", "LAST_ACK",
           "FIN_WAIT_1", "FIN_WAIT_2", "CLOSING", "TIME_WAIT"}
SockStates == {"LISTENING", "CONNECTING", "CONNECTED", "PEER_CLOSED", "LOCALLY_CLOSED"}
OpenKinds == {"OPEN_ACTIVE", "OPEN_PASSIVE"}
IndKinds == {"ESTABLISHED", "PEER_CLOSED", "CLOSED", "CONNECTION_REFUSED",
             "CONNECTION_RESET", "TIMED_OUT"}

Commands ==
    [kind : {"OPEN_PASSIVE"}, id : Nat, la : ListenAddrs, lp : ServicePorts,
     r : {Blank}, fork : BOOLEAN]
        \cup [kind : {"OPEN_ACTIVE"}, id : Nat, r : Remotes]
        \cup [kind : {"CLOSE", "ABORT"}, id : Nat]
IndRecords == [id : Nat, kind : IndKinds]

SockAt(so, i) == IF i \in DOMAIN so THEN so[i] ELSE "none"

\* The socket after an indication of this kind.
After(kind) == IF SocketState[kind] \in {"CLOSED", "SOCKERROR"} THEN "none"
               ELSE SocketState[kind]

\* A connection that listens, or goes back to listening.
Passive(c) == c.st = "LISTEN" \/ (c.st = "SYN_RCVD" /\ ~c.active)

\* One that was forked: no application knows its id.
Stray(c) == Passive(c) /\ c.fork /\ c.r # Blank

Sound(c) ==
    /\ c.st \in States /\ c.active \in BOOLEAN /\ c.fork \in BOOLEAN /\ c.deferred \in BOOLEAN
    /\ c.st = "LISTEN" => ~c.active
    /\ c.st = "SYN_SENT" => c.active
    /\ c.deferred => ~ Passive(c) /\ c.st # "SYN_SENT"
    /\ c.r = Blank => c.st = "LISTEN"

\* The states between our FIN and the peer's.
HalfClosed == {"FIN_WAIT_1", "FIN_WAIT_2", "CLOSING"}

\* A connection that a socket may know as open: a CLOSE that was put off is seen
\* neither when it waits nor when the FIN goes out.
StillOpen(c) == c.st = "ESTABLISHED" \/ (c.st \in HalfClosed /\ c.deferred)
PeerClosed(c) == c.st = "CLOSE_WAIT" \/ (c.st = "LAST_ACK" /\ c.deferred)

\* Socket state s and connection c belong together.
Fits(s, c) ==
    \/ /\ s = "none"
       /\ \/ c.st \in ClosingStates \cup {"ABSENT"}
          \/ Passive(c) /\ c.fork
          \/ c.st \in {"SYN_RCVD", "CLOSE_WAIT"} /\ c.deferred
    \/ s = "LISTENING" /\ Passive(c)
    \/ s = "CONNECTING" /\ c.st \in {"SYN_SENT", "SYN_RCVD"} /\ c.active
    \/ s = "CONNECTED" /\ StillOpen(c)
    \/ s = "PEER_CLOSED" /\ PeerClosed(c)
    \/ s = "LOCALLY_CLOSED" /\ (c.st \in HalfClosed \/ (c.st = "ESTABLISHED" /\ c.deferred))

\* Command q[k] comes at the right time, for a connection c and a socket in
\* state s: an OPEN is the first thing said of its id, a CLOSE finds a
\* connection that is not closing unless a CLOSE was put off, an ABORT one that
\* is not in TIME_WAIT.
Follows(q, k, kinds) == \A j \in 1 .. k - 1 : q[j].id = q[k].id => q[j].kind \in kinds
Opened(q, k) == \E j \in 1 .. k - 1 : q[j].id = q[k].id /\ q[j].kind \in OpenKinds

OpenFits(c, s, q, k) ==
    /\ q[k].kind \in OpenKinds
    /\ c.st = "ABSENT"
    /\ Follows(q, k, {})
    /\ \/ s = IF q[k].kind = "OPEN_PASSIVE" THEN "LISTENING" ELSE "CONNECTING"
       \/ s = "none" /\ \E j \in DOMAIN q : j > k /\ q[j].id = q[k].id

Opening(c) == c.st \in {"LISTEN", "SYN_SENT", "SYN_RCVD"}

CloseFits(c, s, q, k) ==
    /\ q[k].kind = "CLOSE"
    /\ \/ s = "none" /\ c.st = "ABSENT" /\ Opened(q, k)
       \/ s = "none" /\ (Opening(c) \/ PeerClosed(c))
       \/ s = "none" /\ StillOpen(c) /\ \E j \in DOMAIN q : j > k /\ q[j].id = q[k].id
       \/ s = "LOCALLY_CLOSED" /\ StillOpen(c)
    /\ Follows(q, k, OpenKinds)

AbortFits(c, s, q, k) ==
    /\ q[k].kind = "ABORT"
    /\ IF c.st = "ABSENT" THEN Opened(q, k) ELSE c.st # "TIME_WAIT"
    /\ s = "none"
    /\ \/ Follows(q, k, OpenKinds)
       \/ Follows(q, k, {"CLOSE"}) /\ StillOpen(c)

CommandFits(c, s, q, k) ==
    OpenFits(c, s, q, k) \/ CloseFits(c, s, q, k) \/ AbortFits(c, s, q, k)

LastAbout(n, k, i) == n[k].id = i /\ \A m \in DOMAIN n : m > k => n[m].id # i

\* What holds of id i unless a command and an indication have crossed: its
\* commands fit; without commands, the socket fits, or will when it has heard
\* the last of its indications.
Agreed(c, s, q, n, i) ==
    /\ \A k \in DOMAIN q : q[k].id = i => CommandFits(c, s, q, k) /\ i \notin About(n)
    /\ i \notin About(q) =>
          /\ i \notin About(n) => Fits(s, c)
          /\ \A k \in DOMAIN n : LastAbout(n, k, i) => Fits(After(n[k].kind), c)

DemuxTypes ==
    /\ nextId \in Nat
    /\ cmds \in Seq(Commands) /\ inds \in Seq(IndRecords)
    /\ DOMAIN sock \subseteq Nat /\ \A i \in DOMAIN sock : sock[i] \in SockStates
    /\ crossed \subseteq Nat

IdsUsed ==
    \A i \in About(cmds) \cup About(inds) \cup DOMAIN sock \cup crossed : i < nextId

AllAgreed ==
    \A i \in 0 .. nextId - 1 :
        i \notin crossed => Agreed(At(tcp, i), SockAt(sock, i), cmds, inds, i)

OpensNew == \A k \in DOMAIN cmds : cmds[k].kind \in OpenKinds => cmds[k].id \notin crossed

ConnsSound ==
    \A i \in DOMAIN tcp.byId :
        /\ Sound(At(tcp, i))
        /\ Passive(At(tcp, i)) => i \notin About(inds) \cup crossed
        /\ Stray(At(tcp, i)) => i \notin DOMAIN sock \cup About(cmds)

\* An application that opens a second listening socket has closed the first.
OneListens ==
    \A k \in DOMAIN cmds :
        cmds[k].kind = "OPEN_PASSIVE" =>
           /\ \A i \in DOMAIN sock :
                 sock[i] = "LISTENING" =>
                    \E m \in DOMAIN cmds : /\ m >= k
                                           /\ cmds[m].kind = "OPEN_PASSIVE" /\ cmds[m].id = i
           /\ \A m \in DOMAIN cmds :
                 m > k => /\ ~ Passive(At(tcp, cmds[m].id))
                          /\ \A j \in 1 .. k - 1 :
                                cmds[j].kind = "OPEN_PASSIVE" => cmds[j].id # cmds[m].id

SocketsInv == IdsUsed /\ AllAgreed /\ OpensNew /\ ConnsSound /\ OneListens

DemuxInv ==
    /\ DemuxTypes
    /\ InOrder(tcp, nextId)
    /\ Up => SocketsInv
    /\ FaultsExplained

-----------------------------------------------------------------------------
(* Queues: what is said of one id does not depend on the others.           *)

\* Queue p says of id j what q said, up to d places earlier.
SameFor(j, q, p) ==
    \E d \in {0, 1} : \A k \in Nat :
        /\ (k \in DOMAIN p /\ p[k].id = j) <=> (k + d \in DOMAIN q /\ q[k + d].id = j)
        /\ k \in DOMAIN p /\ p[k].id = j => p[k] = q[k + d]

LEMMA AboutMember ==
    ASSUME NEW q, NEW i PROVE i \in About(q) <=> \E k \in DOMAIN q : q[k].id = i
BY DEF About

LEMMA SameRefl == ASSUME NEW q, NEW j PROVE SameFor(j, q, q)
<1>1. \A k \in Nat : k + 0 = k
  OBVIOUS
<1> QED  BY <1>1 DEF SameFor

LEMMA SameAppend ==
    ASSUME NEW S, NEW q \in Seq(S), NEW e \in S, NEW j, e.id # j
    PROVE  SameFor(j, q, Append(q, e))
<1> DEFINE p == Append(q, e)
<1>1. /\ DOMAIN p = 1 .. Len(q) + 1 /\ DOMAIN q = 1 .. Len(q) /\ Len(q) \in Nat
      /\ p[Len(q) + 1] = e
      /\ \A k \in 1 .. Len(q) : p[k] = q[k]
  OBVIOUS
<1> HIDE DEF p
<1>2. \A k \in Nat : /\ k + 0 = k
                     /\ (k \in DOMAIN p /\ p[k].id = j) <=> (k \in DOMAIN q /\ q[k].id = j)
                     /\ k \in DOMAIN p /\ p[k].id = j => p[k] = q[k]
  BY <1>1
<1> QED  BY <1>2 DEF SameFor, p

LEMMA SameTail ==
    ASSUME NEW S, NEW q \in Seq(S), q # <<>>, NEW j, Head(q).id # j
    PROVE  SameFor(j, q, Tail(q))
<1> DEFINE p == Tail(q)
<1>1. /\ Len(q) \in Nat /\ Len(q) > 0 /\ DOMAIN q = 1 .. Len(q)
      /\ DOMAIN p = 1 .. Len(q) - 1 /\ Head(q) = q[1]
      /\ \A k \in 1 .. Len(q) - 1 : p[k] = q[k + 1]
  OBVIOUS
<1> HIDE DEF p
<1>2. \A k \in Nat : /\ (k \in DOMAIN p /\ p[k].id = j)
                           <=> (k + 1 \in DOMAIN q /\ q[k + 1].id = j)
                     /\ k \in DOMAIN p /\ p[k].id = j => p[k] = q[k + 1]
  BY <1>1
<1> QED  BY <1>2 DEF SameFor, p

LEMMA SameConcat ==
    ASSUME NEW S, NEW q \in Seq(S), NEW r \in Seq(S), NEW j,
           \A k \in DOMAIN r : r[k].id # j
    PROVE  SameFor(j, q, q \o r)
<1> DEFINE p == q \o r
<1>1. /\ Len(q) \in Nat /\ Len(r) \in Nat
      /\ DOMAIN q = 1 .. Len(q) /\ DOMAIN r = 1 .. Len(r)
      /\ DOMAIN p = 1 .. Len(q) + Len(r)
      /\ \A k \in 1 .. Len(q) : p[k] = q[k]
      /\ \A k \in 1 .. Len(q) + Len(r) : k > Len(q) => p[k] = r[k - Len(q)]
  OBVIOUS
<1> HIDE DEF p
<1>2. \A k \in Nat : /\ k + 0 = k
                     /\ (k \in DOMAIN p /\ p[k].id = j) <=> (k \in DOMAIN q /\ q[k].id = j)
                     /\ k \in DOMAIN p /\ p[k].id = j => p[k] = q[k]
  <2> TAKE k \in Nat
  <2>1. CASE k \in 1 .. Len(q)
    BY <1>1, <2>1
  <2>2. CASE k \notin 1 .. Len(q)
    <3>1. k \in DOMAIN p => k - Len(q) \in DOMAIN r /\ p[k] = r[k - Len(q)]
      BY <1>1, <2>2
    <3> QED  BY <1>1, <2>2, <3>1
  <2> QED  BY <2>1, <2>2
<1> QED  BY <1>2 DEF SameFor, p

LEMMA AgreedSame ==
    ASSUME NEW S, NEW T, NEW q \in Seq(S), NEW p \in Seq(S), NEW n \in Seq(T), NEW m \in Seq(T),
           NEW c, NEW s, NEW i, Agreed(c, s, q, n, i), SameFor(i, q, p), SameFor(i, n, m)
    PROVE  Agreed(c, s, p, m, i)
<1>0. /\ DOMAIN q = 1 .. Len(q) /\ Len(q) \in Nat /\ DOMAIN p = 1 .. Len(p) /\ Len(p) \in Nat
      /\ DOMAIN n = 1 .. Len(n) /\ Len(n) \in Nat /\ DOMAIN m = 1 .. Len(m) /\ Len(m) \in Nat
  OBVIOUS
<1>1. PICK d \in {0, 1} : \A k \in Nat :
        /\ (k \in DOMAIN p /\ p[k].id = i) <=> (k + d \in DOMAIN q /\ q[k + d].id = i)
        /\ k \in DOMAIN p /\ p[k].id = i => p[k] = q[k + d]
  BY DEF SameFor
<1>2. PICK e \in {0, 1} : \A k \in Nat :
        /\ (k \in DOMAIN m /\ m[k].id = i) <=> (k + e \in DOMAIN n /\ n[k + e].id = i)
        /\ k \in DOMAIN m /\ m[k].id = i => m[k] = n[k + e]
  BY DEF SameFor
<1>3. i \in About(p) <=> i \in About(q)
  <2>1. ASSUME NEW k \in DOMAIN q, q[k].id = i PROVE \E x \in DOMAIN p : p[x].id = i
    <3>1. k - d \in Nat /\ (k - d) + d = k
      BY <1>0
    <3> QED  BY <1>1, <2>1, <3>1
  <2>2. ASSUME NEW k \in DOMAIN p, p[k].id = i PROVE \E x \in DOMAIN q : q[x].id = i
    <3>1. k \in Nat
      BY <1>0
    <3> QED  BY <1>1, <2>2, <3>1
  <2> QED  BY <2>1, <2>2, AboutMember
<1>4. i \in About(m) <=> i \in About(n)
  <2>1. ASSUME NEW k \in DOMAIN n, n[k].id = i PROVE \E x \in DOMAIN m : m[x].id = i
    <3>1. k - e \in Nat /\ (k - e) + e = k
      BY <1>0
    <3> QED  BY <1>2, <2>1, <3>1
  <2>2. ASSUME NEW k \in DOMAIN m, m[k].id = i PROVE \E x \in DOMAIN n : n[x].id = i
    <3>1. k \in Nat
      BY <1>0
    <3> QED  BY <1>2, <2>2, <3>1
  <2> QED  BY <2>1, <2>2, AboutMember
<1>5. ASSUME NEW k \in DOMAIN p, p[k].id = i PROVE CommandFits(c, s, p, k)
  <2>1. /\ k \in Nat /\ k + d \in DOMAIN q /\ q[k + d].id = i /\ p[k] = q[k + d]
        /\ CommandFits(c, s, q, k + d)
    BY <1>0, <1>1, <1>5 DEF Agreed
  <2>2. ASSUME NEW kinds, Follows(q, k + d, kinds) PROVE Follows(p, k, kinds)
    <3> SUFFICES ASSUME NEW j \in 1 .. k - 1, p[j].id = p[k].id PROVE p[j].kind \in kinds
      BY DEF Follows
    <3>1. j \in Nat /\ j \in DOMAIN p /\ j + d \in 1 .. (k + d) - 1
      BY <1>0, <2>1
    <3>2. p[j] = q[j + d] /\ q[j + d].id = i
      BY <1>1, <1>5, <3>1
    <3> QED  BY <2>1, <2>2, <3>1, <3>2 DEF Follows
  <2>3. Opened(q, k + d) => Opened(p, k)
    <3> SUFFICES ASSUME NEW j \in 1 .. (k + d) - 1, q[j].id = i, q[j].kind \in OpenKinds
                 PROVE  Opened(p, k)
      BY <2>1 DEF Opened
    <3>1. j \in DOMAIN q /\ j - d \in Nat /\ (j - d) + d = j
      BY <1>0, <2>1
    <3>2. j - d \in DOMAIN p /\ p[j - d].id = i /\ p[j - d] = q[j]
      BY <1>1, <3>1
    <3>3. j - d \in 1 .. k - 1
      BY <1>0, <2>1, <3>1, <3>2
    <3> QED  BY <1>5, <3>2, <3>3 DEF Opened
  <2>4. ASSUME NEW j \in DOMAIN q, j > k + d, q[j].id = i
        PROVE  \E x \in DOMAIN p : x > k /\ p[x].id = i
    <3>1. j - d \in Nat /\ (j - d) + d = j /\ j - d > k
      BY <1>0, <2>1, <2>4
    <3> QED  BY <1>1, <2>4, <3>1
  <2>5. CASE OpenFits(c, s, q, k + d)
    BY <1>5, <2>1, <2>2, <2>4, <2>5 DEF OpenFits, CommandFits
  <2>6. CASE CloseFits(c, s, q, k + d)
    <3>1. (\E j \in DOMAIN q : j > k + d /\ q[j].id = q[k + d].id)
             => \E j \in DOMAIN p : j > k /\ p[j].id = p[k].id
      BY <2>1, <2>4
    <3> QED  BY <2>1, <2>2, <2>3, <2>6, <3>1 DEF CloseFits, CommandFits
  <2>7. CASE AbortFits(c, s, q, k + d)
    BY <2>1, <2>2, <2>3, <2>7 DEF AbortFits, CommandFits
  <2> QED  BY <2>1, <2>5, <2>6, <2>7 DEF CommandFits
<1>6. ASSUME NEW k \in DOMAIN m, LastAbout(m, k, i), i \notin About(p)
      PROVE  Fits(After(m[k].kind), c)
  <2>0. k \in Nat /\ m[k].id = i
    BY <1>0, <1>6 DEF LastAbout
  <2>1. k + e \in DOMAIN n /\ n[k + e].id = i /\ m[k] = n[k + e]
    BY <1>2, <2>0
  <2>2. LastAbout(n, k + e, i)
    <3> SUFFICES ASSUME NEW x \in DOMAIN n, x > k + e, n[x].id = i PROVE FALSE
      BY <2>0, <2>1 DEF LastAbout
    <3>1. x - e \in Nat /\ (x - e) + e = x /\ x - e > k
      BY <1>0, <2>0
    <3>2. x - e \in DOMAIN m /\ m[x - e].id = i
      BY <1>2, <3>1
    <3> QED  BY <1>6, <3>1, <3>2 DEF LastAbout
  <2> QED  BY <1>3, <1>6, <2>1, <2>2 DEF Agreed
<1>7. ASSUME i \notin About(p), i \notin About(m) PROVE Fits(s, c)
  BY <1>3, <1>4, <1>7 DEF Agreed
<1>8. ASSUME NEW k \in DOMAIN p, p[k].id = i PROVE i \notin About(m)
  <2>1. i \in About(p)
    BY <1>8 DEF About
  <2>2. PICK x \in DOMAIN q : q[x].id = i
    BY <1>3, <2>1 DEF About
  <2>3. i \notin About(n)
    BY <2>2 DEF Agreed
  <2> QED  BY <1>4, <2>3
<1> QED  BY <1>5, <1>6, <1>7, <1>8 DEF Agreed

-----------------------------------------------------------------------------
(* One id: what becomes of its commands, indications and socket when its   *)
(* connection takes a step.                                                *)

LEMMA AgreedGone ==
    ASSUME NEW c, NEW q, NEW n, NEW i, c.st = "ABSENT",
           i \notin About(q), i \notin About(n)
    PROVE  Agreed(c, "none", q, n, i)
<1>1. Fits("none", c)
  BY DEF Fits
<1>2. /\ \A k \in DOMAIN q : q[k].id # i
      /\ \A k \in DOMAIN n : n[k].id # i
  BY AboutMember
<1> QED  BY <1>1, <1>2 DEF Agreed, LastAbout

\* A step of connection c to d that the application does not hear of, and that
\* no command of it can trip over.
Quiet(c, d) ==
    /\ c.st # "ABSENT"
    /\ \A s \in SockStates \cup {"none"} : Fits(s, c) => Fits(s, d)
    /\ Opening(c) \/ PeerClosed(c) => Opening(d) \/ PeerClosed(d)
    /\ StillOpen(c) => StillOpen(d)
    /\ c.st # "TIME_WAIT" => d.st \notin {"TIME_WAIT", "ABSENT"}

LEMMA AfterType == ASSUME NEW k \in IndKinds PROVE After(k) \in SockStates \cup {"none"}
BY DEF IndKinds, After, SocketState, SockStates

LEMMA AgreedQuiet ==
    ASSUME NEW c, NEW d, NEW s \in SockStates \cup {"none"}, NEW q, NEW n \in Seq(IndRecords),
           NEW i, Agreed(c, s, q, n, i), Quiet(c, d)
    PROVE  Agreed(d, s, q, n, i)
<1>1. ASSUME NEW k \in DOMAIN q, q[k].id = i PROVE CommandFits(d, s, q, k) /\ i \notin About(n)
  <2>1. CommandFits(c, s, q, k) /\ i \notin About(n)
    BY <1>1 DEF Agreed
  <2>2. ~ OpenFits(c, s, q, k)
    BY DEF OpenFits, Quiet
  <2>3. CASE CloseFits(c, s, q, k)
    BY <2>1, <2>3 DEF CloseFits, CommandFits, Quiet
  <2>4. CASE AbortFits(c, s, q, k)
    BY <2>1, <2>4 DEF AbortFits, CommandFits, Quiet
  <2> QED  BY <2>1, <2>2, <2>3, <2>4 DEF CommandFits
<1>2. ASSUME i \notin About(q), i \notin About(n) PROVE Fits(s, d)
  BY <1>2 DEF Agreed, Quiet
<1>3. ASSUME i \notin About(q), NEW k \in DOMAIN n, LastAbout(n, k, i)
      PROVE  Fits(After(n[k].kind), d)
  <2>1. n[k].kind \in IndKinds
    <3>1. n[k] \in IndRecords
      OBVIOUS
    <3> QED  BY <3>1 DEF IndRecords
  <2>2. Fits(After(n[k].kind), c)
    BY <1>3 DEF Agreed
  <2> QED  BY <2>1, <2>2, AfterType DEF Quiet
<1> QED  BY <1>1, <1>2, <1>3 DEF Agreed

LEMMA ToldFacts ==
    ASSUME NEW i \in Nat, NEW kinds \in Seq(IndKinds)
    PROVE  LET r == Told(i, kinds)
           IN  /\ r \in Seq(IndRecords) /\ Len(r) = Len(kinds) /\ DOMAIN r = DOMAIN kinds
               /\ \A k \in DOMAIN kinds : r[k].id = i /\ r[k].kind = kinds[k]
<1> DEFINE r == Told(i, kinds)
<1>1. DOMAIN kinds = 1 .. Len(kinds) /\ Len(kinds) \in Nat
  OBVIOUS
<1>2. \A k \in DOMAIN kinds : r[k] = [id |-> i, kind |-> kinds[k]] /\ kinds[k] \in IndKinds
  BY DEF Told
<1>3. r \in [1 .. Len(kinds) -> IndRecords]
  BY <1>1, <1>2 DEF Told, IndRecords
<1>4. r \in Seq(IndRecords)
  BY <1>1, <1>3
<1>5. DOMAIN r = 1 .. Len(kinds) /\ Len(r) = Len(kinds)
  BY <1>1, <1>3, <1>4
<1> QED  BY <1>1, <1>2, <1>4, <1>5

\* The application is told, and has no command on its way.
LEMMA AgreedLoud ==
    ASSUME NEW d, NEW s, NEW q, NEW n \in Seq(IndRecords), NEW i \in Nat,
           NEW kinds \in Seq(IndKinds), kinds # <<>>, i \notin About(q),
           Fits(After(kinds[Len(kinds)]), d)
    PROVE  /\ Agreed(d, s, q, n \o Told(i, kinds), i)
           /\ i \in About(n \o Told(i, kinds))
<1> DEFINE r == Told(i, kinds)
           m == n \o r
<1>1. /\ r \in Seq(IndRecords) /\ Len(r) = Len(kinds)
      /\ \A k \in DOMAIN kinds : r[k].id = i /\ r[k].kind = kinds[k]
  BY ToldFacts
<1>2. Len(kinds) \in DOMAIN kinds /\ Len(kinds) \in Nat /\ Len(n) \in Nat
      /\ DOMAIN kinds = 1 .. Len(kinds)
  OBVIOUS
<1> HIDE DEF r
<1>3. /\ DOMAIN m = 1 .. Len(n) + Len(kinds)
      /\ m[Len(n) + Len(kinds)] = r[Len(kinds)]
  BY <1>1, <1>2
<1>4. /\ Len(n) + Len(kinds) \in DOMAIN m
      /\ m[Len(n) + Len(kinds)].id = i /\ m[Len(n) + Len(kinds)].kind = kinds[Len(kinds)]
  BY <1>1, <1>2, <1>3
<1> HIDE DEF m
<1>5. i \in About(m)
  BY <1>4, AboutMember
<1>6. ASSUME NEW k \in DOMAIN m, LastAbout(m, k, i) PROVE Fits(After(m[k].kind), d)
  <2>1. ~ (Len(n) + Len(kinds) > k)
    BY <1>4, <1>6 DEF LastAbout
  <2>2. k = Len(n) + Len(kinds)
    BY <1>2, <1>3, <2>1
  <2> QED  BY <1>4, <2>2
<1>7. \A k \in DOMAIN q : q[k].id # i
  BY AboutMember
<1> QED  BY <1>5, <1>6, <1>7 DEF Agreed, m, r

LEMMA Uncrossed ==
    ASSUME Crossings, NEW i, i \notin crossed'
    PROVE  \/ i \notin crossed /\ ~ (i \in About(cmds') /\ i \in About(inds'))
           \/ /\ i \notin About(cmds') /\ i \notin About(inds')
              /\ i \notin DOMAIN sock' /\ i \notin DOMAIN tcp'.byId
BY DEF Crossings

LEMMA Crossed ==
    ASSUME Crossings, NEW i, i \in crossed'
    PROVE  /\ i \in crossed \/ (i \in About(cmds') /\ i \in About(inds'))
           /\ i \in About(cmds') \/ i \in About(inds') \/ i \in DOMAIN sock'
                 \/ i \in DOMAIN tcp'.byId
BY DEF Crossings

-----------------------------------------------------------------------------
(* The state machine.                                                      *)

Synchronized == {"ABORT", "RCV_RST", "RCV_UNEXP_SYN"}

\* The transitions of a synchronized state, those of AnySynchronized with them.
LEMMA ExtendFacts ==
    ASSUME NEW g, DOMAIN g \cap Synchronized = {}
    PROVE  LET row == Extend(AnySynchronized, g)
           IN  /\ DOMAIN row = Synchronized \cup DOMAIN g
               /\ \A ev \in Synchronized : row[ev] = "CLOSED"
               /\ \A ev \in DOMAIN g : row[ev] = g[ev]
<1> DEFINE f == AnySynchronized
<1>1. DOMAIN f = Synchronized /\ \A ev \in Synchronized : f[ev] = "CLOSED"
  BY DEF AnySynchronized, Synchronized
<1> HIDE DEF f
<1> QED  BY <1>1 DEF Extend, f

LEMMA GotoOpen ==
    ASSUME NEW c, c.st = "INIT"
    PROVE  Goto(c, "OPEN_PASSIVE") = "LISTEN" /\ Goto(c, "OPEN_ACTIVE") = "SYN_SENT"
BY DEF Goto, Relistens, FSM

\* The states in which a CLOSE may be put off know no event IGNORE.
LEMMA IgnoreStays ==
    ASSUME NEW c, c.st \in {"ESTABLISHED", "CLOSE_WAIT", "SYN_RCVD"}
    PROVE  Goto(c, "IGNORE") = c.st
<1>1. ASSUME NEW g, "IGNORE" \notin DOMAIN g
      PROVE  "IGNORE" \notin DOMAIN Extend(AnySynchronized, g)
  <2> DEFINE f == AnySynchronized
  <2>1. "IGNORE" \notin DOMAIN f
    BY DEF AnySynchronized
  <2> HIDE DEF f
  <2>2. DOMAIN Extend(f, g) = DOMAIN f \cup DOMAIN g
    BY DEF Extend
  <2> QED  BY <1>1, <2>1, <2>2 DEF f
<1>2. CASE c.st = "ESTABLISHED"
  <2> DEFINE g == [CLOSE |-> "FIN_WAIT_1", RCV_FIN |-> "CLOSE_WAIT"]
  <2>1. FSM[c.st] = Extend(AnySynchronized, g)
    BY <1>2 DEF FSM
  <2>2. "IGNORE" \notin DOMAIN g
    OBVIOUS
  <2> HIDE DEF g
  <2> QED  BY <1>1, <2>1, <2>2 DEF Goto, Relistens
<1>3. CASE c.st = "CLOSE_WAIT"
  <2> DEFINE g == [CLOSE |-> "LAST_ACK"]
  <2>1. FSM[c.st] = Extend(AnySynchronized, g)
    BY <1>3 DEF FSM
  <2>2. "IGNORE" \notin DOMAIN g
    OBVIOUS
  <2> HIDE DEF g
  <2> QED  BY <1>1, <2>1, <2>2 DEF Goto, Relistens
<1>4. CASE c.st = "SYN_RCVD"
  <2> DEFINE g == [CLOSE |-> "FIN_WAIT_1", TIMEOUT_CONN_ESTAB |-> "CLOSED",
                   RCV_ACK |-> "ESTABLISHED", RCV_FIN |-> "CLOSE_WAIT"]
  <2>1. FSM[c.st] = Extend(AnySynchronized, g)
    BY <1>4 DEF FSM
  <2>2. "IGNORE" \notin DOMAIN g
    OBVIOUS
  <2> HIDE DEF g
  <2> QED  BY <1>1, <2>1, <2>2 DEF Goto, Relistens
<1> QED  BY <1>2, <1>3, <1>4

LEMMA GotoListen ==
    ASSUME NEW c, c.st = "LISTEN"
    PROVE  /\ \A ev \in {"CLOSE", "ABORT"} : Goto(c, ev) = "CLOSED"
           /\ Goto(c, "RCV_SYN") = "SYN_RCVD"
BY DEF Goto, Relistens, FSM

LEMMA GotoSynSent ==
    ASSUME NEW c, c.st = "SYN_SENT"
    PROVE  /\ \A ev \in {"CLOSE", "ABORT", "TIMEOUT_CONN_ESTAB", "RCV_RST"} :
                 Goto(c, ev) = "CLOSED"
           /\ Goto(c, "RCV_SYN_ACK") = "ESTABLISHED"
           /\ Goto(c, "RCV_SYN") = "SYN_RCVD"
BY DEF Goto, Relistens, FSM

LEMMA GotoSynRcvd ==
    ASSUME NEW c, c.st = "SYN_RCVD"
    PROVE  /\ \A ev \in {"ABORT", "RCV_UNEXP_SYN"} : Goto(c, ev) = "CLOSED"
           /\ \A ev \in {"RCV_RST", "TIMEOUT_CONN_ESTAB"} :
                 Goto(c, ev) = IF c.active THEN "CLOSED" ELSE "LISTEN"
           /\ Goto(c, "CLOSE") = "FIN_WAIT_1"
           /\ Goto(c, "RCV_ACK") = "ESTABLISHED"
           /\ Goto(c, "RCV_FIN") = "CLOSE_WAIT"
<1> DEFINE g == [CLOSE |-> "FIN_WAIT_1", TIMEOUT_CONN_ESTAB |-> "CLOSED",
                 RCV_ACK |-> "ESTABLISHED", RCV_FIN |-> "CLOSE_WAIT"]
<1>1. FSM[c.st] = Extend(AnySynchronized, g)
  BY DEF FSM
<1>2. /\ DOMAIN g = {"CLOSE", "TIMEOUT_CONN_ESTAB", "RCV_ACK", "RCV_FIN"}
      /\ g["CLOSE"] = "FIN_WAIT_1" /\ g["TIMEOUT_CONN_ESTAB"] = "CLOSED"
      /\ g["RCV_ACK"] = "ESTABLISHED" /\ g["RCV_FIN"] = "CLOSE_WAIT"
  OBVIOUS
<1> HIDE DEF g
<1>3. DOMAIN g \cap Synchronized = {}
  BY <1>2 DEF Synchronized
<1>4. /\ DOMAIN FSM[c.st] = Synchronized \cup DOMAIN g
      /\ \A ev \in Synchronized : FSM[c.st][ev] = "CLOSED"
      /\ \A ev \in DOMAIN g : FSM[c.st][ev] = g[ev]
  BY ZenonT(60), <1>1, <1>3, ExtendFacts
<1> QED  BY <1>2, <1>4 DEF Goto, Relistens, Synchronized

LEMMA GotoEstablished ==
    ASSUME NEW c, c.st = "ESTABLISHED"
    PROVE  /\ \A ev \in Synchronized : Goto(c, ev) = "CLOSED"
           /\ Goto(c, "CLOSE") = "FIN_WAIT_1"
           /\ Goto(c, "RCV_FIN") = "CLOSE_WAIT"
<1> DEFINE g == [CLOSE |-> "FIN_WAIT_1", RCV_FIN |-> "CLOSE_WAIT"]
<1>1. FSM[c.st] = Extend(AnySynchronized, g)
  BY DEF FSM
<1>2. /\ DOMAIN g = {"CLOSE", "RCV_FIN"}
      /\ g["CLOSE"] = "FIN_WAIT_1"
      /\ g["RCV_FIN"] = "CLOSE_WAIT"
  OBVIOUS
<1> HIDE DEF g
<1>3. DOMAIN g \cap Synchronized = {}
  BY <1>2 DEF Synchronized
<1>4. /\ DOMAIN FSM[c.st] = Synchronized \cup DOMAIN g
      /\ \A ev \in Synchronized : FSM[c.st][ev] = "CLOSED"
      /\ \A ev \in DOMAIN g : FSM[c.st][ev] = g[ev]
  BY <1>1, <1>3, ExtendFacts
<1> QED  BY <1>2, <1>4 DEF Goto, Relistens, Synchronized

LEMMA GotoCloseWait ==
    ASSUME NEW c, c.st = "CLOSE_WAIT"
    PROVE  /\ \A ev \in Synchronized : Goto(c, ev) = "CLOSED"
           /\ Goto(c, "CLOSE") = "LAST_ACK"
<1> DEFINE g == [CLOSE |-> "LAST_ACK"]
<1>1. FSM[c.st] = Extend(AnySynchronized, g)
  BY DEF FSM
<1>2. /\ DOMAIN g = {"CLOSE"}
      /\ g["CLOSE"] = "LAST_ACK"
  OBVIOUS
<1> HIDE DEF g
<1>3. DOMAIN g \cap Synchronized = {}
  BY <1>2 DEF Synchronized
<1>4. /\ DOMAIN FSM[c.st] = Synchronized \cup DOMAIN g
      /\ \A ev \in Synchronized : FSM[c.st][ev] = "CLOSED"
      /\ \A ev \in DOMAIN g : FSM[c.st][ev] = g[ev]
  BY <1>1, <1>3, ExtendFacts
<1> QED  BY <1>2, <1>4 DEF Goto, Relistens, Synchronized

LEMMA GotoLastAck ==
    ASSUME NEW c, c.st = "LAST_ACK"
    PROVE  /\ \A ev \in Synchronized : Goto(c, ev) = "CLOSED"
           /\ Goto(c, "RCV_ACK") = "CLOSED"
<1> DEFINE g == [RCV_ACK |-> "CLOSED"]
<1>1. FSM[c.st] = Extend(AnySynchronized, g)
  BY DEF FSM
<1>2. /\ DOMAIN g = {"RCV_ACK"}
      /\ g["RCV_ACK"] = "CLOSED"
  OBVIOUS
<1> HIDE DEF g
<1>3. DOMAIN g \cap Synchronized = {}
  BY <1>2 DEF Synchronized
<1>4. /\ DOMAIN FSM[c.st] = Synchronized \cup DOMAIN g
      /\ \A ev \in Synchronized : FSM[c.st][ev] = "CLOSED"
      /\ \A ev \in DOMAIN g : FSM[c.st][ev] = g[ev]
  BY <1>1, <1>3, ExtendFacts
<1> QED  BY <1>2, <1>4 DEF Goto, Relistens, Synchronized

LEMMA GotoFinWait1 ==
    ASSUME NEW c, c.st = "FIN_WAIT_1"
    PROVE  /\ \A ev \in Synchronized : Goto(c, ev) = "CLOSED"
           /\ Goto(c, "RCV_FIN") = "CLOSING"
           /\ Goto(c, "RCV_ACK") = "FIN_WAIT_2"
           /\ Goto(c, "RCV_FIN_ACK") = "TIME_WAIT"
<1> DEFINE g == [RCV_FIN |-> "CLOSING", RCV_ACK |-> "FIN_WAIT_2", RCV_FIN_ACK |-> "TIME_WAIT"]
<1>1. FSM[c.st] = Extend(AnySynchronized, g)
  BY DEF FSM
<1>2. /\ DOMAIN g = {"RCV_FIN", "RCV_ACK", "RCV_FIN_ACK"}
      /\ g["RCV_FIN"] = "CLOSING"
      /\ g["RCV_ACK"] = "FIN_WAIT_2"
      /\ g["RCV_FIN_ACK"] = "TIME_WAIT"
  OBVIOUS
<1> HIDE DEF g
<1>3. DOMAIN g \cap Synchronized = {}
  BY <1>2 DEF Synchronized
<1>4. /\ DOMAIN FSM[c.st] = Synchronized \cup DOMAIN g
      /\ \A ev \in Synchronized : FSM[c.st][ev] = "CLOSED"
      /\ \A ev \in DOMAIN g : FSM[c.st][ev] = g[ev]
  BY <1>1, <1>3, ExtendFacts
<1> QED  BY <1>2, <1>4 DEF Goto, Relistens, Synchronized

LEMMA GotoFinWait2 ==
    ASSUME NEW c, c.st = "FIN_WAIT_2"
    PROVE  /\ \A ev \in Synchronized : Goto(c, ev) = "CLOSED"
           /\ Goto(c, "RCV_FIN") = "TIME_WAIT"
<1> DEFINE g == [RCV_FIN |-> "TIME_WAIT"]
<1>1. FSM[c.st] = Extend(AnySynchronized, g)
  BY DEF FSM
<1>2. /\ DOMAIN g = {"RCV_FIN"}
      /\ g["RCV_FIN"] = "TIME_WAIT"
  OBVIOUS
<1> HIDE DEF g
<1>3. DOMAIN g \cap Synchronized = {}
  BY <1>2 DEF Synchronized
<1>4. /\ DOMAIN FSM[c.st] = Synchronized \cup DOMAIN g
      /\ \A ev \in Synchronized : FSM[c.st][ev] = "CLOSED"
      /\ \A ev \in DOMAIN g : FSM[c.st][ev] = g[ev]
  BY <1>1, <1>3, ExtendFacts
<1> QED  BY <1>2, <1>4 DEF Goto, Relistens, Synchronized

LEMMA GotoClosing ==
    ASSUME NEW c, c.st = "CLOSING"
    PROVE  /\ \A ev \in Synchronized : Goto(c, ev) = "CLOSED"
           /\ Goto(c, "RCV_ACK") = "TIME_WAIT"
<1> DEFINE g == [RCV_ACK |-> "TIME_WAIT"]
<1>1. FSM[c.st] = Extend(AnySynchronized, g)
  BY DEF FSM
<1>2. /\ DOMAIN g = {"RCV_ACK"}
      /\ g["RCV_ACK"] = "TIME_WAIT"
  OBVIOUS
<1> HIDE DEF g
<1>3. DOMAIN g \cap Synchronized = {}
  BY <1>2 DEF Synchronized
<1>4. /\ DOMAIN FSM[c.st] = Synchronized \cup DOMAIN g
      /\ \A ev \in Synchronized : FSM[c.st][ev] = "CLOSED"
      /\ \A ev \in DOMAIN g : FSM[c.st][ev] = g[ev]
  BY <1>1, <1>3, ExtendFacts
<1> QED  BY <1>2, <1>4 DEF Goto, Relistens, Synchronized

LEMMA GotoTimeWait ==
    ASSUME NEW c, c.st = "TIME_WAIT"
    PROVE  /\ \A ev \in Synchronized : Goto(c, ev) = "CLOSED"
           /\ Goto(c, "TIMEOUT_2MSL") = "CLOSED"
<1> DEFINE g == [TIMEOUT_2MSL |-> "CLOSED"]
<1>1. FSM[c.st] = Extend(AnySynchronized, g)
  BY DEF FSM
<1>2. /\ DOMAIN g = {"TIMEOUT_2MSL"}
      /\ g["TIMEOUT_2MSL"] = "CLOSED"
  OBVIOUS
<1> HIDE DEF g
<1>3. DOMAIN g \cap Synchronized = {}
  BY <1>2 DEF Synchronized
<1>4. /\ DOMAIN FSM[c.st] = Synchronized \cup DOMAIN g
      /\ \A ev \in Synchronized : FSM[c.st][ev] = "CLOSED"
      /\ \A ev \in DOMAIN g : FSM[c.st][ev] = g[ev]
  BY ZenonT(60), <1>1, <1>3, ExtendFacts
<1> QED  BY <1>2, <1>4 DEF Goto, Relistens, Synchronized

-----------------------------------------------------------------------------
(* What a segment or a timer does to a connection, and what the            *)
(* application hears of it.                                                *)

Errors == {"CONNECTION_REFUSED", "CONNECTION_RESET", "TIMED_OUT"}

QuietMove(c, new) ==
    \/ c.st = "LISTEN" /\ ~c.fork /\ new = "SYN_RCVD"
    \/ c.st = "SYN_SENT" /\ new = "SYN_RCVD"
    \/ c.st = "SYN_RCVD" /\ ~c.active /\ new = "LISTEN"
    \/ c.st = "FIN_WAIT_1" /\ new \in {"FIN_WAIT_2", "CLOSING"}
    \/ c.st = "ESTABLISHED" /\ c.deferred /\ new = "FIN_WAIT_1"
    \/ c.st = "CLOSE_WAIT" /\ c.deferred /\ new = "LAST_ACK"
    \/ c.st = "TIME_WAIT" /\ new = "CLOSED"

LoudMove(c, new, kind) ==
    \/ kind \in Errors \cup {"CLOSED"} /\ new \in {"CLOSED", "TIME_WAIT"}
    \/ kind = "ESTABLISHED" /\ (new = "ESTABLISHED" \/ (new = "FIN_WAIT_1" /\ c.deferred))
    \/ kind = "PEER_CLOSED" /\ new = "CLOSE_WAIT"

Moves(c, new, kinds) ==
    /\ kinds \in Seq(IndKinds)
    /\ IF kinds = <<>> THEN QuietMove(c, new) ELSE LoudMove(c, new, kinds[Len(kinds)])

\* Connection d may take the place of c when the application is told of kinds.
Kept(c, d, kinds) ==
    /\ kinds \in Seq(IndKinds)
    /\ d # Absent => Sound(d)
    /\ IF kinds = <<>> THEN Quiet(c, d) ELSE Fits(After(kinds[Len(kinds)]), d)
    /\ Passive(d) => Passive(c) /\ kinds = <<>>
    /\ Stray(d) => Stray(c)

LEMMA MoveKept ==
    ASSUME NEW c, Sound(c), NEW new, NEW kinds, Moves(c, new, kinds), NEW d,
           IF new = "CLOSED" THEN d = Absent
           ELSE /\ d.st = new /\ d.active = c.active /\ d.fork = c.fork
                /\ d.deferred = c.deferred /\ d.r # Blank
    PROVE  Kept(c, d, kinds)
<1>1. CASE kinds = <<>>
  <2>0. QuietMove(c, new) /\ kinds \in Seq(IndKinds)
    BY <1>1 DEF Moves
  <2>1. CASE c.st = "LISTEN" /\ ~c.fork /\ new = "SYN_RCVD"
    <3>1. d.st = "SYN_RCVD" /\ ~d.active /\ d.fork = c.fork /\ d.r # Blank
            /\ ~d.deferred
      BY <2>1 DEF Sound, Passive
    <3> QED  BY <1>1, <2>0, <2>1, <3>1
             DEF Kept, Quiet, Fits, Sound, Passive, Stray, States, Opening, StillOpen,
                 PeerClosed, HalfClosed, SockStates, ClosingStates
  <2>2. CASE c.st = "SYN_SENT" /\ new = "SYN_RCVD"
    BY <1>1, <2>0, <2>2
       DEF Kept, Quiet, Fits, Sound, Passive, Stray, States, Opening, StillOpen,
           PeerClosed, HalfClosed, SockStates, ClosingStates
  <2>3. CASE c.st = "SYN_RCVD" /\ ~c.active /\ new = "LISTEN"
    BY <1>1, <2>0, <2>3
       DEF Kept, Quiet, Fits, Sound, Passive, Stray, States, Opening, StillOpen,
           PeerClosed, HalfClosed, SockStates, ClosingStates
  <2>4. CASE c.st = "FIN_WAIT_1" /\ new \in {"FIN_WAIT_2", "CLOSING"}
    BY <1>1, <2>0, <2>4
       DEF Kept, Quiet, Fits, Sound, Passive, Stray, States, Opening, StillOpen,
           PeerClosed, HalfClosed, SockStates, ClosingStates
  <2>5. CASE c.st = "TIME_WAIT" /\ new = "CLOSED"
    <3>1. d = Absent /\ d.st = "ABSENT"
      BY <2>5 DEF Absent
    <3> QED  BY <1>1, <2>0, <2>5, <3>1
             DEF Kept, Quiet, Fits, Sound, Passive, Stray, States, Opening, StillOpen,
                 PeerClosed, HalfClosed, SockStates, ClosingStates
  <2>6. CASE /\ c.deferred
             /\ \/ c.st = "ESTABLISHED" /\ new = "FIN_WAIT_1"
                \/ c.st = "CLOSE_WAIT" /\ new = "LAST_ACK"
    <3>1. d.st = new /\ d.deferred = TRUE /\ c.deferred = TRUE /\ Sound(d)
          /\ ~ Passive(d) /\ d # Absent
      <4>1. /\ d.st = new /\ d.deferred = c.deferred /\ d.r # Blank
            /\ d.active = c.active /\ d.fork = c.fork
        BY <2>6
      <4>2. c.deferred = TRUE
        BY <2>6 DEF Sound
      <4>3. ~ Passive(d) /\ d.st # "ABSENT"
        BY <2>6, <4>1 DEF Passive
      <4>4. d # Absent
        BY <4>3 DEF Absent
      <4>5. Sound(d)
        BY <2>6, <4>1, <4>2, <4>3 DEF Sound, States
      <4> QED  BY <4>1, <4>2, <4>3, <4>4, <4>5
    <3>2. \A s \in SockStates \cup {"none"} : Fits(s, c) => Fits(s, d)
      <4> SUFFICES ASSUME NEW s, Fits(s, c) PROVE Fits(s, d)
        OBVIOUS
      <4>1. CASE c.st = "ESTABLISHED" /\ new = "FIN_WAIT_1"
        <5>1. s \in {"CONNECTED", "LOCALLY_CLOSED"}
          BY <4>1 DEF Fits, Passive, PeerClosed, ClosingStates
        <5>2. d.st \in HalfClosed /\ StillOpen(d)
          BY <3>1, <4>1 DEF StillOpen, HalfClosed
        <5> QED  BY <5>1, <5>2 DEF Fits
      <4>2. CASE c.st = "CLOSE_WAIT" /\ new = "LAST_ACK"
        <5>1. s \in {"none", "PEER_CLOSED"}
          BY <4>2 DEF Fits, Passive, StillOpen, HalfClosed
        <5>2. d.st \in ClosingStates /\ PeerClosed(d)
          BY <3>1, <4>2 DEF PeerClosed, ClosingStates
        <5> QED  BY <5>1, <5>2 DEF Fits
      <4> QED  BY <2>6, <4>1, <4>2
    <3>3. Quiet(c, d)
      BY <2>6, <3>1, <3>2 DEF Quiet, Opening, StillOpen, PeerClosed, HalfClosed
    <3> QED  BY <1>1, <2>0, <3>1, <3>3 DEF Kept, Stray
  <2> QED  BY <2>0, <2>1, <2>2, <2>3, <2>4, <2>5, <2>6 DEF QuietMove
<1>2. CASE kinds # <<>>
  <2> DEFINE kind == kinds[Len(kinds)]
  <2>0. LoudMove(c, new, kind) /\ kinds \in Seq(IndKinds)
    BY <1>2 DEF Moves
  <2> HIDE DEF kind
  <2>1. CASE new = "CLOSED" /\ kind \in Errors \cup {"CLOSED"}
    <3>1. d = Absent /\ d.st = "ABSENT"
      BY <2>1 DEF Absent
    <3>2. Fits(After(kind), d)
      BY <2>1, <3>1 DEF Fits, After, SocketState, Errors
    <3> QED  BY <1>2, <2>0, <3>1, <3>2 DEF Kept, Passive, Stray, kind
  <2>2. CASE new = "TIME_WAIT" /\ kind \in Errors \cup {"CLOSED"}
    <3>1. Fits(After(kind), d)
      BY <2>2 DEF Fits, After, SocketState, Errors, ClosingStates
    <3> QED  BY <1>2, <2>0, <2>2, <3>1 DEF Kept, Passive, Stray, Sound, States, kind
  <2>3. CASE /\ kind = "ESTABLISHED"
             /\ new = "ESTABLISHED" \/ (new = "FIN_WAIT_1" /\ c.deferred)
    <3>1. Fits(After(kind), d)
      BY <2>3 DEF Fits, After, SocketState, StillOpen, HalfClosed
    <3> QED  BY <1>2, <2>0, <2>3, <3>1 DEF Kept, Passive, Stray, Sound, States, kind
  <2>4. CASE new = "CLOSE_WAIT" /\ kind = "PEER_CLOSED"
    <3>1. Fits(After(kind), d)
      BY <2>4 DEF Fits, After, SocketState, PeerClosed
    <3> QED  BY <1>2, <2>0, <2>4, <3>1 DEF Kept, Passive, Stray, Sound, States, kind
  <2> QED  BY <2>0, <2>1, <2>2, <2>3, <2>4 DEF LoudMove
<1> QED  BY <1>1, <1>2

\* The events of a segment.
LEMMA OutcomeMoves ==
    ASSUME NEW c, Sound(c), c.st # "LISTEN", NEW e \in Outcomes(c)
    PROVE  Moves(c, Goto(c, e[1]), e[2] \o Entered(c.st, Goto(c, e[1]), e[1]))
<1>1. CASE c.st = "SYN_SENT"
  <2>1. CASE e = <<"RCV_SYN_ACK", <<"ESTABLISHED">>>>
    BY <1>1, <2>1, GotoSynSent DEF Moves, LoudMove, Entered, IndKinds
  <2>2. CASE e = <<"RCV_SYN", <<>>>>
    BY <1>1, <2>2, GotoSynSent DEF Moves, QuietMove, Entered, IndKinds
  <2>3. CASE e = <<"RCV_RST", <<"CONNECTION_RESET">>>>
    BY <1>1, <2>3, GotoSynSent DEF Moves, LoudMove, Entered, IndKinds
  <2> QED  BY <1>1, <2>1, <2>2, <2>3 DEF Outcomes
<1>2. CASE c.st = "SYN_RCVD" /\ c.active
  <2>1. CASE e = <<"RCV_ACK", <<"ESTABLISHED">>>>
    BY <1>2, <2>1, GotoSynRcvd DEF Moves, LoudMove, Errors, Entered, IndKinds, Synchronized
  <2>2. CASE e = <<"RCV_FIN", <<"ESTABLISHED">>>>
    BY <1>2, <2>2, GotoSynRcvd DEF Moves, LoudMove, Errors, Entered, IndKinds, Synchronized
  <2>3. CASE e = <<"RCV_RST", <<"CONNECTION_REFUSED">>>>
    BY <1>2, <2>3, GotoSynRcvd DEF Moves, LoudMove, Errors, Entered, IndKinds, Synchronized
  <2>4. CASE e = <<"RCV_UNEXP_SYN", <<"CONNECTION_RESET">>>>
    BY <1>2, <2>4, GotoSynRcvd DEF Moves, LoudMove, Errors, Entered, IndKinds, Synchronized
  <2>5. CASE c.deferred /\ e = <<"CLOSE", <<"ESTABLISHED">>>>
    BY <1>2, <2>5, GotoSynRcvd DEF Moves, LoudMove, Entered, IndKinds
  <2> QED  BY <1>2, <2>1, <2>2, <2>3, <2>4, <2>5 DEF Outcomes
<1>3. CASE c.st = "SYN_RCVD" /\ ~c.active
  <2>1. CASE e = <<"RCV_ACK", <<"ESTABLISHED">>>>
    BY <1>3, <2>1, GotoSynRcvd DEF Moves, LoudMove, Errors, Entered, IndKinds, Synchronized
  <2>2. CASE e = <<"RCV_FIN", <<"ESTABLISHED">>>>
    BY <1>3, <2>2, GotoSynRcvd DEF Moves, LoudMove, Errors, Entered, IndKinds, Synchronized
  <2>3. CASE e = <<"RCV_RST", <<>>>>
    BY <1>3, <2>3, GotoSynRcvd DEF Moves, QuietMove, Entered, IndKinds, Synchronized
  <2>4. CASE e = <<"RCV_UNEXP_SYN", <<"CONNECTION_RESET">>>>
    BY <1>3, <2>4, GotoSynRcvd DEF Moves, LoudMove, Errors, Entered, IndKinds, Synchronized
  <2>5. ~ c.deferred
    BY <1>3 DEF Sound, Passive
  <2> QED  BY <1>3, <2>1, <2>2, <2>3, <2>4, <2>5 DEF Outcomes
<1>4. CASE c.st = "ESTABLISHED"
  <2>0. Goto(c, "RCV_RST") = "CLOSED" /\ Goto(c, "RCV_UNEXP_SYN") = "CLOSED"
    BY <1>4, GotoEstablished DEF Synchronized
  <2>1. CASE e = <<"RCV_FIN", <<>>>>
    BY <1>4, <2>1, GotoEstablished DEF Moves, LoudMove, Errors, Entered, IndKinds
  <2>2. CASE e = <<"RCV_RST", <<"CONNECTION_RESET">>>>
    BY <1>4, <2>0, <2>2 DEF Moves, LoudMove, Errors, Entered, IndKinds
  <2>3. CASE e = <<"RCV_UNEXP_SYN", <<"CONNECTION_RESET">>>>
    BY <1>4, <2>0, <2>3 DEF Moves, LoudMove, Errors, Entered, IndKinds
  <2>4. CASE c.deferred /\ e = <<"CLOSE", <<>>>>
    BY <1>4, <2>4, GotoEstablished DEF Moves, QuietMove, Entered, IndKinds
  <2> QED  BY <1>4, <2>1, <2>2, <2>3, <2>4 DEF Outcomes
<1>5. CASE c.st = "CLOSE_WAIT"
  <2>0. Goto(c, "RCV_RST") = "CLOSED" /\ Goto(c, "RCV_UNEXP_SYN") = "CLOSED"
    BY <1>5, GotoCloseWait DEF Synchronized
  <2>1. CASE e = <<"RCV_RST", <<"CONNECTION_RESET">>>>
    BY <1>5, <2>0, <2>1 DEF Moves, LoudMove, Errors, Entered, IndKinds
  <2>2. CASE e = <<"RCV_UNEXP_SYN", <<"CONNECTION_RESET">>>>
    BY <1>5, <2>0, <2>2 DEF Moves, LoudMove, Errors, Entered, IndKinds
  <2>3. CASE c.deferred /\ e = <<"CLOSE", <<>>>>
    BY <1>5, <2>3, GotoCloseWait DEF Moves, QuietMove, Entered, IndKinds
  <2> QED  BY <1>5, <2>1, <2>2, <2>3 DEF Outcomes
<1>6. CASE c.st = "FIN_WAIT_1"
  <2>0. Goto(c, "RCV_RST") = "CLOSED" /\ Goto(c, "RCV_UNEXP_SYN") = "CLOSED"
    BY <1>6, GotoFinWait1 DEF Synchronized
  <2>1. CASE e = <<"RCV_FIN", <<>>>>
    BY <1>6, <2>1, GotoFinWait1 DEF Moves, QuietMove, Entered, IndKinds
  <2>2. CASE e = <<"RCV_ACK", <<>>>>
    BY <1>6, <2>2, GotoFinWait1 DEF Moves, QuietMove, Entered, IndKinds
  <2>3. CASE e = <<"RCV_FIN_ACK", <<>>>>
    BY <1>6, <2>3, GotoFinWait1 DEF Moves, LoudMove, Errors, Entered, IndKinds
  <2>4. CASE e = <<"RCV_RST", <<"CONNECTION_RESET">>>>
    BY <1>6, <2>0, <2>4 DEF Moves, LoudMove, Errors, Entered, IndKinds
  <2>5. CASE e = <<"RCV_UNEXP_SYN", <<"CONNECTION_RESET">>>>
    BY <1>6, <2>0, <2>5 DEF Moves, LoudMove, Errors, Entered, IndKinds
  <2> QED  BY <1>6, <2>1, <2>2, <2>3, <2>4, <2>5 DEF Outcomes
<1>7. CASE c.st = "FIN_WAIT_2"
  <2>0. Goto(c, "RCV_RST") = "CLOSED" /\ Goto(c, "RCV_UNEXP_SYN") = "CLOSED"
    BY <1>7, GotoFinWait2 DEF Synchronized
  <2>1. CASE e = <<"RCV_FIN", <<>>>>
    BY <1>7, <2>1, GotoFinWait2 DEF Moves, LoudMove, Errors, Entered, IndKinds
  <2>2. CASE e = <<"RCV_RST", <<"CONNECTION_RESET">>>>
    BY <1>7, <2>0, <2>2 DEF Moves, LoudMove, Errors, Entered, IndKinds
  <2>3. CASE e = <<"RCV_UNEXP_SYN", <<"CONNECTION_RESET">>>>
    BY <1>7, <2>0, <2>3 DEF Moves, LoudMove, Errors, Entered, IndKinds
  <2> QED  BY <1>7, <2>1, <2>2, <2>3 DEF Outcomes
<1>8. CASE c.st = "CLOSING"
  <2>0. Goto(c, "RCV_RST") = "CLOSED" /\ Goto(c, "RCV_UNEXP_SYN") = "CLOSED"
    BY <1>8, GotoClosing DEF Synchronized
  <2>1. CASE e = <<"RCV_ACK", <<>>>>
    BY <1>8, <2>1, GotoClosing DEF Moves, LoudMove, Errors, Entered, IndKinds
  <2>2. CASE e = <<"RCV_RST", <<>>>>
    BY <1>8, <2>0, <2>2 DEF Moves, LoudMove, Errors, Entered, IndKinds
  <2>3. CASE e = <<"RCV_UNEXP_SYN", <<"CONNECTION_RESET">>>>
    BY <1>8, <2>0, <2>3 DEF Moves, LoudMove, Errors, Entered, IndKinds
  <2> QED  BY <1>8, <2>1, <2>2, <2>3 DEF Outcomes
<1>9. CASE c.st = "LAST_ACK"
  <2>0. Goto(c, "RCV_RST") = "CLOSED" /\ Goto(c, "RCV_UNEXP_SYN") = "CLOSED"
    BY <1>9, GotoLastAck DEF Synchronized
  <2>1. CASE e = <<"RCV_ACK", <<>>>>
    BY <1>9, <2>1, GotoLastAck DEF Moves, LoudMove, Errors, Entered, IndKinds
  <2>2. CASE e = <<"RCV_RST", <<>>>>
    BY <1>9, <2>0, <2>2 DEF Moves, LoudMove, Errors, Entered, IndKinds
  <2>3. CASE e = <<"RCV_UNEXP_SYN", <<"CONNECTION_RESET">>>>
    BY <1>9, <2>0, <2>3 DEF Moves, LoudMove, Errors, Entered, IndKinds
  <2> QED  BY <1>9, <2>1, <2>2, <2>3 DEF Outcomes
<1>10. CASE c.st = "TIME_WAIT"
  <2>0. Goto(c, "RCV_RST") = "CLOSED" /\ Goto(c, "RCV_UNEXP_SYN") = "CLOSED"
    BY <1>10, GotoTimeWait DEF Synchronized
  <2>1. CASE e = <<"RCV_RST", <<>>>>
    BY <1>10, <2>0, <2>1 DEF Moves, QuietMove, Entered, IndKinds
  <2>2. CASE e = <<"RCV_UNEXP_SYN", <<"CONNECTION_RESET">>>>
    BY <1>10, <2>0, <2>2 DEF Moves, LoudMove, Errors, Entered, IndKinds
  <2> QED  BY <1>10, <2>1, <2>2 DEF Outcomes
<1>11. c.st \in States \ {"LISTEN"}
  BY DEF Sound
<1>12. CASE c.st = "SYN_RCVD"
  BY <1>2, <1>3, <1>12
<1> QED  BY <1>1, <1>12, <1>4, <1>5, <1>6, <1>7, <1>8, <1>9, <1>10, <1>11 DEF States

\* The timers.
LEMMA TimerMoves ==
    ASSUME NEW c, Sound(c)
    PROVE  /\ c.st \in {"SYN_SENT", "SYN_RCVD"} =>
                 Moves(c, Goto(c, "TIMEOUT_CONN_ESTAB"),
                       (IF c.active THEN <<"TIMED_OUT">> ELSE <<>>)
                          \o Entered(c.st, Goto(c, "TIMEOUT_CONN_ESTAB"), "TIMEOUT_CONN_ESTAB"))
           /\ c.st \in {"ESTABLISHED", "CLOSE_WAIT", "FIN_WAIT_1", "CLOSING", "LAST_ACK"} =>
                 Moves(c, Goto(c, "ABORT"),
                       <<"TIMED_OUT">> \o Entered(c.st, Goto(c, "ABORT"), "ABORT"))
           /\ c.st = "TIME_WAIT" =>
                 Moves(c, Goto(c, "TIMEOUT_2MSL"),
                       <<>> \o Entered(c.st, Goto(c, "TIMEOUT_2MSL"), "TIMEOUT_2MSL"))
<1>1. ASSUME c.st = "SYN_SENT"
      PROVE  Moves(c, Goto(c, "TIMEOUT_CONN_ESTAB"),
                   (IF c.active THEN <<"TIMED_OUT">> ELSE <<>>)
                      \o Entered(c.st, Goto(c, "TIMEOUT_CONN_ESTAB"), "TIMEOUT_CONN_ESTAB"))
  <2>1. (IF c.active THEN <<"TIMED_OUT">> ELSE <<>>) = <<"TIMED_OUT">>
    BY <1>1 DEF Sound
  <2>2. Goto(c, "TIMEOUT_CONN_ESTAB") = "CLOSED"
    BY <1>1, GotoSynSent
  <2>3. Entered(c.st, "CLOSED", "TIMEOUT_CONN_ESTAB") = <<"CLOSED">>
    BY <1>1 DEF Entered
  <2> QED  BY <2>1, <2>2, <2>3 DEF Moves, LoudMove, Errors, IndKinds
<1>2. ASSUME c.st = "SYN_RCVD", c.active
      PROVE  Moves(c, Goto(c, "TIMEOUT_CONN_ESTAB"),
                   <<"TIMED_OUT">>
                      \o Entered(c.st, Goto(c, "TIMEOUT_CONN_ESTAB"), "TIMEOUT_CONN_ESTAB"))
  <2>1. Goto(c, "TIMEOUT_CONN_ESTAB") = "CLOSED"
    BY <1>2, GotoSynRcvd
  <2>2. Entered(c.st, "CLOSED", "TIMEOUT_CONN_ESTAB") = <<"CLOSED">>
    BY <1>2 DEF Entered
  <2>3. LoudMove(c, "CLOSED", "CLOSED")
    BY DEF LoudMove
  <2> DEFINE kinds == <<"TIMED_OUT">> \o <<"CLOSED">>
  <2>4. kinds \in Seq(IndKinds) /\ kinds # <<>> /\ kinds[Len(kinds)] = "CLOSED"
    BY DEF IndKinds
  <2> HIDE DEF kinds
  <2>5. Moves(c, "CLOSED", kinds)
    BY <2>3, <2>4 DEF Moves
  <2> QED  BY <2>1, <2>2, <2>5 DEF kinds
<1>3. ASSUME c.st = "SYN_RCVD", ~c.active
      PROVE  Moves(c, Goto(c, "TIMEOUT_CONN_ESTAB"),
                   <<>> \o Entered(c.st, Goto(c, "TIMEOUT_CONN_ESTAB"), "TIMEOUT_CONN_ESTAB"))
  BY <1>3, GotoSynRcvd DEF Moves, QuietMove, Entered, IndKinds
<1>4. ASSUME c.st \in {"ESTABLISHED", "CLOSE_WAIT", "FIN_WAIT_1", "CLOSING", "LAST_ACK"}
      PROVE  Moves(c, Goto(c, "ABORT"),
                   <<"TIMED_OUT">> \o Entered(c.st, Goto(c, "ABORT"), "ABORT"))
  <2>1. Goto(c, "ABORT") = "CLOSED"
    BY <1>4, GotoEstablished, GotoCloseWait, GotoFinWait1, GotoClosing, GotoLastAck
       DEF Synchronized
  <2> QED  BY <1>4, <2>1 DEF Moves, LoudMove, Errors, Entered, IndKinds
<1>5. ASSUME c.st = "TIME_WAIT"
      PROVE  Moves(c, Goto(c, "TIMEOUT_2MSL"),
                   <<>> \o Entered(c.st, Goto(c, "TIMEOUT_2MSL"), "TIMEOUT_2MSL"))
  BY <1>5, GotoTimeWait DEF Moves, QuietMove, Entered, IndKinds
<1> QED  BY <1>1, <1>2, <1>3, <1>4, <1>5

LEMMA SynMoves ==
    ASSUME NEW c, c.st = "LISTEN"
    PROVE  /\ Goto(c, "RCV_SYN") = "SYN_RCVD"
           /\ <<>> \o Entered(c.st, "SYN_RCVD", "RCV_SYN") = <<>>
           /\ ~c.fork => Moves(c, "SYN_RCVD", <<>>)
BY GotoListen DEF Entered, Moves, QuietMove, IndKinds

-----------------------------------------------------------------------------
(* The steps of the network: segments and timers.                          *)

LEMMA ToldAbout ==
    ASSUME NEW n \in Seq(IndRecords), NEW i \in Nat, NEW kinds \in Seq(IndKinds)
    PROVE  /\ n \o Told(i, kinds) \in Seq(IndRecords)
           /\ About(n \o Told(i, kinds)) = About(n) \cup (IF kinds = <<>> THEN {} ELSE {i})
           /\ kinds = <<>> => n \o Told(i, kinds) = n
           /\ \A j : j # i => SameFor(j, n, n \o Told(i, kinds))
<1> DEFINE r == Told(i, kinds)
           m == n \o r
<1>1. /\ r \in Seq(IndRecords) /\ Len(r) = Len(kinds) /\ DOMAIN r = DOMAIN kinds
      /\ \A k \in DOMAIN kinds : r[k].id = i
  BY ToldFacts
<1>2. /\ Len(kinds) \in Nat /\ Len(n) \in Nat /\ DOMAIN kinds = 1 .. Len(kinds)
      /\ DOMAIN n = 1 .. Len(n)
      /\ kinds # <<>> => 1 \in DOMAIN kinds
      /\ kinds = <<>> => Len(kinds) = 0
  OBVIOUS
<1> HIDE DEF r
<1>3. m \in Seq(IndRecords)
  BY <1>1
<1>4. kinds = <<>> => m = n
  BY <1>1, <1>2
<1>5. /\ DOMAIN m = 1 .. Len(n) + Len(kinds)
      /\ \A k \in 1 .. Len(n) : m[k] = n[k]
      /\ \A k \in 1 .. Len(n) + Len(kinds) : k > Len(n) => m[k] = r[k - Len(n)]
  <2>1. r \in Seq(IndRecords)
    BY <1>1
  <2>2. /\ DOMAIN m = 1 .. Len(n) + Len(r)
        /\ \A k \in 1 .. Len(n) : m[k] = n[k]
        /\ \A k \in 1 .. Len(n) + Len(r) : k > Len(n) => m[k] = r[k - Len(n)]
    BY <2>1
  <2> QED  BY <1>1, <2>2
<1> HIDE DEF m
<1>6. ASSUME NEW k \in DOMAIN m
      PROVE  m[k].id \in About(n) \cup (IF kinds = <<>> THEN {} ELSE {i})
  <2>1. CASE k <= Len(n)
    BY <1>2, <1>5, <2>1, AboutMember
  <2>2. CASE k > Len(n)
    <3>1. k - Len(n) \in DOMAIN kinds
      BY <1>2, <1>5, <2>2
    <3>2. m[k].id = i
      BY <1>1, <1>5, <2>2, <3>1
    <3>3. kinds # <<>>
      BY <1>2, <3>1
    <3> QED  BY <3>2, <3>3
  <2> QED  BY <1>2, <1>5, <2>1, <2>2
<1>7. About(n) \subseteq About(m)
  BY <1>2, <1>5 DEF About
<1>8. kinds # <<>> => i \in About(m)
  <2> SUFFICES ASSUME kinds # <<>> PROVE i \in About(m)
    OBVIOUS
  <2>1. Len(n) + 1 \in DOMAIN m /\ Len(n) + 1 > Len(n) /\ (Len(n) + 1) - Len(n) = 1
    BY <1>2, <1>5
  <2>2. m[Len(n) + 1] = r[1]
    BY <1>5, <2>1
  <2>3. m[Len(n) + 1].id = i
    BY <1>1, <1>2, <2>2
  <2> QED  BY <2>1, <2>3, AboutMember
<1>9. About(m) = About(n) \cup (IF kinds = <<>> THEN {} ELSE {i})
  BY <1>6, <1>7, <1>8 DEF About
<1>10. ASSUME NEW j, j # i PROVE SameFor(j, n, m)
  BY <1>1, <1>10, SameConcat DEF m
<1> QED  BY <1>3, <1>4, <1>9, <1>10 DEF m, r

\* An id has a connection or none.
LEMMA AtAbsent ==
    ASSUME NEW t, NEW n, InOrder(t, n), NEW j
    PROVE  j \in DOMAIN t.byId <=> At(t, j) # Absent
<1>1. ASSUME j \in DOMAIN t.byId PROVE At(t, j) # Absent
  <2>1. PICK o \in DOMAIN t.conn : At(t, j) = t.conn[o]
    BY <1>1, AtFacts DEF InOrder
  <2>2. DOMAIN At(t, j) = ConnFields
    BY <2>1 DEF InOrder, Shaped
  <2>3. DOMAIN Absent = {"st"} /\ "id" \in ConnFields
    BY DEF Absent, ConnFields
  <2> QED  BY <2>2, <2>3
<1> QED  BY <1>1 DEF At

LEMMA AboutNat ==
    ASSUME cmds' \in Seq(Commands), crossed \subseteq Nat, Crossings
    PROVE  About(cmds') \subseteq Nat /\ crossed' \subseteq Nat
<1>1. ASSUME NEW k \in DOMAIN cmds' PROVE cmds'[k].id \in Nat
  <2>1. cmds'[k] \in Commands
    BY <1>1
  <2> QED  BY <2>1 DEF Commands
<1>2. About(cmds') \subseteq Nat
  BY <1>1 DEF About
<1> QED  BY <1>2 DEF Crossings

\* A segment or a timer takes the connection with id i a step further; a fork
\* leaves a new one under the next id.
NetStep(i, kinds) ==
    /\ i \in DOMAIN tcp.byId /\ Kept(At(tcp, i), At(tcp', i), kinds)
    /\ tcp'.fault = "none" /\ InOrder(tcp', nextId')
    /\ cmds' = cmds /\ sock' = sock /\ inds' = inds \o Told(i, kinds)
    /\ \/ nextId' = nextId /\ \A j : j # i => At(tcp', j) = At(tcp, j)
       \/ /\ nextId' = nextId + 1
          /\ Sound(At(tcp', nextId)) /\ Stray(At(tcp', nextId))
          /\ \A j : j \notin {i, nextId} => At(tcp', j) = At(tcp, j)
    /\ Crossings

LEMMA Below ==
    ASSUME NEW n \in Nat, NEW j PROVE j \in 0 .. n - 1 <=> j \in Nat /\ j < n
OBVIOUS

LEMMA NetKeeps ==
    ASSUME DemuxInv, Up, NEW i, NEW kinds, NetStep(i, kinds)
    PROVE  DemuxInv'
<1> DEFINE c == At(tcp, i)
           d == At(tcp', i)
           e == At(tcp', nextId)
<1>0. SocketsInv /\ DemuxTypes /\ InOrder(tcp, nextId)
  BY DEF DemuxInv
<1>1. /\ nextId \in Nat /\ nextId' \in Nat /\ nextId <= nextId' /\ i \in Nat /\ i < nextId
      /\ Sound(c) /\ c.st # "ABSENT"
  <2>1. PICK o \in DOMAIN tcp.conn : tcp.conn[o].id = i
    BY <1>0, AtFacts DEF NetStep, InOrder
  <2>2. i \in Nat /\ i < nextId
    BY <1>0, <2>1 DEF InOrder, IdsBelow
  <2>3. Sound(c)
    BY <1>0 DEF SocketsInv, ConnsSound, NetStep
  <2>4. c.st # "ABSENT"
    BY <2>3 DEF Sound, States
  <2> QED  BY <1>0, <2>2, <2>3, <2>4 DEF DemuxTypes, NetStep
<1>2. /\ inds' \in Seq(IndRecords)
      /\ About(inds') = About(inds) \cup (IF kinds = <<>> THEN {} ELSE {i})
      /\ kinds = <<>> => inds' = inds
      /\ \A j : j # i => SameFor(j, inds, inds')
  <2>1. kinds \in Seq(IndKinds) /\ inds \in Seq(IndRecords) /\ inds' = inds \o Told(i, kinds)
    BY <1>0 DEF NetStep, Kept, DemuxTypes
  <2> QED  BY <1>1, <2>1, ToldAbout
<1>3. DemuxTypes'
  <2>1. crossed' \subseteq Nat
    BY <1>0, AboutNat DEF NetStep, DemuxTypes
  <2> QED  BY <1>0, <1>1, <1>2, <2>1 DEF NetStep, DemuxTypes
<1>4. IdsUsed'
  <2>1. \A j \in About(cmds) \cup About(inds) \cup DOMAIN sock \cup crossed :
            j < nextId /\ j \in Nat
    <3>1. About(cmds) \subseteq Nat
      <4>1. \A k \in DOMAIN cmds : cmds[k] \in Commands
        BY <1>0 DEF DemuxTypes
      <4>2. \A k \in DOMAIN cmds : cmds[k].id \in Nat
        BY <4>1 DEF Commands
      <4> QED  BY <4>2 DEF About
    <3>2. About(inds) \subseteq Nat
      <4>1. \A k \in DOMAIN inds : inds[k] \in IndRecords
        BY <1>0 DEF DemuxTypes
      <4>2. \A k \in DOMAIN inds : inds[k].id \in Nat
        BY <4>1 DEF IndRecords
      <4> QED  BY <4>2 DEF About
    <3> QED  BY <1>0, <3>1, <3>2 DEF SocketsInv, IdsUsed, DemuxTypes
  <2>2. \A j \in About(cmds') \cup About(inds') \cup DOMAIN sock' \cup crossed' :
            j \in About(cmds) \cup About(inds) \cup DOMAIN sock \cup crossed \cup {i}
    BY <1>2 DEF NetStep, Crossings
  <2> QED  BY <1>1, <2>1, <2>2 DEF IdsUsed
<1>5. /\ cmds' = cmds /\ sock' = sock /\ Crossings
      /\ \A j : j # i /\ (nextId' = nextId \/ j # nextId) => At(tcp', j) = At(tcp, j)
  <2>1. \/ \A j : j # i => At(tcp', j) = At(tcp, j)
        \/ nextId' = nextId + 1 /\ \A j : j \notin {i, nextId} => At(tcp', j) = At(tcp, j)
    BY DEF NetStep
  <2>2. nextId + 1 # nextId
    BY <1>1
  <2>3. ASSUME NEW j, j # i, nextId' = nextId \/ j # nextId PROVE At(tcp', j) = At(tcp, j)
    BY <2>1, <2>2, <2>3, Zenon
  <2> QED  BY <2>3 DEF NetStep
<1>6. Kept(c, d, kinds)
  BY DEF NetStep
<1>7. nextId' = nextId \/ (nextId' = nextId + 1 /\ Sound(e) /\ Stray(e))
  BY DEF NetStep
<1>8. /\ nextId \notin About(cmds) \cup About(inds') \cup DOMAIN sock
      /\ nextId \notin crossed'
  <2>1. nextId \notin About(cmds) \cup About(inds) \cup DOMAIN sock \cup crossed
    BY <1>0, <1>1 DEF SocketsInv, IdsUsed
  <2> QED  BY <1>1, <1>2, <1>5, <2>1 DEF Crossings
<1> HIDE DEF c, d, e
<1>9. AllAgreed'
  <2> SUFFICES ASSUME NEW j, j \in 0 .. nextId' - 1, j \notin crossed'
               PROVE  Agreed(At(tcp', j), SockAt(sock, j), cmds, inds', j)
    BY <1>5 DEF AllAgreed
  <2>0. j \in Nat /\ j < nextId'
    BY <1>1, Below
  <2>1. CASE j = i
    <3>1. CASE i \notin crossed /\ ~ (i \in About(cmds') /\ i \in About(inds'))
      <4>1. Agreed(c, SockAt(sock, i), cmds, inds, i)
        BY <1>0, <1>1, <3>1 DEF SocketsInv, AllAgreed, c
      <4>2. SockAt(sock, i) \in SockStates \cup {"none"}
        BY <1>0 DEF DemuxTypes, SockAt
      <4>3. CASE kinds = <<>>
        <5>1. inds' = inds /\ Quiet(c, d)
          BY <1>2, <1>6, <4>3 DEF Kept
        <5>2. inds \in Seq(IndRecords)
          BY <1>0 DEF DemuxTypes
        <5> QED  BY <2>1, <4>1, <4>2, <5>1, <5>2, AgreedQuiet DEF d
      <4>4. CASE kinds # <<>>
        <5>1. i \notin About(cmds)
          BY <1>2, <1>5, <3>1, <4>4
        <5>2. kinds \in Seq(IndKinds) /\ Fits(After(kinds[Len(kinds)]), d)
          BY <1>6, <4>4 DEF Kept
        <5>3. inds \in Seq(IndRecords) /\ inds' = inds \o Told(i, kinds)
          BY <1>0 DEF DemuxTypes, NetStep
        <5>4. Agreed(d, SockAt(sock, i), cmds, inds \o Told(i, kinds), i)
          BY <1>1, <4>4, <5>1, <5>2, <5>3, AgreedLoud
        <5> QED  BY <2>1, <5>3, <5>4 DEF d
      <4> QED  BY <4>3, <4>4
    <3>2. CASE /\ i \notin About(cmds') /\ i \notin About(inds')
               /\ i \notin DOMAIN sock' /\ i \notin DOMAIN tcp'.byId
      <4>1. At(tcp', i) = Absent /\ SockAt(sock, i) = "none"
        BY <1>5, <3>2 DEF At, SockAt
      <4>2. At(tcp', i).st = "ABSENT"
        BY <4>1 DEF Absent
      <4> QED  BY <1>5, <2>1, <3>2, <4>1, <4>2, AgreedGone
    <3> QED  BY <1>5, <2>1, <3>1, <3>2, Uncrossed
  <2>2. CASE j = nextId /\ j # i
    <3>1. Fits("none", e)
      <4>1. nextId' # nextId
        BY <1>1, <2>0, <2>2
      <4> QED  BY <1>7, <4>1 DEF Fits, Stray
    <3>2. SockAt(sock, j) = "none"
      BY <1>8, <2>2 DEF SockAt
    <3>3. j \notin About(cmds) /\ j \notin About(inds')
      BY <1>8, <2>2
    <3>4. /\ \A k \in DOMAIN cmds : cmds[k].id # j
          /\ \A k \in DOMAIN inds' : inds'[k].id # j
      BY <3>3, AboutMember
    <3> QED  BY <2>2, <3>1, <3>2, <3>3, <3>4 DEF Agreed, LastAbout, e
  <2>3. CASE j # nextId /\ j # i
    <3>1. j \in 0 .. nextId - 1 /\ At(tcp', j) = At(tcp, j)
      <4>1. j \in 0 .. nextId - 1
        <5>1. nextId' \in {nextId, nextId + 1}
          BY <1>7
        <5> QED  BY <1>1, <2>0, <2>3, <5>1
      <4> QED  BY <1>5, <2>3, <4>1
    <3>2. CASE j \notin crossed
      <4>1. Agreed(At(tcp, j), SockAt(sock, j), cmds, inds, j)
        BY <1>0, <3>1, <3>2 DEF SocketsInv, AllAgreed
      <4>2. SameFor(j, cmds, cmds) /\ SameFor(j, inds, inds')
        BY <1>2, <2>3, SameRefl
      <4>3. cmds \in Seq(Commands) /\ inds \in Seq(IndRecords) /\ inds' \in Seq(IndRecords)
        BY <1>0, <1>2 DEF DemuxTypes
      <4> QED  BY <3>1, <4>1, <4>2, <4>3, AgreedSame
    <3>3. CASE /\ j \notin About(cmds') /\ j \notin About(inds')
               /\ j \notin DOMAIN sock' /\ j \notin DOMAIN tcp'.byId
      <4>1. At(tcp', j) = Absent /\ SockAt(sock, j) = "none"
        BY <1>5, <3>3 DEF At, SockAt
      <4>2. At(tcp', j).st = "ABSENT"
        BY <4>1 DEF Absent
      <4> QED  BY <1>5, <3>3, <4>1, <4>2, AgreedGone
    <3> QED  BY <1>5, <3>2, <3>3, Uncrossed
  <2> QED  BY <2>1, <2>2, <2>3
<1>10. OpensNew'
  <2> SUFFICES ASSUME NEW k \in DOMAIN cmds, cmds[k].kind \in OpenKinds, cmds[k].id \in crossed'
               PROVE  FALSE
    BY <1>5 DEF OpensNew
  <2> DEFINE j == cmds[k].id
  <2>1. j \notin crossed /\ j \in About(cmds)
    BY <1>0 DEF SocketsInv, OpensNew, About
  <2>2. j \in About(inds')
    BY <1>5, <2>1, Crossed
  <2>3. j \in 0 .. nextId - 1
    <3>1. cmds[k] \in Commands
      BY <1>0 DEF DemuxTypes
    <3>2. j \in Nat
      BY <3>1 DEF Commands
    <3>3. j < nextId
      BY <1>0, <2>1 DEF SocketsInv, IdsUsed
    <3> QED  BY <1>1, <3>2, <3>3
  <2>4. /\ CommandFits(At(tcp, j), SockAt(sock, j), cmds, k)
        /\ j \notin About(inds)
    BY <1>0, <2>1, <2>3 DEF SocketsInv, AllAgreed, Agreed
  <2>5. At(tcp, j).st = "ABSENT"
    BY <2>4 DEF CommandFits, OpenFits, CloseFits, AbortFits, OpenKinds
  <2> QED  BY <1>1, <1>2, <2>2, <2>4, <2>5 DEF c
<1>11. ConnsSound'
  <2> SUFFICES ASSUME NEW j \in DOMAIN tcp'.byId
               PROVE  /\ Sound(At(tcp', j))
                      /\ Passive(At(tcp', j)) => j \notin About(inds') \cup crossed'
                      /\ Stray(At(tcp', j)) => j \notin DOMAIN sock \cup About(cmds)
    BY <1>5 DEF ConnsSound
  <2>0. At(tcp', j) # Absent
    BY AtAbsent DEF NetStep
  <2>1. CASE j = i
    <3>1. Sound(d)
      BY <1>6, <2>0, <2>1 DEF Kept, d
    <3>2. ASSUME Passive(d) PROVE i \notin About(inds') \cup crossed'
      <4>1. Passive(c) /\ inds' = inds
        BY <1>2, <1>6, <3>2 DEF Kept
      <4>2. i \notin About(inds) \cup crossed
        BY <1>0, <4>1 DEF SocketsInv, ConnsSound, NetStep, c
      <4> QED  BY <1>5, <4>1, <4>2, Crossed
    <3>3. ASSUME Stray(d) PROVE i \notin DOMAIN sock \cup About(cmds)
      <4>1. Stray(c)
        BY <1>6, <3>3 DEF Kept
      <4> QED  BY <1>0, <4>1 DEF SocketsInv, ConnsSound, NetStep, c
    <3> QED  BY <2>1, <3>1, <3>2, <3>3 DEF d
  <2>2. CASE j # i /\ j = nextId /\ nextId' = nextId + 1
    BY <1>1, <1>7, <1>8, <2>2 DEF e
  <2>3. CASE j # i /\ (nextId' = nextId \/ j # nextId)
    <3>1. At(tcp', j) = At(tcp, j)
      BY <1>5, <2>3
    <3>2. j \in DOMAIN tcp.byId
      BY <1>0, <2>0, <3>1, AtAbsent
    <3>3. /\ Sound(At(tcp, j))
          /\ Passive(At(tcp, j)) => j \notin About(inds) \cup crossed
          /\ Stray(At(tcp, j)) => j \notin DOMAIN sock \cup About(cmds)
      BY <1>0, <3>2 DEF SocketsInv, ConnsSound
    <3>4. j \notin About(inds) \cup crossed => j \notin About(inds') \cup crossed'
      BY <1>2, <1>5, <2>3, Crossed
    <3> QED  BY <3>1, <3>3, <3>4
  <2> QED  BY <1>7, <2>1, <2>2, <2>3
<1>12. OneListens'
  <2>1. ASSUME NEW m \in DOMAIN cmds, Passive(At(tcp', cmds[m].id))
        PROVE  Passive(At(tcp, cmds[m].id))
    <3>1. cmds[m].id # nextId
      BY <1>8, <2>1 DEF About
    <3>2. CASE cmds[m].id = i
      BY <1>6, <2>1, <3>2 DEF Kept, c, d
    <3>3. CASE cmds[m].id # i
      BY <1>5, <2>1, <3>1, <3>3
    <3> QED  BY <3>2, <3>3
  <2> QED  BY <1>0, <1>5, <2>1 DEF SocketsInv, OneListens
<1>13. InOrder(tcp, nextId)' /\ FaultsExplained'
  BY DEF NetStep, FaultsExplained
<1> QED  BY <1>3, <1>4, <1>9, <1>10, <1>11, <1>12, <1>13 DEF DemuxInv, SocketsInv

\* The state machine runs on connection o of a table that differs from tcp at
\* most in what o knows of its addresses.
LEMMA MovesKeep ==
    ASSUME DemuxInv, Up, NEW t, InOrder(t, nextId), t.fault = "none",
           NEW o \in DOMAIN tcp.conn, DOMAIN t.conn = DOMAIN tcp.conn, t.byId = tcp.byId,
           \A x \in DOMAIN tcp.conn : x # o => t.conn[x] = tcp.conn[x],
           t.conn[o].id = tcp.conn[o].id, t.conn[o].st = tcp.conn[o].st,
           t.conn[o].active = tcp.conn[o].active, t.conn[o].fork = tcp.conn[o].fork,
           t.conn[o].deferred = tcp.conn[o].deferred, t.conn[o].r # Blank,
           NEW ev, NEW said,
           LET new == Goto(tcp.conn[o], ev)
           IN  Moves(tcp.conn[o], new, said \o Entered(tcp.conn[o].st, new, ev)),
           Perform(t, o, ev, said),
           UNCHANGED <<nextId, sock, cmds>>, Crossings
    PROVE  DemuxInv'
<1> DEFINE c == tcp.conn[o]
           b == t.conn[o]
           i == c.id
           new == Goto(c, ev)
           kinds == said \o Entered(c.st, new, ev)
<1>1. InOrder(tcp, nextId) /\ SocketsInv
  BY DEF DemuxInv
<1>2. i \in DOMAIN tcp.byId /\ At(tcp, i) = c /\ Sound(c)
  <2>1. i \in DOMAIN tcp.byId /\ At(tcp, i) = c
    BY <1>1, AtFacts DEF InOrder, IdsInOrder
  <2> QED  BY <1>1, <2>1 DEF SocketsInv, ConnsSound
<1>3. Goto(b, ev) = new
  BY DEF Goto, Relistens
<1>4. /\ InOrder(tcp', nextId) /\ tcp'.fault = "none"
      /\ inds' = inds \o Told(i, kinds)
      /\ At(tcp', i) = IF new = "CLOSED" THEN Absent ELSE [b EXCEPT !.st = new]
      /\ \A j : j # i => At(tcp', j) = At(t, j)
  <2>1. o \in DOMAIN t.conn
    OBVIOUS
  <2>2. /\ InOrder(tcp', nextId) /\ tcp'.fault = "none"
        /\ inds' = inds \o Told(b.id, said \o Entered(b.st, Goto(b, ev), ev))
        /\ At(tcp', b.id) = IF Goto(b, ev) = "CLOSED" THEN Absent
                            ELSE [b EXCEPT !.st = Goto(b, ev)]
        /\ \A j : j # b.id => At(tcp', j) = At(t, j)
    BY ZenonT(60), <2>1, PerformFacts DEF Performed
  <2>3. b.id = i /\ b.st = c.st
    OBVIOUS
  <2> HIDE DEF b, c, i
  <2> QED  BY <1>3, <2>2, <2>3
<1>5. \A j : j # i => At(t, j) = At(tcp, j)
  <2>1. IdsInOrder(t) /\ IdsInOrder(tcp)
    BY <1>1 DEF InOrder
  <2>2. \A x \in DOMAIN tcp.conn : tcp.conn[x].id # i =>
            x \in DOMAIN t.conn /\ t.conn[x] = tcp.conn[x]
    OBVIOUS
  <2> HIDE DEF i
  <2> QED  BY <2>1, <2>2, AtOthers
<1>6. DOMAIN b = ConnFields
  BY DEF InOrder, Shaped
<1>7. Moves(c, new, kinds)
  OBVIOUS
<1> HIDE DEF new, kinds
<1>8. IF new = "CLOSED" THEN At(tcp', i) = Absent
      ELSE /\ At(tcp', i).st = new /\ At(tcp', i).active = c.active
           /\ At(tcp', i).fork = c.fork /\ At(tcp', i).r # Blank
           /\ At(tcp', i).deferred = c.deferred
  <2>1. /\ [b EXCEPT !.st = new].st = new /\ [b EXCEPT !.st = new].active = b.active
        /\ [b EXCEPT !.st = new].fork = b.fork /\ [b EXCEPT !.st = new].r = b.r
        /\ [b EXCEPT !.st = new].deferred = b.deferred
    BY <1>6 DEF ConnFields
  <2> QED  BY <1>4, <2>1
<1> HIDE DEF c, b
<1>9. Kept(c, At(tcp', i), kinds)
  BY <1>2, <1>7, <1>8, MoveKept
<1>10. NetStep(i, kinds)
  BY <1>2, <1>4, <1>5, <1>9 DEF NetStep
<1> QED  BY <1>10, NetKeeps

LEMMA TimersKeep ==
    ASSUME DemuxInv, NEW o \in DOMAIN tcp.conn, Crossings,
           ConnEstabTimer(o) \/ RexmitLimit(o) \/ TimeWaitTimer(o)
    PROVE  DemuxInv'
<1> DEFINE c == tcp.conn[o]
<1>0. InOrder(tcp, nextId) /\ Up /\ tcp.fault = "none"
  BY DEF DemuxInv, ConnEstabTimer, RexmitLimit, TimeWaitTimer, Up
<1>1. Sound(c)
  <2>1. c.id \in DOMAIN tcp.byId /\ At(tcp, c.id) = c
    BY <1>0, AtFacts DEF InOrder, IdsInOrder
  <2> QED  BY <1>0, <2>1 DEF DemuxInv, SocketsInv, ConnsSound
<1>2. PICK ev, said : /\ Expires(o, ev, said)
                      /\ LET new == Goto(c, ev) IN Moves(c, new, said \o Entered(c.st, new, ev))
  <2>1. CASE ConnEstabTimer(o)
    BY <1>1, <2>1, TimerMoves DEF ConnEstabTimer
  <2>2. CASE RexmitLimit(o)
    BY <1>1, <2>2, TimerMoves DEF RexmitLimit
  <2>3. CASE TimeWaitTimer(o)
    BY <1>1, <2>3, TimerMoves DEF TimeWaitTimer
  <2> QED  BY <2>1, <2>2, <2>3
<1>3. c.r # Blank
  <2>1. c.st # "LISTEN"
    BY DEF ConnEstabTimer, RexmitLimit, TimeWaitTimer
  <2> QED  BY <1>1, <2>1 DEF Sound
<1>4. Perform(tcp, o, ev, said) /\ UNCHANGED <<nextId, sock, cmds>>
  BY <1>2 DEF Expires
<1> QED  BY <1>0, <1>2, <1>3, <1>4, MovesKeep

LEMMA OtherSegmentKeeps ==
    ASSUME DemuxInv, Up, NEW o \in DOMAIN tcp.conn, NEW r \in Remotes, NEW lp,
           FindConnForSegment(o, lp, r), OtherSegmentArrives(o, r), UNCHANGED sock, Crossings
    PROVE  DemuxInv'
<1> DEFINE c == tcp.conn[o]
           u == UpdateSockPair(tcp, o, r)
<1>0. InOrder(tcp, nextId) /\ Up /\ tcp.fault = "none"
  BY DEF DemuxInv, Up
<1>1. Sound(c) /\ c.st # "LISTEN" /\ c.r # Blank
  <2>1. c.id \in DOMAIN tcp.byId /\ At(tcp, c.id) = c
    BY <1>0, AtFacts DEF InOrder, IdsInOrder
  <2>2. Sound(c)
    BY <1>0, <2>1 DEF DemuxInv, SocketsInv, ConnsSound
  <2> QED  BY <2>2 DEF Sound, OtherSegmentArrives
<1>2. PICK e \in Outcomes(c) :
          Perform(IF c.st = "SYN_SENT" /\ e[1] # "RCV_RST" THEN u ELSE tcp, o, e[1], e[2])
  BY DEF OtherSegmentArrives
<1>3. Moves(c, Goto(c, e[1]), e[2] \o Entered(c.st, Goto(c, e[1]), e[1]))
  BY <1>1, OutcomeMoves
<1>4. UNCHANGED <<nextId, sock, cmds>>
  BY DEF OtherSegmentArrives
<1>5. CASE Perform(tcp, o, e[1], e[2])
  BY <1>0, <1>1, <1>3, <1>4, <1>5, MovesKeep
<1>6. CASE Perform(u, o, e[1], e[2])
  <2>1. Updatable(tcp, o, r)
    BY <1>0, FoundIsUpdatable DEF InOrder
  <2>2. InOrder(u, nextId)
    BY <1>0, <2>1, UpdateSockPairInOrder
  <2>3. /\ u.byId = tcp.byId /\ u.fault = "none" /\ DOMAIN u.conn = DOMAIN tcp.conn
        /\ u.conn[o] = Qualified(c, r)
        /\ \A x \in DOMAIN tcp.conn : x # o => u.conn[x] = tcp.conn[x]
    <3>1. Shaped(tcp) /\ PairsInOrder(tcp)
      BY <1>0 DEF InOrder
    <3> QED  BY <1>0, <3>1, UpdateSockPairFacts
  <2>4. /\ u.conn[o].id = c.id /\ u.conn[o].st = c.st
        /\ u.conn[o].active = c.active /\ u.conn[o].fork = c.fork /\ u.conn[o].r # Blank
        /\ u.conn[o].deferred = c.deferred
    <3>1. DOMAIN c = ConnFields /\ r # Blank
      BY <1>0, DemuxAssumption DEF InOrder, Shaped
    <3> HIDE DEF c, u
    <3> QED  BY <2>3, <3>1, QualifiedFacts
  <2> HIDE DEF u
  <2> QED  BY <1>0, <1>3, <1>4, <1>6, <2>2, <2>3, <2>4, MovesKeep
<1> QED  BY <1>2, <1>5, <1>6

\* An error that ends the run leaves everything but the reason as it was.
LEMMA FaultKeeps ==
    ASSUME DemuxInv, NEW f, f # "none", tcp' = [tcp EXCEPT !.fault = f],
           UNCHANGED <<inds, cmds, sock>>, nextId' \in {nextId, nextId + 1}, Crossings,
           FaultsExplained'
    PROVE  DemuxInv'
<1>0. DemuxTypes /\ InOrder(tcp, nextId)
  BY DEF DemuxInv
<1>1. DOMAIN tcp = TableFields
  BY <1>0 DEF InOrder, Shaped
<1>2. /\ tcp'.conn = tcp.conn /\ tcp'.byId = tcp.byId /\ tcp'.byPair = tcp.byPair
      /\ tcp'.used = tcp.used /\ tcp'.last = tcp.last /\ tcp'.fault = f
      /\ DOMAIN tcp' = TableFields
  BY <1>1 DEF TableFields
<1>3. nextId \in Nat /\ nextId' \in Nat /\ nextId <= nextId'
  BY <1>0 DEF DemuxTypes
<1>4. InOrder(tcp', nextId')
  <2>1. IdsBelow(tcp', nextId')
    BY <1>0, <1>2, <1>3 DEF InOrder, IdsBelow
  <2>2. Shaped(tcp') /\ IdsInOrder(tcp')
    BY <1>0, <1>2 DEF InOrder, Shaped, IdsInOrder
  <2>3. PairsInOrder(tcp')
    BY <1>0, <1>2 DEF InOrder, PairsInOrder
  <2>4. PortsInOrder(tcp')
    <3>1. \A p : OnPort(tcp', p) = OnPort(tcp, p)
      BY <1>2 DEF OnPort
    <3> QED  BY <1>0, <1>2, <3>1 DEF InOrder, PortsInOrder
  <2> QED  BY <2>1, <2>2, <2>3, <2>4 DEF InOrder
<1>5. DemuxTypes'
  <2>1. crossed' \subseteq Nat
    <3>1. cmds' \in Seq(Commands) /\ crossed \subseteq Nat
      BY <1>0 DEF DemuxTypes
    <3> QED  BY <3>1, AboutNat
  <2> QED  BY <1>0, <1>3, <2>1 DEF DemuxTypes
<1>6. ~ Up'
  BY <1>2 DEF Up
<1> QED  BY <1>4, <1>5, <1>6 DEF DemuxInv

LEMMA CloneKept ==
    ASSUME NEW c, DOMAIN c = ConnFields, Sound(c), c.st = "LISTEN", c.fork
    PROVE  Kept(c, Clone(c), <<>>)
<1> DEFINE d == Clone(c)
<1>1. /\ d.st = "LISTEN" /\ d.active = FALSE /\ d.fork = TRUE /\ d.r = Blank
      /\ d.deferred = FALSE
  BY CloneFacts DEF Sound, Passive
<1> HIDE DEF d
<1>2. Sound(d)
  BY <1>1 DEF Sound, States
<1>3. Quiet(c, d)
  BY <1>1 DEF Quiet, Fits, Passive, ClosingStates, Opening, StillOpen, PeerClosed, HalfClosed
<1> QED  BY <1>1, <1>2, <1>3 DEF Kept, Passive, Stray, d, IndKinds

LEMMA ForkKeeps ==
    ASSUME DemuxInv, Up, NEW o \in DOMAIN tcp.conn, NEW r \in Remotes, NEW lp,
           FindConnForSegment(o, lp, r), tcp.conn[o].st = "LISTEN", tcp.conn[o].fork,
           nextId' = nextId + 1,
           Perform(AddForkedConnection(tcp, o, FreshObject(tcp), r, nextId), o, "RCV_SYN", <<>>),
           UNCHANGED <<sock, cmds>>, Crossings
    PROVE  DemuxInv'
<1> DEFINE c == tcp.conn[o]
           i == c.id
           o2 == FreshObject(tcp)
           u == AddForkedConnection(tcp, o, o2, r, nextId)
<1>0. /\ InOrder(tcp, nextId) /\ tcp.fault = "none" /\ nextId \in Nat
      /\ SocketsInv /\ DemuxTypes
  BY DEF DemuxInv, Up, DemuxTypes
<1>1. /\ o2 \notin DOMAIN tcp.conn /\ r # Blank /\ Updatable(tcp, o, r)
      /\ DOMAIN c = ConnFields
  <2>1. IsFiniteSet(DOMAIN tcp.conn) /\ PairsInOrder(tcp)
    BY <1>0 DEF InOrder, Shaped
  <2>2. DOMAIN c = ConnFields
    BY <1>0 DEF InOrder, Shaped
  <2> QED  BY <2>1, <2>2, FreshObjectIsNew, FoundIsUpdatable, DemuxAssumption
<1>2. /\ i \in DOMAIN tcp.byId /\ At(tcp, i) = c /\ i # nextId /\ i \in Nat
      /\ Sound(c) /\ (c.r # Blank => i \notin DOMAIN sock \cup About(cmds))
  <2>1. i \in DOMAIN tcp.byId /\ At(tcp, i) = c /\ i # nextId /\ i \in Nat
    BY <1>0, AtFacts DEF InOrder, IdsInOrder, IdsBelow
  <2>2. Sound(c) /\ (Stray(c) => i \notin DOMAIN sock \cup About(cmds))
    BY <1>0, <2>1 DEF SocketsInv, ConnsSound
  <2>3. c.r # Blank => Stray(c)
    BY DEF Stray, Passive
  <2> QED  BY <2>1, <2>2, <2>3
<1>3. ForkedTo(tcp, u, o, o2, r, nextId)
  <2>1. InOrder(tcp, nextId) /\ tcp.fault = "none" /\ nextId \in Nat
    BY <1>0
  <2> HIDE DEF o2
  <2> QED  BY <1>1, <2>1, ForkInOrder
<1> HIDE DEF u, o2
<1>4. CASE u.fault = "address in use" /\ c.r # Blank
  <2>1. tcp' = [tcp EXCEPT !.fault = "address in use"] /\ inds' = inds
    BY <1>4 DEF Perform, Fault, u, o2
  <2>2. tcp'.conn = tcp.conn /\ tcp'.fault = "address in use"
    BY <1>0, <2>1 DEF InOrder, Shaped, TableFields
  <2>3. FaultsExplained'
    BY <1>2, <1>4, <2>2 DEF FaultsExplained
  <2> QED  BY <2>1, <2>3, FaultKeeps
<1>5. CASE u.fault = "none" /\ InOrder(u, nextId + 1)
           /\ DOMAIN u.conn = DOMAIN tcp.conn \cup {o2}
           /\ u.conn[o] = Forked(c, r, nextId)
           /\ u.conn[o2] = Clone(c)
           /\ (\A x \in DOMAIN tcp.conn : x # o => u.conn[x] = tcp.conn[x])
           /\ DOMAIN u.byId = DOMAIN tcp.byId \cup {nextId}
  <2> DEFINE b == u.conn[o]
  <2>1. /\ b.id = nextId /\ b.st = "LISTEN" /\ b.active = c.active /\ b.fork = c.fork
        /\ b.r = r /\ b.deferred = c.deferred /\ DOMAIN b = ConnFields
    <3> DEFINE q == Qualified(c, r)
    <3>1. /\ DOMAIN q = ConnFields /\ q.st = c.st /\ q.active = c.active /\ q.fork = c.fork
          /\ q.r = r /\ q.deferred = c.deferred
      BY ZenonT(60), <1>1, QualifiedFacts
    <3> HIDE DEF q
    <3>2. b = [q EXCEPT !.id = nextId]
      BY <1>5 DEF q, Forked
    <3> HIDE DEF b, c
    <3>3. c.st = "LISTEN"
      BY DEF c
    <3> QED  BY <3>1, <3>2, <3>3 DEF ConnFields
  <2>2. Goto(b, "RCV_SYN") = "SYN_RCVD" /\ <<>> \o Entered(b.st, "SYN_RCVD", "RCV_SYN") = <<>>
    BY <2>1, SynMoves
  <2>3. /\ InOrder(tcp', nextId + 1) /\ tcp'.fault = "none"
        /\ inds' = inds \o Told(nextId, <<>>)
        /\ At(tcp', nextId) = [b EXCEPT !.st = "SYN_RCVD"]
        /\ \A j : j # nextId => At(tcp', j) = At(u, j)
    <3>1. o \in DOMAIN u.conn /\ Perform(u, o, "RCV_SYN", <<>>)
      BY <1>5 DEF u, o2
    <3>2. /\ InOrder(tcp', nextId + 1) /\ tcp'.fault = "none"
          /\ inds' = inds \o Told(b.id, <<>> \o Entered(b.st, Goto(b, "RCV_SYN"), "RCV_SYN"))
          /\ At(tcp', b.id) = IF Goto(b, "RCV_SYN") = "CLOSED" THEN Absent
                              ELSE [b EXCEPT !.st = Goto(b, "RCV_SYN")]
          /\ \A j : j # b.id => At(tcp', j) = At(u, j)
      BY <1>5, <3>1, PerformFacts DEF Performed
    <3> HIDE DEF b
    <3> QED  BY <2>1, <2>2, <3>2
  <2>4. At(u, i) = Clone(c)
    <3>1. IdsInOrder(u) /\ o2 \in DOMAIN u.conn
      BY <1>5 DEF InOrder
    <3>2. u.conn[o2].id = i
      BY ZenonT(60), <1>1, <1>5, CloneFacts
    <3>3. At(u, u.conn[o2].id) = u.conn[o2]
      BY <3>1, AtFacts
    <3> QED  BY <1>5, <3>2, <3>3
  <2>5. ASSUME NEW j, j \notin {i, nextId} PROVE At(u, j) = At(tcp, j)
    <3>1. CASE j \in DOMAIN tcp.byId
      <4>1. PICK x \in DOMAIN tcp.conn : tcp.conn[x].id = j /\ At(tcp, j) = tcp.conn[x]
        BY <1>0, <3>1, AtFacts DEF InOrder
      <4>2. x # o
        BY <2>5, <4>1
      <4>3. x \in DOMAIN u.conn /\ u.conn[x] = tcp.conn[x]
        BY <1>5, <4>2
      <4>4. At(u, u.conn[x].id) = u.conn[x]
        BY <1>5, <4>3, AtFacts DEF InOrder
      <4> QED  BY <4>1, <4>3, <4>4
    <3>2. CASE j \notin DOMAIN tcp.byId
      BY <1>5, <2>5, <3>2 DEF At
    <3> QED  BY <3>1, <3>2
  <2>6. Sound(At(tcp', nextId)) /\ Stray(At(tcp', nextId))
    <3> DEFINE e == [b EXCEPT !.st = "SYN_RCVD"]
    <3>1. /\ e.st = "SYN_RCVD" /\ e.active = c.active /\ e.fork = c.fork /\ e.r = r
          /\ e.deferred = c.deferred
      <4> HIDE DEF b, c
      <4> QED  BY <2>1 DEF ConnFields
    <3>2. c.active = FALSE /\ c.fork = TRUE /\ c.deferred = FALSE
      BY <1>2 DEF Sound, Passive
    <3> HIDE DEF e
    <3>3. Sound(e) /\ Stray(e)
      BY <1>1, <3>1, <3>2 DEF Sound, Stray, Passive, States
    <3> QED  BY <2>3, <3>3 DEF e
  <2>7. Kept(At(tcp, i), At(tcp', i), <<>>)
    <3>1. At(tcp', i) = Clone(c)
      BY <1>2, <2>3, <2>4
    <3>2. Kept(c, Clone(c), <<>>)
      BY <1>1, <1>2, CloneKept
    <3> QED  BY <1>2, <3>1, <3>2
  <2>8. inds' = inds \o Told(i, <<>>)
    <3>1. <<>> \in Seq(IndKinds) /\ inds \in Seq(IndRecords)
      BY <1>0 DEF DemuxTypes
    <3> QED  BY <1>0, <1>2, <2>3, <3>1, ToldAbout
  <2>9. \A j : j \notin {i, nextId} => At(tcp', j) = At(tcp, j)
    BY <2>3, <2>5
  <2>10. NetStep(i, <<>>)
    BY <1>2, <2>3, <2>6, <2>7, <2>8, <2>9 DEF NetStep
  <2> QED  BY <2>10, NetKeeps
<1> QED  BY <1>3, <1>4, <1>5 DEF ForkedTo

LEMMA SegmentKeeps ==
    ASSUME DemuxInv, NEW o \in DOMAIN tcp.conn, SegmentReaches(o), Crossings
    PROVE  DemuxInv'
<1> DEFINE c == tcp.conn[o]
<1>0. Up /\ UNCHANGED sock /\ tcp.fault = "none" /\ InOrder(tcp, nextId)
  BY DEF SegmentReaches, Up, DemuxInv
<1>1. PICK r \in Remotes, lp \in Ports \cup ServicePorts :
          /\ FindConnForSegment(o, lp, r)
          /\ SynArrives(o, r) \/ OtherSegmentArrives(o, r)
  BY DEF SegmentReaches
<1>2. CASE OtherSegmentArrives(o, r)
  BY <1>0, <1>1, <1>2, OtherSegmentKeeps
<1>3. CASE SynArrives(o, r) /\ c.fork
  <2>1. /\ c.st = "LISTEN" /\ nextId' = nextId + 1 /\ UNCHANGED cmds
        /\ Perform(AddForkedConnection(tcp, o, FreshObject(tcp), r, nextId), o, "RCV_SYN", <<>>)
    BY <1>3 DEF SynArrives
  <2> QED  BY <1>0, <1>1, <1>3, <2>1, ForkKeeps
<1>4. CASE SynArrives(o, r) /\ ~c.fork
  <2> DEFINE u == UpdateSockPair(tcp, o, r)
  <2>1. c.st = "LISTEN" /\ UNCHANGED <<nextId, sock, cmds>> /\ Perform(u, o, "RCV_SYN", <<>>)
    BY <1>0, <1>4 DEF SynArrives
  <2>2. Updatable(tcp, o, r)
    BY <1>0, <1>1, FoundIsUpdatable DEF InOrder
  <2>3. InOrder(u, nextId)
    BY <1>0, <2>2, UpdateSockPairInOrder
  <2>4. /\ u.byId = tcp.byId /\ u.fault = "none" /\ DOMAIN u.conn = DOMAIN tcp.conn
        /\ u.conn[o] = Qualified(c, r)
        /\ \A x \in DOMAIN tcp.conn : x # o => u.conn[x] = tcp.conn[x]
    <3>1. Shaped(tcp) /\ PairsInOrder(tcp)
      BY <1>0 DEF InOrder
    <3> QED  BY <1>0, <3>1, UpdateSockPairFacts
  <2>5. /\ u.conn[o].id = c.id /\ u.conn[o].st = c.st
        /\ u.conn[o].active = c.active /\ u.conn[o].fork = c.fork /\ u.conn[o].r # Blank
        /\ u.conn[o].deferred = c.deferred
    <3>1. DOMAIN c = ConnFields /\ r # Blank
      BY <1>0, DemuxAssumption DEF InOrder, Shaped
    <3> HIDE DEF c, u
    <3> QED  BY <2>4, <3>1, QualifiedFacts
  <2>6. LET new == Goto(c, "RCV_SYN")
        IN  Moves(c, new, <<>> \o Entered(c.st, new, "RCV_SYN"))
    BY <1>4, <2>1, SynMoves
  <2> HIDE DEF u
  <2> QED  BY <1>0, <2>1, <2>3, <2>4, <2>5, <2>6, MovesKeep
<1> QED  BY <1>1, <1>2, <1>3, <1>4

-----------------------------------------------------------------------------
(* A command arrives.                                                      *)

\* What a command makes of connection c, and what the application hears.
Taken(kind, c, d, kinds) ==
    \/ /\ kind = "OPEN_PASSIVE" /\ c = Absent /\ kinds = <<>>
       /\ Sound(d) /\ d.st = "LISTEN" /\ d.r = Blank
    \/ /\ kind = "OPEN_ACTIVE" /\ c = Absent /\ kinds = <<>>
       /\ Sound(d) /\ d.st = "SYN_SENT"
    \/ /\ kind = "CLOSE" /\ kinds = <<>> /\ Sound(d)
       /\ \/ c.st \in {"SYN_RCVD", "ESTABLISHED"} /\ d.st = "FIN_WAIT_1"
          \/ c.st = "CLOSE_WAIT" /\ d.st = "LAST_ACK"
          \/ c.st \in {"SYN_RCVD", "ESTABLISHED", "CLOSE_WAIT"} /\ d.st = c.st /\ d.deferred
    \/ /\ kind = "CLOSE" /\ kinds = <<"CLOSED">>
       /\ c.st \in {"LISTEN", "SYN_SENT"} /\ d = Absent
    \/ kind = "ABORT" /\ kinds = <<>> /\ c # Absent /\ d = Absent

LEMMA TailFacts ==
    ASSUME NEW S, NEW q \in Seq(S), q # <<>>
    PROVE  /\ Tail(q) \in Seq(S) /\ Head(q) = q[1] /\ Head(q) \in S
           /\ 1 \in DOMAIN q /\ DOMAIN q = 1 .. Len(q) /\ Len(q) \in Nat
           /\ \A k \in DOMAIN Tail(q) : /\ k \in Nat /\ k > 0
                                        /\ k + 1 \in DOMAIN q /\ Tail(q)[k] = q[k + 1]
           /\ \A k \in DOMAIN q : k # 1 => k - 1 \in DOMAIN Tail(q) /\ Tail(q)[k - 1] = q[k]
           /\ About(Tail(q)) \subseteq About(q)
<1>1. /\ Tail(q) \in Seq(S) /\ Head(q) = q[1] /\ Head(q) \in S
      /\ 1 \in DOMAIN q /\ DOMAIN q = 1 .. Len(q) /\ Len(q) \in Nat
      /\ DOMAIN Tail(q) = 1 .. Len(q) - 1
      /\ \A k \in 1 .. Len(q) - 1 : Tail(q)[k] = q[k + 1]
  OBVIOUS
<1>2. \A k \in DOMAIN Tail(q) : /\ k \in Nat /\ k > 0
                                /\ k + 1 \in DOMAIN q /\ Tail(q)[k] = q[k + 1]
  BY <1>1
<1>3. ASSUME NEW k \in DOMAIN q, k # 1
      PROVE  k - 1 \in DOMAIN Tail(q) /\ Tail(q)[k - 1] = q[k]
  <2>1. k - 1 \in 1 .. Len(q) - 1 /\ (k - 1) + 1 = k
    BY <1>1, <1>3
  <2>2. Tail(q)[k - 1] = q[(k - 1) + 1]
    BY <1>1, <2>1
  <2> QED  BY <1>1, <2>1, <2>2
<1>4. About(Tail(q)) \subseteq About(q)
  BY <1>2 DEF About
<1> QED  BY <1>1, <1>2, <1>3, <1>4

\* The commands that follow an OPEN, a CLOSE and an ABORT of the same id.
LEMMA TailFits ==
    ASSUME NEW q \in Seq(Commands), q # <<>>, NEW c, NEW s, NEW n, NEW i, q[1].id = i,
           Agreed(c, s, q, n, i), NEW d, NEW kinds, Taken(q[1].kind, c, d, kinds),
           NEW k \in DOMAIN Tail(q), Tail(q)[k].id = i
    PROVE  CommandFits(d, s, Tail(q), k)
<1> DEFINE p == Tail(q)
<1>0. /\ 1 \in DOMAIN q /\ DOMAIN q = 1 .. Len(q) /\ Len(q) \in Nat
      /\ \A x \in DOMAIN p : x \in Nat /\ x > 0 /\ x + 1 \in DOMAIN q /\ p[x] = q[x + 1]
      /\ \A x \in DOMAIN q : x # 1 => x - 1 \in DOMAIN p /\ p[x - 1] = q[x]
  BY TailFacts
<1> HIDE DEF p
<1>1. k \in DOMAIN p /\ p[k].id = i
  BY DEF p
<1>2. k \in Nat /\ k > 0 /\ k + 1 \in DOMAIN q /\ p[k] = q[k + 1] /\ q[k + 1].id = i
  BY <1>0, <1>1
<1>3. 1 \in 1 .. (k + 1) - 1
  BY <1>2
<1>4. CommandFits(c, s, q, 1) /\ CommandFits(c, s, q, k + 1)
  BY <1>0, <1>2 DEF Agreed
<1>5. \A K : Follows(q, k + 1, K) => q[1].kind \in K
  BY <1>2, <1>3 DEF Follows
<1>6. ASSUME NEW K, Follows(q, k + 1, K) PROVE Follows(p, k, K)
  <2> SUFFICES ASSUME NEW j \in 1 .. k - 1, p[j].id = p[k].id PROVE p[j].kind \in K
    BY DEF Follows
  <2>1. j \in Nat /\ j + 1 \in 1 .. (k + 1) - 1 /\ j + 1 \in DOMAIN q /\ j + 1 # 1
        /\ (j + 1) - 1 = j
    BY <1>0, <1>2
  <2>2. p[j] = q[j + 1]
    BY <1>0, <2>1
  <2> QED  BY <1>2, <1>6, <2>1, <2>2 DEF Follows
<1>7. ~ OpenFits(c, s, q, k + 1)
  BY <1>5 DEF OpenFits
<1>8. CASE q[1].kind \in OpenKinds
  <2>1. c.st = "ABSENT" /\ d.st \in {"LISTEN", "SYN_SENT"}
    BY <1>8 DEF Taken, OpenKinds, Absent
  <2>2. CASE CloseFits(c, s, q, k + 1)
    <3>1. s = "none" /\ p[k].kind = "CLOSE" /\ Follows(q, k + 1, OpenKinds)
      BY <1>2, <2>1, <2>2 DEF CloseFits, Opening, StillOpen, PeerClosed, HalfClosed
    <3>2. Opening(d)
      BY <2>1 DEF Opening
    <3>3. CloseFits(d, s, p, k)
      BY <1>6, <3>1, <3>2 DEF CloseFits
    <3> QED  BY <3>3 DEF CommandFits, p
  <2>3. CASE AbortFits(c, s, q, k + 1)
    <3>1. s = "none" /\ p[k].kind = "ABORT" /\ Follows(q, k + 1, OpenKinds)
      BY <1>2, <2>1, <2>3 DEF AbortFits, StillOpen, HalfClosed
    <3>2. AbortFits(d, s, p, k)
      BY <1>6, <2>1, <3>1 DEF AbortFits
    <3> QED  BY <3>2 DEF CommandFits, p
  <2> QED  BY <1>4, <1>7, <2>2, <2>3 DEF CommandFits
<1>9. CASE q[1].kind = "CLOSE"
  <2>1. ~ CloseFits(c, s, q, k + 1)
    BY <1>5, <1>9 DEF CloseFits, OpenKinds
  <2>2. AbortFits(c, s, q, k + 1)
    BY <1>4, <1>7, <2>1 DEF CommandFits
  <2>3. Follows(q, k + 1, {"CLOSE"}) /\ StillOpen(c)
    BY <1>5, <1>9, <2>2 DEF AbortFits, OpenKinds
  <2>4. d.st \in {"FIN_WAIT_1", "ESTABLISHED"}
    BY <1>9, <2>3 DEF Taken, StillOpen, HalfClosed
  <2>5. ASSUME NEW j \in 1 .. k - 1, p[j].id = p[k].id PROVE FALSE
    <3>1. j \in Nat /\ j + 1 \in 1 .. (k + 1) - 1 /\ j + 1 \in DOMAIN q /\ j + 1 # 1
          /\ (j + 1) - 1 = j /\ 1 \in 1 .. (j + 1) - 1
      BY <1>0, <1>2
    <3>2. p[j] = q[j + 1] /\ q[j + 1].id = i
      BY <1>0, <1>1, <2>5, <3>1
    <3>3. q[j + 1].kind = "CLOSE"
      BY <1>2, <2>3, <3>1, <3>2 DEF Follows
    <3>4. CloseFits(c, s, q, j + 1)
      <4>1. CommandFits(c, s, q, j + 1)
        BY <3>1, <3>2 DEF Agreed
      <4> QED  BY <3>3, <4>1 DEF CommandFits, OpenFits, AbortFits, OpenKinds
    <3>5. q[1].kind \in OpenKinds
      BY <3>1, <3>2, <3>4 DEF CloseFits, Follows
    <3> QED  BY <1>9, <3>5 DEF OpenKinds
  <2>6. Follows(p, k, OpenKinds)
    BY <2>5 DEF Follows
  <2> QED  BY <1>2, <2>2, <2>4, <2>6 DEF AbortFits, CommandFits, p
<1>10. CASE q[1].kind = "ABORT"
  BY <1>4, <1>5, <1>7, <1>10 DEF CommandFits, CloseFits, AbortFits, OpenKinds
<1> QED  BY <1>8, <1>9, <1>10 DEF Taken, OpenKinds

\* The last command of an id leaves socket and connection fitting, now or when
\* the socket has heard the answer.
LEMMA TakenFits ==
    ASSUME NEW q \in Seq(Commands), q # <<>>, NEW c, NEW s, NEW i, q[1].id = i,
           CommandFits(c, s, q, 1), NEW d, NEW kinds, Taken(q[1].kind, c, d, kinds),
           i \notin About(Tail(q))
    PROVE  IF kinds = <<>> THEN Fits(s, d) ELSE kinds = <<"CLOSED">> /\ Fits("none", d)
<1>0. /\ DOMAIN q = 1 .. Len(q) /\ Len(q) \in Nat
      /\ \A x \in DOMAIN q : x # 1 => x - 1 \in DOMAIN Tail(q) /\ Tail(q)[x - 1] = q[x]
  BY TailFacts
<1>1. \A x \in DOMAIN q : x # 1 => q[x].id # i
  BY <1>0, AboutMember
<1>2. CASE q[1].kind \in OpenKinds
  <2>1. OpenFits(c, s, q, 1)
    BY <1>2 DEF CommandFits, CloseFits, AbortFits, OpenKinds
  <2>2. s = IF q[1].kind = "OPEN_PASSIVE" THEN "LISTENING" ELSE "CONNECTING"
    BY <1>0, <1>1, <2>1 DEF OpenFits
  <2> QED  BY <1>2, <2>2 DEF Taken, Fits, Passive, Sound, OpenKinds
<1>3. CASE q[1].kind = "CLOSE"
  <2>1. CloseFits(c, s, q, 1)
    BY <1>3 DEF CommandFits, OpenFits, AbortFits, OpenKinds
  <2>2. ~ \E j \in DOMAIN q : j > 1 /\ q[j].id = q[1].id
    BY <1>0, <1>1
  <2>3. \/ s = "none" /\ (Opening(c) \/ PeerClosed(c) \/ c.st = "ABSENT")
        \/ s = "LOCALLY_CLOSED" /\ StillOpen(c)
    BY <2>1, <2>2 DEF CloseFits
  <2> QED  BY <1>3, <2>3 DEF Taken, Fits, ClosingStates, Absent, Opening, PeerClosed, StillOpen,
                             HalfClosed
<1>4. CASE q[1].kind = "ABORT"
  <2>1. AbortFits(c, s, q, 1)
    BY <1>4 DEF CommandFits, OpenFits, CloseFits, OpenKinds
  <2> QED  BY <1>4, <2>1 DEF Taken, AbortFits, Fits, Absent
<1> QED  BY <1>2, <1>3, <1>4 DEF Taken, OpenKinds

LEMMA AgreedTaken ==
    ASSUME NEW q \in Seq(Commands), q # <<>>, NEW c, NEW s, NEW n \in Seq(IndRecords),
           NEW i \in Nat, q[1].id = i, Agreed(c, s, q, n, i),
           NEW d, NEW kinds, Taken(q[1].kind, c, d, kinds),
           ~ (i \in About(Tail(q)) /\ i \in About(n \o Told(i, kinds)))
    PROVE  Agreed(d, s, Tail(q), n \o Told(i, kinds), i)
<1> DEFINE p == Tail(q)
           m == n \o Told(i, kinds)
<1>1. CommandFits(c, s, q, 1) /\ i \notin About(n)
  <2>1. 1 \in DOMAIN q
    BY TailFacts
  <2> QED  BY <2>1 DEF Agreed
<1>2. ASSUME NEW k \in DOMAIN p, p[k].id = i PROVE CommandFits(d, s, p, k) /\ i \notin About(m)
  <2>1. CommandFits(d, s, p, k)
    BY <1>2, TailFits
  <2>2. i \in About(p)
    BY <1>2, AboutMember
  <2> QED  BY <2>1, <2>2
<1>3. ASSUME i \notin About(p), kinds = <<>> PROVE Agreed(d, s, p, m, i)
  <2>1. Fits(s, d)
    BY <1>1, <1>3, TakenFits
  <2>2. kinds \in Seq(IndKinds)
    BY <1>3
  <2>3. m = n
    BY <1>3, <2>2, ToldAbout
  <2>4. \A k \in DOMAIN n : n[k].id # i
    BY <1>1, AboutMember
  <2> HIDE DEF m, p
  <2> QED  BY <1>2, <1>3, <2>1, <2>3, <2>4 DEF Agreed, LastAbout
<1>4. ASSUME i \notin About(p), kinds # <<>> PROVE Agreed(d, s, p, m, i)
  <2>1. kinds = <<"CLOSED">> /\ Fits("none", d)
    BY <1>1, <1>4, TakenFits
  <2>2. kinds \in Seq(IndKinds) /\ Fits(After(kinds[Len(kinds)]), d)
    BY <2>1 DEF IndKinds, After, SocketState
  <2> QED  BY <1>4, <2>2, AgreedLoud
<1>5. ASSUME i \in About(p) PROVE Agreed(d, s, p, m, i)
  BY <1>2, <1>5 DEF Agreed
<1> QED  BY <1>3, <1>4, <1>5

LEMMA HeadCommand ==
    ASSUME DemuxInv, Up, cmds # <<>>
    PROVE  LET cmd == Head(cmds)
           IN  /\ cmd = cmds[1] /\ 1 \in DOMAIN cmds /\ cmd \in Commands
               /\ cmd.id \in Nat /\ cmd.id < nextId /\ cmd.id \in About(cmds)
               /\ cmd.id \notin crossed =>
                     /\ Agreed(At(tcp, cmd.id), SockAt(sock, cmd.id), cmds, inds, cmd.id)
                     /\ CommandFits(At(tcp, cmd.id), SockAt(sock, cmd.id), cmds, 1)
                     /\ cmd.id \notin About(inds)
               /\ cmd.kind \in OpenKinds => cmd.id \notin crossed
<1> DEFINE cmd == Head(cmds)
<1>0. cmds \in Seq(Commands) /\ SocketsInv /\ nextId \in Nat
  BY DEF DemuxInv, DemuxTypes
<1>1. cmd = cmds[1] /\ 1 \in DOMAIN cmds /\ cmd \in Commands
  BY <1>0, TailFacts
<1> HIDE DEF cmd
<1>2. cmd.id \in Nat /\ cmd.id \in About(cmds)
  BY <1>1, AboutMember DEF Commands
<1>3. cmd.id < nextId
  BY <1>0, <1>2 DEF SocketsInv, IdsUsed
<1>4. cmd.id \in 0 .. nextId - 1
  BY <1>0, <1>2, <1>3
<1>5. cmd.id \notin crossed => Agreed(At(tcp, cmd.id), SockAt(sock, cmd.id), cmds, inds, cmd.id)
  BY <1>0, <1>4 DEF SocketsInv, AllAgreed
<1>6. cmd.kind \in OpenKinds => cmd.id \notin crossed
  BY <1>0, <1>1 DEF SocketsInv, OpensNew
<1> QED  BY <1>1, <1>2, <1>3, <1>5, <1>6 DEF Agreed, cmd

CmdStep(i, kind, kinds) ==
    /\ cmds # <<>> /\ i = Head(cmds).id /\ kind = Head(cmds).kind
    /\ Taken(kind, At(tcp, i), At(tcp', i), kinds)
    /\ tcp'.fault = "none" /\ InOrder(tcp', nextId)
    /\ cmds' = Tail(cmds) /\ inds' = inds \o Told(i, kinds)
    /\ UNCHANGED <<nextId, sock>>
    /\ \A j : j # i => At(tcp', j) = At(tcp, j)
    /\ Crossings

LEMMA CmdKeeps ==
    ASSUME DemuxInv, Up, NEW i, NEW kind, NEW kinds, CmdStep(i, kind, kinds)
    PROVE  DemuxInv'
<1> DEFINE c == At(tcp, i)
           d == At(tcp', i)
<1>0. SocketsInv /\ DemuxTypes /\ InOrder(tcp, nextId)
  BY DEF DemuxInv
<1>1. /\ cmds # <<>> /\ cmds \in Seq(Commands) /\ cmds' \in Seq(Commands)
      /\ cmds[1] = Head(cmds) /\ 1 \in DOMAIN cmds
      /\ DOMAIN cmds = 1 .. Len(cmds) /\ Len(cmds) \in Nat
      /\ \A k \in DOMAIN cmds' : /\ k \in Nat /\ k > 0
                                 /\ k + 1 \in DOMAIN cmds /\ cmds'[k] = cmds[k + 1]
      /\ \A k \in DOMAIN cmds : k # 1 => k - 1 \in DOMAIN cmds' /\ cmds'[k - 1] = cmds[k]
      /\ About(cmds') \subseteq About(cmds)
  <2>1. cmds # <<>> /\ cmds \in Seq(Commands) /\ cmds' = Tail(cmds)
    BY <1>0 DEF CmdStep, DemuxTypes
  <2> QED  BY <2>1, TailFacts
<1>2. /\ i = cmds[1].id /\ kind = cmds[1].kind /\ i \in Nat /\ i < nextId /\ i \in About(cmds)
      /\ i \notin crossed => /\ Agreed(c, SockAt(sock, i), cmds, inds, i)
                             /\ CommandFits(c, SockAt(sock, i), cmds, 1)
                             /\ i \notin About(inds)
      /\ kind \in OpenKinds => i \notin crossed
  <2>1. i = Head(cmds).id /\ kind = Head(cmds).kind
    BY DEF CmdStep
  <2> HIDE DEF c
  <2> QED  BY <1>1, <2>1, HeadCommand DEF c
<1>3. kinds \in Seq(IndKinds) /\ Taken(kind, c, d, kinds)
  <2>1. Taken(kind, c, d, kinds)
    BY DEF CmdStep
  <2>2. kinds = <<>> \/ kinds = <<"CLOSED">>
    BY <2>1 DEF Taken
  <2>3. kinds \in Seq(IndKinds)
    <3>1. <<>> \in Seq(IndKinds)
      OBVIOUS
    <3>2. <<"CLOSED">> \in Seq(IndKinds)
      BY DEF IndKinds
    <3> QED  BY <2>2, <3>1, <3>2
  <2> QED  BY <2>1, <2>3
<1>4. /\ inds' = inds \o Told(i, kinds) /\ inds' \in Seq(IndRecords) /\ inds \in Seq(IndRecords)
      /\ About(inds') = About(inds) \cup (IF kinds = <<>> THEN {} ELSE {i})
      /\ \A j : j # i => SameFor(j, inds, inds')
  <2>1. inds \in Seq(IndRecords) /\ inds' = inds \o Told(i, kinds)
    BY <1>0 DEF CmdStep, DemuxTypes
  <2> QED  BY <1>2, <1>3, <2>1, ToldAbout
<1>5. /\ nextId' = nextId /\ sock' = sock /\ Crossings /\ tcp'.fault = "none"
      /\ InOrder(tcp', nextId) /\ cmds' = Tail(cmds)
      /\ \A j : j # i => At(tcp', j) = At(tcp, j)
  BY DEF CmdStep
<1> HIDE DEF c, d
<1>6. DemuxTypes'
  <2>1. crossed' \subseteq Nat
    BY <1>0, <1>1, <1>5, AboutNat DEF DemuxTypes
  <2> QED  BY <1>0, <1>1, <1>4, <1>5, <2>1 DEF DemuxTypes
<1>7. IdsUsed'
  <2>1. \A j \in About(cmds') \cup About(inds') \cup DOMAIN sock' \cup crossed' :
            j = i \/ j \in About(cmds) \cup About(inds) \cup DOMAIN sock \cup crossed
    BY <1>1, <1>4, <1>5 DEF Crossings
  <2> QED  BY <1>0, <1>2, <1>5, <2>1 DEF SocketsInv, IdsUsed
<1>8. AllAgreed'
  <2> SUFFICES ASSUME NEW j \in 0 .. nextId - 1, j \notin crossed'
               PROVE  Agreed(At(tcp', j), SockAt(sock, j), cmds', inds', j)
    BY <1>5 DEF AllAgreed
  <2>1. CASE /\ j \notin About(cmds') /\ j \notin About(inds')
             /\ j \notin DOMAIN sock' /\ j \notin DOMAIN tcp'.byId
    <3>1. At(tcp', j) = Absent /\ SockAt(sock, j) = "none"
      BY <1>5, <2>1 DEF At, SockAt
    <3>2. At(tcp', j).st = "ABSENT"
      BY <3>1 DEF Absent
    <3> QED  BY <2>1, <3>1, <3>2, AgreedGone
  <2>2. CASE j # i /\ j \notin crossed
    <3>1. Agreed(At(tcp, j), SockAt(sock, j), cmds, inds, j)
      BY <1>0, <2>2 DEF SocketsInv, AllAgreed
    <3>2. SameFor(j, cmds, cmds') /\ SameFor(j, inds, inds')
      BY <1>1, <1>2, <1>4, <1>5, <2>2, SameTail
    <3> QED  BY <1>1, <1>4, <1>5, <2>2, <3>1, <3>2, AgreedSame
  <2>3. CASE j = i /\ j \notin crossed /\ ~ (j \in About(cmds') /\ j \in About(inds'))
    <3>1. Agreed(d, SockAt(sock, i), Tail(cmds), inds \o Told(i, kinds), i)
      BY <1>1, <1>2, <1>3, <1>4, <1>5, <2>3, AgreedTaken
    <3> QED  BY <1>4, <1>5, <2>3, <3>1 DEF d
  <2> QED  BY <1>5, <2>1, <2>2, <2>3, Uncrossed
<1>9. ASSUME NEW k \in DOMAIN cmds', cmds'[k].id = i, i \notin crossed
      PROVE  cmds'[k].kind \notin OpenKinds
  <2>1. k + 1 \in DOMAIN cmds /\ cmds[k + 1] = cmds'[k] /\ 1 \in 1 .. (k + 1) - 1
    BY <1>1
  <2>2. CommandFits(c, SockAt(sock, i), cmds, k + 1)
    BY <1>2, <1>9, <2>1 DEF Agreed
  <2>3. ~ OpenFits(c, SockAt(sock, i), cmds, k + 1)
    BY <1>2, <1>9, <2>1 DEF OpenFits, Follows
  <2> QED  BY <2>1, <2>2, <2>3 DEF CommandFits, CloseFits, AbortFits, OpenKinds
<1>10. OpensNew'
  <2> SUFFICES ASSUME NEW k \in DOMAIN cmds', cmds'[k].kind \in OpenKinds, cmds'[k].id \in crossed'
               PROVE  FALSE
    BY DEF OpensNew
  <2> DEFINE j == cmds'[k].id
  <2>1. k + 1 \in DOMAIN cmds /\ cmds[k + 1] = cmds'[k]
    BY <1>1
  <2>2. j \notin crossed /\ j \in About(cmds)
    BY <1>0, <2>1, AboutMember DEF SocketsInv, OpensNew
  <2>3. j # i
    BY <1>9, <2>2
  <2>4. j \in About(inds)
    BY <1>4, <1>5, <2>2, <2>3, Crossed
  <2>5. j \in 0 .. nextId - 1
    <3>1. cmds[k + 1] \in Commands
      BY <1>1, <2>1
    <3>2. j \in Nat
      BY <2>1, <3>1 DEF Commands
    <3>3. j < nextId
      BY <1>0, <2>2 DEF SocketsInv, IdsUsed
    <3> QED  BY <1>0, <3>2, <3>3 DEF DemuxTypes
  <2>6. j \notin About(inds)
    BY <1>0, <2>1, <2>2, <2>5 DEF SocketsInv, AllAgreed, Agreed
  <2> QED  BY <2>4, <2>6
<1>11. d # Absent => Sound(d) /\ ~ Stray(d)
  BY <1>3 DEF Taken, Stray, Passive, Sound
<1>12. Passive(d) => /\ kind = "OPEN_PASSIVE" /\ kinds = <<>>
  BY <1>3 DEF Taken, Passive, Absent, Sound
<1>13. ConnsSound'
  <2> SUFFICES ASSUME NEW j \in DOMAIN tcp'.byId
               PROVE  /\ Sound(At(tcp', j))
                      /\ Passive(At(tcp', j)) => j \notin About(inds') \cup crossed'
                      /\ Stray(At(tcp', j)) => j \notin DOMAIN sock \cup About(cmds')
    BY <1>5 DEF ConnsSound
  <2>0. At(tcp', j) # Absent
    BY <1>5, AtAbsent
  <2>1. CASE j = i
    <3>1. Passive(d) => i \notin About(inds') \cup crossed'
      <4> SUFFICES ASSUME Passive(d) PROVE i \notin About(inds') \cup crossed'
        OBVIOUS
      <4>1. i \notin crossed /\ i \notin About(inds)
        BY <1>2, <1>12 DEF OpenKinds
      <4>2. i \notin About(inds')
        BY <1>4, <1>12, <4>1
      <4> QED  BY <1>5, <4>1, <4>2, Crossed
    <3> QED  BY <1>11, <2>0, <2>1, <3>1 DEF d
  <2>2. CASE j # i
    <3>1. At(tcp', j) = At(tcp, j)
      BY <1>5, <2>2
    <3>2. j \in DOMAIN tcp.byId
      BY <1>0, <2>0, <3>1, AtAbsent
    <3>3. /\ Sound(At(tcp, j))
          /\ Passive(At(tcp, j)) => j \notin About(inds) \cup crossed
          /\ Stray(At(tcp, j)) => j \notin DOMAIN sock \cup About(cmds)
      BY <1>0, <3>2 DEF SocketsInv, ConnsSound
    <3>4. j \notin About(inds) \cup crossed => j \notin About(inds') \cup crossed'
      BY <1>4, <1>5, <2>2, Crossed
    <3> QED  BY <1>1, <3>1, <3>3, <3>4
  <2> QED  BY <2>1, <2>2
<1>14. OneListens'
  <2> SUFFICES ASSUME NEW k \in DOMAIN cmds', cmds'[k].kind = "OPEN_PASSIVE"
               PROVE  /\ \A l \in DOMAIN sock :
                            sock[l] = "LISTENING" =>
                               \E m \in DOMAIN cmds' : /\ m >= k
                                                       /\ cmds'[m].kind = "OPEN_PASSIVE"
                                                       /\ cmds'[m].id = l
                      /\ \A m \in DOMAIN cmds' :
                            m > k => /\ ~ Passive(At(tcp', cmds'[m].id))
                                     /\ \A j \in 1 .. k - 1 :
                                           cmds'[j].kind = "OPEN_PASSIVE"
                                              => cmds'[j].id # cmds'[m].id
    BY <1>5 DEF OneListens
  <2>1. k \in Nat /\ k + 1 \in DOMAIN cmds /\ cmds[k + 1] = cmds'[k]
    BY <1>1
  <2>2. ASSUME NEW l \in DOMAIN sock, sock[l] = "LISTENING"
        PROVE  \E m \in DOMAIN cmds' : /\ m >= k
                                       /\ cmds'[m].kind = "OPEN_PASSIVE" /\ cmds'[m].id = l
    <3>1. PICK m \in DOMAIN cmds : m >= k + 1 /\ cmds[m].kind = "OPEN_PASSIVE" /\ cmds[m].id = l
      BY <1>0, <2>1, <2>2 DEF SocketsInv, OneListens
    <3>2. m # 1 /\ m - 1 >= k
      BY <1>1, <2>1, <3>1
    <3> QED  BY <1>1, <3>1, <3>2
  <2>3. ASSUME NEW m \in DOMAIN cmds', m > k
        PROVE  /\ ~ Passive(At(tcp', cmds'[m].id))
               /\ \A j \in 1 .. k - 1 : cmds'[j].kind = "OPEN_PASSIVE"
                                           => cmds'[j].id # cmds'[m].id
    <3>1. m + 1 \in DOMAIN cmds /\ cmds[m + 1] = cmds'[m] /\ m + 1 > k + 1
      BY <1>1, <2>1, <2>3
    <3>2. /\ ~ Passive(At(tcp, cmds[m + 1].id))
          /\ \A j \in 1 .. (k + 1) - 1 : cmds[j].kind = "OPEN_PASSIVE"
                                            => cmds[j].id # cmds[m + 1].id
      BY <1>0, <2>1, <3>1 DEF SocketsInv, OneListens
    <3>3. ASSUME NEW j \in 1 .. k - 1, cmds'[j].kind = "OPEN_PASSIVE"
          PROVE  cmds'[j].id # cmds'[m].id
      <4>1. j \in DOMAIN cmds' /\ j + 1 \in 1 .. (k + 1) - 1
        <5>1. j + 1 \in DOMAIN cmds /\ j + 1 # 1 /\ (j + 1) - 1 = j
          BY <1>1, <2>1
        <5>2. j \in DOMAIN cmds'
          BY <1>1, <5>1
        <5> QED  BY <2>1, <5>2
      <4> QED  BY SMTT(30), <1>1, <3>1, <3>2, <3>3, <4>1
    <3>4. ~ Passive(At(tcp', cmds'[m].id))
      <4>1. CASE cmds'[m].id = i
        <5>1. 1 \in 1 .. (k + 1) - 1
          BY <1>1, <2>1
        <5>2. kind # "OPEN_PASSIVE"
          BY <1>2, <3>1, <3>2, <4>1, <5>1
        <5> QED  BY <1>12, <4>1, <5>2 DEF d
      <4>2. CASE cmds'[m].id # i
        BY <1>5, <3>1, <3>2, <4>2
      <4> QED  BY <4>1, <4>2
    <3> QED  BY <3>3, <3>4
  <2> QED  BY <2>2, <2>3
<1>15. InOrder(tcp, nextId)' /\ FaultsExplained'
  BY <1>5 DEF FaultsExplained
<1> QED  BY <1>6, <1>7, <1>8, <1>10, <1>13, <1>14, <1>15 DEF DemuxInv, SocketsInv

LEMMA EnterFacts ==
    ASSUME NEW t, DOMAIN t = TableFields, NEW i, NEW o
    PROVE  [t EXCEPT !.byId = Put(@, i, o)] = EnteredAs(t, i, o, t.last)
<1> DEFINE f == Put(t.byId, i, o)
<1> HIDE DEF f
<1>1. [t EXCEPT !.byId = f] = [t EXCEPT !.byId = f, !.last = t.last]
  BY DEF TableFields
<1> QED  BY <1>1 DEF f, EnteredAs

LEMMA CloseTaken ==
    ASSUME NEW c, DOMAIN c = ConnFields, Sound(c), c.st \notin ClosingStates,
           NEW d, d = IF Goto(c, "CLOSE") = "CLOSED" THEN Absent
                      ELSE [c EXCEPT !.st = Goto(c, "CLOSE")]
    PROVE  Taken("CLOSE", c, d, <<>> \o Entered(c.st, Goto(c, "CLOSE"), "CLOSE"))
<1>1. CASE c.st \in {"LISTEN", "SYN_SENT"}
  <2>1. Goto(c, "CLOSE") = "CLOSED"
    BY <1>1, GotoListen, GotoSynSent
  <2>2. <<>> \o Entered(c.st, "CLOSED", "CLOSE") = <<"CLOSED">>
    BY <1>1 DEF Entered
  <2> QED  BY <1>1, <2>1, <2>2 DEF Taken
<1>2. CASE c.st \in {"SYN_RCVD", "ESTABLISHED", "CLOSE_WAIT"}
  <2> DEFINE new == IF c.st = "CLOSE_WAIT" THEN "LAST_ACK" ELSE "FIN_WAIT_1"
  <2>1. Goto(c, "CLOSE") = new
    BY <1>2, GotoSynRcvd, GotoEstablished, GotoCloseWait
  <2>2. <<>> \o Entered(c.st, new, "CLOSE") = <<>>
    BY <1>2 DEF Entered
  <2>3. /\ d.st = new /\ d.active = c.active /\ d.fork = c.fork /\ d.r = c.r
        /\ d.deferred = c.deferred
    BY <2>1 DEF ConnFields
  <2>4. Sound(d)
    BY <1>2, <2>3 DEF Sound, States, Passive
  <2> HIDE DEF new
  <2>5. \/ c.st = "CLOSE_WAIT" /\ new = "LAST_ACK"
        \/ c.st # "CLOSE_WAIT" /\ new = "FIN_WAIT_1"
    BY DEF new
  <2> QED  BY <1>2, <2>1, <2>2, <2>3, <2>4, <2>5 DEF Taken
<1> QED  BY <1>1, <1>2 DEF Sound, States, ClosingStates

LEMMA AbortTaken ==
    ASSUME NEW c, DOMAIN c = ConnFields, Sound(c)
    PROVE  /\ Goto(c, "ABORT") = "CLOSED"
           /\ Taken("ABORT", c, Absent, <<>> \o Entered(c.st, "CLOSED", "ABORT"))
<1>1. Goto(c, "ABORT") = "CLOSED"
  BY GotoListen, GotoSynSent, GotoSynRcvd, GotoEstablished, GotoCloseWait, GotoLastAck,
     GotoFinWait1, GotoFinWait2, GotoClosing, GotoTimeWait DEF Sound, States, Synchronized
<1>2. <<>> \o Entered(c.st, "CLOSED", "ABORT") = <<>>
  BY DEF Entered
<1>3. c # Absent
  <2>1. DOMAIN Absent = {"st"} /\ "id" \in ConnFields
    BY DEF Absent, ConnFields
  <2> QED  BY <2>1
<1> QED  BY <1>1, <1>2, <1>3 DEF Taken

\* process_CLOSE() puts the CLOSE off: the state machine does not see it.
LEMMA DeferTaken ==
    ASSUME NEW c, DOMAIN c = ConnFields, Sound(c), MayHoldData(c),
           NEW d, d = [[c EXCEPT !.deferred = TRUE] EXCEPT !.st = c.st]
    PROVE  Taken("CLOSE", c, d, <<>>)
<1>1. /\ d.st = c.st /\ d.active = c.active /\ d.fork = c.fork /\ d.r = c.r
      /\ d.deferred = TRUE
  BY DEF ConnFields
<1>2. Sound(d) /\ d.st \in {"SYN_RCVD", "ESTABLISHED", "CLOSE_WAIT"}
  BY <1>1 DEF Sound, States, Passive, MayHoldData
<1> QED  BY <1>1, <1>2 DEF Taken

LEMMA PutOffKeeps ==
    ASSUME DemuxInv, Up, cmds # <<>>, Head(cmds).kind = "CLOSE",
           NEW i \in DOMAIN tcp.byId, i = Head(cmds).id, NEW o, o = tcp.byId[i],
           MayHoldData(tcp.conn[o]),
           Perform([tcp EXCEPT !.conn[o].deferred = TRUE], o, "IGNORE", <<>>),
           cmds' = IF tcp'.fault = "none" THEN Tail(cmds) ELSE cmds,
           UNCHANGED <<nextId, sock>>, Crossings
    PROVE  DemuxInv'
<1> DEFINE c == tcp.conn[o]
           t == [tcp EXCEPT !.conn[o].deferred = TRUE]
           b == [c EXCEPT !.deferred = TRUE]
<1>0. InOrder(tcp, nextId) /\ tcp.fault = "none" /\ SocketsInv
  BY DEF DemuxInv, Up
<1>1. o \in DOMAIN tcp.conn /\ c.id = i /\ At(tcp, i) = c /\ DOMAIN c = ConnFields
  BY <1>0 DEF InOrder, IdsInOrder, Shaped, At
<1>2. Sound(c)
  BY <1>0, <1>1 DEF SocketsInv, ConnsSound
<1>3. /\ InOrder(t, nextId) /\ t.fault = "none" /\ DOMAIN t.conn = DOMAIN tcp.conn
      /\ t.byId = tcp.byId /\ t.conn[o] = b
      /\ \A x \in DOMAIN tcp.conn : x # o => t.conn[x] = tcp.conn[x]
  BY <1>0, <1>1, DeferInOrder
<1>4. b.id = i /\ b.st = c.st /\ b.active = c.active
  BY <1>1 DEF ConnFields
<1>5. c.st \in {"ESTABLISHED", "CLOSE_WAIT", "SYN_RCVD"}
  BY DEF MayHoldData
<1>6. Perform(t, o, "IGNORE", <<>>)
  OBVIOUS
<1> HIDE DEF t, b, c
<1>7. Goto(b, "IGNORE") = c.st /\ c.st # "CLOSED"
  BY <1>4, <1>5, IgnoreStays
<1>8. <<>> \o Entered(b.st, c.st, "IGNORE") = <<>>
  BY <1>4 DEF Entered
<1>9. /\ InOrder(tcp', nextId) /\ tcp'.fault = "none"
      /\ inds' = inds \o Told(i, <<>>)
      /\ At(tcp', i) = [b EXCEPT !.st = c.st]
      /\ \A j : j # i => At(tcp', j) = At(t, j)
  <2>1. Performed(t, nextId, b, Goto(b, "IGNORE"),
                  <<>> \o Entered(b.st, Goto(b, "IGNORE"), "IGNORE"))
    BY <1>1, <1>3, <1>6, PerformFacts
  <2>2. Performed(t, nextId, b, c.st, <<>>)
    BY <1>7, <1>8, <2>1
  <2> QED  BY <1>4, <1>7, <2>2 DEF Performed
<1>10. \A j : j # i => At(t, j) = At(tcp, j)
  <2> SUFFICES ASSUME NEW j, j # i PROVE At(t, j) = At(tcp, j)
    OBVIOUS
  <2>1. CASE j \in DOMAIN tcp.byId
    <3>1. PICK x \in DOMAIN tcp.conn : tcp.byId[j] = x /\ tcp.conn[x].id = j
      BY <1>0, <2>1 DEF InOrder, IdsInOrder
    <3>2. x # o
      BY <1>1, <3>1 DEF c
    <3> QED  BY <1>3, <2>1, <3>1, <3>2 DEF At
  <2>2. CASE j \notin DOMAIN tcp.byId
    BY <1>3, <2>2 DEF At
  <2> QED  BY <2>1, <2>2
<1>11. Taken("CLOSE", c, At(tcp', i), <<>>)
  <2>1. MayHoldData(c)
    BY DEF c
  <2> QED  BY <1>1, <1>2, <1>9, <2>1, DeferTaken DEF b
<1>12. CmdStep(i, "CLOSE", <<>>)
  BY <1>1, <1>9, <1>10, <1>11 DEF CmdStep
<1> QED  BY <1>12, CmdKeeps

\* A command for a connection that exists.
LEMMA KnownKeeps ==
    ASSUME DemuxInv, Up, cmds # <<>>, NEW kind, kind = Head(cmds).kind,
           kind = "ABORT" \/ kind = "CLOSE",
           NEW i \in DOMAIN tcp.byId, i = Head(cmds).id, NEW o, o = tcp.byId[i],
           kind = "CLOSE" => tcp.conn[o].st \notin ClosingStates,
           Perform(tcp, o, kind, <<>>),
           cmds' = IF tcp'.fault = "none" THEN Tail(cmds) ELSE cmds,
           UNCHANGED <<nextId, sock>>, Crossings
    PROVE  DemuxInv'
<1> DEFINE c == tcp.conn[o]
           kinds == <<>> \o Entered(c.st, Goto(c, kind), kind)
<1>0. InOrder(tcp, nextId) /\ tcp.fault = "none" /\ SocketsInv
  BY DEF DemuxInv, Up
<1>1. o \in DOMAIN tcp.conn /\ c.id = i /\ At(tcp, i) = c /\ DOMAIN c = ConnFields
  BY <1>0 DEF InOrder, IdsInOrder, Shaped, At
<1>2. Sound(c)
  BY <1>0, <1>1 DEF SocketsInv, ConnsSound
<1>3. /\ InOrder(tcp', nextId) /\ tcp'.fault = "none"
      /\ inds' = inds \o Told(c.id, kinds)
      /\ At(tcp', c.id) = IF Goto(c, kind) = "CLOSED" THEN Absent
                          ELSE [c EXCEPT !.st = Goto(c, kind)]
      /\ \A j : j # c.id => At(tcp', j) = At(tcp, j)
  <2>1. Performed(tcp, nextId, c, Goto(c, kind), kinds)
    BY <1>0, <1>1, PerformFacts
  <2> QED  BY <2>1 DEF Performed
<1>4. Taken(kind, c, At(tcp', i), kinds)
  <2>1. CASE kind = "CLOSE"
    <3>1. c.st \notin ClosingStates
      BY <2>1
    <3> HIDE DEF c
    <3> QED  BY <1>1, <1>2, <1>3, <2>1, <3>1, CloseTaken
  <2>2. CASE kind = "ABORT"
    <3> HIDE DEF c
    <3> QED  BY <1>1, <1>2, <1>3, <2>2, AbortTaken
  <2> QED  BY <2>1, <2>2
<1> HIDE DEF c, kinds
<1>5. CmdStep(i, kind, kinds)
  BY <1>1, <1>3, <1>4 DEF CmdStep
<1> QED  BY <1>5, CmdKeeps

LEMMA NoneBefore == \A j \in 1 .. 1 - 1 : FALSE
OBVIOUS

\* A command that finds its connection gone or closing has crossed an indication,
\* or a CLOSE was put off before.
LEMMA LateKeeps ==
    ASSUME DemuxInv, Up, cmds # <<>>, NEW f,
           Head(cmds).kind = "ABORT" \/ Head(cmds).kind = "CLOSE",
           \/ Head(cmds).id \notin DOMAIN tcp.byId /\ f = "not open"
           \/ /\ Head(cmds).kind = "CLOSE" /\ f = "duplicate CLOSE"
              /\ tcp.conn[tcp.byId[Head(cmds).id]].st \in ClosingStates
              /\ Head(cmds).id \in DOMAIN tcp.byId,
           tcp' = [tcp EXCEPT !.fault = f],
           UNCHANGED <<nextId, sock, inds, cmds>>, Crossings
    PROVE  DemuxInv'
<1> DEFINE cmd == Head(cmds)
           i == cmd.id
           c == At(tcp, i)
<1>0. InOrder(tcp, nextId)
  BY DEF DemuxInv
<1>1. /\ cmd = cmds[1] /\ i \in About(cmds)
      /\ i \notin crossed => CommandFits(c, SockAt(sock, i), cmds, 1)
  BY HeadCommand
<1>2. \/ c.st = "ABSENT" /\ f = "not open"
      \/ /\ cmd.kind = "CLOSE" /\ c.st \in ClosingStates /\ f = "duplicate CLOSE"
         /\ i \in DOMAIN tcp.byId
  BY DEF At, Absent
<1> HIDE DEF c, cmd, i
<1>3. \A j \in 1 .. 1 - 1 : FALSE
  BY NoneBefore
<1>4. CommandFits(c, SockAt(sock, i), cmds, 1) => f = "duplicate CLOSE" /\ c.deferred
  <2>1. cmds[1].kind = "ABORT" \/ cmds[1].kind = "CLOSE"
    BY <1>1 DEF cmd
  <2>2. ~ OpenFits(c, SockAt(sock, i), cmds, 1)
    BY <2>1 DEF OpenFits, OpenKinds
  <2>3. CloseFits(c, SockAt(sock, i), cmds, 1) => f = "duplicate CLOSE" /\ c.deferred
    BY <1>1, <1>2, <1>3 DEF CloseFits, Opened, Opening, PeerClosed, StillOpen, HalfClosed,
                            ClosingStates
  <2>4. ~ AbortFits(c, SockAt(sock, i), cmds, 1)
    BY <1>1, <1>2, <1>3 DEF AbortFits, Opened
  <2> QED  BY <2>2, <2>3, <2>4 DEF CommandFits
<1>5. i \in crossed \/ (f = "duplicate CLOSE" /\ c.deferred)
  BY <1>1, <1>4
<1>6. i \in crossed => i \in crossed'
  BY <1>1 DEF Crossings
<1>7. tcp'.fault = f /\ tcp'.conn = tcp.conn /\ tcp'.byId = tcp.byId
  BY <1>0 DEF InOrder, Shaped, TableFields
<1>8. FaultsExplained'
  <2>1. f = "not open" => Head(cmds').id \in crossed'
    BY <1>5, <1>6 DEF i, cmd
  <2>2. f = "duplicate CLOSE" => \/ Head(cmds').id \in crossed'
                                 \/ tcp'.conn[tcp'.byId[Head(cmds').id]].deferred
    <3>1. f = "duplicate CLOSE" => c = tcp.conn[tcp.byId[i]]
      BY <1>2 DEF c, At
    <3> QED  BY <1>5, <1>6, <1>7, <3>1 DEF i, cmd
  <2>3. f \in {"not open", "duplicate CLOSE"}
    BY <1>2
  <2> QED  BY <1>7, <2>1, <2>2, <2>3 DEF FaultsExplained
<1>9. f # "none"
  BY <1>2
<1> QED  BY <1>8, <1>9, FaultKeeps

\* A command for an id that is new makes connection n.
LEMMA OpenKeeps ==
    ASSUME DemuxInv, Up, cmds # <<>>, NEW kind \in OpenKinds, kind = Head(cmds).kind,
           NEW i, i \notin DOMAIN tcp.byId, i = Head(cmds).id,
           NEW n, DOMAIN n = ConnFields, n.id = i, n.st = "INIT", n.active \in BOOLEAN,
           n.active <=> kind = "OPEN_ACTIVE", n.fork \in BOOLEAN, n.deferred = FALSE,
           n.r = Blank <=> kind = "OPEN_PASSIVE", Pair(n) \notin DOMAIN tcp.byPair,
           NEW l \in Ports, NEW o, o = FreshObject(tcp),
           NEW u, u = AddSockPair(EnteredAs(tcp, i, o, l), o, n),
           Perform(u, o, kind, <<>>),
           cmds' = IF tcp'.fault = "none" THEN Tail(cmds) ELSE cmds,
           UNCHANGED <<nextId, sock>>, Crossings
    PROVE  DemuxInv'
<1> DEFINE new == IF kind = "OPEN_PASSIVE" THEN "LISTEN" ELSE "SYN_SENT"
           d == [n EXCEPT !.st = new]
<1>0. /\ InOrder(tcp, nextId) /\ tcp.fault = "none" /\ o \notin DOMAIN tcp.conn
      /\ i \in Nat /\ i < nextId
  <2>1. InOrder(tcp, nextId) /\ tcp.fault = "none"
    BY DEF DemuxInv, Up
  <2>2. o \notin DOMAIN tcp.conn
    BY <2>1, FreshObjectIsNew DEF InOrder, Shaped
  <2> QED  BY <2>1, <2>2, HeadCommand
<1>1. /\ InOrder(u, nextId) /\ u.fault = "none"
      /\ DOMAIN u.conn = DOMAIN tcp.conn \cup {o} /\ u.conn[o] = n
      /\ DOMAIN u.byId = DOMAIN tcp.byId \cup {i}
      /\ \A x \in DOMAIN tcp.conn : u.conn[x] = tcp.conn[x]
  <2>1. u = AddSockPair(EnteredAs(tcp, n.id, o, l), o, n)
    OBVIOUS
  <2>2. n.id \notin DOMAIN tcp.byId /\ n.id \in Nat /\ n.id < nextId
    BY <1>0
  <2> QED  BY <1>0, <2>1, <2>2, OpenInOrder
<1>2. Goto(n, kind) = new
  BY GotoOpen DEF OpenKinds
<1>3. <<>> \o Entered(n.st, new, kind) = <<>>
  BY DEF Entered
<1> HIDE DEF new
<1>4. /\ InOrder(tcp', nextId) /\ tcp'.fault = "none"
      /\ inds' = inds \o Told(i, <<>>)
      /\ At(tcp', i) = IF new = "CLOSED" THEN Absent ELSE d
      /\ \A j : j # i => At(tcp', j) = At(u, j)
  <2>1. Performed(u, nextId, n, new, <<>>)
    <3>1. o \in DOMAIN u.conn
      BY <1>1
    <3>2. Performed(u, nextId, u.conn[o], Goto(u.conn[o], kind),
                    <<>> \o Entered(u.conn[o].st, Goto(u.conn[o], kind), kind))
      BY <1>1, <3>1, PerformFacts
    <3> QED  BY <1>1, <1>2, <1>3, <3>2
  <2> QED  BY <2>1 DEF Performed
<1>5. ASSUME NEW j, j # i PROVE At(u, j) = At(tcp, j)
  <2>1. IdsInOrder(u) /\ IdsInOrder(tcp)
    BY <1>0, <1>1 DEF InOrder
  <2>2. CASE j \in DOMAIN tcp.byId
    <3>1. PICK x \in DOMAIN tcp.conn : tcp.conn[x].id = j /\ At(tcp, j) = tcp.conn[x]
      BY <2>1, <2>2, AtFacts
    <3>2. x \in DOMAIN u.conn /\ u.conn[x] = tcp.conn[x]
      BY <1>1
    <3>3. At(u, u.conn[x].id) = u.conn[x]
      BY <2>1, <3>2, AtFacts
    <3> QED  BY <3>1, <3>2, <3>3
  <2>3. CASE j \notin DOMAIN tcp.byId
    BY <1>1, <1>5, <2>3 DEF At
  <2> QED  BY <2>2, <2>3
<1>6. /\ d.st = new /\ d.active = n.active /\ d.fork = n.fork /\ d.r = n.r
      /\ d.deferred = FALSE
  BY DEF ConnFields
<1> HIDE DEF d
<1>7. Taken(kind, At(tcp, i), At(tcp', i), <<>>)
  <2>1. At(tcp, i) = Absent
    BY DEF At
  <2>2. CASE kind = "OPEN_PASSIVE"
    <3>1. new = "LISTEN"
      BY <2>2 DEF new
    <3>2. Sound(d)
      BY <1>6, <2>2, <3>1 DEF Sound, States
    <3> QED  BY <1>4, <1>6, <2>1, <2>2, <3>1, <3>2 DEF Taken
  <2>3. CASE kind = "OPEN_ACTIVE"
    <3>1. new = "SYN_SENT"
      BY <2>3 DEF new
    <3>2. Sound(d)
      BY <1>6, <2>3, <3>1 DEF Sound, States
    <3> QED  BY <1>4, <1>6, <2>1, <2>3, <3>1, <3>2 DEF Taken
  <2> QED  BY <2>2, <2>3 DEF OpenKinds
<1>8. CmdStep(i, kind, <<>>)
  BY <1>4, <1>5, <1>7 DEF CmdStep
<1> QED  BY <1>8, CmdKeeps

\* An address in use belongs to a listening connection no application has.
LEMMA AddressTaken ==
    ASSUME DemuxInv, Up, cmds # <<>>, Head(cmds).kind = "OPEN_PASSIVE",
           NEW la, NEW lp, <<la, lp, Blank>> \in DOMAIN tcp.byPair
    PROVE  \E o \in DOMAIN tcp.conn : /\ tcp.conn[o].st = "LISTEN"
                                      /\ tcp.conn[o].id \notin DOMAIN sock \cup About(cmds)
<1> DEFINE o == tcp.byPair[<<la, lp, Blank>>]
           c == tcp.conn[o]
           j == c.id
<1>0. /\ InOrder(tcp, nextId) /\ SocketsInv /\ nextId \in Nat /\ cmds \in Seq(Commands)
      /\ \A i \in DOMAIN sock : sock[i] \in SockStates
  BY DEF DemuxInv, DemuxTypes
<1>1. o \in DOMAIN tcp.conn /\ c.r = Blank
  BY <1>0 DEF InOrder, PairsInOrder, Pair
<1> HIDE DEF o
<1>2. j \in DOMAIN tcp.byId /\ At(tcp, j) = c /\ j \in Nat /\ j < nextId
  BY <1>0, <1>1, AtFacts DEF InOrder, IdsInOrder, IdsBelow
<1>3. c.st = "LISTEN" /\ j \notin About(inds) \cup crossed
  <2>1. Sound(c) /\ (Passive(c) => j \notin About(inds) \cup crossed)
    BY <1>0, <1>2 DEF SocketsInv, ConnsSound
  <2> QED  BY <1>1, <2>1 DEF Sound, Passive
<1>4. cmds[1].kind = "OPEN_PASSIVE" /\ 1 \in DOMAIN cmds /\ DOMAIN cmds = 1 .. Len(cmds)
      /\ Len(cmds) \in Nat
  BY <1>0, TailFacts
<1> HIDE DEF c, j
<1>5. j \notin About(cmds)
  <2> SUFFICES ASSUME NEW m \in DOMAIN cmds, cmds[m].id = j PROVE FALSE
    BY AboutMember
  <2>1. CASE m = 1
    <3>1. /\ Head(cmds) = cmds[1]
          /\ cmds[1].id \notin crossed =>
                CommandFits(At(tcp, cmds[1].id), SockAt(sock, cmds[1].id), cmds, 1)
      BY HeadCommand
    <3>2. OpenFits(c, SockAt(sock, j), cmds, 1)
      BY <1>2, <1>3, <1>4, <2>1, <3>1 DEF CommandFits, CloseFits, AbortFits
    <3> QED  BY <1>3, <3>2 DEF OpenFits
  <2>2. CASE m # 1
    <3>1. ~ Passive(At(tcp, cmds[m].id))
      BY <1>0, <1>4, <2>2 DEF SocketsInv, OneListens
    <3> QED  BY <1>2, <1>3, <3>1 DEF Passive
  <2> QED  BY <2>1, <2>2
<1>6. Fits(SockAt(sock, j), c)
  <2>1. j \in 0 .. nextId - 1
    BY <1>0, <1>2
  <2> QED  BY <1>0, <1>2, <1>3, <1>5, <2>1 DEF SocketsInv, AllAgreed, Agreed
<1>7. j \notin DOMAIN sock
  <2> SUFFICES ASSUME j \in DOMAIN sock PROVE FALSE
    OBVIOUS
  <2>1. SockAt(sock, j) = sock[j] /\ sock[j] \in SockStates
    BY <1>0 DEF SockAt
  <2>2. sock[j] = "LISTENING"
    BY <1>3, <1>6, <2>1 DEF Fits, SockStates, StillOpen, PeerClosed, HalfClosed
  <2>3. \E m \in DOMAIN cmds : cmds[m].id = j
    BY <1>0, <1>4, <2>2 DEF SocketsInv, OneListens
  <2> QED  BY <1>5, <2>3, AboutMember
<1> QED  BY <1>1, <1>3, <1>5, <1>7 DEF c, j

\* The record that process_OPEN_ACTIVE() and process_OPEN_PASSIVE() fill in.
NewConn(cmd) ==
    [id |-> cmd.id, st |-> "INIT", active |-> cmd.kind = "OPEN_ACTIVE",
     la |-> AnyAddr, lp |-> 0, r |-> Blank, fork |-> FALSE, deferred |-> FALSE]

\* What ProcessCommand does for each kind of command.
LEMMA CommandArms ==
    ASSUME NEW cmd, ProcessCommand(cmd)
    PROVE  LET o == FreshObject(tcp)
               t == [tcp EXCEPT !.byId = Put(@, cmd.id, o)]
               p == GetEphemeralPort(t)
           IN  /\ cmd.kind = "OPEN_ACTIVE" /\ cmd.id \notin DOMAIN tcp.byId =>
                     IF FreePorts(t) = {}
                     THEN Fault([tcp EXCEPT !.fault = "ports exhausted"])
                     ELSE Perform(AddSockPair([t EXCEPT !.last = p], o,
                                              [NewConn(cmd) EXCEPT !.lp = p, !.r = cmd.r]),
                                  o, "OPEN_ACTIVE", <<>>)
               /\ cmd.kind = "OPEN_PASSIVE" /\ cmd.id \notin DOMAIN tcp.byId =>
                     Perform(AddSockPair(t, o, [NewConn(cmd) EXCEPT !.la = cmd.la, !.lp = cmd.lp,
                                                                    !.fork = cmd.fork]),
                             o, "OPEN_PASSIVE", <<>>)
<1>1. ASSUME cmd.kind = "OPEN_ACTIVE", cmd.id \notin DOMAIN tcp.byId
      PROVE  LET o == FreshObject(tcp)
                 t == [tcp EXCEPT !.byId = Put(@, cmd.id, o)]
                 p == GetEphemeralPort(t)
             IN  IF FreePorts(t) = {}
                 THEN Fault([tcp EXCEPT !.fault = "ports exhausted"])
                 ELSE Perform(AddSockPair([t EXCEPT !.last = p], o,
                                          [NewConn(cmd) EXCEPT !.lp = p, !.r = cmd.r]),
                              o, "OPEN_ACTIVE", <<>>)
  BY <1>1 DEF ProcessCommand, NewConn
<1>2. ASSUME cmd.kind = "OPEN_PASSIVE", cmd.id \notin DOMAIN tcp.byId
      PROVE  LET o == FreshObject(tcp)
                 t == [tcp EXCEPT !.byId = Put(@, cmd.id, o)]
             IN  Perform(AddSockPair(t, o, [NewConn(cmd) EXCEPT !.la = cmd.la, !.lp = cmd.lp,
                                                                !.fork = cmd.fork]),
                         o, "OPEN_PASSIVE", <<>>)
  BY <1>2 DEF ProcessCommand, NewConn
<1> QED  BY <1>1, <1>2

LEMMA CloseAbortArms ==
    ASSUME NEW cmd, ProcessCommand(cmd), cmd.kind = "CLOSE" \/ cmd.kind = "ABORT"
    PROVE  LET o == tcp.byId[cmd.id]
           IN  /\ cmd.id \notin DOMAIN tcp.byId => Fault([tcp EXCEPT !.fault = "not open"])
               /\ cmd.id \in DOMAIN tcp.byId =>
                     \/ /\ cmd.kind = "CLOSE" /\ tcp.conn[o].st \in ClosingStates
                        /\ Fault([tcp EXCEPT !.fault = "duplicate CLOSE"])
                     \/ /\ cmd.kind = "CLOSE" => tcp.conn[o].st \notin ClosingStates
                        /\ Perform(tcp, o, cmd.kind, <<>>)
                     \/ /\ cmd.kind = "CLOSE" /\ MayHoldData(tcp.conn[o])
                        /\ Perform([tcp EXCEPT !.conn[o].deferred = TRUE], o, "IGNORE", <<>>)
<1>1. CASE cmd.kind = "CLOSE"
  <2>1. CASE cmd.id \notin DOMAIN tcp.byId
    BY <1>1, <2>1 DEF ProcessCommand
  <2>2. CASE cmd.id \in DOMAIN tcp.byId
    <3>1. CloseConnection(tcp.byId[cmd.id])
      BY <1>1, <2>2 DEF ProcessCommand
    <3> QED  BY <1>1, <2>2, <3>1 DEF CloseConnection
  <2> QED  BY <2>1, <2>2
<1>2. CASE cmd.kind = "ABORT"
  BY <1>2 DEF ProcessCommand
<1> QED  BY <1>1, <1>2

LEMMA OpenActiveKeeps ==
    ASSUME DemuxInv, CommandArrives, Crossings, Head(cmds).kind = "OPEN_ACTIVE",
           Head(cmds).id \notin DOMAIN tcp.byId
    PROVE  DemuxInv'
<1> DEFINE cmd == Head(cmds)
           o == FreshObject(tcp)
           t == [tcp EXCEPT !.byId = Put(@, cmd.id, o)]
           p == GetEphemeralPort(t)
           n == [NewConn(cmd) EXCEPT !.lp = p, !.r = cmd.r]
<1>0. /\ Up /\ cmds # <<>> /\ ProcessCommand(cmd) /\ UNCHANGED <<nextId, sock>>
      /\ cmds' = IF tcp'.fault = "none" THEN Tail(cmds) ELSE cmds
      /\ InOrder(tcp, nextId) /\ DOMAIN tcp = TableFields /\ tcp.last \in Ports
  BY DEF CommandArrives, DemuxInv, InOrder, Shaped
<1>1. IF FreePorts(t) = {} THEN Fault([tcp EXCEPT !.fault = "ports exhausted"])
      ELSE Perform(AddSockPair([t EXCEPT !.last = p], o, n), o, "OPEN_ACTIVE", <<>>)
  BY <1>0, CommandArms
<1>2. t.last = tcp.last /\ t.used = tcp.used
  BY <1>0 DEF TableFields
<1>3. CASE FreePorts(t) = {}
  <2>1. FreePorts(tcp) = {}
    BY <1>2, <1>3 DEF FreePorts, PortAfter
  <2>2. \A q \in Ports : \E x \in DOMAIN tcp.conn : tcp.conn[x].lp = q
    BY <1>0, <2>1, NoFreePort DEF InOrder, Shaped
  <2> DEFINE f == "ports exhausted"
  <2>3. tcp' = [tcp EXCEPT !.fault = f] /\ inds' = inds
    <3>1. Fault([tcp EXCEPT !.fault = "ports exhausted"])
      BY <1>1, <1>3
    <3> QED  BY <1>0, <3>1 DEF Fault, TableFields
  <2>4. tcp'.fault = f /\ tcp'.conn = tcp.conn
    BY <1>0, <2>3 DEF TableFields
  <2>5. FaultsExplained'
    BY <2>2, <2>4 DEF FaultsExplained
  <2>6. cmds' = cmds
    BY <1>0, <2>4
  <2> QED  BY <1>0, <2>3, <2>5, <2>6, FaultKeeps
<1>4. CASE FreePorts(t) # {}
  <2>1. p \in Ports /\ tcp.used[p] = 0
    BY <1>0, <1>2, <1>4, GetEphemeralPortType
  <2> HIDE DEF p
  <2>2. cmd.r \in Remotes
    <3>1. cmd \in Commands
      BY <1>0, HeadCommand
    <3> QED  BY <3>1 DEF Commands
  <2>3. DOMAIN NewConn(cmd) = ConnFields
    BY DEF NewConn, ConnFields
  <2>4. /\ NewConn(cmd).id = cmd.id /\ NewConn(cmd).st = "INIT" /\ NewConn(cmd).active = TRUE
        /\ NewConn(cmd).fork = FALSE /\ NewConn(cmd).la = AnyAddr
        /\ NewConn(cmd).deferred = FALSE
    BY DEF NewConn
  <2>5. /\ DOMAIN n = ConnFields /\ n.id = cmd.id /\ n.st = "INIT" /\ n.active = TRUE
        /\ n.fork = FALSE /\ n.r = cmd.r /\ n.lp = p /\ n.la = AnyAddr
        /\ n.deferred = FALSE
    BY <2>3, <2>4 DEF ConnFields
  <2> DEFINE i == cmd.id
             u == AddSockPair(EnteredAs(tcp, i, o, p), o, n)
  <2>6. Perform(u, o, "OPEN_ACTIVE", <<>>)
    <3>1. [t EXCEPT !.last = p] = EnteredAs(tcp, i, o, p)
      <4>1. t = EnteredAs(tcp, i, o, tcp.last)
        BY <1>0, EnterFacts
      <4> HIDE DEF t, o, i
      <4>2. [EnteredAs(tcp, i, o, tcp.last) EXCEPT !.last = p] = EnteredAs(tcp, i, o, p)
        BY <1>0 DEF EnteredAs, TableFields
      <4> QED  BY <4>1, <4>2
    <3>2. Perform(AddSockPair([t EXCEPT !.last = p], o, n), o, "OPEN_ACTIVE", <<>>)
      BY <1>1, <1>4
    <3> HIDE DEF t, n, o, i
    <3> QED  BY <3>1, <3>2
  <2> HIDE DEF n
  <2>7. Pair(n) \notin DOMAIN tcp.byPair
    <3>1. Shaped(tcp) /\ PairsInOrder(tcp) /\ PortsInOrder(tcp)
      BY <1>0 DEF InOrder
    <3>2. <<n.la, p, n.r>> \notin DOMAIN tcp.byPair
      BY <2>1, <3>1, FreePortIsFree
    <3> QED  BY <2>5, <3>2 DEF Pair
  <2>8. cmd.r # Blank
    BY <2>2, DemuxAssumption
  <2> HIDE DEF u, o
  <2>9. o = FreshObject(tcp) /\ u = AddSockPair(EnteredAs(tcp, i, o, p), o, n)
    BY DEF u, o
  <2>10. i = Head(cmds).id /\ i \notin DOMAIN tcp.byId
    OBVIOUS
  <2> HIDE DEF i, cmd
  <2>11. /\ n.id = i /\ n.active \in BOOLEAN /\ n.fork \in BOOLEAN
         /\ (n.active <=> "OPEN_ACTIVE" = "OPEN_ACTIVE")
         /\ (n.r = Blank <=> "OPEN_ACTIVE" = "OPEN_PASSIVE")
    BY <2>5, <2>8 DEF i
  <2> QED  BY <1>0, <2>1, <2>5, <2>6, <2>7, <2>9, <2>10, <2>11, OpenKeeps DEF OpenKinds
<1> QED  BY <1>3, <1>4

LEMMA OpenPassiveKeeps ==
    ASSUME DemuxInv, CommandArrives, Crossings, Head(cmds).kind = "OPEN_PASSIVE",
           Head(cmds).id \notin DOMAIN tcp.byId
    PROVE  DemuxInv'
<1> DEFINE cmd == Head(cmds)
           i == cmd.id
           o == FreshObject(tcp)
           t == [tcp EXCEPT !.byId = Put(@, i, o)]
           n == [NewConn(cmd) EXCEPT !.la = cmd.la, !.lp = cmd.lp, !.fork = cmd.fork]
           u == AddSockPair(EnteredAs(tcp, i, o, tcp.last), o, n)
<1>0. /\ Up /\ cmds # <<>> /\ ProcessCommand(cmd) /\ UNCHANGED <<nextId, sock>>
      /\ cmds' = IF tcp'.fault = "none" THEN Tail(cmds) ELSE cmds
      /\ InOrder(tcp, nextId) /\ DOMAIN tcp = TableFields /\ tcp.last \in Ports
      /\ tcp.fault = "none"
  BY DEF CommandArrives, DemuxInv, InOrder, Shaped, Up
<1>1. Perform(AddSockPair(t, o, n), o, "OPEN_PASSIVE", <<>>)
  BY <1>0, CommandArms
<1>2. t = EnteredAs(tcp, i, o, tcp.last)
  BY <1>0, EnterFacts
<1>3. cmd.fork \in BOOLEAN
  <2>1. cmd \in Commands
    BY <1>0, HeadCommand
  <2> QED  BY <2>1 DEF Commands
<1>4. DOMAIN NewConn(cmd) = ConnFields
  BY DEF NewConn, ConnFields
<1>5. /\ NewConn(cmd).id = i /\ NewConn(cmd).st = "INIT" /\ NewConn(cmd).active = FALSE
      /\ NewConn(cmd).r = Blank /\ NewConn(cmd).deferred = FALSE
  BY DEF NewConn
<1>6. /\ DOMAIN n = ConnFields /\ n.id = i /\ n.st = "INIT" /\ n.active = FALSE
      /\ n.fork = cmd.fork /\ n.r = Blank /\ n.deferred = FALSE
  BY <1>4, <1>5 DEF ConnFields
<1> HIDE DEF n, o
<1>7. Perform(u, o, "OPEN_PASSIVE", <<>>)
  <2> HIDE DEF t, i
  <2> QED  BY <1>1, <1>2
<1>8. CASE Pair(n) \in DOMAIN tcp.byPair
  <2>1. <<n.la, n.lp, Blank>> \in DOMAIN tcp.byPair
    BY <1>6, <1>8 DEF Pair
  <2>2. \E x \in DOMAIN tcp.conn : /\ tcp.conn[x].st = "LISTEN"
                                   /\ tcp.conn[x].id \notin DOMAIN sock \cup About(cmds)
    BY <1>0, <2>1, AddressTaken
  <2> DEFINE f == "address in use"
  <2>3. u.fault = f
    <3> DEFINE s == EnteredAs(tcp, i, o, tcp.last)
    <3>1. s.byPair = tcp.byPair /\ DOMAIN s = TableFields
      BY <1>0 DEF EnteredAs, TableFields
    <3> HIDE DEF s
    <3>2. u = [s EXCEPT !.fault = "address in use"]
      BY <1>8, <3>1 DEF AddSockPair, s
    <3> QED  BY <3>1, <3>2 DEF TableFields
  <2> HIDE DEF u
  <2>4. tcp' = [tcp EXCEPT !.fault = f] /\ inds' = inds
    BY <1>7, <2>3 DEF Perform, Fault
  <2>5. tcp'.fault = f /\ tcp'.conn = tcp.conn
    BY <1>0, <2>4 DEF TableFields
  <2>6. cmds' = cmds
    BY <1>0, <2>5
  <2>7. FaultsExplained'
    BY <1>0, <2>2, <2>5, <2>6 DEF FaultsExplained
  <2> QED  BY <1>0, <2>4, <2>6, <2>7, FaultKeeps
<1>9. CASE Pair(n) \notin DOMAIN tcp.byPair
  <2> HIDE DEF u
  <2>1. o = FreshObject(tcp) /\ u = AddSockPair(EnteredAs(tcp, i, o, tcp.last), o, n)
    BY DEF u, o
  <2>2. i = Head(cmds).id /\ i \notin DOMAIN tcp.byId
    OBVIOUS
  <2>3. n.fork \in BOOLEAN
    BY <1>3, <1>6
  <2> HIDE DEF i, cmd
  <2>4. /\ n.active \in BOOLEAN
        /\ (n.active <=> "OPEN_PASSIVE" = "OPEN_ACTIVE")
        /\ (n.r = Blank <=> "OPEN_PASSIVE" = "OPEN_PASSIVE")
    BY <1>6
  <2> QED  BY <1>0, <1>6, <1>7, <1>9, <2>1, <2>2, <2>3, <2>4, OpenKeeps DEF OpenKinds
<1> QED  BY <1>8, <1>9

LEMMA CommandKeeps ==
    ASSUME DemuxInv, CommandArrives, Crossings
    PROVE  DemuxInv'
<1> DEFINE cmd == Head(cmds)
           i == cmd.id
<1>0. /\ Up /\ cmds # <<>> /\ ProcessCommand(cmd) /\ UNCHANGED <<nextId, sock>>
      /\ cmds' = IF tcp'.fault = "none" THEN Tail(cmds) ELSE cmds
      /\ InOrder(tcp, nextId) /\ DOMAIN tcp = TableFields /\ SocketsInv
  BY DEF CommandArrives, DemuxInv, InOrder, Shaped
<1>1. /\ cmd \in Commands /\ cmd = cmds[1]
      /\ cmd.kind \in OpenKinds => i \notin crossed
      /\ i \notin crossed => CommandFits(At(tcp, i), SockAt(sock, i), cmds, 1)
  BY <1>0, HeadCommand
<1>2. CASE cmd.kind \in OpenKinds
  <2>1. At(tcp, i).st = "ABSENT"
    BY <1>1, <1>2 DEF CommandFits, OpenFits, CloseFits, AbortFits, OpenKinds
  <2>2. i \notin DOMAIN tcp.byId
    BY <1>0, <2>1 DEF SocketsInv, ConnsSound, Sound, States
  <2> QED  BY <1>2, <2>2, OpenActiveKeeps, OpenPassiveKeeps DEF OpenKinds
<1>3. CASE cmd.kind = "CLOSE" \/ cmd.kind = "ABORT"
  <2> DEFINE o == tcp.byId[i]
  <2>1. CASE i \notin DOMAIN tcp.byId
    <3>1. Fault([tcp EXCEPT !.fault = "not open"])
      BY <1>0, <1>3, <2>1, CloseAbortArms
    <3>2. tcp' = [tcp EXCEPT !.fault = "not open"] /\ inds' = inds
      BY <1>0, <3>1 DEF Fault, TableFields
    <3>3. cmds' = cmds
      BY <1>0, <3>2 DEF TableFields
    <3> QED  BY <1>0, <1>3, <2>1, <3>2, <3>3, LateKeeps
  <2>2. CASE /\ i \in DOMAIN tcp.byId /\ cmd.kind = "CLOSE"
             /\ tcp.conn[o].st \in ClosingStates
             /\ Fault([tcp EXCEPT !.fault = "duplicate CLOSE"])
    <3>1. tcp' = [tcp EXCEPT !.fault = "duplicate CLOSE"] /\ inds' = inds
      BY <1>0, <2>2 DEF Fault, TableFields
    <3>2. cmds' = cmds
      BY <1>0, <3>1 DEF TableFields
    <3> QED  BY <1>0, <2>2, <3>1, <3>2, LateKeeps
  <2>3. CASE /\ i \in DOMAIN tcp.byId
             /\ cmd.kind = "CLOSE" => tcp.conn[o].st \notin ClosingStates
             /\ Perform(tcp, o, cmd.kind, <<>>)
    BY <1>0, <1>3, <2>3, KnownKeeps
  <2>4. CASE /\ i \in DOMAIN tcp.byId /\ cmd.kind = "CLOSE" /\ MayHoldData(tcp.conn[o])
             /\ Perform([tcp EXCEPT !.conn[o].deferred = TRUE], o, "IGNORE", <<>>)
    BY <1>0, <2>4, PutOffKeeps
  <2> QED  BY <1>0, <1>3, <2>1, <2>2, <2>3, <2>4, CloseAbortArms
<1>4. cmd.kind \in OpenKinds \cup {"CLOSE", "ABORT"}
  BY <1>1 DEF Commands, OpenKinds
<1> QED  BY <1>2, <1>3, <1>4

-----------------------------------------------------------------------------
(* The steps of the applications.                                          *)

\* An id that has a command has no indication, unless they crossed.
LEMMA CommandedFacts ==
    ASSUME DemuxInv, Up, NEW k \in DOMAIN cmds
    PROVE  /\ cmds[k].id \in Nat /\ cmds[k].id < nextId /\ cmds[k] \in Commands
           /\ cmds[k].id \notin crossed =>
                 /\ CommandFits(At(tcp, cmds[k].id), SockAt(sock, cmds[k].id), cmds, k)
                 /\ cmds[k].id \notin About(inds)
<1> DEFINE j == cmds[k].id
<1>0. SocketsInv /\ nextId \in Nat /\ cmds \in Seq(Commands)
  BY DEF DemuxInv, DemuxTypes
<1>1. cmds[k] \in Commands
  BY <1>0
<1>2. j \in Nat
  BY <1>1 DEF Commands
<1>3. j < nextId
  BY <1>0 DEF SocketsInv, IdsUsed, About
<1>4. j \in 0 .. nextId - 1
  BY <1>0, <1>2, <1>3
<1>5. j \notin crossed => Agreed(At(tcp, j), SockAt(sock, j), cmds, inds, j)
  BY <1>0, <1>4 DEF SocketsInv, AllAgreed
<1> QED  BY <1>1, <1>2, <1>3, <1>5 DEF Agreed

\* What an application does about id i.
AppStep(i) ==
    /\ tcp' = tcp /\ Crossings
    /\ nextId' = nextId \/ (nextId' = nextId + 1 /\ i = nextId)
    /\ i \in Nat /\ i < nextId'
    /\ cmds' \in Seq(Commands) /\ inds' \in Seq(IndRecords)
    /\ DOMAIN sock' \subseteq DOMAIN sock \cup {i}
    /\ i \in DOMAIN sock' => sock'[i] \in SockStates
    /\ About(cmds') \subseteq About(cmds) \cup {i} /\ About(inds') \subseteq About(inds)
    /\ \A j : j # i => /\ j \in DOMAIN sock' => j \in DOMAIN sock /\ sock'[j] = sock[j]
                       /\ SockAt(sock', j) = SockAt(sock, j)
                       /\ SameFor(j, cmds, cmds') /\ SameFor(j, inds, inds')
    /\ i \notin crossed /\ ~ (i \in About(cmds') /\ i \in About(inds')) =>
          Agreed(At(tcp, i), SockAt(sock', i), cmds', inds', i)

LEMMA AppKeeps ==
    ASSUME DemuxInv, Up, NEW i, AppStep(i),
           \A k \in DOMAIN cmds' : cmds'[k].kind \in OpenKinds =>
              (k \in DOMAIN cmds /\ cmds'[k] = cmds[k]) \/ (cmds'[k].id = i /\ i = nextId),
           Stray(At(tcp, i)) => i \notin DOMAIN sock' \cup About(cmds'),
           OneListens'
    PROVE  DemuxInv'
<1>0. SocketsInv /\ DemuxTypes /\ InOrder(tcp, nextId) /\ nextId \in Nat
  BY DEF DemuxInv, DemuxTypes
<1>1. /\ tcp' = tcp /\ Crossings /\ i \in Nat /\ i < nextId'
      /\ nextId' = nextId \/ (nextId' = nextId + 1 /\ i = nextId)
      /\ cmds' \in Seq(Commands) /\ inds' \in Seq(IndRecords)
      /\ About(cmds') \subseteq About(cmds) \cup {i} /\ About(inds') \subseteq About(inds)
  BY DEF AppStep
<1>2. nextId' \in Nat /\ nextId <= nextId'
  BY <1>0, <1>1
<1>3. /\ DOMAIN sock' \subseteq DOMAIN sock \cup {i}
      /\ i \in DOMAIN sock' => sock'[i] \in SockStates
      /\ \A j : j # i => /\ j \in DOMAIN sock' => j \in DOMAIN sock /\ sock'[j] = sock[j]
                         /\ SockAt(sock', j) = SockAt(sock, j)
                         /\ SameFor(j, cmds, cmds') /\ SameFor(j, inds, inds')
  BY DEF AppStep
<1>4. i \notin crossed /\ ~ (i \in About(cmds') /\ i \in About(inds')) =>
          Agreed(At(tcp, i), SockAt(sock', i), cmds', inds', i)
  BY DEF AppStep
<1>5. DemuxTypes'
  <2>1. crossed' \subseteq Nat
    BY <1>0, <1>1, AboutNat DEF DemuxTypes
  <2>2. DOMAIN sock' \subseteq Nat /\ \A j \in DOMAIN sock' : sock'[j] \in SockStates
    BY <1>0, <1>1, <1>3 DEF DemuxTypes
  <2> QED  BY <1>1, <1>2, <2>1, <2>2 DEF DemuxTypes
<1>6. IdsUsed'
  <2>1. \A j \in About(cmds') \cup About(inds') \cup DOMAIN sock' \cup crossed' :
            j = i \/ j \in About(cmds) \cup About(inds) \cup DOMAIN sock \cup crossed
    BY <1>1, <1>3 DEF Crossings
  <2>2. About(cmds) \cup About(inds) \cup DOMAIN sock \cup crossed \subseteq Nat
    <3>1. About(cmds) \subseteq Nat
      BY CommandedFacts DEF DemuxInv, About
    <3>2. About(inds) \subseteq Nat
      <4>1. \A k \in DOMAIN inds : inds[k] \in IndRecords
        BY <1>0 DEF DemuxTypes
      <4>2. \A k \in DOMAIN inds : inds[k].id \in Nat
        BY <4>1 DEF IndRecords
      <4> QED  BY <4>2 DEF About
    <3> QED  BY <1>0, <3>1, <3>2 DEF DemuxTypes
  <2>3. \A j \in About(cmds) \cup About(inds) \cup DOMAIN sock \cup crossed :
            j \in Nat /\ j < nextId
    BY <1>0, <2>2 DEF SocketsInv, IdsUsed
  <2>4. \A j \in Nat : j < nextId => j < nextId'
    BY <1>0, <1>2
  <2> QED  BY <1>1, <2>1, <2>3, <2>4 DEF IdsUsed
<1>7. AllAgreed'
  <2> SUFFICES ASSUME NEW j, j \in 0 .. nextId' - 1, j \notin crossed'
               PROVE  Agreed(At(tcp, j), SockAt(sock', j), cmds', inds', j)
    BY <1>1 DEF AllAgreed
  <2>0. j \in Nat /\ j < nextId'
    BY <1>2, Below
  <2>1. CASE /\ j \notin About(cmds') /\ j \notin About(inds')
             /\ j \notin DOMAIN sock' /\ j \notin DOMAIN tcp'.byId
    <3>1. At(tcp, j) = Absent /\ SockAt(sock', j) = "none"
      BY <1>1, <2>1 DEF At, SockAt
    <3>2. At(tcp, j).st = "ABSENT"
      BY <3>1 DEF Absent
    <3> QED  BY <2>1, <3>1, <3>2, AgreedGone
  <2>2. CASE j = i /\ j \notin crossed /\ ~ (j \in About(cmds') /\ j \in About(inds'))
    BY <1>4, <2>2
  <2>3. CASE j # i /\ j \notin crossed
    <3>1. j \in 0 .. nextId - 1
      <4>1. nextId' = nextId \/ nextId' = nextId + 1
        BY <1>1
      <4>2. nextId' = nextId + 1 => j # nextId
        BY <1>0, <1>1, <2>3
      <4> QED  BY <1>0, <2>0, <4>1, <4>2
    <3>2. Agreed(At(tcp, j), SockAt(sock, j), cmds, inds, j)
      BY <1>0, <2>3, <3>1 DEF SocketsInv, AllAgreed
    <3>3. cmds \in Seq(Commands) /\ inds \in Seq(IndRecords)
      BY <1>0 DEF DemuxTypes
    <3> QED  BY <1>1, <1>3, <2>3, <3>2, <3>3, AgreedSame
  <2> QED  BY <1>1, <2>1, <2>2, <2>3, Uncrossed
<1>8. \A j : j \notin crossed \cup About(inds) => j \notin crossed'
  BY <1>1 DEF Crossings
<1>9. OpensNew'
  <2> SUFFICES ASSUME NEW k \in DOMAIN cmds', cmds'[k].kind \in OpenKinds
               PROVE  cmds'[k].id \notin crossed'
    BY DEF OpensNew
  <2>1. CASE k \in DOMAIN cmds /\ cmds'[k] = cmds[k]
    <3>1. cmds[k].id \notin crossed
      BY <1>0, <2>1 DEF SocketsInv, OpensNew
    <3>2. cmds[k].id \notin About(inds)
      BY <2>1, <3>1, CommandedFacts
    <3> QED  BY <1>8, <2>1, <3>1, <3>2
  <2>2. CASE cmds'[k].id = i /\ i = nextId
    <3>1. i \notin crossed \cup About(inds)
      BY <1>0, <2>2 DEF SocketsInv, IdsUsed
    <3> QED  BY <1>8, <2>2, <3>1
  <2> QED  BY <2>1, <2>2
<1>10. ConnsSound'
  <2> SUFFICES ASSUME NEW j \in DOMAIN tcp.byId
               PROVE  /\ Sound(At(tcp, j))
                      /\ Passive(At(tcp, j)) => j \notin About(inds') \cup crossed'
                      /\ Stray(At(tcp, j)) => j \notin DOMAIN sock' \cup About(cmds')
    BY <1>1 DEF ConnsSound
  <2>1. /\ Sound(At(tcp, j))
        /\ Passive(At(tcp, j)) => j \notin About(inds) \cup crossed
        /\ Stray(At(tcp, j)) => j \notin DOMAIN sock \cup About(cmds)
    BY <1>0 DEF SocketsInv, ConnsSound
  <2> QED  BY <1>1, <1>3, <1>8, <2>1
<1>11. InOrder(tcp, nextId)' /\ FaultsExplained'
  <2>1. IdsBelow(tcp, nextId')
    BY <1>0, <1>2 DEF InOrder, IdsBelow
  <2> QED  BY <1>0, <1>1, <2>1 DEF InOrder, FaultsExplained, Up
<1> QED  BY <1>5, <1>6, <1>7, <1>9, <1>10, <1>11 DEF DemuxInv, SocketsInv

LEMMA BecomesFacts ==
    ASSUME NEW i, NEW st \in SockStates \cup {"CLOSED", "SOCKERROR"}, Becomes(i, st)
    PROVE  /\ DOMAIN sock' \subseteq DOMAIN sock \cup {i}
           /\ SockAt(sock', i) = IF st \in SockStates THEN st ELSE "none"
           /\ i \in DOMAIN sock' <=> st \in SockStates
           /\ i \in DOMAIN sock' => sock'[i] = st
           /\ \A j : j # i => /\ j \in DOMAIN sock' <=> j \in DOMAIN sock
                              /\ j \in DOMAIN sock' => sock'[j] = sock[j]
                              /\ SockAt(sock', j) = SockAt(sock, j)
<1>1. CASE st \in SockStates
  <2>1. sock' = Put(sock, i, st)
    BY <1>1 DEF Becomes, SockStates
  <2>2. /\ DOMAIN sock' = DOMAIN sock \cup {i} /\ sock'[i] = st
        /\ \A j \in DOMAIN sock : j # i => sock'[j] = sock[j]
    BY <2>1 DEF Put
  <2> QED  BY <1>1, <2>2 DEF SockAt
<1>2. CASE st \notin SockStates
  <2>1. sock' = [j \in DOMAIN sock \ {i} |-> sock[j]]
    BY <1>2 DEF Becomes
  <2> QED  BY <1>2, <2>1 DEF SockAt
<1> QED  BY <1>1, <1>2

LEMMA AppendFacts ==
    ASSUME NEW S, NEW q \in Seq(S), NEW e \in S
    PROVE  LET p == Append(q, e)
           IN  /\ p \in Seq(S) /\ Len(q) \in Nat /\ DOMAIN q = 1 .. Len(q)
               /\ DOMAIN p = 1 .. Len(q) + 1 /\ Len(p) = Len(q) + 1 /\ p[Len(q) + 1] = e
               /\ \A k \in DOMAIN q : k \in DOMAIN p /\ p[k] = q[k]
               /\ \A k \in DOMAIN p : k \in DOMAIN q \/ k = Len(q) + 1
               /\ About(p) = About(q) \cup {e.id}
<1> DEFINE p == Append(q, e)
<1>1. /\ p \in Seq(S) /\ Len(q) \in Nat /\ DOMAIN q = 1 .. Len(q)
      /\ DOMAIN p = 1 .. Len(q) + 1 /\ Len(p) = Len(q) + 1 /\ p[Len(q) + 1] = e
      /\ \A k \in 1 .. Len(q) : p[k] = q[k]
  OBVIOUS
<1> HIDE DEF p
<1>2. /\ \A k \in DOMAIN q : k \in DOMAIN p /\ p[k] = q[k]
      /\ \A k \in DOMAIN p : k \in DOMAIN q \/ k = Len(q) + 1
  BY <1>1
<1>3. Len(q) + 1 \in DOMAIN p
  BY <1>1
<1>4. About(p) = About(q) \cup {e.id}
  BY <1>1, <1>2, <1>3 DEF About
<1> QED  BY <1>1, <1>2, <1>4 DEF p

\* An application that sends a command.
LEMMA SaysStep ==
    ASSUME DemuxInv, NEW cmd \in Commands, NEW st \in SockStates \cup {"CLOSED"},
           Becomes(cmd.id, st), cmds' = Append(cmds, cmd), UNCHANGED <<tcp, inds>>,
           nextId' = nextId \/ (nextId' = nextId + 1 /\ cmd.id = nextId),
           cmd.id \in Nat, cmd.id < nextId', Crossings,
           cmd.id \notin crossed /\ cmd.id \notin About(inds) =>
              Agreed(At(tcp, cmd.id), SockAt(sock', cmd.id), cmds', inds, cmd.id)
    PROVE  AppStep(cmd.id)
<1> DEFINE i == cmd.id
<1>1. cmds \in Seq(Commands) /\ inds \in Seq(IndRecords)
  BY DEF DemuxInv, DemuxTypes
<1>2. /\ cmds' \in Seq(Commands) /\ About(cmds') = About(cmds) \cup {i}
  BY <1>1, AppendFacts
<1>3. /\ DOMAIN sock' \subseteq DOMAIN sock \cup {i}
      /\ i \in DOMAIN sock' => sock'[i] \in SockStates
      /\ \A j : j # i => /\ j \in DOMAIN sock' => j \in DOMAIN sock /\ sock'[j] = sock[j]
                         /\ SockAt(sock', j) = SockAt(sock, j)
  BY BecomesFacts
<1>4. \A j : j # i => SameFor(j, cmds, cmds') /\ SameFor(j, inds, inds')
  BY <1>1, SameAppend, SameRefl
<1>5. inds' = inds /\ tcp' = tcp /\ i \in About(cmds')
  BY <1>2
<1> QED  BY <1>1, <1>2, <1>3, <1>4, <1>5 DEF AppStep

\* bind() and listen(), connect(): the first command of a new id.
LEMMA OpensKeep ==
    ASSUME DemuxInv, Up, NEW cmd \in Commands, NEW st,
           \/ cmd.kind = "OPEN_PASSIVE" /\ st = "LISTENING"
           \/ cmd.kind = "OPEN_ACTIVE" /\ st = "CONNECTING",
           cmd.id = nextId, Becomes(nextId, st), cmds' = Append(cmds, cmd),
           UNCHANGED <<tcp, inds>>, nextId' = nextId + 1, Crossings,
           st = "LISTENING" => \A j \in DOMAIN sock : sock[j] # "LISTENING"
    PROVE  DemuxInv'
<1> DEFINE n == Len(cmds) + 1
<1>0. /\ SocketsInv /\ DemuxTypes /\ InOrder(tcp, nextId) /\ nextId \in Nat
      /\ cmds \in Seq(Commands) /\ inds' = inds /\ tcp' = tcp
      /\ st \in SockStates
  BY DEF DemuxInv, DemuxTypes, SockStates
<1>1. /\ DOMAIN cmds' = 1 .. Len(cmds) + 1 /\ cmds'[n] = cmd /\ n \in DOMAIN cmds' /\ n \in Nat
      /\ Len(cmds) \in Nat /\ DOMAIN cmds = 1 .. Len(cmds)
      /\ \A k \in DOMAIN cmds : k \in DOMAIN cmds' /\ cmds'[k] = cmds[k]
      /\ \A k \in DOMAIN cmds' : k \in DOMAIN cmds \/ k = n
      /\ About(cmds') = About(cmds) \cup {nextId}
  BY <1>0, AppendFacts
<1>2. nextId \notin About(cmds) \cup About(inds) \cup DOMAIN sock \cup crossed
  BY <1>0 DEF SocketsInv, IdsUsed
<1>3. \A k \in DOMAIN cmds : cmds[k].id # nextId
  BY <1>2 DEF About
<1>4. nextId \notin DOMAIN tcp.byId
  BY <1>0, AtFacts DEF InOrder, IdsInOrder, IdsBelow
<1>5. At(tcp, nextId) = Absent /\ At(tcp, nextId).st = "ABSENT" /\ ~ Passive(At(tcp, nextId))
  BY <1>4 DEF At, Absent, Passive
<1>6. /\ SockAt(sock', nextId) = st /\ sock'[nextId] = st
      /\ \A j \in DOMAIN sock' : j # nextId => j \in DOMAIN sock /\ sock'[j] = sock[j]
      /\ nextId \in DOMAIN sock'
  BY <1>0, BecomesFacts
<1> HIDE DEF n
<1>7. Agreed(At(tcp, nextId), SockAt(sock', nextId), cmds', inds, nextId)
  <2>1. ASSUME NEW k \in DOMAIN cmds', cmds'[k].id = nextId PROVE k = n
    BY <1>1, <1>3, <2>1
  <2>2. Follows(cmds', n, {})
    <3> SUFFICES ASSUME NEW j \in 1 .. n - 1, cmds'[j].id = cmds'[n].id PROVE FALSE
      BY DEF Follows
    <3>1. j \in DOMAIN cmds
      BY <1>1 DEF n
    <3> QED  BY <1>1, <1>3, <3>1
  <2>3. OpenFits(At(tcp, nextId), st, cmds', n)
    BY <1>1, <1>5, <2>2 DEF OpenFits, OpenKinds
  <2>4. nextId \in About(cmds')
    BY <1>1
  <2> QED  BY <1>2, <1>6, <2>1, <2>3, <2>4 DEF Agreed, CommandFits
<1>8. AppStep(nextId)
  <2>1. nextId < nextId'
    BY <1>0
  <2> QED  BY <1>0, <1>7, <2>1, SaysStep
<1>9. \A k \in DOMAIN cmds' : cmds'[k].kind \in OpenKinds =>
              (k \in DOMAIN cmds /\ cmds'[k] = cmds[k]) \/ (cmds'[k].id = nextId /\ nextId = nextId)
  BY <1>1
<1>10. ~ Stray(At(tcp, nextId))
  BY <1>5 DEF Stray
<1>11. OneListens'
  <2> SUFFICES ASSUME NEW k \in DOMAIN cmds', cmds'[k].kind = "OPEN_PASSIVE"
               PROVE  /\ \A j \in DOMAIN sock' :
                            sock'[j] = "LISTENING" =>
                               \E m \in DOMAIN cmds' : /\ m >= k
                                                       /\ cmds'[m].kind = "OPEN_PASSIVE"
                                                       /\ cmds'[m].id = j
                      /\ \A m \in DOMAIN cmds' :
                            m > k => /\ ~ Passive(At(tcp, cmds'[m].id))
                                     /\ \A j \in 1 .. k - 1 : cmds'[j].kind = "OPEN_PASSIVE" =>
                                                                 cmds'[j].id # cmds'[m].id
    BY <1>0 DEF OneListens
  <2>1. ASSUME NEW j \in DOMAIN sock', sock'[j] = "LISTENING"
        PROVE  \E m \in DOMAIN cmds' : /\ m >= k /\ cmds'[m].kind = "OPEN_PASSIVE"
                                       /\ cmds'[m].id = j
    <3>1. CASE j = nextId
      <4>1. cmd.kind = "OPEN_PASSIVE" /\ n >= k
        BY <1>1, <1>6, <2>1, <3>1 DEF n
      <4> QED  BY <1>1, <3>1, <4>1
    <3>2. CASE j # nextId
      <4>1. j \in DOMAIN sock /\ sock[j] = "LISTENING"
        BY <1>6, <2>1, <3>2
      <4>2. k \in DOMAIN cmds /\ cmds[k].kind = "OPEN_PASSIVE"
        BY <1>1, <4>1
      <4>3. PICK m \in DOMAIN cmds : m >= k /\ cmds[m].kind = "OPEN_PASSIVE" /\ cmds[m].id = j
        BY <1>0, <4>1, <4>2 DEF SocketsInv, OneListens
      <4> QED  BY <1>1, <4>3
    <3> QED  BY <3>1, <3>2
  <2>2. ASSUME NEW m \in DOMAIN cmds', m > k
        PROVE  /\ ~ Passive(At(tcp, cmds'[m].id))
               /\ \A j \in 1 .. k - 1 : cmds'[j].kind = "OPEN_PASSIVE" =>
                                           cmds'[j].id # cmds'[m].id
    <3>1. k \in DOMAIN cmds /\ cmds'[k] = cmds[k]
      <4>1. k # n
        BY <1>1, <2>2 DEF n
      <4> QED  BY <1>1, <4>1
    <3>2. \A j \in 1 .. k - 1 : j \in DOMAIN cmds /\ cmds'[j] = cmds[j]
      BY <1>1, <3>1
    <3>3. CASE m \in DOMAIN cmds
      BY <1>0, <1>1, <2>2, <3>1, <3>2, <3>3 DEF SocketsInv, OneListens
    <3>4. CASE m = n
      BY <1>1, <1>3, <1>5, <3>2, <3>4
    <3> QED  BY <1>1, <3>3, <3>4
  <2> QED  BY <2>1, <2>2
<1> QED  BY <1>8, <1>9, <1>10, <1>11, AppKeeps

LEMMA ListenKeeps == ASSUME DemuxInv, Listen, Crossings PROVE DemuxInv'
<1>1. /\ Up /\ nextId' = nextId + 1 /\ \A j \in DOMAIN sock : sock[j] # "LISTENING"
      /\ nextId \in Nat
  BY DEF Listen, DemuxInv, DemuxTypes
<1>2. PICK la \in ListenAddrs, lp \in ServicePorts, f \in BOOLEAN :
         SocketCommand([kind |-> "OPEN_PASSIVE", id |-> nextId, la |-> la, lp |-> lp,
                        r |-> Blank, fork |-> f], "LISTENING")
  BY DEF Listen
<1> DEFINE cmd == [kind |-> "OPEN_PASSIVE", id |-> nextId, la |-> la, lp |-> lp,
                   r |-> Blank, fork |-> f]
<1>3. cmd \in Commands /\ cmd.kind = "OPEN_PASSIVE" /\ cmd.id = nextId
  BY <1>1 DEF Commands
<1>4. cmds' = Append(cmds, cmd) /\ Becomes(cmd.id, "LISTENING") /\ UNCHANGED <<tcp, inds>>
  BY <1>2 DEF SocketCommand
<1> HIDE DEF cmd
<1> QED  BY <1>1, <1>3, <1>4, OpensKeep

LEMMA ConnectKeeps == ASSUME DemuxInv, Connect, Crossings PROVE DemuxInv'
<1>1. Up /\ nextId' = nextId + 1 /\ nextId \in Nat
  BY DEF Connect, DemuxInv, DemuxTypes
<1>2. PICK r \in Remotes :
         SocketCommand([kind |-> "OPEN_ACTIVE", id |-> nextId, r |-> r], "CONNECTING")
  BY DEF Connect
<1> DEFINE cmd == [kind |-> "OPEN_ACTIVE", id |-> nextId, r |-> r]
<1>3. cmd \in Commands /\ cmd.kind = "OPEN_ACTIVE" /\ cmd.id = nextId
  BY <1>1 DEF Commands
<1>4. cmds' = Append(cmds, cmd) /\ Becomes(cmd.id, "CONNECTING") /\ UNCHANGED <<tcp, inds>>
  BY <1>2 DEF SocketCommand
<1> HIDE DEF cmd
<1> QED  BY <1>1, <1>3, <1>4, OpensKeep

\* close() and abort(), said of an id nothing about which is on its way back.
LEMMA AgreedSays ==
    ASSUME NEW q \in Seq(Commands), NEW n, NEW cmd \in Commands, NEW c, NEW s \in SockStates,
           NEW z, Agreed(c, s, q, n, cmd.id), cmd.id \notin About(n),
           \/ cmd.kind = "ABORT" /\ z = "none"
           \/ /\ cmd.kind = "CLOSE"
              /\ s \in {"CONNECTED", "PEER_CLOSED", "CONNECTING", "LISTENING"}
              /\ z = IF s = "CONNECTED" THEN "LOCALLY_CLOSED" ELSE "none"
    PROVE  Agreed(c, z, Append(q, cmd), n, cmd.id)
<1> DEFINE i == cmd.id
           p == Append(q, cmd)
           last == Len(q) + 1
<1>1. /\ Len(q) \in Nat /\ DOMAIN q = 1 .. Len(q) /\ DOMAIN p = 1 .. Len(q) + 1
      /\ p[last] = cmd /\ last \in DOMAIN p
      /\ \A k \in DOMAIN q : k \in DOMAIN p /\ p[k] = q[k]
      /\ \A k \in DOMAIN p : k \in DOMAIN q \/ k = last
      /\ About(p) = About(q) \cup {i}
  BY AppendFacts
<1> HIDE DEF p
<1>2. s # "none"
  BY DEF SockStates
<1>3. ASSUME NEW k \in DOMAIN q, NEW kinds, Follows(q, k, kinds) PROVE Follows(p, k, kinds)
  <2>1. \A j \in 1 .. k - 1 : j \in DOMAIN q /\ p[j] = q[j]
    BY <1>1
  <2> QED  BY <1>1, <1>3, <2>1 DEF Follows
<1>4. \A k \in DOMAIN q : q[k].id = i => OpenFits(c, s, q, k) \/ CloseFits(c, s, q, k)
  BY <1>2 DEF Agreed, CommandFits, AbortFits
<1>5. ASSUME NEW k \in DOMAIN q, q[k].id = i PROVE CommandFits(c, z, p, k)
  <2>1. CASE OpenFits(c, s, q, k)
    <3>1. z = "none" /\ last > k
      BY <1>1, <1>2, <2>1 DEF OpenFits
    <3> QED  BY <1>1, <1>3, <1>5, <2>1, <3>1 DEF OpenFits, CommandFits
  <2>2. CASE CloseFits(c, s, q, k)
    <3>1. s = "LOCALLY_CLOSED" /\ z = "none" /\ StillOpen(c)
      BY <1>2, <2>2 DEF CloseFits
    <3>2. \E j \in DOMAIN p : j > k /\ p[j].id = p[k].id
      <4>1. last > k
        BY <1>1
      <4> QED  BY <1>1, <1>5, <4>1
    <3> QED  BY <1>1, <1>3, <2>2, <3>1, <3>2 DEF CloseFits, CommandFits
  <2> QED  BY <1>4, <1>5, <2>1, <2>2
<1>6. \A j \in 1 .. last - 1 : j \in DOMAIN q /\ p[j] = q[j]
  BY <1>1
<1>7. CommandFits(c, z, p, last)
  <2>1. CASE i \notin About(q)
    <3>1. Fits(s, c)
      BY <2>1 DEF Agreed
    <3>2. \A kinds : Follows(p, last, kinds)
      BY <1>1, <1>6, <2>1 DEF Follows, About
    <3>3. c.st # "ABSENT" /\ c.st # "TIME_WAIT"
      BY <1>2, <3>1 DEF Fits, Passive, StillOpen, PeerClosed, HalfClosed
    <3>4. cmd.kind = "CLOSE" => \/ z = "none" /\ (Opening(c) \/ PeerClosed(c))
                                \/ z = "LOCALLY_CLOSED" /\ StillOpen(c)
      BY <1>2, <3>1 DEF Fits, Passive, Opening
    <3> QED  BY <1>1, <3>2, <3>3, <3>4 DEF CommandFits, CloseFits, AbortFits
  <2>2. CASE \E k \in DOMAIN q : q[k].id = i /\ OpenFits(c, s, q, k)
    <3>1. PICK k \in DOMAIN q : q[k].id = i /\ OpenFits(c, s, q, k)
      BY <2>2
    <3>2. c.st = "ABSENT" /\ z = "none"
      BY <1>2, <3>1 DEF OpenFits
    <3>3. k \in 1 .. last - 1
      BY <1>1
    <3>4. Opened(p, last)
      BY <1>1, <1>6, <3>1, <3>3 DEF Opened, OpenFits
    <3>5. \A j \in DOMAIN q : q[j].id = i => q[j].kind \in OpenKinds
      BY <1>2, <1>4, <3>2 DEF OpenFits, CloseFits, StillOpen, HalfClosed
    <3>6. Follows(p, last, OpenKinds)
      BY <1>1, <1>6, <3>5 DEF Follows
    <3> QED  BY <1>1, <3>2, <3>4, <3>6 DEF CommandFits, CloseFits, AbortFits
  <2>3. CASE \E k \in DOMAIN q : q[k].id = i /\ CloseFits(c, s, q, k)
    <3>1. PICK k \in DOMAIN q : q[k].id = i /\ CloseFits(c, s, q, k)
      BY <2>3
    <3>2. StillOpen(c) /\ s = "LOCALLY_CLOSED" /\ z = "none" /\ cmd.kind = "ABORT"
      BY <1>2, <3>1 DEF CloseFits
    <3>3. \A j \in DOMAIN q : q[j].id = i => q[j].kind = "CLOSE"
      BY <1>4, <3>2 DEF OpenFits, CloseFits, StillOpen, HalfClosed
    <3>4. Follows(p, last, {"CLOSE"})
      BY <1>1, <1>6, <3>3 DEF Follows
    <3> QED  BY <1>1, <3>2, <3>4 DEF CommandFits, AbortFits, StillOpen, HalfClosed
  <2> QED  BY <1>4, <2>1, <2>2, <2>3, AboutMember
<1> HIDE DEF last
<1>8. \A k \in DOMAIN p : p[k].id = i => CommandFits(c, z, p, k)
  BY <1>1, <1>5, <1>7
<1> QED  BY <1>1, <1>8 DEF Agreed, p

LEMMA ClosesKeep ==
    ASSUME DemuxInv, Up, NEW i \in DOMAIN sock, NEW cmd \in Commands, cmd.id = i, NEW st,
           \/ cmd.kind = "ABORT" /\ st = "CLOSED"
           \/ /\ cmd.kind = "CLOSE"
              /\ sock[i] \in {"CONNECTED", "PEER_CLOSED", "CONNECTING", "LISTENING"}
              /\ st = IF sock[i] = "CONNECTED" THEN "LOCALLY_CLOSED" ELSE "CLOSED",
           Becomes(i, st), cmds' = Append(cmds, cmd), UNCHANGED <<tcp, inds, nextId>>, Crossings
    PROVE  DemuxInv'
<1> DEFINE n == Len(cmds) + 1
           c == At(tcp, i)
           z == IF st = "CLOSED" THEN "none" ELSE st
<1>0. /\ SocketsInv /\ DemuxTypes /\ InOrder(tcp, nextId) /\ nextId \in Nat
      /\ cmds \in Seq(Commands) /\ inds' = inds /\ tcp' = tcp /\ nextId' = nextId
      /\ sock[i] \in SockStates /\ i \in Nat /\ SockAt(sock, i) = sock[i] /\ sock[i] # "none"
      /\ st \in {"CLOSED", "LOCALLY_CLOSED"}
  BY DEF DemuxInv, DemuxTypes, SockStates, SockAt
<1>1. /\ DOMAIN cmds' = 1 .. Len(cmds) + 1 /\ cmds'[n] = cmd /\ n \in DOMAIN cmds' /\ n \in Nat
      /\ Len(cmds) \in Nat /\ DOMAIN cmds = 1 .. Len(cmds)
      /\ \A k \in DOMAIN cmds : k \in DOMAIN cmds' /\ cmds'[k] = cmds[k]
      /\ \A k \in DOMAIN cmds' : k \in DOMAIN cmds \/ k = n
      /\ About(cmds') = About(cmds) \cup {i}
  BY <1>0, AppendFacts
<1>2. i < nextId /\ i \in 0 .. nextId - 1
  BY <1>0 DEF SocketsInv, IdsUsed
<1>3. i \notin crossed => Agreed(c, sock[i], cmds, inds, i)
  BY <1>0, <1>2 DEF SocketsInv, AllAgreed
<1>4. SockAt(sock', i) = z /\ (i \in DOMAIN sock' => sock'[i] = st /\ st # "LISTENING")
      /\ \A j \in DOMAIN sock' : j # i => j \in DOMAIN sock /\ sock'[j] = sock[j]
  BY <1>0, BecomesFacts DEF SockStates
<1> HIDE DEF n, c
<1>5. ASSUME i \notin crossed, i \notin About(inds)
      PROVE  Agreed(c, SockAt(sock', i), cmds', inds, i)
  <2>1. /\ sock[i] \in SockStates /\ cmds \in Seq(Commands)
        /\ Agreed(c, sock[i], cmds, inds, i)
        /\ \/ cmd.kind = "ABORT" /\ z = "none"
           \/ /\ cmd.kind = "CLOSE"
              /\ sock[i] \in {"CONNECTED", "PEER_CLOSED", "CONNECTING", "LISTENING"}
              /\ z = IF sock[i] = "CONNECTED" THEN "LOCALLY_CLOSED" ELSE "none"
    BY <1>0, <1>3, <1>5
  <2> QED  BY <1>4, <1>5, <2>1, AgreedSays
<1>6. AppStep(i)
  <2>1. /\ st \in SockStates \cup {"CLOSED"} /\ Becomes(cmd.id, st)
        /\ nextId' = nextId \/ (nextId' = nextId + 1 /\ cmd.id = nextId)
        /\ cmd.id \in Nat /\ cmd.id < nextId'
        /\ UNCHANGED <<tcp, inds>> /\ cmds' = Append(cmds, cmd)
    BY <1>0, <1>2 DEF SockStates
  <2>2. cmd.id \notin crossed /\ cmd.id \notin About(inds) =>
           Agreed(At(tcp, cmd.id), SockAt(sock', cmd.id), cmds', inds, cmd.id)
    BY <1>5 DEF c
  <2>3. AppStep(cmd.id)
    BY <2>1, <2>2, SaysStep
  <2> QED  BY <2>3
<1>7. \A k \in DOMAIN cmds' : cmds'[k].kind \in OpenKinds => k \in DOMAIN cmds /\ cmds'[k] = cmds[k]
  BY <1>1 DEF OpenKinds
<1>8. ~ Stray(c)
  BY <1>0 DEF SocketsInv, ConnsSound, Stray, Passive, At, Absent, c
<1>9. ASSUME NEW k \in DOMAIN cmds, cmds[k].kind = "OPEN_PASSIVE", Passive(c) PROVE FALSE
  <2>1. i \notin About(inds) \cup crossed
    BY <1>0, <1>9 DEF SocketsInv, ConnsSound, Passive, At, Absent, c
  <2>2. \A m \in DOMAIN cmds : ~ CommandFits(c, sock[i], cmds, m)
    BY <1>0, <1>9 DEF CommandFits, OpenFits, CloseFits, AbortFits, Passive, StillOpen, HalfClosed
  <2>3. i \notin About(cmds)
    BY <1>3, <2>1, <2>2, AboutMember DEF Agreed
  <2>4. Fits(sock[i], c)
    BY <1>3, <2>1, <2>3 DEF Agreed
  <2>5. sock[i] = "LISTENING"
    BY <1>0, <1>9, <2>4 DEF Fits, Passive, StillOpen, PeerClosed, HalfClosed
  <2>6. PICK m \in DOMAIN cmds : cmds[m].id = i
    BY <1>0, <1>9, <2>5 DEF SocketsInv, OneListens
  <2> QED  BY <2>3, <2>6, AboutMember
<1>10. ASSUME NEW k \in DOMAIN cmds, cmds[k].kind = "OPEN_PASSIVE",
              NEW j \in 1 .. k - 1, cmds[j].kind = "OPEN_PASSIVE", cmds[j].id = i
       PROVE  FALSE
  <2>0. j \in DOMAIN cmds
    BY <1>1
  <2>1. i \notin crossed
    BY <1>0, <1>10, <2>0 DEF SocketsInv, OpensNew, OpenKinds
  <2>2. OpenFits(c, sock[i], cmds, j)
    BY <1>3, <1>10, <2>0, <2>1 DEF Agreed, CommandFits, CloseFits, AbortFits
  <2>3. sock[i] = "LISTENING"
    BY <1>0, <1>10, <2>2 DEF OpenFits
  <2>4. PICK m \in DOMAIN cmds : m >= k /\ cmds[m].kind = "OPEN_PASSIVE" /\ cmds[m].id = i
    BY ZenonT(60), <1>0, <1>10, <2>3 DEF SocketsInv, OneListens
  <2>5. OpenFits(c, sock[i], cmds, m)
    BY <1>3, <2>1, <2>4 DEF Agreed, CommandFits, CloseFits, AbortFits
  <2>6. j \in 1 .. m - 1
    BY <1>1, <2>4
  <2> QED  BY <1>10, <2>4, <2>5, <2>6 DEF OpenFits, Follows
<1>11. OneListens'
  <2> SUFFICES ASSUME NEW k \in DOMAIN cmds', cmds'[k].kind = "OPEN_PASSIVE"
               PROVE  /\ \A j \in DOMAIN sock' :
                            sock'[j] = "LISTENING" =>
                               \E m \in DOMAIN cmds' : /\ m >= k
                                                       /\ cmds'[m].kind = "OPEN_PASSIVE"
                                                       /\ cmds'[m].id = j
                      /\ \A m \in DOMAIN cmds' :
                            m > k => /\ ~ Passive(At(tcp, cmds'[m].id))
                                     /\ \A j \in 1 .. k - 1 : cmds'[j].kind = "OPEN_PASSIVE" =>
                                                                 cmds'[j].id # cmds'[m].id
    BY <1>0 DEF OneListens
  <2>0. k \in DOMAIN cmds /\ cmds'[k] = cmds[k]
    BY <1>7 DEF OpenKinds
  <2>1. ASSUME NEW j \in DOMAIN sock', sock'[j] = "LISTENING"
        PROVE  \E m \in DOMAIN cmds' : /\ m >= k /\ cmds'[m].kind = "OPEN_PASSIVE"
                                       /\ cmds'[m].id = j
    <3>1. j \in DOMAIN sock /\ sock[j] = "LISTENING"
      BY <1>4, <2>1
    <3>2. PICK m \in DOMAIN cmds : m >= k /\ cmds[m].kind = "OPEN_PASSIVE" /\ cmds[m].id = j
      BY <1>0, <2>0, <3>1 DEF SocketsInv, OneListens
    <3> QED  BY <1>1, <3>2
  <2>2. ASSUME NEW m \in DOMAIN cmds', m > k
        PROVE  /\ ~ Passive(At(tcp, cmds'[m].id))
               /\ \A j \in 1 .. k - 1 : cmds'[j].kind = "OPEN_PASSIVE" =>
                                           cmds'[j].id # cmds'[m].id
    <3>1. \A j \in 1 .. k - 1 : j \in DOMAIN cmds /\ cmds'[j] = cmds[j]
      BY <1>1, <2>0
    <3>2. CASE m \in DOMAIN cmds
      BY <1>0, <1>1, <2>0, <2>2, <3>1, <3>2 DEF SocketsInv, OneListens
    <3>3. CASE m = n
      BY <1>1, <1>9, <1>10, <2>0, <3>1, <3>3 DEF c
    <3> QED  BY <1>1, <3>2, <3>3
  <2> QED  BY <2>1, <2>2
<1> QED  BY <1>6, <1>7, <1>8, <1>11, AppKeeps DEF c

LEMMA CloseSocketKeeps ==
    ASSUME DemuxInv, NEW i \in DOMAIN sock, CloseSocket(i) \/ AbortSocket(i), Crossings
    PROVE  DemuxInv'
<1>1. Up /\ nextId' = nextId /\ i \in Nat
  BY DEF CloseSocket, AbortSocket, DemuxInv, DemuxTypes
<1>2. CASE CloseSocket(i)
  <2> DEFINE cmd == [kind |-> "CLOSE", id |-> i]
             st == IF sock[i] = "CONNECTED" THEN "LOCALLY_CLOSED" ELSE "CLOSED"
  <2>1. cmd \in Commands /\ cmd.kind = "CLOSE" /\ cmd.id = i
    BY <1>1 DEF Commands
  <2>2. /\ cmds' = Append(cmds, cmd) /\ Becomes(i, st) /\ UNCHANGED <<tcp, inds>>
        /\ sock[i] \in {"CONNECTED", "PEER_CLOSED", "CONNECTING", "LISTENING"}
    BY <1>2, <2>1 DEF CloseSocket, SocketCommand
  <2> HIDE DEF cmd
  <2> QED  BY <1>1, <2>1, <2>2, ClosesKeep
<1>3. CASE AbortSocket(i)
  <2> DEFINE cmd == [kind |-> "ABORT", id |-> i]
  <2>1. cmd \in Commands /\ cmd.kind = "ABORT" /\ cmd.id = i
    BY <1>1 DEF Commands
  <2>2. cmds' = Append(cmds, cmd) /\ Becomes(i, "CLOSED") /\ UNCHANGED <<tcp, inds>>
    BY <1>3, <2>1 DEF AbortSocket, SocketCommand
  <2> HIDE DEF cmd
  <2> QED  BY <1>1, <2>1, <2>2, ClosesKeep
<1> QED  BY <1>2, <1>3

\* processMessage(): the socket hears the first indication.
LEMMA AgreedHears ==
    ASSUME NEW q, NEW n \in Seq(IndRecords), n # <<>>, NEW c, NEW s,
           Agreed(c, s, q, n, Head(n).id)
    PROVE  Agreed(c, After(Head(n).kind), q, Tail(n), Head(n).id)
<1> DEFINE i == Head(n).id
           p == Tail(n)
<1>1. /\ Head(n) = n[1] /\ 1 \in DOMAIN n /\ DOMAIN n = 1 .. Len(n) /\ Len(n) \in Nat
      /\ \A k \in DOMAIN p : k \in Nat /\ k > 0 /\ k + 1 \in DOMAIN n /\ p[k] = n[k + 1]
      /\ \A k \in DOMAIN n : k # 1 => k - 1 \in DOMAIN p /\ p[k - 1] = n[k]
  BY TailFacts
<1> HIDE DEF p
<1>2. i \in About(n)
  BY <1>1, AboutMember
<1>3. \A k \in DOMAIN q : q[k].id # i
  BY <1>2 DEF Agreed
<1>4. i \notin About(q)
  BY <1>3, AboutMember
<1>5. ASSUME i \notin About(p) PROVE Fits(After(Head(n).kind), c)
  <2>1. \A m \in DOMAIN n : m > 1 => n[m].id # i
    <3> SUFFICES ASSUME NEW m \in DOMAIN n, m > 1, n[m].id = i PROVE FALSE
      OBVIOUS
    <3>1. m - 1 \in DOMAIN p /\ p[m - 1].id = i
      BY <1>1
    <3> QED  BY <1>5, <3>1, AboutMember
  <2>2. LastAbout(n, 1, i)
    BY <1>1, <2>1 DEF LastAbout
  <2> QED  BY <1>1, <1>4, <2>2 DEF Agreed
<1>6. ASSUME NEW k \in DOMAIN p, LastAbout(p, k, i) PROVE Fits(After(p[k].kind), c)
  <2>1. k \in Nat /\ k + 1 \in DOMAIN n /\ p[k] = n[k + 1] /\ n[k + 1].id = i
    BY <1>1, <1>6 DEF LastAbout
  <2>2. \A m \in DOMAIN n : m > k + 1 => n[m].id # i
    <3> SUFFICES ASSUME NEW m \in DOMAIN n, m > k + 1, n[m].id = i PROVE FALSE
      OBVIOUS
    <3>1. m - 1 \in DOMAIN p /\ p[m - 1].id = i /\ m - 1 > k
      BY <1>1, <2>1
    <3> QED  BY <1>6, <3>1 DEF LastAbout
  <2>3. LastAbout(n, k + 1, i)
    BY <2>1, <2>2 DEF LastAbout
  <2> QED  BY <1>4, <2>1, <2>3 DEF Agreed
<1> QED  BY <1>3, <1>4, <1>5, <1>6 DEF Agreed, p

LEMMA HeardState ==
    ASSUME NEW kind \in IndKinds
    PROVE  /\ SocketState[kind] \in (SockStates \cup {"CLOSED", "SOCKERROR"}) \ {"LISTENING"}
           /\ After(kind) = IF SocketState[kind] \in SockStates THEN SocketState[kind]
                            ELSE "none"
BY DEF IndKinds, SocketState, SockStates, After

LEMMA SocketHearsKeeps == ASSUME DemuxInv, SocketHears, Crossings PROVE DemuxInv'
<1> DEFINE i == Head(inds).id
           kind == Head(inds).kind
           st == SocketState[kind]
<1>0. /\ Up /\ SocketsInv /\ DemuxTypes /\ InOrder(tcp, nextId) /\ nextId \in Nat
      /\ cmds \in Seq(Commands) /\ inds \in Seq(IndRecords) /\ inds # <<>>
      /\ inds' = Tail(inds) /\ tcp' = tcp /\ nextId' = nextId /\ cmds' = cmds
      /\ Becomes(i, st)
  BY DEF SocketHears, DemuxInv, DemuxTypes
<1>1. /\ Head(inds) \in IndRecords /\ Head(inds) = inds[1] /\ 1 \in DOMAIN inds
      /\ Tail(inds) \in Seq(IndRecords) /\ About(Tail(inds)) \subseteq About(inds)
  BY <1>0, TailFacts
<1>2. i \in Nat /\ kind \in IndKinds
  BY <1>1 DEF IndRecords
<1>3. i \in About(inds)
  BY <1>1, AboutMember
<1>4. i < nextId /\ i \in 0 .. nextId - 1
  BY <1>0, <1>2, <1>3 DEF SocketsInv, IdsUsed
<1> HIDE DEF i, kind
<1>5. st \in SockStates \cup {"CLOSED", "SOCKERROR"} /\ st # "LISTENING"
      /\ After(kind) = IF st \in SockStates THEN st ELSE "none"
  BY <1>2, HeardState
<1> HIDE DEF st
<1>6. /\ DOMAIN sock' \subseteq DOMAIN sock \cup {i} /\ SockAt(sock', i) = After(kind)
      /\ i \in DOMAIN sock' <=> st \in SockStates
      /\ i \in DOMAIN sock' => sock'[i] = st
      /\ \A j : j # i => /\ j \in DOMAIN sock' <=> j \in DOMAIN sock
                         /\ j \in DOMAIN sock' => sock'[j] = sock[j]
                         /\ SockAt(sock', j) = SockAt(sock, j)
  BY <1>0, <1>5, BecomesFacts
<1>7. i \notin crossed => Agreed(At(tcp, i), SockAt(sock', i), cmds', inds', i)
  <2>1. i \notin crossed => Agreed(At(tcp, i), SockAt(sock, i), cmds, inds, i)
    BY <1>0, <1>4 DEF SocketsInv, AllAgreed
  <2>2. i \notin crossed => Agreed(At(tcp, i), After(kind), cmds, Tail(inds), i)
    BY <1>0, <2>1, AgreedHears DEF i, kind
  <2> QED  BY <1>0, <1>6, <2>2
<1>8. \A j : j # i => SameFor(j, cmds, cmds') /\ SameFor(j, inds, inds')
  BY <1>0, SameRefl, SameTail DEF i
<1>9. AppStep(i)
  BY <1>0, <1>1, <1>2, <1>4, <1>6, <1>7, <1>8 DEF AppStep
<1>10. ~ Stray(At(tcp, i))
  BY <1>0, <1>3 DEF SocketsInv, ConnsSound, Stray, Passive, At, Absent
<1>11. OneListens'
  <2>1. \A j \in DOMAIN sock' : sock'[j] = "LISTENING" => j \in DOMAIN sock /\ sock[j] = "LISTENING"
    BY <1>5, <1>6
  <2> QED  BY <1>0, <2>1 DEF SocketsInv, OneListens
<1>12. \A k \in DOMAIN cmds' : k \in DOMAIN cmds /\ cmds'[k] = cmds[k]
  BY <1>0
<1> QED  BY <1>0, <1>9, <1>10, <1>11, <1>12, AppKeeps

-----------------------------------------------------------------------------
(* The first state, a crash, and every step.                               *)

LEMMA NewTCPInOrder ==
    /\ \A n : InOrder(NewTCP, n)
    /\ \A i : At(NewTCP, i) = Absent
    /\ DOMAIN NewTCP.byId = {} /\ NewTCP.fault = "none"
<1>1. /\ DOMAIN NewTCP = TableFields /\ DOMAIN NewTCP.conn = {} /\ DOMAIN NewTCP.byId = {}
      /\ DOMAIN NewTCP.byPair = {} /\ NewTCP.fault = "none" /\ NewTCP.last = PortStart
      /\ DOMAIN NewTCP.used = Ports /\ \A p \in Ports : NewTCP.used[p] = 0
  BY DEF NewTCP, Empty, TableFields
<1>2. PortStart \in Ports
  BY DemuxAssumption DEF Ports
<1>3. \A p : OnPort(NewTCP, p) = {}
  BY <1>1 DEF OnPort
<1>4. Cardinality({}) = 0 /\ IsFiniteSet({})
  BY FS_EmptySet
<1> HIDE DEF NewTCP
<1>5. Shaped(NewTCP)
  BY <1>1, <1>2, <1>4 DEF Shaped
<1>6. PortsInOrder(NewTCP)
  BY <1>1, <1>3, <1>4 DEF PortsInOrder
<1>7. IdsInOrder(NewTCP) /\ PairsInOrder(NewTCP) /\ \A n : IdsBelow(NewTCP, n)
  BY <1>1 DEF IdsInOrder, PairsInOrder, IdsBelow
<1> QED  BY <1>1, <1>5, <1>6, <1>7 DEF InOrder, At

\* The state after a start is in order, whatever ids were handed out before.
Started == /\ tcp = NewTCP /\ sock = Empty /\ cmds = <<>> /\ inds = <<>> /\ crossed = {}
           /\ nextId \in Nat

LEMMA StartedFacts == Started => DemuxInv
<1> SUFFICES ASSUME Started PROVE DemuxInv
  OBVIOUS
<1>1. /\ DOMAIN sock = {} /\ DOMAIN cmds = {} /\ DOMAIN inds = {}
      /\ About(cmds) = {} /\ About(inds) = {}
  BY DEF Started, Empty, About
<1>2. /\ InOrder(tcp, nextId) /\ \A i : At(tcp, i) = Absent
      /\ DOMAIN tcp.byId = {} /\ tcp.fault = "none"
  BY NewTCPInOrder DEF Started
<1>3. DemuxTypes
  BY <1>1 DEF DemuxTypes, Started
<1>4. FaultsExplained
  BY <1>2 DEF FaultsExplained
<1>5. ASSUME NEW i PROVE Agreed(At(tcp, i), SockAt(sock, i), cmds, inds, i)
  <2>1. At(tcp, i) = Absent /\ SockAt(sock, i) = "none"
    BY <1>1, <1>2 DEF SockAt
  <2>2. At(tcp, i).st = "ABSENT"
    BY <2>1 DEF Absent
  <2> QED  BY <1>1, <2>1, <2>2, AgreedGone
<1>6. IdsUsed /\ AllAgreed /\ OpensNew /\ ConnsSound /\ OneListens
  BY <1>1, <1>2, <1>5 DEF IdsUsed, AllAgreed, OpensNew, ConnsSound, OneListens, Started
<1> QED  BY <1>2, <1>3, <1>4, <1>6 DEF DemuxInv, SocketsInv

LEMMA CrashKeeps == ASSUME DemuxInv, Crash, Crossings PROVE DemuxInv'
<1>1. /\ tcp' = NewTCP /\ sock' = Empty /\ cmds' = <<>> /\ inds' = <<>> /\ nextId' = nextId
      /\ nextId \in Nat
  BY DEF Crash, DemuxInv, DemuxTypes
<1>2. DOMAIN sock' = {} /\ About(cmds') = {} /\ About(inds') = {} /\ DOMAIN tcp'.byId = {}
  BY <1>1, NewTCPInOrder DEF Empty, About
<1>3. crossed' = {}
  BY <1>2 DEF Crossings
<1>4. Started'
  BY <1>1, <1>3 DEF Started
<1> QED  BY <1>4, StartedFacts, PTL

LEMMA StutterKeeps == ASSUME DemuxInv, UNCHANGED demuxVars PROVE DemuxInv'
<1>1. /\ tcp' = tcp /\ nextId' = nextId /\ sock' = sock /\ cmds' = cmds /\ inds' = inds
      /\ crossed' = crossed
  BY DEF demuxVars
<1>2. DemuxTypes' /\ InOrder(tcp, nextId)' /\ FaultsExplained'
  BY <1>1 DEF DemuxInv, DemuxTypes, FaultsExplained
<1>3. Up => (IdsUsed /\ AllAgreed /\ OpensNew /\ ConnsSound /\ OneListens)'
  BY <1>1 DEF DemuxInv, SocketsInv, IdsUsed, AllAgreed, OpensNew, ConnsSound, OneListens
<1>4. Up' <=> Up
  BY <1>1 DEF Up
<1> QED  BY <1>2, <1>3, <1>4 DEF DemuxInv, SocketsInv

LEMMA DemuxInitInv == DemuxInit => DemuxInv
<1>1. DemuxInit => Started
  BY DEF DemuxInit, Started
<1> QED  BY <1>1, StartedFacts

LEMMA DemuxStep == DemuxInv /\ [DemuxNext]_demuxVars => DemuxInv'
<1> SUFFICES ASSUME DemuxInv, [DemuxNext]_demuxVars PROVE DemuxInv'
  OBVIOUS
<1>1. ASSUME Listen, Crossings PROVE DemuxInv'
  BY <1>1, ListenKeeps
<1>2. ASSUME Connect, Crossings PROVE DemuxInv'
  BY <1>2, ConnectKeeps
<1>3. ASSUME SocketHears, Crossings PROVE DemuxInv'
  BY <1>3, SocketHearsKeeps
<1>4. ASSUME CommandArrives, Crossings PROVE DemuxInv'
  BY <1>4, CommandKeeps
<1>5. ASSUME Crash, Crossings PROVE DemuxInv'
  BY <1>5, CrashKeeps
<1>6. ASSUME NEW id \in DOMAIN sock, CloseSocket(id) \/ AbortSocket(id), Crossings
      PROVE  DemuxInv'
  BY <1>6, CloseSocketKeeps
<1>7. ASSUME NEW o \in DOMAIN tcp.conn, SegmentReaches(o), Crossings PROVE DemuxInv'
  BY <1>7, SegmentKeeps
<1>8. ASSUME NEW o \in DOMAIN tcp.conn, Crossings,
             ConnEstabTimer(o) \/ RexmitLimit(o) \/ TimeWaitTimer(o)
      PROVE  DemuxInv'
  BY <1>8, TimersKeep
<1>9. CASE UNCHANGED demuxVars
  BY <1>9, StutterKeeps
<1> QED  BY <1>1, <1>2, <1>3, <1>4, <1>5, <1>6, <1>7, <1>8, <1>9 DEF DemuxNext

-----------------------------------------------------------------------------
(* What follows.                                                           *)

\* A settled id has an agreed socket and connection.
LEMMA SettledFits ==
    ASSUME DemuxInv, Up, NEW i \in Nat, i < nextId,
           i \notin crossed, i \notin About(cmds), i \notin About(inds)
    PROVE  Fits(SockAt(sock, i), At(tcp, i))
<1>1. i \in 0 .. nextId - 1
  BY DEF DemuxInv, DemuxTypes
<1>2. Agreed(At(tcp, i), SockAt(sock, i), cmds, inds, i)
  BY <1>1 DEF DemuxInv, SocketsInv, AllAgreed
<1> QED  BY <1>2 DEF Agreed

Matching == [LISTENING |-> {"LISTEN", "SYN_RCVD"},
             CONNECTING |-> {"SYN_SENT", "SYN_RCVD"},
             CONNECTED |-> {"ESTABLISHED"},
             PEER_CLOSED |-> {"CLOSE_WAIT"},
             LOCALLY_CLOSED |-> {"FIN_WAIT_1", "FIN_WAIT_2", "CLOSING"}]

ClosedLate == [LISTENING |-> {}, CONNECTING |-> {},
               CONNECTED |-> {"FIN_WAIT_1", "FIN_WAIT_2", "CLOSING"},
               PEER_CLOSED |-> {"LAST_ACK"},
               LOCALLY_CLOSED |-> {"ESTABLISHED"}]

LEMMA FitsMatches ==
    ASSUME NEW s \in SockStates, NEW c, Fits(s, c)
    PROVE  c.st \in Matching[s] \/ (c.deferred /\ c.st \in ClosedLate[s])
<1>1. s # "none"
  BY DEF SockStates
<1> QED  BY <1>1 DEF Fits, Passive, StillOpen, PeerClosed, HalfClosed, SockStates, Matching,
                          ClosedLate

LEMMA SocketsAgreeFollows == DemuxInv => SocketsAgree
<1> SUFFICES ASSUME DemuxInv, Up PROVE SocketsAgree
  BY DEF SocketsAgree
<1>0. SocketsInv /\ DemuxTypes /\ InOrder(tcp, nextId)
  BY DEF DemuxInv
<1> DEFINE settled(i) == i \notin crossed \cup About(cmds) \cup About(inds)
<1>1. ASSUME NEW o \in DOMAIN tcp.conn, settled(tcp.conn[o].id)
      PROVE  LET c == tcp.conn[o]
             IN  IF c.id \in DOMAIN sock
                 THEN \/ c.st \in Matching[sock[c.id]]
                      \/ c.deferred /\ c.st \in ClosedLate[sock[c.id]]
                 ELSE \/ c.st \in ClosingStates
                      \/ c.st \in {"SYN_RCVD", "LISTEN"} /\ c.fork
                      \/ c.st \in {"SYN_RCVD", "CLOSE_WAIT"} /\ c.deferred
  <2> DEFINE c == tcp.conn[o]
             i == tcp.conn[o].id
  <2>1. i \in Nat /\ i < nextId /\ i \in DOMAIN tcp.byId /\ At(tcp, i) = c
    BY <1>0 DEF InOrder, IdsBelow, IdsInOrder, At
  <2>2. Fits(SockAt(sock, i), c)
    BY <1>1, <2>1, SettledFits
  <2>3. Sound(c)
    BY <1>0, <2>1 DEF SocketsInv, ConnsSound
  <2> HIDE DEF c, i
  <2>4. ASSUME i \in DOMAIN sock
        PROVE  c.st \in Matching[sock[i]] \/ (c.deferred /\ c.st \in ClosedLate[sock[i]])
    <3>1. sock[i] \in SockStates /\ SockAt(sock, i) = sock[i]
      BY <1>0, <2>4 DEF DemuxTypes, SockAt
    <3> QED  BY <2>2, <3>1, FitsMatches
  <2>5. ASSUME i \notin DOMAIN sock
        PROVE  \/ c.st \in ClosingStates
               \/ c.st \in {"SYN_RCVD", "LISTEN"} /\ c.fork
               \/ c.st \in {"SYN_RCVD", "CLOSE_WAIT"} /\ c.deferred
    <3>1. SockAt(sock, i) = "none" /\ c.st # "ABSENT"
      BY <2>3, <2>5 DEF SockAt, Sound, States
    <3> QED  BY <2>2, <3>1 DEF Fits, Passive
  <2> QED  BY <2>4, <2>5 DEF c, i
<1>2. ASSUME NEW i \in DOMAIN sock, settled(i) PROVE i \in DOMAIN tcp.byId
  <2>1. i \in Nat /\ i < nextId /\ SockAt(sock, i) = sock[i] /\ sock[i] \in SockStates
    BY <1>0 DEF DemuxTypes, SocketsInv, IdsUsed, SockAt
  <2>2. Fits(sock[i], At(tcp, i))
    BY <1>2, <2>1, SettledFits
  <2>3. At(tcp, i).st # "ABSENT"
    BY <2>1, <2>2, FitsMatches DEF Matching, ClosedLate, SockStates
  <2> QED  BY <2>3 DEF At, Absent
<1> QED  BY <1>1, <1>2 DEF SocketsAgree, Matching, ClosedLate

\* The strengthened invariant of the module: the tables are in order, every id
\* that no command and indication have crossed for has commands, indications,
\* socket and connection that fit together (also while process_CLOSE() has put a
\* CLOSE off), and the error that ended the run, if one did, is explained.
THEOREM DemuxInvariant == DemuxSpec => []DemuxInv
<1> QED  BY DemuxInitInv, DemuxStep, PTL DEF DemuxSpec

\* findConnForApp() and findConnForSegment(): the two tables of TCP name the
\* same connections, each once, through forks, new ids, qualified socket pairs
\* and removals (TCP.cc, addForkedConnection(), updateSockPair(),
\* removeConnection()).
THEOREM TablesAlwaysAgree == DemuxSpec => []TablesAgree
<1>1. DemuxInv => TablesAgree
  BY InOrderMeans DEF DemuxInv, InOrder
<1> QED  BY <1>1, DemuxInvariant, PTL

\* usedEphemeralPorts holds the port of every connection, once for each, so
\* that getEphemeralPort() gives out no port of a connection that exists.
THEOREM PortsAlwaysCounted == DemuxSpec => []PortsCounted
<1>1. DemuxInv => PortsCounted
  BY InOrderMeans DEF DemuxInv, InOrder
<1> QED  BY <1>1, DemuxInvariant, PTL

\* The errors TCP ends the run with ("Address already in use", "connection not
\* found", "duplicate CLOSE", ephemeral ports exhausted) have the causes that
\* FaultsExplained names, and no other: "duplicate CLOSE" comes of a command that
\* crossed an indication, or of a CLOSE that process_CLOSE() had put off.
THEOREM FaultsAlwaysExplained == DemuxSpec => []FaultsExplained
<1>1. DemuxInv => FaultsExplained
  BY DEF DemuxInv
<1> QED  BY <1>1, DemuxInvariant, PTL

\* TCPSocket and TCPConnection agree on the state of a connection whenever no
\* command and no indication about it is on its way and none have crossed, up to
\* what a CLOSE that was put off lets them differ.
THEOREM SocketsAlwaysAgree == DemuxSpec => []SocketsAgree
<1> QED  BY SocketsAgreeFollows, DemuxInvariant, PTL

=============================================================================
