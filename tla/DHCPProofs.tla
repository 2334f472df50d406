------------------------------ MODULE DHCPProofs -----------------------------
(***************************************************************************)
(* What address assignment keeps for ever, for any number of clients,      *)
(* addresses and faults: the address a client uses is in the server's      *)
(* table under that client, as long as the server keeps its table.         *)
(*                                                                         *)
(* The invariant follows an address on its way to the interface: the       *)
(* server writes the table before it offers (OFFERs on their way), the     *)
(* client records the offer as its lease, and an ACK makes the lease the   *)
(* address, whatever address the ACK names.                                *)
(*                                                                         *)
(* The timers of a client follow its state; that one needs no help of the  *)
(* server or the messages.                                                 *)
(***************************************************************************)
EXTENDS DHCP, WellFoundedInduction, TLAPS

USE DHCPAssumption

OnRecord ==
    /\ \A c \in Clients : client[c].lease # NoAddress =>
                             leased[client[c].lease] = c
    /\ \A c \in Clients : client[c].address # NoAddress =>
                             leased[client[c].address] = c
    /\ \A m \in mail : m.type = "OFFER" /\ m.ip # NoAddress => leased[m.ip] = m.client

RecordInv == DHCPTypeOK /\ (~forgetful => OnRecord)

-----------------------------------------------------------------------------
\* The pool.

LEMMA FirstIsMember ==
    ASSUME NEW S \in SUBSET Pool, S # {}
    PROVE  First(S) \in S
<1>1. IsWellFoundedOn(OpToRel(<, Nat), Nat)
  BY NatLessThanWellFounded
<1>2. S \subseteq Nat
  OBVIOUS
<1>3. \E a \in S : \A b \in S : ~ (<<b, a>> \in OpToRel(<, Nat))
  BY <1>1, <1>2, WFMin
<1>4. \A a, b \in Nat : b < a => <<b, a>> \in OpToRel(<, Nat)
  BY DEF OpToRel
<1>5. PICK a \in S : \A b \in S : ~ (<<b, a>> \in OpToRel(<, Nat))
  BY <1>3
<1>6. ASSUME NEW b \in S PROVE a <= b
  <2>1. a \in Nat /\ b \in Nat
    BY <1>2
  <2>2. ~ (b < a)
    BY <2>1, <1>4, <1>5, Zenon
  <2> QED  BY <2>1, <2>2
<1> QED  BY <1>6 DEF First

LEMMA PoolFacts == Pool \subseteq Nat /\ NoAddress \notin Pool
BY DEF NoAddress

-----------------------------------------------------------------------------
\* Types.

\* A client's record with new fields is a client's record.
LEMMA ClientUpdated ==
    ASSUME DHCPTypeOK, NEW c \in Clients, NEW r \in ClientRecords,
           client' = [client EXCEPT ![c] = r]
    PROVE  client' \in [Clients -> ClientRecords]
BY DEF DHCPTypeOK

LEMMA SendType ==
    ASSUME DHCPTypeOK, NEW c \in Clients, NEW q \in Queries,
           NEW ip \in Pool \cup {NoAddress}, Send(c, q, ip)
    PROVE  mail' \subseteq Mails
<1>1. [type |-> q, client |-> c, ip |-> ip, current |-> TRUE] \in Mails
  BY DEF Mails
<1>2. \A m \in mail : m \in Mails /\ [m EXCEPT !.current = FALSE] \in Mails
  BY DEF DHCPTypeOK, Mails
<1> QED  BY <1>1, <1>2 DEF Send

LEMMA AnswerType ==
    ASSUME DHCPTypeOK, NEW m \in mail, NEW a \in Answers,
           NEW ip \in Pool \cup {NoAddress}, Answer(m, a, ip)
    PROVE  mail' \subseteq Mails
<1>1. [m EXCEPT !.type = a, !.ip = ip] \in Mails
  BY DEF DHCPTypeOK, Mails
<1> QED  BY <1>1 DEF Answer, DHCPTypeOK

\* initClient() and its variant, from any state.
LEMMA InitClientType ==
    ASSUME DHCPTypeOK, NEW c \in Clients, initClient(c) \/ unboundAndInit(c)
    PROVE  client' \in [Clients -> ClientRecords] /\ mail' \subseteq Mails
<1>1. client[c] \in ClientRecords
  BY DEF DHCPTypeOK
<1>2. PICK a \in {NoAddress, client[c].address} :
         client' = [client EXCEPT ![c] = [client[c] EXCEPT
                       !.state = "SELECTING", !.timers = {"To"}, !.address = a]]
  <2>1. CASE initClient(c)
    <3>1. client' = [client EXCEPT ![c] = [client[c] EXCEPT
                        !.state = "SELECTING", !.timers = {"To"}]]
      BY <2>1 DEF initClient, DHCPTypeOK
    <3>2. [client[c] EXCEPT !.state = "SELECTING", !.timers = {"To"}]
            = [client[c] EXCEPT !.state = "SELECTING", !.timers = {"To"},
                                !.address = client[c].address]
      BY <1>1 DEF ClientRecords
    <3> QED  BY <3>1, <3>2
  <2>2. CASE unboundAndInit(c)
    BY <2>2 DEF unboundAndInit, DHCPTypeOK
  <2> QED  BY <2>1, <2>2
<1>3. [client[c] EXCEPT !.state = "SELECTING", !.timers = {"To"}, !.address = a]
         \in ClientRecords
  BY <1>1 DEF ClientRecords, Waiting, Timers
<1>4. mail' \subseteq Mails
  BY SendType DEF initClient, unboundAndInit, Queries
<1> QED  BY <1>2, <1>3, <1>4, ClientUpdated

LEMMA TimerTypes ==
    ASSUME DHCPTypeOK, NEW c \in Clients, ClientTimers(c)
    PROVE  client' \in [Clients -> ClientRecords] /\ mail' \subseteq Mails
<1>1. client[c] \in ClientRecords
  BY DEF DHCPTypeOK
<1>2. ASSUME NEW s \in Waiting, NEW T \in SUBSET Timers, NEW q \in Queries,
             client' = [client EXCEPT ![c].state = s, ![c].timers = T],
             Send(c, q, client[c].lease)
      PROVE  client' \in [Clients -> ClientRecords] /\ mail' \subseteq Mails
  <2>1. [client[c] EXCEPT !.state = s, !.timers = T] \in ClientRecords
    BY <1>1 DEF ClientRecords
  <2>2. client' = [client EXCEPT ![c] = [client[c] EXCEPT !.state = s, !.timers = T]]
    BY <1>2 DEF DHCPTypeOK
  <2>3. client[c].lease \in Pool \cup {NoAddress}
    BY <1>1 DEF ClientRecords
  <2> QED  BY <1>2, <2>1, <2>2, <2>3, ClientUpdated, SendType
<1>3. {"To"} \in SUBSET Timers /\ (client[c].timers \ {"T1"}) \cup {"To"} \in SUBSET Timers
  BY <1>1 DEF ClientRecords, Timers
<1>4. CASE initClient(c)
  BY <1>4, InitClientType
<1>5. CASE /\ client' = [client EXCEPT ![c].state = "REBOOTING", ![c].timers = {"To"}]
           /\ Send(c, "REBOOT", client[c].lease)
  BY <1>2, <1>3, <1>5 DEF Waiting, Queries
<1>6. CASE expireT1(c)
  <2>1. client' = [client EXCEPT ![c].state = "RENEWING",
                      ![c].timers = (client[c].timers \ {"T1"}) \cup {"To"}]
    BY <1>6 DEF expireT1, DHCPTypeOK
  <2> QED  BY <1>2, <1>3, <1>6, <2>1 DEF expireT1, Waiting, Queries
<1>7. CASE RebindingTime(c)
  BY <1>2, <1>3, <1>7 DEF RebindingTime, Waiting, Queries
<1> QED
  BY <1>4, <1>5, <1>6, <1>7
  DEF ClientTimers, StartClient, ResponseTimeout, RenewalTime

LEMMA ReceiveTypes ==
    ASSUME DHCPTypeOK, NEW c \in Clients, NEW m \in mail, ClientReceives(c, m)
    PROVE  client' \in [Clients -> ClientRecords] /\ mail' \subseteq Mails
<1>1. client[c] \in ClientRecords /\ m \in Mails
  BY DEF DHCPTypeOK
<1>2. CASE mail' = mail \ {m} /\ UNCHANGED client
  BY <1>2 DEF DHCPTypeOK
<1>3. CASE acceptOffer(c, m)
  <2> DEFINE r == [client[c] EXCEPT !.state = "REQUESTING", !.lease = m.ip,
                                    !.timers = {"To"}]
  <2>1. r \in ClientRecords /\ m.ip \in Pool \cup {NoAddress}
    BY <1>1 DEF ClientRecords, Mails, Waiting, Timers
  <2>2. client' = [client EXCEPT ![c] = r]
    BY <1>3 DEF acceptOffer, DHCPTypeOK
  <2>3. Send(c, "REQUEST", m.ip)
    BY <1>3 DEF acceptOffer
  <2> HIDE DEF r
  <2> QED  BY <2>1, <2>2, <2>3, ClientUpdated, SendType DEF Queries
<1>4. CASE handleDHCPACK(c, m)
  <2> DEFINE r == [client[c] EXCEPT !.state = "BOUND", !.address = client[c].lease,
                                    !.timers = {"T1", "T2", "lease"}]
  <2>1. r \in ClientRecords
    BY <1>1 DEF ClientRecords, Timers
  <2>2. client' = [client EXCEPT ![c] = r]
    BY <1>4 DEF handleDHCPACK, DHCPTypeOK
  <2> HIDE DEF r
  <2> QED  BY <1>4, <2>1, <2>2, ClientUpdated DEF handleDHCPACK, DHCPTypeOK
<1>5. CASE initClient(c) \/ unboundAndInit(c)
  BY <1>5, InitClientType
<1>6. \/ mail' = mail \ {m} /\ UNCHANGED client
      \/ acceptOffer(c, m) \/ handleDHCPACK(c, m)
      \/ initClient(c) \/ unboundAndInit(c)
  BY DEF ClientReceives, Answers
<1> QED  BY <1>2, <1>3, <1>4, <1>5, <1>6

LEMMA ServerTypes ==
    ASSUME DHCPTypeOK, NEW m \in mail, ServerReceives(m)
    PROVE  leased' \in [Pool -> Clients \cup {NoClient}] /\ mail' \subseteq Mails
<1>1. m \in Mails /\ m.client \in Clients /\ m.ip \in Pool \cup {NoAddress}
  BY DEF DHCPTypeOK, Mails
<1>2. /\ LeasesOf(m.client) \in SUBSET Pool /\ FreeAddresses \in SUBSET Pool
      /\ {"OFFER", "ACK", "NAK"} \subseteq Answers
  BY DEF LeasesOf, FreeAddresses, Answers
<1>3. CASE ProcessDiscover(m)
  <2>1. CASE LeasesOf(m.client) # {}
    <3>1. First(LeasesOf(m.client)) \in Pool
      BY <1>2, <2>1, FirstIsMember
    <3> QED  BY <1>2, <1>3, <2>1, <3>1, AnswerType DEF ProcessDiscover, DHCPTypeOK
  <2>2. CASE LeasesOf(m.client) = {} /\ FreeAddresses # {}
    <3>1. First(FreeAddresses) \in Pool
      BY <1>2, <2>2, FirstIsMember
    <3>2. /\ leased' = [leased EXCEPT ![First(FreeAddresses)] = m.client]
          /\ Answer(m, "OFFER", First(FreeAddresses))
      BY <1>3, <2>2 DEF ProcessDiscover
    <3>3. leased' \in [Pool -> Clients \cup {NoClient}]
      BY <1>1, <3>1, <3>2 DEF DHCPTypeOK
    <3> QED  BY <1>2, <3>1, <3>2, <3>3, AnswerType
  <2>3. CASE LeasesOf(m.client) = {} /\ FreeAddresses = {}
    BY <1>3, <2>3 DEF ProcessDiscover, DHCPTypeOK
  <2> QED  BY <2>1, <2>2, <2>3
<1>4. CASE ProcessRequest(m) \/ ProcessReboot(m) \/ ProcessExtend(m)
  <2>1. UNCHANGED leased
    BY <1>4 DEF ProcessRequest, ProcessReboot, ProcessExtend
  <2>2. \/ mail' = mail \ {m}
        \/ Answer(m, "ACK", m.ip) \/ Answer(m, "NAK", NoAddress)
    BY <1>4 DEF ProcessRequest, ProcessReboot, ProcessExtend
  <2> QED  BY <1>1, <1>2, <2>1, <2>2, AnswerType DEF DHCPTypeOK
<1> QED  BY <1>3, <1>4 DEF ServerReceives

LEMMA TypeInit == DHCPInit => DHCPTypeOK
<1> SUFFICES ASSUME DHCPInit PROVE DHCPTypeOK
  OBVIOUS
<1>1. client \in [Clients -> ClientRecords]
  BY DEF DHCPInit, ClientRecords, Timers
<1>2. leased \in [Pool -> Clients \cup {NoClient}] /\ mail \subseteq Mails
  BY DEF DHCPInit
<1>3. forgetful \in BOOLEAN
  BY DEF DHCPInit
<1>4. faults \in 0 .. MaxFaults
  <2>1. 0 \in 0 .. MaxFaults
    OBVIOUS
  <2> QED  BY <2>1 DEF DHCPInit
<1> QED  BY <1>1, <1>2, <1>3, <1>4 DEF DHCPTypeOK

LEMMA TypeStep == DHCPTypeOK /\ [DHCPNext]_dhcpVars => DHCPTypeOK'
<1> SUFFICES ASSUME DHCPTypeOK, [DHCPNext]_dhcpVars PROVE DHCPTypeOK'
  OBVIOUS
<1>f. Fault => faults' \in 0 .. MaxFaults
  BY DEF Fault, DHCPTypeOK
<1>1. ASSUME NEW c \in Clients, ClientTimers(c) PROVE DHCPTypeOK'
  <2>1. client' \in [Clients -> ClientRecords] /\ mail' \subseteq Mails
    BY <1>1, TimerTypes
  <2>2. UNCHANGED <<leased, forgetful>> /\ (Fault \/ UNCHANGED faults)
    BY <1>1 DEF ClientTimers, StartClient, ResponseTimeout, RenewalTime, RebindingTime
  <2> QED  BY <1>f, <2>1, <2>2 DEF DHCPTypeOK
<1>2. ASSUME NEW c \in Clients, NEW m \in mail, ClientReceives(c, m) PROVE DHCPTypeOK'
  <2>1. client' \in [Clients -> ClientRecords] /\ mail' \subseteq Mails
    BY <1>2, ReceiveTypes
  <2>2. UNCHANGED <<leased, forgetful, faults>>
    BY <1>2 DEF ClientReceives
  <2> QED  BY <2>1, <2>2 DEF DHCPTypeOK
<1>3. ASSUME NEW c \in Clients, CrashClient(c) \/ RestartClient(c) PROVE DHCPTypeOK'
  <2>1. client[c] \in ClientRecords
    BY DEF DHCPTypeOK
  <2>2. CASE CrashClient(c)
    <3> DEFINE r == [client[c] EXCEPT !.up = FALSE, !.timers = {}, !.address = NoAddress]
    <3>1. r \in ClientRecords
      BY <2>1 DEF ClientRecords
    <3>2. client' = [client EXCEPT ![c] = r]
      BY <2>2 DEF CrashClient, DHCPTypeOK
    <3> HIDE DEF r
    <3> QED  BY <1>f, <2>2, <3>1, <3>2, ClientUpdated DEF CrashClient, DHCPTypeOK
  <2>3. CASE RestartClient(c)
    <3> DEFINE r == [client[c] EXCEPT !.up = TRUE, !.timers = {"start"}]
    <3>1. r \in ClientRecords
      BY <2>1 DEF ClientRecords, Timers
    <3>2. client' = [client EXCEPT ![c] = r]
      BY <2>3 DEF RestartClient, DHCPTypeOK
    <3> HIDE DEF r
    <3> QED  BY <2>3, <3>1, <3>2, ClientUpdated DEF RestartClient, DHCPTypeOK
  <2> QED  BY <1>3, <2>2, <2>3
<1>4. ASSUME NEW c \in Clients, Associated(c) PROVE DHCPTypeOK'
  BY <1>f, <1>4, InitClientType DEF Associated, DHCPTypeOK
<1>5. ASSUME NEW m \in mail, ServerReceives(m) PROVE DHCPTypeOK'
  <2>1. leased' \in [Pool -> Clients \cup {NoClient}] /\ mail' \subseteq Mails
    BY <1>5, ServerTypes
  <2> QED  BY <1>5, <2>1 DEF ServerReceives, DHCPTypeOK
<1>6. ASSUME NEW m \in mail, LoseMail(m) PROVE DHCPTypeOK'
  BY <1>f, <1>6 DEF LoseMail, DHCPTypeOK
<1>7. CASE RestartServer
  BY <1>f, <1>7 DEF RestartServer, DHCPTypeOK
<1>8. CASE UNCHANGED dhcpVars
  BY <1>8 DEF dhcpVars, DHCPTypeOK
<1> QED  BY <1>1, <1>2, <1>3, <1>4, <1>5, <1>6, <1>7, <1>8 DEF DHCPNext

\* The client's record, the server's table and the messages keep their shape.
THEOREM DHCPTypeCorrect == DHCPSpec => []DHCPTypeOK
BY TypeInit, TypeStep, PTL DEF DHCPSpec

-----------------------------------------------------------------------------
\* Addresses on record.

LEMMA RecordInit == DHCPInit => RecordInv
BY TypeInit DEF DHCPInit, RecordInv, OnRecord

\* A step that keeps the table's entries, gives one client at most what it was
\* offered or has leased, and sends OFFERs of what is on record.
LEMMA RecordKept ==
    ASSUME DHCPTypeOK, DHCPTypeOK', OnRecord,
           \A a \in Pool : leased[a] # NoClient => leased'[a] = leased[a],
           NEW c \in Clients,
           \A d \in Clients \ {c} : client'[d] = client[d],
           client'[c].lease # NoAddress => leased[client'[c].lease] = c,
           client'[c].address \in {NoAddress, client[c].address, client[c].lease},
           \A m \in mail' : m.type = "OFFER" /\ m.ip # NoAddress =>
                               leased'[m.ip] = m.client
    PROVE  OnRecord'
<1>1. \A d \in Clients : /\ client'[d].lease \in Pool \cup {NoAddress}
                         /\ client'[d].address \in Pool \cup {NoAddress}
  BY DEF DHCPTypeOK, ClientRecords
<1>2. NoClient \notin Clients
  BY DEF NoClient
<1>3. ASSUME NEW d \in Clients, client'[d].lease # NoAddress
      PROVE  leased'[client'[d].lease] = d
  <2>1. leased[client'[d].lease] = d
    BY <1>3 DEF OnRecord
  <2> QED  BY <1>1, <1>2, <1>3, <2>1
<1>4. ASSUME NEW d \in Clients, client'[d].address # NoAddress
      PROVE  leased'[client'[d].address] = d
  <2>1. leased[client'[d].address] = d
    BY <1>4 DEF OnRecord
  <2> QED  BY <1>1, <1>2, <1>4, <2>1
<1> QED  BY <1>3, <1>4 DEF OnRecord

\* Of the messages Send() leaves on their way only old ones are OFFERs.
LEMMA SendOffersNothing ==
    ASSUME DHCPTypeOK, OnRecord, NEW c \in Clients, NEW q \in Queries, NEW ip,
           Send(c, q, ip)
    PROVE  \A m \in mail' : m.type = "OFFER" => m \in mail
<1>1. q # "OFFER"
  BY DEF Queries
<1>2. \A m \in mail : m.type = "DISCOVER" =>
         [m EXCEPT !.current = FALSE].type = "DISCOVER"
  BY DEF DHCPTypeOK, Mails
<1>3. ASSUME NEW m \in mail', m \notin mail PROVE m.type # "OFFER"
  <2>1. CASE m = [type |-> q, client |-> c, ip |-> ip, current |-> TRUE]
    BY <1>1, <2>1
  <2>2. CASE \E x \in mail : x.type = "DISCOVER" /\ m = [x EXCEPT !.current = FALSE]
    BY <1>2, <2>2
  <2> QED  BY <1>3, <2>1, <2>2 DEF Send
<1> QED  BY <1>3

LEMMA RecordStep == RecordInv /\ [DHCPNext]_dhcpVars => RecordInv'
<1> SUFFICES ASSUME DHCPTypeOK, DHCPTypeOK', OnRecord, ~forgetful',
                    [DHCPNext]_dhcpVars
             PROVE  OnRecord'
  <2>1. ASSUME RecordInv, [DHCPNext]_dhcpVars, ~forgetful' PROVE ~forgetful
    BY <2>1
    DEF DHCPNext, ClientTimers, StartClient, ResponseTimeout, RenewalTime,
        RebindingTime, ClientReceives, CrashClient, RestartClient, Associated,
        ServerReceives, LoseMail, RestartServer, dhcpVars
  <2> QED  BY <2>1, TypeStep DEF RecordInv
<1>0. \A c \in Clients : client[c] \in ClientRecords
  BY DEF DHCPTypeOK
<1>m. \A m \in mail : m.type = "OFFER" /\ m.ip # NoAddress => leased[m.ip] = m.client
  BY DEF OnRecord
\* Steps of a client that keep its lease.
<1>1. ASSUME NEW c \in Clients, UNCHANGED leased,
             \A d \in Clients \ {c} : client'[d] = client[d],
             client'[c].lease = client[c].lease,
             client'[c].address \in {NoAddress, client[c].address, client[c].lease},
             \A m \in mail' : m.type = "OFFER" => m \in mail
      PROVE  OnRecord'
  <2>1. client[c].lease # NoAddress => leased[client[c].lease] = c
    BY DEF OnRecord
  <2> QED  BY <1>1, <1>m, <2>1, RecordKept
<1>2. ASSUME NEW c \in Clients, UNCHANGED leased, initClient(c) \/ unboundAndInit(c)
      PROVE  OnRecord'
  <2>1. \A m \in mail' : m.type = "OFFER" => m \in mail
    BY <1>2, SendOffersNothing DEF initClient, unboundAndInit, Queries
  <2>2. /\ \A d \in Clients \ {c} : client'[d] = client[d]
        /\ client'[c].lease = client[c].lease
        /\ client'[c].address \in {NoAddress, client[c].address}
    BY <1>0, <1>2 DEF initClient, unboundAndInit, DHCPTypeOK, ClientRecords
  <2> QED  BY <1>1, <1>2, <2>1, <2>2
<1>3. ASSUME NEW c \in Clients, ClientTimers(c) PROVE OnRecord'
  <2>1. UNCHANGED leased
    BY <1>3 DEF ClientTimers, StartClient, ResponseTimeout, RenewalTime, RebindingTime
  <2>2. CASE initClient(c)
    BY <1>2, <2>1, <2>2
  <2>3. ASSUME NEW s, NEW T, NEW q \in Queries,
               client' = [client EXCEPT ![c].state = s, ![c].timers = T],
               Send(c, q, client[c].lease)
        PROVE  OnRecord'
    <3>1. \A m \in mail' : m.type = "OFFER" => m \in mail
      BY <2>3, SendOffersNothing
    <3>2. /\ \A d \in Clients \ {c} : client'[d] = client[d]
          /\ client'[c].lease = client[c].lease
          /\ client'[c].address = client[c].address
      BY <1>0, <2>3 DEF DHCPTypeOK, ClientRecords
    <3> QED  BY <1>1, <2>1, <3>1, <3>2
  <2>4. CASE expireT1(c)
    <3>1. client' = [client EXCEPT ![c].state = "RENEWING",
                        ![c].timers = (client[c].timers \ {"T1"}) \cup {"To"}]
      BY <2>4 DEF expireT1, DHCPTypeOK
    <3> QED  BY <2>3, <2>4, <3>1 DEF expireT1, Queries
  <2>5. \/ initClient(c) \/ expireT1(c)
        \/ \E s, T : \E q \in Queries :
              /\ client' = [client EXCEPT ![c].state = s, ![c].timers = T]
              /\ Send(c, q, client[c].lease)
    BY <1>3 DEF ClientTimers, StartClient, ResponseTimeout, RenewalTime, RebindingTime,
                Queries
  <2> QED  BY <2>2, <2>3, <2>4, <2>5
<1>4. ASSUME NEW c \in Clients, NEW m \in mail, ClientReceives(c, m) PROVE OnRecord'
  <2>1. UNCHANGED leased /\ m.client = c /\ m \in Mails
    BY <1>4 DEF ClientReceives, DHCPTypeOK
  <2>2. CASE mail' = mail \ {m} /\ UNCHANGED client
    BY <1>1, <2>1, <2>2
  <2>3. CASE acceptOffer(c, m) /\ m.type = "OFFER"
    <3>1. \A x \in mail' : x.type = "OFFER" => x \in mail
      BY <2>3, SendOffersNothing DEF acceptOffer, Queries
    <3>2. /\ \A d \in Clients \ {c} : client'[d] = client[d]
          /\ client'[c].lease = m.ip
          /\ client'[c].address = client[c].address
      BY <1>0, <2>3 DEF acceptOffer, DHCPTypeOK, ClientRecords
    <3>3. m.ip # NoAddress => leased[m.ip] = c
      BY <1>m, <2>1, <2>3
    <3>4. \A x \in mail' : x.type = "OFFER" /\ x.ip # NoAddress =>
                              leased'[x.ip] = x.client
      BY <1>m, <2>1, <3>1
    <3> QED  BY <2>1, <3>2, <3>3, <3>4, RecordKept
  <2>4. CASE handleDHCPACK(c, m)
    <3>1. /\ \A d \in Clients \ {c} : client'[d] = client[d]
          /\ client'[c].lease = client[c].lease
          /\ client'[c].address = client[c].lease
      BY <1>0, <2>4 DEF handleDHCPACK, DHCPTypeOK, ClientRecords
    <3> QED  BY <1>1, <2>1, <2>4, <3>1 DEF handleDHCPACK
  <2>5. CASE initClient(c) \/ unboundAndInit(c)
    BY <1>2, <2>1, <2>5
  <2>6. \/ mail' = mail \ {m} /\ UNCHANGED client
        \/ acceptOffer(c, m) /\ m.type = "OFFER"
        \/ handleDHCPACK(c, m) \/ initClient(c) \/ unboundAndInit(c)
    BY <1>4 DEF ClientReceives, Answers
  <2> QED  BY <2>2, <2>3, <2>4, <2>5, <2>6
<1>5. ASSUME NEW c \in Clients, CrashClient(c) \/ RestartClient(c) PROVE OnRecord'
  <2>1. UNCHANGED <<leased, mail>>
    BY <1>5 DEF CrashClient, RestartClient
  <2>2. /\ \A d \in Clients \ {c} : client'[d] = client[d]
        /\ client'[c].lease = client[c].lease
        /\ client'[c].address \in {NoAddress, client[c].address}
    BY <1>0, <1>5 DEF CrashClient, RestartClient, DHCPTypeOK, ClientRecords
  <2> QED  BY <1>1, <2>1, <2>2
<1>6. ASSUME NEW c \in Clients, Associated(c) PROVE OnRecord'
  BY <1>2, <1>6 DEF Associated
<1>7. ASSUME NEW m \in mail, ServerReceives(m) PROVE OnRecord'
  <2>1. UNCHANGED client /\ m \in Mails
    BY <1>7 DEF ServerReceives, DHCPTypeOK
  <2>2. ASSUME \A a \in Pool : leased[a] # NoClient => leased'[a] = leased[a],
               \A x \in mail' : x.type = "OFFER" /\ x.ip # NoAddress =>
                                   leased'[x.ip] = x.client
        PROVE  OnRecord'
    <3>1. CASE Clients = {}
      BY <2>2, <3>1 DEF OnRecord
    <3>2. ASSUME NEW c \in Clients PROVE OnRecord'
      <4>1. client[c].lease # NoAddress => leased[client[c].lease] = c
        BY DEF OnRecord
      <4> QED  BY <2>1, <2>2, <4>1, RecordKept
    <3> QED  BY <3>1, <3>2
  <2>3. ASSUME NEW a \in Answers, NEW ip, Answer(m, a, ip)
        PROVE  \A x \in mail' : \/ x \in mail
                                \/ x.type = a /\ x.ip = ip /\ x.client = m.client
    BY <2>1, <2>3 DEF Answer, Mails
  <2>4. {"OFFER", "ACK", "NAK"} \subseteq Answers
    BY DEF Answers
  <2>5. CASE ProcessDiscover(m)
    <3>1. CASE LeasesOf(m.client) # {}
      <4>1. First(LeasesOf(m.client)) \in LeasesOf(m.client)
        BY <3>1, FirstIsMember DEF LeasesOf
      <4>2. leased[First(LeasesOf(m.client))] = m.client
        BY <4>1 DEF LeasesOf
      <4>3. Answer(m, "OFFER", First(LeasesOf(m.client))) /\ UNCHANGED leased
        BY <2>5, <3>1 DEF ProcessDiscover
      <4>4. \A x \in mail' : \/ x \in mail
                             \/ /\ x.ip = First(LeasesOf(m.client))
                                /\ x.client = m.client
        BY <2>3, <2>4, <4>3
      <4> QED  BY <1>m, <2>2, <4>2, <4>3, <4>4
    <3>2. CASE LeasesOf(m.client) = {} /\ FreeAddresses # {}
      <4>1. First(FreeAddresses) \in FreeAddresses
        BY <3>2, FirstIsMember DEF FreeAddresses
      <4>2. /\ Answer(m, "OFFER", First(FreeAddresses))
            /\ leased' = [leased EXCEPT ![First(FreeAddresses)] = m.client]
        BY <2>5, <3>2 DEF ProcessDiscover
      <4>3. /\ First(FreeAddresses) \in Pool
            /\ leased[First(FreeAddresses)] = NoClient
        BY <4>1 DEF FreeAddresses
      <4>4. /\ \A a \in Pool : leased[a] # NoClient => leased'[a] = leased[a]
            /\ leased'[First(FreeAddresses)] = m.client
        BY <4>2, <4>3 DEF DHCPTypeOK
      <4>5. \A x \in mail : x \in Mails /\ x.client # NoClient
        BY DEF DHCPTypeOK, Mails, NoClient
      <4>6. \A x \in mail : x.type = "OFFER" /\ x.ip # NoAddress =>
                               leased'[x.ip] = x.client
        BY <1>m, <4>4, <4>5 DEF Mails
      <4>7. \A x \in mail' : \/ x \in mail
                             \/ x.ip = First(FreeAddresses) /\ x.client = m.client
        BY <2>3, <2>4, <4>2
      <4> QED  BY <2>2, <4>4, <4>6, <4>7
    <3>3. CASE LeasesOf(m.client) = {} /\ FreeAddresses = {}
      BY <1>m, <2>2, <2>5, <3>3 DEF ProcessDiscover
    <3> QED  BY <3>1, <3>2, <3>3
  <2>6. CASE ProcessRequest(m) \/ ProcessReboot(m) \/ ProcessExtend(m)
    <3>1. UNCHANGED leased
      BY <2>6 DEF ProcessRequest, ProcessReboot, ProcessExtend
    <3>2. \A x \in mail' : x \in mail \/ x.type # "OFFER"
      <4>1. \/ mail' = mail \ {m}
            \/ Answer(m, "ACK", m.ip) \/ Answer(m, "NAK", NoAddress)
        BY <2>6 DEF ProcessRequest, ProcessReboot, ProcessExtend
      <4> QED  BY <2>3, <2>4, <4>1
    <3> QED  BY <1>m, <2>2, <3>1, <3>2
  <2> QED  BY <1>7, <2>5, <2>6 DEF ServerReceives
<1>8. ASSUME NEW m \in mail, LoseMail(m) PROVE OnRecord'
  BY <1>8 DEF LoseMail, OnRecord
<1>9. CASE RestartServer
  BY <1>9 DEF RestartServer
<1>10. CASE UNCHANGED dhcpVars
  BY <1>10 DEF dhcpVars, OnRecord
<1> QED
  BY <1>3, <1>4, <1>5, <1>6, <1>7, <1>8, <1>9, <1>10 DEF DHCPNext

\* The address of an interface is in the server's table under the client that
\* uses it, through losses, retries, crashes of clients and remembered leases,
\* as long as the server has not been restarted.
THEOREM AddressOnRecordAlways == DHCPSpec => []AddressOnRecord
<1>1. RecordInv => AddressOnRecord
  BY DEF RecordInv, OnRecord, AddressOnRecord
<1> QED  BY RecordInit, RecordStep, <1>1, PTL DEF DHCPSpec

\* So no two clients use one address.
THEOREM AddressesDiffer ==
    ASSUME AddressOnRecord, ~forgetful,
           NEW c \in Clients, NEW d \in Clients, c # d,
           client[c].address # NoAddress
    PROVE  client[c].address # client[d].address
BY DEF AddressOnRecord

-----------------------------------------------------------------------------
\* The timers of a client suit its state.

\* What TimersFollowState says of one client.
Suits(r) ==
    r.up /\ "start" \notin r.timers =>
        /\ r.state \in Waiting <=> "To" \in r.timers
        /\ "T1" \in r.timers => r.state = "BOUND"
        /\ "T2" \in r.timers => "T1" \in r.timers \/ r.state = "RENEWING"
        /\ r.state = "BOUND" => {"T1", "T2"} \subseteq r.timers

LEMMA SuitsIsTimersFollowState ==
    TimersFollowState <=> \A c \in Clients : Suits(client[c])
BY DEF TimersFollowState, Suits

\* The record of one client is replaced by one that suits.
LEMMA TimersKept ==
    ASSUME DHCPTypeOK, TimersFollowState, NEW c \in Clients, NEW r, Suits(r),
           client' = [client EXCEPT ![c] = r]
    PROVE  TimersFollowState'
<1>1. ASSUME NEW d \in Clients PROVE Suits(client'[d])
  <2>1. client'[d] = IF d = c THEN r ELSE client[d]
    BY DEF DHCPTypeOK
  <2> QED  BY <2>1, SuitsIsTimersFollowState
<1>2. TimersFollowState' <=> \A d \in Clients : Suits(client'[d])
  BY DEF TimersFollowState, Suits
<1> QED  BY <1>1, <1>2

\* A waiting state with WAIT_OFFER or WAIT_ACK alone, whatever else changes.
LEMMA WaitsKept ==
    ASSUME DHCPTypeOK, TimersFollowState, NEW c \in Clients, NEW r \in ClientRecords,
           r.state \in Waiting, r.timers = {"To"},
           client' = [client EXCEPT ![c] = r]
    PROVE  TimersFollowState'
<1>1. Suits(r)
  BY DEF Suits, Waiting
<1> QED  BY <1>1, TimersKept

LEMMA InitClientSuits ==
    ASSUME DHCPTypeOK, TimersFollowState, NEW c \in Clients,
           initClient(c) \/ unboundAndInit(c)
    PROVE  TimersFollowState'
<1> DEFINE r == [client[c] EXCEPT !.state = "SELECTING", !.timers = {"To"}]
           s == [r EXCEPT !.address = NoAddress]
<1>1. client[c] \in ClientRecords
  BY DEF DHCPTypeOK
<1>2. /\ r \in ClientRecords /\ r.state \in Waiting /\ r.timers = {"To"}
      /\ s \in ClientRecords /\ s.state \in Waiting /\ s.timers = {"To"}
  BY <1>1 DEF ClientRecords, Waiting, Timers
<1>3. client' = [client EXCEPT ![c] = r] \/ client' = [client EXCEPT ![c] = s]
  BY DEF initClient, unboundAndInit, DHCPTypeOK
<1> HIDE DEF r, s
<1> QED  BY <1>2, <1>3, WaitsKept

\* START_DHCP, T1 and T2.
LEMMA TimersSuit ==
    ASSUME DHCPTypeOK, TimersFollowState, NEW c \in Clients, ClientTimers(c)
    PROVE  TimersFollowState'
<1>1. client[c] \in ClientRecords
  BY DEF DHCPTypeOK
<1>2. ASSUME NEW s \in Waiting,
             client' = [client EXCEPT ![c].state = s, ![c].timers = {"To"}]
      PROVE  TimersFollowState'
  <2> DEFINE r == [client[c] EXCEPT !.state = s, !.timers = {"To"}]
  <2>1. r \in ClientRecords /\ r.state \in Waiting /\ r.timers = {"To"}
    BY <1>1 DEF ClientRecords, Timers
  <2>2. client' = [client EXCEPT ![c] = r]
    BY <1>2 DEF DHCPTypeOK
  <2> HIDE DEF r
  <2> QED  BY <2>1, <2>2, WaitsKept
<1>3. CASE initClient(c)
  BY <1>3, InitClientSuits
<1>4. CASE expireT1(c) /\ "T1" \in client[c].timers
  <2> DEFINE r == [client[c] EXCEPT !.state = "RENEWING",
                      !.timers = (client[c].timers \ {"T1"}) \cup {"To"}]
  <2>1. client' = [client EXCEPT ![c] = r]
    BY <1>4 DEF expireT1, DHCPTypeOK
  <2>2. /\ r.state = "RENEWING" /\ r.up = client[c].up
        /\ r.timers = (client[c].timers \ {"T1"}) \cup {"To"}
    BY <1>1 DEF ClientRecords
  <2>3. Suits(client[c])
    BY SuitsIsTimersFollowState
  <2> HIDE DEF r
  <2>4. Suits(r)
    BY <2>2, <2>3 DEF Suits, Waiting
  <2> QED  BY <2>1, <2>4, TimersKept
<1>5. \/ initClient(c)
      \/ expireT1(c) /\ "T1" \in client[c].timers
      \/ \E s \in Waiting :
            client' = [client EXCEPT ![c].state = s, ![c].timers = {"To"}]
  BY DEF ClientTimers, StartClient, ResponseTimeout, RenewalTime, RebindingTime, Waiting
<1> QED  BY <1>2, <1>3, <1>4, <1>5

LEMMA RepliesSuit ==
    ASSUME DHCPTypeOK, TimersFollowState, NEW c \in Clients, NEW m \in mail,
           ClientReceives(c, m)
    PROVE  TimersFollowState'
<1>1. client[c] \in ClientRecords /\ m \in Mails
  BY DEF DHCPTypeOK
<1>2. CASE UNCHANGED client
  BY <1>2 DEF TimersFollowState
<1>3. CASE acceptOffer(c, m)
  <2> DEFINE r == [client[c] EXCEPT !.state = "REQUESTING", !.lease = m.ip,
                                    !.timers = {"To"}]
  <2>1. r \in ClientRecords /\ r.state \in Waiting /\ r.timers = {"To"}
    BY <1>1 DEF ClientRecords, Mails, Waiting, Timers
  <2>2. client' = [client EXCEPT ![c] = r]
    BY <1>3 DEF acceptOffer, DHCPTypeOK
  <2> HIDE DEF r
  <2> QED  BY <2>1, <2>2, WaitsKept
<1>4. CASE handleDHCPACK(c, m)
  <2> DEFINE r == [client[c] EXCEPT !.state = "BOUND", !.address = client[c].lease,
                                    !.timers = {"T1", "T2", "lease"}]
  <2>1. client' = [client EXCEPT ![c] = r]
    BY <1>4 DEF handleDHCPACK, DHCPTypeOK
  <2>2. r.state = "BOUND" /\ r.timers = {"T1", "T2", "lease"}
    BY <1>1 DEF ClientRecords
  <2> HIDE DEF r
  <2>3. Suits(r)
    BY <2>2 DEF Suits, Waiting
  <2> QED  BY <2>1, <2>3, TimersKept
<1>5. CASE initClient(c) \/ unboundAndInit(c)
  BY <1>5, InitClientSuits
<1> QED  BY <1>2, <1>3, <1>4, <1>5 DEF ClientReceives, Answers

LEMMA TimersStep == DHCPTypeOK /\ TimersFollowState /\ [DHCPNext]_dhcpVars => TimersFollowState'
<1> SUFFICES ASSUME DHCPTypeOK, TimersFollowState, [DHCPNext]_dhcpVars
             PROVE  TimersFollowState'
  OBVIOUS
<1>1. ASSUME NEW c \in Clients, CrashClient(c) \/ RestartClient(c)
      PROVE  TimersFollowState'
  <2> DEFINE down == [client[c] EXCEPT !.up = FALSE, !.timers = {}, !.address = NoAddress]
             started == [client[c] EXCEPT !.up = TRUE, !.timers = {"start"}]
  <2>1. client[c] \in ClientRecords
    BY DEF DHCPTypeOK
  <2>2. ~down.up /\ "start" \in started.timers
    BY <2>1 DEF ClientRecords
  <2>3. client' = [client EXCEPT ![c] = down] \/ client' = [client EXCEPT ![c] = started]
    BY <1>1 DEF CrashClient, RestartClient, DHCPTypeOK
  <2> HIDE DEF down, started
  <2>4. Suits(down) /\ Suits(started)
    BY <2>2 DEF Suits
  <2> QED  BY <2>3, <2>4, TimersKept
<1>2. ASSUME NEW c \in Clients, Associated(c) PROVE TimersFollowState'
  BY <1>2, InitClientSuits DEF Associated
<1>3. CASE UNCHANGED client
  BY <1>3 DEF TimersFollowState
<1>4. \/ \E c \in Clients : \/ ClientTimers(c) \/ Associated(c)
                            \/ \E m \in mail : ClientReceives(c, m)
                            \/ CrashClient(c) \/ RestartClient(c)
      \/ UNCHANGED client
  BY DEF DHCPNext, ServerReceives, LoseMail, RestartServer, dhcpVars
<1> QED  BY <1>1, <1>2, <1>3, <1>4, TimersSuit, RepliesSuit

\* No client waits without a timer, no answer times out in BOUND, and T2 finds the
\* client in RENEWING (or with T1 still to come): DHCPClient::handleTimer() never
\* throws.  An invariant together with the type.
THEOREM TimersAlwaysFollowState == DHCPSpec => []TimersFollowState
<1>1. DHCPInit => TimersFollowState
  BY DEF DHCPInit, TimersFollowState
<1> QED  BY <1>1, TimersStep, DHCPTypeCorrect, PTL DEF DHCPSpec

=============================================================================
