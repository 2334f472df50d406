-------------------------------- MODULE DHCP --------------------------------
(***************************************************************************)
(* Address assignment: DHCP clients (applications/dhcp/DHCPClient.cc) and  *)
(* one server (DHCPServer.cc).  Messages are lost, delayed and reordered;  *)
(* clients crash and start again with the lease they remember, the server  *)
(* starts again with an empty table.                                       *)
(*                                                                         *)
(* A client is its MAC address.  A client draws a new transaction id for   *)
(* every message and drops replies with another one, so a message only     *)
(* needs to say whether it carries the last id drawn (current).  Time is   *)
(* abstract, except that T1 < T2 < lease time from the ACK on.             *)
(***************************************************************************)
EXTENDS Naturals

CONSTANTS Clients,
          Pool,        \* addresses of the server: ipAddressStart + i
          MaxFaults    \* bound: losses, late answers, crashes, associations

ASSUME DHCPAssumption == /\ Pool \subseteq Nat \ {0} /\ "none" \notin Clients
                         /\ MaxFaults \in Nat

VARIABLES
    client,    \* state, lease, interface address, scheduled timers
    leased,    \* the server's table: MAC address per address
    mail,      \* messages on their way
    forgetful, \* the server has been restarted (history)
    faults     \* number of faults (bound)

dhcpVars == <<client, leased, mail, forgetful, faults>>

NoAddress == 0         \* unspecified address
NoClient  == "none"    \* address not in the table

\* States while a request or a DISCOVER is to be answered.
Waiting == {"SELECTING", "REQUESTING", "RENEWING", "REBINDING", "REBOOTING"}

\* Timers: startTimer, timerTo, timerT1, timerT2, leaseTimer.
Timers == {"start", "To", "T1", "T2", "lease"}

ClientRecords == [state : {"IDLE", "BOUND"} \cup Waiting, up : BOOLEAN,
                  lease : Pool \cup {NoAddress},
                  address : Pool \cup {NoAddress}, timers : SUBSET Timers]

\* DISCOVER; REQUEST with a server identifier; REBOOT and EXTEND stand for the
\* REQUESTs without one, by requested address or by client address.
Queries == {"DISCOVER", "REQUEST", "REBOOT", "EXTEND"}
Answers == {"OFFER", "ACK", "NAK"}

Mails == [type : Queries \cup Answers, client : Clients,
          ip : Pool \cup {NoAddress}, current : BOOLEAN]

DHCPTypeOK ==
    /\ client \in [Clients -> ClientRecords]
    /\ leased \in [Pool -> Clients \cup {NoClient}]
    /\ mail \subseteq Mails
    /\ forgetful \in BOOLEAN
    /\ faults \in 0 .. MaxFaults

DHCPInit ==
    /\ client = [c \in Clients |-> [state |-> "IDLE", up |-> TRUE,
                                    lease |-> NoAddress, address |-> NoAddress,
                                    timers |-> {"start"}]]
    /\ leased = [a \in Pool |-> NoClient]
    /\ mail = {}
    /\ forgetful = FALSE
    /\ faults = 0

-----------------------------------------------------------------------------

\* xid = intuniform(...): what is on its way for the client gets out of date.
\* Only a DISCOVER still has an effect then, on the server's table; the other
\* messages are taken off.  The new message asks for the address ip.
Send(c, query, ip) ==
    mail' = {m \in mail : m.client # c}
            \cup {[m EXCEPT !.current = FALSE] :
                     m \in {x \in mail : x.client = c /\ x.type = "DISCOVER"}}
            \cup {[type |-> query, client |-> c, ip |-> ip, current |-> TRUE]}

BadInitClient(c) ==
    /\ client' = [client EXCEPT ![c].state = "SELECTING", ![c].timers = {}]
    /\ Send(c, "DISCOVER", NoAddress)

\* initClient(): every timer is cancelled, a DISCOVER sent, WAIT_OFFER scheduled.
\* The lease and the address of the interface stay.
initClient(c) ==
    /\ client' = [client EXCEPT ![c].state = "SELECTING", ![c].timers = {"To"}]
    /\ Send(c, "DISCOVER", NoAddress)

\* unboundLease() and initClient(): the address is removed first.
unboundAndInit(c) ==
    /\ client' = [client EXCEPT ![c].state = "SELECTING", ![c].timers = {"To"},
                                ![c].address = NoAddress]
    /\ Send(c, "DISCOVER", NoAddress)

\* START_DHCP: with a lease of the last time the client asks for its address
\* (initRebootedClient()), without one it begins from the start.
StartClient(c) ==
    /\ "start" \in client[c].timers
    /\ IF client[c].lease # NoAddress
       THEN /\ client' = [client EXCEPT ![c].state = "REBOOTING",
                                        ![c].timers = {"To"}]
            /\ Send(c, "REBOOT", client[c].lease)
       ELSE initClient(c)
    /\ UNCHANGED <<leased, forgetful, faults>>

Fault == faults < MaxFaults /\ faults' = faults + 1

Answerable(c) == \E m \in mail : m.client = c /\ m.current

\* WAIT_OFFER and WAIT_ACK: the query or its answer was lost, or nobody answered,
\* or the answer is late.
ResponseTimeout(c) ==
    /\ "To" \in client[c].timers
    /\ IF Answerable(c) THEN Fault ELSE UNCHANGED faults
    /\ initClient(c)
    /\ UNCHANGED <<leased, forgetful>>

BadExpireT1(c) ==
    /\ client' = [client EXCEPT ![c].state = "RENEWING", ![c].timers = @ \ {"T1"}]
    /\ Send(c, "EXTEND", client[c].lease)

\* T1: RENEWING, the lease's server is asked.
expireT1(c) ==
    /\ client' = [client EXCEPT ![c].state = "RENEWING",
                                ![c].timers = (@ \ {"T1"}) \cup {"To"}]
    /\ Send(c, "EXTEND", client[c].lease)

RenewalTime(c) ==
    /\ "T1" \in client[c].timers
    /\ expireT1(c)
    /\ UNCHANGED <<leased, forgetful, faults>>

\* T2: REBINDING, any server is asked; the lease timer is cancelled like the
\* others, so the timer of the lease never expires (T2 comes before it).
RebindingTime(c) ==
    /\ "T2" \in client[c].timers /\ "T1" \notin client[c].timers
    /\ client' = [client EXCEPT ![c].state = "REBINDING", ![c].timers = {"To"}]
    /\ Send(c, "EXTEND", client[c].lease)
    /\ UNCHANGED <<leased, forgetful, faults>>

\* handleDHCPACK(): bindLease() gives the interface the address of the lease
\* (recordLease() does not change it), the timers start anew.
handleDHCPACK(c, m) ==
    /\ client' = [client EXCEPT ![c].state = "BOUND",
                                ![c].address = client[c].lease,
                                ![c].timers = {"T1", "T2", "lease"}]
    /\ mail' = mail \ {m}

\* recordOffer() and the REQUEST for it: WAIT_ACK replaces WAIT_OFFER.
acceptOffer(c, m) ==
    /\ client' = [client EXCEPT ![c].state = "REQUESTING", ![c].lease = m.ip,
                                ![c].timers = {"To"}]
    /\ Send(c, "REQUEST", m.ip)

\* Other replies are dropped: those of another transaction, those that find the
\* socket closed, those the state does not expect.
Expected(c, m) ==
    /\ m.current /\ client[c].up /\ "start" \notin client[c].timers
    /\ CASE m.type = "OFFER" -> client[c].state = "SELECTING"
         [] m.type \in {"ACK", "NAK"} -> client[c].state \in Waiting \ {"SELECTING"}

\* handleDHCPMessage().
ClientReceives(c, m) ==
    /\ m \in mail /\ m.client = c /\ m.type \in Answers
    /\ IF ~Expected(c, m)
       THEN mail' = mail \ {m} /\ UNCHANGED client
       ELSE CASE m.type = "OFFER" -> acceptOffer(c, m)
              [] m.type = "ACK"   -> handleDHCPACK(c, m)
              [] m.type = "NAK"   -> IF client[c].state \in {"RENEWING", "REBINDING"}
                                     THEN unboundAndInit(c) ELSE initClient(c)
    /\ UNCHANGED <<leased, forgetful, faults>>

-----------------------------------------------------------------------------

\* getLeaseByMac(): the first entry with the client's MAC address.
LeasesOf(c) == {a \in Pool : leased[a] = c}

First(S) == CHOOSE a \in S : \A b \in S : a <= b

BadFreeAddresses == Pool

\* getAvailableLease(): addresses of the pool no client has.  The server never
\* takes an address back: nothing sets DHCPLease::leased to false.
FreeAddresses == {a \in Pool : leased[a] = NoClient}

Answer(m, answer, ip) ==
    mail' = (mail \ {m}) \cup {[m EXCEPT !.type = answer, !.ip = ip]}

\* The entry of the client, or a new one, is offered.
ProcessDiscover(m) ==
    /\ m.type = "DISCOVER"
    /\ IF LeasesOf(m.client) # {}
       THEN Answer(m, "OFFER", First(LeasesOf(m.client))) /\ UNCHANGED leased
       ELSE IF FreeAddresses # {}
       THEN /\ leased' = [leased EXCEPT ![First(FreeAddresses)] = m.client]
            /\ Answer(m, "OFFER", First(FreeAddresses))
       ELSE mail' = mail \ {m} /\ UNCHANGED leased

\* In response to an offer: the client's own entry must have the address.
ProcessRequest(m) ==
    /\ m.type = "REQUEST"
    /\ IF LeasesOf(m.client) # {} /\ First(LeasesOf(m.client)) = m.ip
       THEN Answer(m, "ACK", m.ip)
       ELSE Answer(m, "NAK", NoAddress)
    /\ UNCHANGED leased

\* INIT-REBOOT: whoever has the address, it is confirmed; if nobody has, the
\* server remains silent.
ProcessReboot(m) ==
    /\ m.type = "REBOOT"
    /\ IF leased[m.ip] # NoClient THEN Answer(m, "ACK", m.ip) ELSE mail' = mail \ {m}
    /\ UNCHANGED leased

\* Renewing and rebinding: likewise, but the server declines.
ProcessExtend(m) ==
    /\ m.type = "EXTEND"
    /\ IF leased[m.ip] # NoClient THEN Answer(m, "ACK", m.ip)
                                  ELSE Answer(m, "NAK", NoAddress)
    /\ UNCHANGED leased

\* processDHCPMessage().
ServerReceives(m) ==
    /\ m \in mail
    /\ \/ ProcessDiscover(m) \/ ProcessRequest(m)
       \/ ProcessReboot(m)   \/ ProcessExtend(m)
    /\ UNCHANGED <<client, forgetful, faults>>

-----------------------------------------------------------------------------

\* NodeCrashOperation, NodeShutdownOperation: the client's timers are cancelled,
\* InterfaceTable removes the address, the lease is remembered.
CrashClient(c) ==
    /\ client[c].up /\ Fault
    /\ client' = [client EXCEPT ![c].up = FALSE, ![c].timers = {},
                                ![c].address = NoAddress]
    /\ UNCHANGED <<leased, mail, forgetful>>

RestartClient(c) ==
    /\ ~client[c].up
    /\ client' = [client EXCEPT ![c].up = TRUE, ![c].timers = {"start"}]
    /\ UNCHANGED <<leased, mail, forgetful, faults>>

\* NF_L2_ASSOCIATED: the interface joins a network (again).
Associated(c) ==
    /\ client[c].up /\ "start" \notin client[c].timers /\ Fault
    /\ initClient(c)
    /\ UNCHANGED <<leased, forgetful>>

\* The server's stopApp() clears its table.
RestartServer ==
    /\ Fault
    /\ leased' = [a \in Pool |-> NoClient]
    /\ forgetful' = TRUE
    /\ UNCHANGED <<client, mail>>

LoseMail(m) ==
    /\ m \in mail /\ Fault
    /\ mail' = mail \ {m}
    /\ UNCHANGED <<client, leased, forgetful>>

ClientTimers(c) == \/ StartClient(c) \/ ResponseTimeout(c)
                   \/ RenewalTime(c) \/ RebindingTime(c)

DHCPNext ==
    \/ \E c \in Clients : \/ ClientTimers(c)
                          \/ \E m \in mail : ClientReceives(c, m)
                          \/ CrashClient(c) \/ RestartClient(c) \/ Associated(c)
    \/ \E m \in mail : ServerReceives(m) \/ LoseMail(m)
    \/ RestartServer

\* Scheduled timers and messages that are not lost reach their module; nodes
\* that crashed are started again.
DHCPFairness ==
    \A c \in Clients :
        /\ WF_dhcpVars(ClientTimers(c))
        /\ WF_dhcpVars(RestartClient(c))
        /\ WF_dhcpVars(\E m \in mail : ClientReceives(c, m))
        /\ WF_dhcpVars(\E m \in mail : m.client = c /\ ServerReceives(m))

DHCPSpec == DHCPInit /\ [][DHCPNext]_dhcpVars /\ DHCPFairness

-----------------------------------------------------------------------------

\* The address of an interface is in the server's table, under the MAC address of
\* the client that uses it, through losses, retries, crashes of clients and leases
\* they remember, as long as the server has not been restarted.  So no two
\* clients use one address.
AddressOnRecord ==
    ~forgetful => \A c \in Clients :
        client[c].address # NoAddress => leased[client[c].address] = c

\* No client waits without a timer, and the timers that run suit the state: T2
\* does not find the client in another state than RENEWING (the client throws)
\* and no answer times out in BOUND.
TimersFollowState ==
    \A c \in Clients : LET s == client[c].state  t == client[c].timers IN
        client[c].up /\ "start" \notin t =>
            /\ s \in Waiting <=> "To" \in t
            /\ "T1" \in t => s = "BOUND"
            /\ "T2" \in t => "T1" \in t \/ s = "RENEWING"
            /\ s = "BOUND" => {"T1", "T2"} \subseteq t

\* A client has a lease again and again, whatever is lost and whoever crashes.
BoundAgainAndAgain == \A c \in Clients : []<>(client[c].state = "BOUND" /\ client[c].up)

=============================================================================
