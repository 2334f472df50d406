----------------------------- MODULE MCNetwork -----------------------------
(***************************************************************************)
(* The protocols of the network layer, and SCTP, that TLC checks together.  *)
(* They share nothing here: a behaviour runs one of them, the others rest  *)
(* in their initial state.                                                 *)
(***************************************************************************)
EXTENDS ARP, IPv4Fragments, DHCP, SCTPAssociation

VARIABLE part    \* the protocol that runs

networkVars == <<part, arpVars, fragVars, dhcpVars, sctpVars>>

Parts == {"ARP", "IPv4Fragments", "DHCP", "SCTP"}

NetworkInit ==
    /\ part \in Parts
    /\ ARPInit /\ FragInit /\ DHCPInit
    /\ SCTPInit /\ (part # "SCTP" => listening = {})

NetworkNext ==
    /\ UNCHANGED part
    /\ \/ /\ part = "ARP" /\ ARPNext
          /\ UNCHANGED <<fragVars, dhcpVars, sctpVars>>
       \/ /\ part = "IPv4Fragments" /\ FragNext
          /\ UNCHANGED <<arpVars, dhcpVars, sctpVars>>
       \/ /\ part = "DHCP" /\ DHCPNext
          /\ UNCHANGED <<arpVars, fragVars, sctpVars>>
       \/ /\ part = "SCTP" /\ SCTPNext
          /\ UNCHANGED <<arpVars, fragVars, dhcpVars>>

\* ARPFairness, DHCPFairness and SCTPFairness, of the protocol that runs.
NetworkFairness ==
    /\ \A t \in Talks : WF_arpVars(part = "ARP" /\ RequestTimedOut(t[1], t[2]))
    /\ \A c \in Clients :
          /\ WF_dhcpVars(part = "DHCP" /\ ClientTimers(c))
          /\ WF_dhcpVars(part = "DHCP" /\ RestartClient(c))
          /\ WF_dhcpVars(part = "DHCP" /\ \E m \in mail : ClientReceives(c, m))
          /\ WF_dhcpVars(part = "DHCP" /\ \E m \in mail : m.client = c /\ ServerReceives(m))
    /\ \A h \in Hosts : WF_sctpVars(part = "SCTP" /\ TimersFire(h))

NetworkSpec == NetworkInit /\ [][NetworkNext]_networkVars /\ NetworkFairness

-----------------------------------------------------------------------------

\* Station r is a router and answers for x behind it; a talks to x and to b.
MCProxyFor == [h \in Stations |-> IF h = "r" THEN Remote ELSE {}]
MCTalks == {<<"a", "x">>, <<"a", "b">>}

\* The tables of all four protocols keep their types: the retries of ARP and of
\* the SCTP timers stay within their limits, DHCP leases only addresses of its
\* pool, and the automata stay in their states.
NetworkTypesOK == ARPTypeOK /\ DHCPTypeOK /\ SCTPTypeOK

\* BoundAgainAndAgain, where DHCP runs.
ClientsGetLeases == part = "DHCP" => BoundAgainAndAgain

\* SetUpAndShutdownEnd, where SCTP runs.
SCTPEnds == \A h \in Hosts : []<>(part = "SCTP" => Settled(h))

\* a opens at most twice, b, which may listen instead, at most once.
MCOpens == [h \in Hosts |-> IF h = "a" THEN 2 ELSE 1]

=============================================================================
