----------------------------- MODULE MCTCPPeers -----------------------------
(***************************************************************************)
(* The model of TCPPeers that TLC checks, with the statements of the       *)
(* documentation, the comments and the tests that the code does not keep.  *)
(***************************************************************************)
EXTENDS TCPPeers

\* tests/module/tcp_syn_2.test.off: two applications that connect to each
\* other at the same time end in one connection (SYN_SENT, SYN_RCVD,
\* ESTABLISHED); in particular the SYN+ACK of the peer does not reset it.
SimultaneousOpenSucceeds ==
    [][\A p \in Endpoints :
          tcb[p].st = "SYN_RCVD" /\ tcb[p].active
              => "CONNECTION_RESET" \notin Heard(p)']_vars

\* TCPConnectionRcvSegment.cc, processing of FIN: a FIN above sequence is
\* remembered until "all segments arrived up to the FIN segment", so the
\* application that hears PEER_CLOSED has all the peer wrote.
NoDataLostAtEOF ==
    \A p \in Endpoints :
        "PEER_CLOSED" \in Heard(p) => tcb[p].delivered = Written(Peer(p))

\* TCPConnectionRcvSegment.cc, processing of FIN: "If the FIN bit is set,
\* signal the user 'connection closing'": a connection that has passed over
\* the peer's FIN is in a state that knows of it.
FinIsSignalled ==
    \A p \in Endpoints :
        Synchronized(p) /\ tcb[p].rcv_nxt > tcb[Peer(p)].qEnd =>
            tcb[p].st \in {"CLOSE_WAIT", "LAST_ACK", "CLOSING"}

\* TCPConnectionRcvSegment.cc: in TIME_WAIT "the only thing left to do is wait
\* until the 2MSL timer expires".
TimeWaitEnds ==
    \A p \in Endpoints : tcb[p].st = "TIME_WAIT" ~> tcb[p].st # "TIME_WAIT"

=============================================================================
