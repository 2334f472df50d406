-------------------------------- MODULE MCTCP --------------------------------
(***************************************************************************)
(* Two parts of TCP that TLC checks together: how two endpoints open and   *)
(* end a connection (TCPPeers), and the connection tables of one host      *)
(* (TCPDemux).                                                             *)
(* They share nothing here: a behaviour runs one of them, the other rests  *)
(* in its initial state.                                                   *)
(***************************************************************************)
EXTENDS TCPPeers, TCPDemux

VARIABLE part    \* the part that runs

TCPInit == /\ part \in {"TCPPeers", "TCPDemux"}
           /\ Init /\ DemuxInit

TCPNext ==
    /\ UNCHANGED part
    /\ \/ part = "TCPPeers" /\ Next /\ UNCHANGED demuxVars
       \/ part = "TCPDemux" /\ DemuxNext /\ UNCHANGED vars

TCPSpec == TCPInit /\ [][TCPNext]_<<part, vars, demuxVars>>

=============================================================================
