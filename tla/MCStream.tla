------------------------------ MODULE MCStream ------------------------------
(***************************************************************************)
(* TCPPeers where every byte an application writes has room at the other   *)
(* end, so that no segment is truncated.  Without this the code does not   *)
(* keep StreamSpec: truncateSegment() leaves the FIN on a segment that     *)
(* loses its last bytes (NoDataLostAtEOF in MCTCPPeers).                   *)
(***************************************************************************)
EXTENDS TCPPeers

\* Bytes that wait for a gap to be filled take window as well.
ASSUME NothingTruncated == MaxRcvBuffer >= 2 * MaxData

=============================================================================
