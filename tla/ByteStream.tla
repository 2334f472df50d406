----------------------------- MODULE ByteStream -----------------------------
(***************************************************************************)
(* What two TCP endpoints promise their applications: each direction is a  *)
(* stream of bytes.  What is read is a prefix of what was written, and the *)
(* end of the stream is reported after the writer has closed, when all it  *)
(* wrote has been read.                                                    *)
(***************************************************************************)
EXTENDS Naturals

CONSTANTS Ends,         \* the two ends of the connection
          Other(_)      \* the other end

VARIABLES written,      \* written[e]: bytes e has written
          ended,        \* ended[e]: e will write no more
          read,         \* read[e]: bytes e has read from the other end
          eof           \* eof[e]: e was told that the stream to it has ended

vars == <<written, ended, read, eof>>

Init == /\ written = [e \in Ends |-> 0]
        /\ ended   = [e \in Ends |-> FALSE]
        /\ read    = [e \in Ends |-> 0]
        /\ eof     = [e \in Ends |-> FALSE]

Write(e) ==
    /\ ~ended[e]
    /\ written'[e] \in Nat /\ written'[e] > written[e]
    /\ written' = [written EXCEPT ![e] = written'[e]]
    /\ UNCHANGED <<ended, read, eof>>

Finish(e) ==
    /\ ended' = [ended EXCEPT ![e] = TRUE]
    /\ UNCHANGED <<written, read, eof>>

\* Bytes arrive, the end of the stream, or both.
Receive(e) ==
    /\ ~eof[e]
    /\ read'[e] \in read[e] .. written[Other(e)]
    /\ read' = [read EXCEPT ![e] = read'[e]]
    /\ \/ UNCHANGED eof
       \/ /\ ended[Other(e)]
          /\ read'[e] = written[Other(e)]
          /\ eof' = [eof EXCEPT ![e] = TRUE]
    /\ UNCHANGED <<written, ended>>

Next == \E e \in Ends : Write(e) \/ Finish(e) \/ Receive(e)

Spec == Init /\ [][Next]_vars

=============================================================================
