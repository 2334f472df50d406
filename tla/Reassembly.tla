----------------------------- MODULE Reassembly -----------------------------
(***************************************************************************)
(* What a reassembly buffer promises, abstractly: for each datagram, known *)
(* by its key, it has a set of bytes and perhaps the length, and hands the *)
(* datagram over exactly when the set is all the bytes up to that length.  *)
(* It may forget what is incomplete.                                       *)
(***************************************************************************)
EXTENDS Naturals

CONSTANTS Keys,       \* of the datagrams
          MaxLength   \* bound: of a datagram

VARIABLES have,      \* the bytes of each incomplete datagram
          length,    \* its length, 0 as long as it is not known
          complete   \* pairs <<key, length>> of datagrams handed over

reassemblyVars == <<have, length, complete>>

ReassemblyInit == /\ have = [k \in Keys |-> {}]
                  /\ length = [k \in Keys |-> 0]
                  /\ complete = {}

\* A datagram's bytes are forgotten, or left alone.
ForgottenOrKept(k) == \/ have'[k] = {} /\ length'[k] = 0
                      \/ have'[k] = have[k] /\ length'[k] = length[k]

\* The bytes b to e-1 arrive, the last ones of the datagram or not, and are added
\* to the bytes old of a datagram of length n.
Arrival(k, old, n, b, e, islast) ==
    LET h   == old \cup b .. e-1
        len == IF islast THEN e ELSE n
    IN  IF len # 0 /\ h = 0 .. len-1
        THEN /\ have'[k] = {} /\ length'[k] = 0
             /\ complete' = complete \cup {<<k, len>>}
        ELSE /\ have'[k] = h /\ length'[k] = len
             /\ complete' = complete

FragmentArrival(k, b, e, islast) ==
    /\ \A j \in Keys \ {k} : ForgottenOrKept(j)
    /\ \/ Arrival(k, have[k], length[k], b, e, islast)
       \/ Arrival(k, {}, 0, b, e, islast)
    /\ have' \in [Keys -> SUBSET (0 .. MaxLength-1)]
    /\ length' \in [Keys -> 0 .. MaxLength]

\* A datagram arrives in one piece and needs no buffer.
WholeArrival(k, n) == /\ complete' = complete \cup {<<k, n>>}
                      /\ UNCHANGED <<have, length>>

\* (What arrives twice changes nothing.)
ReassemblyNext ==
    /\ reassemblyVars' # reassemblyVars
    /\ \E k \in Keys, e \in 1 .. MaxLength :
          \/ WholeArrival(k, e)
          \/ \E b \in 0 .. e-1, islast \in BOOLEAN : FragmentArrival(k, b, e, islast)

ReassemblySpec == ReassemblyInit /\ [][ReassemblyNext]_reassemblyVars

=============================================================================
