--------------------------- MODULE MCComponents ---------------------------
(***************************************************************************)
(* Components of one node or of one link that TLC checks together.  They   *)
(* share nothing here: a behaviour runs one of them, the others rest in    *)
(* their initial state.                                                    *)
(***************************************************************************)
EXTENDS TCPSeq, TCPSack, OSPFAdjacency, STP

VARIABLE part    \* the component that runs

componentVars == <<part, vars, sackVars, ospfVars, stpVars>>

Parts == {"TCPSeq", "TCPSack", "OSPFAdjacency", "STP"}

ComponentsInit == /\ part \in Parts
                  /\ Init /\ (part # "TCPSeq" => una = 0)
                  /\ SackInit /\ OSPFInit /\ STPInit

ComponentsNext ==
    /\ UNCHANGED part
    /\ \/ /\ part = "TCPSeq" /\ Next
          /\ UNCHANGED <<sackVars, ospfVars, stpVars>>
       \/ /\ part = "TCPSack" /\ SackNext
          /\ UNCHANGED <<vars, ospfVars, stpVars>>
       \/ /\ part = "OSPFAdjacency" /\ OSPFNext
          /\ UNCHANGED <<vars, sackVars, stpVars>>
       \/ /\ part = "STP" /\ STPNext
          /\ UNCHANGED <<vars, sackVars, ospfVars>>

\* OSPFFairness and STPFairness, where OSPF and where STP runs.
ComponentsFairness ==
    /\ []<>(part # "STP") \/ []<><<Run>>_stpVars
    /\ \A r \in Routers :
          /\ WF_ospfVars(part = "OSPFAdjacency" /\ PacketArrives(r))
          /\ WF_ospfVars(part = "OSPFAdjacency" /\ HelloTimer(r))
          /\ WF_ospfVars(part = "OSPFAdjacency" /\ DDTimer(r))
          /\ WF_ospfVars(part = "OSPFAdjacency" /\ RequestTimer(r))
          /\ WF_ospfVars(part = "OSPFAdjacency" /\ UpdateTimer(r))
          /\ WF_ospfVars(part = "OSPFAdjacency" /\ SendDelayedAcks(r))

ComponentsSpec ==
    ComponentsInit /\ [][ComponentsNext]_componentVars /\ ComponentsFairness

-----------------------------------------------------------------------------

\* AdjacencyForms, where OSPF runs.
OSPFAdjacencyForms == part = "OSPFAdjacency" => AdjacencyForms

\* Four bridges in a ring: two of them are two cables away from the root.
MCCable == << 0 :> <<2, 0>> @@ 1 :> <<4, 1>>, 0 :> <<1, 0>> @@ 1 :> <<3, 0>>,
              0 :> <<2, 1>> @@ 1 :> <<4, 0>>, 0 :> <<3, 1>> @@ 1 :> <<1, 1>> >>

\* TreeForms and ChangesReported, where STP runs.
SpanningTreeForms == <>[](part = "STP" => Settled)
RootHearsOfChanges ==
    part = "STP" /\ Reporting(3) ~> Reported(3)

=============================================================================
