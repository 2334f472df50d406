-------------------------------- MODULE STP --------------------------------
(***************************************************************************)
(* The spanning tree protocol of the Ethernet switches                     *)
(* (linklayer/ieee8021d/stp/STP.cc): election of the root bridge, port     *)
(* roles and states, ageing of what was heard, topology change messages,   *)
(* and switches that crash and start again.                                *)
(*                                                                         *)
(* A bridge is its address; priorities, link costs and the configured      *)
(* times are the same everywhere, so an address stands for a bridge ID.    *)
(* Every bridge ticks once a second, at the phase at which it was started; *)
(* frames are faster than the distance of two phases.                      *)
(***************************************************************************)
EXTENDS Integers, FiniteSets, SequencesExt

CONSTANTS Bridges,       \* bridge IDs; the smaller wins
          NumPorts,
          Cable,         \* Cable[b][p]: the <<bridge, port>> at the other end
          MaxAge, ForwardDelay,    \* in ticks
          Phases,        \* instants of a second that are told apart
          Stoppers,      \* bridges that may stop
          MaxHops,       \* bound: cables crossed, one after the other, before a tick
          MaxCrashes     \* bound

Ports == 0 .. NumPorts - 1
LinkCost == 1
NoPort == NumPorts       \* port number (unsigned) -1: worse than any other

ASSUME STPAssumption ==
    /\ Bridges \subseteq Nat /\ NumPorts \in Nat \ {0}
    /\ Cable \in [Bridges -> [Ports -> Bridges \X Ports]]
    /\ \A b \in Bridges, p \in Ports :
          Cable[Cable[b][p][1]][Cable[b][p][2]] = <<b, p>> /\ Cable[b][p] # <<b, p>>
    /\ MaxAge \in Nat \ {0} /\ ForwardDelay \in Nat \ {0}
    /\ Phases \in Nat \ {0, 1} /\ Stoppers \subseteq Bridges
    /\ MaxHops \in Nat /\ MaxCrashes \in Nat

VARIABLES
    bridge,   \* state of each switch and of its ports, frames it has sent
    cable,    \* frames that arrive at each port
    hops,     \* how often frames have crossed a cable since the last tick
    now,      \* phase of the current second
    phase,    \* when in a second each bridge ticks
    crashes   \* number of crashes (bound)

stpVars == <<bridge, cable, hops, now, phase, crashes>>

-----------------------------------------------------------------------------
(* Port information: root, cost of the path to it, bridge and port the     *)
(* information comes from.                                                 *)

\* comparePorts(a, b) > 0
Better(a, b) == \E i \in 1 .. 4 : a[i] < b[i] /\ \A j \in 1 .. i - 1 : a[j] = b[j]

InitPort(x, p) ==
    [x EXCEPT !.port[p] = [@ EXCEPT !.role = "NOTASSIGNED", !.state = "DISCARDING",
                                    !.info = <<x.id, 0, x.id, NoPort>>, !.age = 0]]

SetAllDesignated(x) ==
    [x EXCEPT !.port = [p \in Ports |-> [@[p] EXCEPT !.role = "DESIGNATED"]]]

DesPorts(x) == {p \in Ports : x.port[p].role = "DESIGNATED"}

ClaimRoot(x) ==
    SetAllDesignated([x EXCEPT !.isRoot = TRUE, !.rootAddress = x.id,
                               !.rootPathCost = 0, !.currentHelloTime = x.helloTime])

NewBridge(b) ==
    SetAllDesignated(
        [id |-> b, up |-> TRUE, isRoot |-> TRUE, rootAddress |-> b, rootPathCost |-> 0,
         rootPort |-> 0, helloTime |-> 0, currentHelloTime |-> 2,
         tcn |-> FALSE, fastAging |-> FALSE, out |-> [p \in Ports |-> <<>>],
         port |-> [p \in Ports |-> [role |-> "NOTASSIGNED", state |-> "DISCARDING",
                                    info |-> <<b, 0, b, NoPort>>,
                                    age |-> 0, fdWhile |-> 0]]])

STPInit == /\ bridge = [b \in Bridges |-> NewBridge(b)]
           /\ cable = [b \in Bridges |-> [p \in Ports |-> <<>>]]
           /\ hops = 0 /\ now = 0 /\ phase = [b \in Bridges |-> 0] /\ crashes = 0

-----------------------------------------------------------------------------
(* The handlers, from the state of one bridge to its next state.           *)

SendOn(x, ports, m(_)) ==
    [x EXCEPT !.out = [p \in Ports |-> IF p \in ports THEN Append(@[p], m(p)) ELSE @[p]]]

GenerateBPDU(x, ports, tc, tca) ==
    SendOn(x, ports,
           LAMBDA p : [type |-> "CONFIG",
                       info |-> <<x.rootAddress, x.rootPathCost, x.id, p>>,
                       tc |-> x.tcn /\ (x.isRoot \/ tc),
                       tca |-> x.tcn /\ ~x.isRoot /\ ~tc /\ tca])

SendTCN(x) == SendOn(x, {x.rootPort}, LAMBDA p : [type |-> "TCN"])

SelectRootPort(x) ==
    LET info(p) == x.port[p].info
        best == CHOOSE p \in Ports : \A q \in Ports :
                    ~Better(info(q), info(p)) /\ (info(q) = info(p) => p <= q)
    IN [x EXCEPT !.port = [p \in Ports |->
                              [@[p] EXCEPT !.role = IF p = best THEN "ROOT" ELSE "NOTASSIGNED"]],
                 !.tcn = @ \/ best # x.rootPort,
                 !.rootPort = best,
                 !.rootAddress = info(best)[1],
                 !.rootPathCost = info(best)[2]]

SelectBelow(x, mine(_)) ==
    LET role(p) == CASE x.port[p].role = "ROOT" -> "ROOT"
                     [] Better(mine(p), x.port[p].info) -> "DESIGNATED"
                     [] Better(x.port[p].info, mine(p)) -> "ALTERNATE"
                     [] OTHER -> x.port[p].role
    IN [x EXCEPT !.port = [p \in Ports |-> [@[p] EXCEPT !.role = role(p)]]]

BadSelectDesignatedPorts(x) ==
    SelectBelow(x, LAMBDA p : <<x.rootAddress, x.rootPathCost, x.id, p>>)

SelectDesignatedPorts(x) ==
    SelectBelow(x, LAMBDA p : <<x.rootAddress, x.rootPathCost + LinkCost, x.id, p>>)

\* Only a root reads currentHelloTime: it is 0 elsewhere.
TryRoot(x) ==
    IF \A p \in Ports : x.port[p].info[1] >= x.id
    THEN ClaimRoot(x)
    ELSE SelectDesignatedPorts(
            SelectRootPort([x EXCEPT !.isRoot = FALSE, !.currentHelloTime = 0]))

\* isSuperiorBPDU() and setSuperiorBPDU(): messageAge is always 0.
Offered(m) == [m.info EXCEPT ![2] = @ + LinkCost]
IsSuperior(x, p, m) == ~Better(x.port[p].info, Offered(m))
BadSetSuperior(x, p, m) ==
    [x EXCEPT !.port[p] = [@ EXCEPT !.info = Offered(m)]]

SetSuperior(x, p, m) ==
    LET news == Offered(m) # x.port[p].info
    IN [x EXCEPT !.port[p] = [@ EXCEPT !.info = Offered(m), !.age = 0,
                                       !.state = IF news THEN "DISCARDING" ELSE @,
                                       !.fdWhile = IF news THEN 0 ELSE @]]

HandleBPDU(x, p, m) ==
    LET role == x.port[p].role
        acked == IF m.tca THEN [x EXCEPT !.tcn = FALSE] ELSE x
        heard == IF IsSuperior(x, p, m) THEN SetSuperior(acked, p, m) ELSE acked
    IN TryRoot(
         CASE ~IsSuperior(x, p, m) /\ role = "DESIGNATED" ->
                GenerateBPDU(heard, {p}, FALSE, FALSE)
           [] IsSuperior(x, p, m) /\ role = "ROOT" ->
                GenerateBPDU([heard EXCEPT !.fastAging = m.tc], DesPorts(heard), m.tc, FALSE)
           [] OTHER -> heard)

BadHandleTCN(x, p) == GenerateBPDU([x EXCEPT !.tcn = FALSE], {p}, FALSE, TRUE)

HandleTCN(x, p) ==
    LET acked == GenerateBPDU([x EXCEPT !.tcn = TRUE], {p}, FALSE, TRUE)
    IN IF x.isRoot THEN acked ELSE SendTCN(acked)

-----------------------------------------------------------------------------
(* handleTick()                                                            *)

CountTick(x) ==
    [x EXCEPT !.helloTime = IF x.isRoot THEN @ + 1 ELSE 0,
              !.port = [p \in Ports |->
                  [@[p] EXCEPT
                     !.age = IF x.port[p].role # "DESIGNATED" THEN @ + 1 ELSE @,
                     !.fdWhile = IF x.port[p].role \in {"ROOT", "DESIGNATED"}
                                 THEN @ + 1 ELSE @]]]

CheckHello(x) ==
    IF x.helloTime < x.currentHelloTime THEN x
    ELSE [IF x.isRoot THEN GenerateBPDU(x, Ports, FALSE, FALSE) ELSE x
            EXCEPT !.helloTime = 0]

CheckAge(x, p) ==
    LET lost == [InitPort(x, p) EXCEPT !.tcn = TRUE]
    IN CASE x.port[p].age < MaxAge -> x
         [] x.port[p].age >= MaxAge /\ x.port[p].role = "ROOT" -> TryRoot(lost)
         [] OTHER -> SelectDesignatedPorts(lost)

NextState(st) == CASE st = "DISCARDING" -> "LEARNING"
                   [] OTHER -> "FORWARDING"

CheckForward(q) ==
    CASE q.role \notin {"ROOT", "DESIGNATED"} ->
           [q EXCEPT !.fdWhile = 0, !.state = "DISCARDING"]
      [] q.role \in {"ROOT", "DESIGNATED"} /\ q.fdWhile >= ForwardDelay ->
           [q EXCEPT !.fdWhile = 0, !.state = NextState(@)]
      [] OTHER -> q

CheckTimers(x) ==
    LET aged == FoldLeft(CheckAge, CheckHello(x), [i \in 1 .. NumPorts |-> i - 1])
    IN [aged EXCEPT !.port = [p \in Ports |-> CheckForward(@[p])]]

GenerateTCN(x) ==
    IF x.tcn /\ x.port[x.rootPort].role = "ROOT"
    THEN SendTCN([x EXCEPT !.tcn = FALSE]) ELSE x

HandleTick(x) ==
    LET timed == CheckTimers(CountTick(x))
    IN GenerateTCN(IF timed.isRoot
                   THEN [timed EXCEPT !.currentHelloTime = timed.helloTime] ELSE timed)

-----------------------------------------------------------------------------

Up == {b \in Bridges : bridge[b].up}
Sent == [b \in Bridges |-> bridge[b].out]
Quiet(frames) == \A b \in Bridges, p \in Ports : frames[b][p] = <<>>

\* Time goes on to the next phase when every frame has arrived: the bridges
\* with that phase tick, at the same instant.
Tick ==
    /\ Quiet(cable) /\ (Quiet(Sent) \/ hops = MaxHops)
    /\ hops' = 0
    /\ now' = (now + 1) % Phases
    /\ bridge' = [b \in Bridges |-> IF b \in Up /\ phase[b] = now'
                                    THEN HandleTick(bridge[b]) ELSE bridge[b]]
    /\ UNCHANGED <<cable, phase, crashes>>

\* All cables are equally fast: the frames sent at one instant arrive at one
\* instant, each bridge takes those of its ports in any order, and what the
\* bridges do in that instant does not depend on each other.
Propagate ==
    /\ Quiet(cable) /\ ~Quiet(Sent) /\ hops < MaxHops
    /\ hops' = hops + 1
    /\ cable' = [b \in Bridges |-> [p \in Ports |-> Sent[Cable[b][p][1]][Cable[b][p][2]]]]
    /\ bridge' = [b \in Bridges |-> [bridge[b] EXCEPT !.out = [p \in Ports |-> <<>>]]]
    /\ UNCHANGED <<now, phase, crashes>>

FrameArrives(b, p) ==
    LET m == Head(cable[b][p])
    IN /\ cable[b][p] # <<>>
       /\ \A o \in Bridges, q \in Ports : cable[o][q] # <<>> => b <= o
       /\ cable' = [cable EXCEPT ![b][p] = Tail(@)]
       /\ bridge' = [bridge EXCEPT ![b] = CASE ~@.up -> @
                                            [] @.up /\ m.type = "TCN" -> HandleTCN(@, p)
                                            [] OTHER -> HandleBPDU(@, p, m)]
       /\ UNCHANGED <<hops, now, phase, crashes>>

Stop(b) ==
    /\ b \in Stoppers /\ bridge[b].up /\ crashes < MaxCrashes
    /\ crashes' = crashes + 1
    /\ bridge' = [bridge EXCEPT ![b].up = FALSE, ![b].isRoot = FALSE, ![b].tcn = TRUE]
    /\ UNCHANGED <<cable, hops, now, phase>>

Start(b) ==
    LET fresh == FoldLeft(InitPort, bridge[b], [i \in 1 .. NumPorts |-> i - 1])
    IN /\ ~bridge[b].up
       /\ bridge' = [bridge EXCEPT ![b] =
                        [ClaimRoot(fresh) EXCEPT !.up = TRUE, !.tcn = TRUE, !.rootPort = 0,
                                                 !.helloTime = 0]]
       /\ phase' = [phase EXCEPT ![b] = now]
       /\ UNCHANGED <<cable, hops, now, crashes>>

Run == \/ Tick \/ Propagate
       \/ \E b \in Bridges, p \in Ports : FrameArrives(b, p)

STPNext == Run \/ \E b \in Bridges : Stop(b) \/ Start(b)

\* Time goes on.  Run is always enabled: this is its weak fairness.
STPFairness == []<><<Run>>_stpVars

STPSpec == STPInit /\ [][STPNext]_stpVars /\ STPFairness

-----------------------------------------------------------------------------

\* Cables over which data frames pass: both ends forward (Ieee8021dRelay).
Forwards(b, p) == bridge[b].up /\ bridge[b].port[p].state = "FORWARDING"
OpenCables ==
    {{l, Cable[l[1]][l[2]]} : l \in {k \in Bridges \X Ports :
        Forwards(k[1], k[2]) /\ Forwards(Cable[k[1]][k[2]][1], Cable[k[1]][k[2]][2])}}

\* No frame can circle: the cables over which data pass never contain a
\* cycle (STPTester::isLoopFreeGraph), also while switches stop and start and
\* roles change (the forward delay, and the states that selectDesignatedPorts
\* and isSuperiorBPDU leave behind).
LoopFree ==
    \A loop \in SUBSET OpenCables \ {{}} :
        \E b \in Bridges : Cardinality({c \in loop : \E l \in c : l[1] = b}) = 1

\* STPTester::isConnectedGraph().
Connected ==
    \A S \in SUBSET Up \ {{}, Up} :
        \E c \in OpenCables : \E l, k \in c : l[1] \in S /\ k[1] \in Up \ S

OneRoot ==
    \A b \in Up : /\ \A o \in Up : bridge[b].rootAddress <= o
                  /\ bridge[b].rootAddress \in Up
                  /\ bridge[b].isRoot <=> bridge[b].rootAddress = b

\* When no switch stops or starts any more, the running ones agree on the best
\* of them as root, and their open cables form a tree that connects them
\* (STPTester::isTreeGraph): what is heard from a dead switch ages out
\* (checkTimers), what a living one says keeps being renewed (handleBPDU).
Settled == OneRoot /\ LoopFree /\ Connected
TreeForms == <>[]Settled

\* A switch that has a topology change to report is heard by the root, over
\* all the switches between them (generateTCN, handleTCN), unless it stops.
Reporting(b) == bridge[b].up /\ bridge[b].tcn
Reported(b) == ~bridge[b].up \/ \E r \in Up : bridge[r].isRoot /\ bridge[r].tcn
ChangesReported == \A b \in Bridges : Reporting(b) ~> Reported(b)

=============================================================================
