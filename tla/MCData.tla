------------------------------- MODULE MCData -------------------------------
(* What the panel's rows become: the links and detours that follow inbounds    *)
(* and clients (ObjectGraph), the objects of the running core (ObjectManagers),*)
(* the times at which traffic is reset (ClientSchedule), the history of traffic*)
(* (StatsHistory) and the traffic of the nodes (NodeTraffic).  They share no   *)
(* state, so a behaviour runs one of them, chosen at the start, and the others *)
(* rest.                                                                       *)
EXTENDS ObjectGraph, ObjectManagers, ClientSchedule, StatsHistory, NodeTraffic

VARIABLE part

MCInbTag == {<<"a">>, <<"b">>, <<"n", "a">>}
MCMonthLen == <<2, 1, 2>>

Obj(k, t, d, p) == [kind |-> k, tag |-> t, deps |-> d, port |-> p]
\* Chains, a loop, one that names itself, an outbound over an endpoint and back,
\* two ports.
MCObjSpec ==
  {Obj("out", "a", d, 0) : d \in {{}, {"e"}}} \cup {Obj("out", "b", d, 0) : d \in {{}, {"a"}, {"e"}}}
    \cup {Obj("out", "e", {}, 0)} \cup {Obj("end", "e", d, 1) : d \in {{}, {"b"}}}
    \cup {Obj("out", "b", {"b"}, 0), Obj("end", "f", {"a"}, 1)} \cup {Obj("in", "i", {}, p) : p \in {1, 2}}

\* Only p moves.
Alone(p) ==
  /\ part = p /\ UNCHANGED part
  /\ p # "graph" => UNCHANGED graphVars
  /\ p # "managers" => UNCHANGED mgrVars
  /\ p # "schedule" => UNCHANGED schVars
  /\ p # "history" => UNCHANGED vars
  /\ p # "traffic" => UNCHANGED nodeTrafficVars

DataInit ==
  /\ part \in {"graph", "managers", "schedule", "history", "traffic"}
  /\ ManagersInit
  /\ part # "managers" => mFinal = "" /\ \A k \in ObjKind : mRows[k] = <<>>
  /\ Init /\ (part # "history" => age)
  /\ GraphInit /\ ScheduleInit /\ TrafficInit

DataNext ==
  \/ Alone("graph") /\ GraphNext
  \/ Alone("managers") /\ ManagersNext
  \/ Alone("schedule") /\ ScheduleNextStep
  \/ Alone("history") /\ Next
  \/ Alone("traffic") /\ TrafficNext

DataSpec ==
  DataInit /\ [][DataNext]_<<part, graphVars, mgrVars, schVars, vars, nodeTrafficVars>>
=============================================================================
