----------------------------- MODULE MCNodeSync -----------------------------
(* A master and its nodes: the push of clients (NodeSync) and the limit of     *)
(* addresses across the panels (ClusterIpLimit).  They share no state, so a    *)
(* behaviour runs one of them, chosen at the start, and the other rests.       *)
EXTENDS NodeSync, ClusterIpLimit

VARIABLE part

NodesInit ==
  /\ part \in {"sync", "cluster"}
  /\ Init /\ (part = "cluster" => draft = CHOOSE c \in Client : TRUE)
  /\ ClusterInit

NodesNext ==
  \/ part = "sync" /\ Next /\ UNCHANGED <<part, cluVars>>
  \/ part = "cluster" /\ ClusterNext /\ UNCHANGED <<part, vars>>

\* The fairness of each part, which asks nothing while the other one runs.
NodesFairness ==
  /\ WF_vars(part = "sync" /\ \E r \in Runner : Claim(r))
  /\ \A r \in Runner :
       /\ SF_vars(part = "sync" /\ Push(r))
       /\ WF_vars(part = "sync" /\
                    (ReadExpected(r) \/ ReadActual(r) \/ Abort(r) \/ CheckGen(r) \/ Clear(r)))
  /\ WF_vars(part = "sync" /\ (Bump \/ MarkAllDirty \/ CommitAdopt))
  /\ WF_vars(part = "sync" /\ Arrive)
  /\ WF_cluVars(part = "cluster" /\ ClusterTick)

NodesSpec == NodesInit /\ [][NodesNext]_<<part, vars, cluVars>> /\ NodesFairness
=============================================================================
