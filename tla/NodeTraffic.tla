----------------------------- MODULE NodeTraffic -----------------------------
(***************************************************************************)
(* Traffic of a node's clients on the master (collectNodeTraffic in        *)
(* service/nodeSync.go): the node's counters only grow, until something    *)
(* clears them; the master keeps the last reading of each per node and     *)
(* adds differences to its own clients.  Readings fail, the transaction    *)
(* fails, clients come and go on either side, and the node's row is edited *)
(* (service/node.go) between the reading of it and the write.              *)
(***************************************************************************)
EXTENDS Integers, FiniteSets

CONSTANTS
  Account,     \* client names
  MaxMoved,    \* bound on the bytes a client moves
  MaxNodeChanges \* bound on edits of the node, and on clearings and deletions on the node

ASSUME TrafficConstants == {MaxMoved, MaxNodeChanges} \subseteq Nat

VARIABLES
  counter,   \* the node's clients and their counters
  onMaster,  \* names the master has
  baselines, \* the column of the node's row
  pulling,   \* the collection under way: the row and the counters it has read
  changes,   \* edits, clearings and deletions so far
  moved,     \* ghost: bytes of each name on this node
  folded,    \* ghost: bytes the master has added
  wiped      \* ghost: an edit of the node dropped the readings

nodeTrafficVars == <<counter, onMaster, baselines, pulling, changes, moved, folded, wiped>>

NoPull == [step |-> "idle"]
TrafficInit ==
  /\ counter = [a \in Account |-> 0] /\ onMaster = Account
  /\ baselines = <<>> /\ pulling = NoPull /\ changes = 0
  /\ moved = [a \in Account |-> 0] /\ folded = [a \in Account |-> 0] /\ wiped = FALSE

Baseline(row, a) == IF a \in DOMAIN row THEN row[a] ELSE 0

-----------------------------------------------------------------------------
(* The node. *)

NodeMoves(a) ==
  /\ a \in DOMAIN counter /\ moved[a] < MaxMoved
  /\ counter' = [counter EXCEPT ![a] = @ + 1] /\ moved' = [moved EXCEPT ![a] = @ + 1]
  /\ UNCHANGED <<onMaster, baselines, pulling, changes, folded, wiped>>
NodeClears(a) ==
  /\ a \in DOMAIN counter /\ counter[a] > 0 /\ changes < MaxNodeChanges /\ changes' = changes + 1
  /\ counter' = [counter EXCEPT ![a] = 0]
  /\ UNCHANGED <<onMaster, baselines, pulling, moved, folded, wiped>>
\* A reconcile removes the client from the node, or adds it with counters at zero.
NodeLoses(a) ==
  /\ a \in DOMAIN counter /\ changes < MaxNodeChanges /\ changes' = changes + 1
  /\ counter' = [b \in DOMAIN counter \ {a} |-> counter[b]]
  /\ UNCHANGED <<onMaster, baselines, pulling, moved, folded, wiped>>
NodeGains(a) ==
  /\ a \notin DOMAIN counter
  /\ counter' = [b \in DOMAIN counter \cup {a} |-> IF b = a THEN 0 ELSE counter[b]]
  /\ UNCHANGED <<onMaster, baselines, pulling, changes, moved, folded, wiped>>

-----------------------------------------------------------------------------
(* The master. *)

MasterHas(a) ==
  /\ changes < MaxNodeChanges /\ changes' = changes + 1
  /\ onMaster' = IF a \in onMaster THEN onMaster \ {a} ELSE onMaster \cup {a}
  /\ UNCHANGED <<counter, baselines, pulling, moved, folded, wiped>>

\* CollectTraffic reads the nodes' rows, then asks the node.
PullStarts ==
  /\ pulling.step = "idle" /\ pulling' = [step |-> "row", base |-> baselines]
  /\ UNCHANGED <<counter, onMaster, baselines, changes, moved, folded, wiped>>
PullReads ==
  /\ pulling.step = "row"
  /\ \/ pulling' = [step |-> "read", base |-> pulling.base, current |-> counter]
     \/ pulling' = NoPull                          \* the node does not answer
  /\ UNCHANGED <<counter, onMaster, baselines, changes, moved, folded, wiped>>

\* Mutant: a counter that went down is taken for a small difference.
DeltaAbs(cur, base) == IF cur < base THEN base - cur ELSE cur - base
Delta(cur, base) == IF cur - base < 0 THEN cur ELSE cur - base
\* The transaction: the differences and the new readings, or neither.
PullFolds ==
  /\ pulling.step = "read" /\ pulling' = NoPull
  /\ \/ /\ folded' = [a \in Account |-> IF a \in onMaster \cap DOMAIN pulling.current
                                        THEN folded[a] + Delta(pulling.current[a], Baseline(pulling.base, a)) ELSE folded[a]]
        /\ baselines' = pulling.current
     \/ UNCHANGED <<folded, baselines>>
  /\ UNCHANGED <<counter, onMaster, changes, moved, wiped>>

\* NodeService.Save "edit" saves the whole row from a form that has no such field.
EditNode ==
  /\ changes < MaxNodeChanges /\ changes' = changes + 1
  /\ baselines' = <<>> /\ wiped' = (wiped \/ \E a \in DOMAIN baselines : baselines[a] > 0)
  /\ UNCHANGED <<counter, onMaster, pulling, moved, folded>>

TrafficNext ==
  \/ \E a \in Account : NodeMoves(a) \/ NodeClears(a) \/ NodeLoses(a) \/ NodeGains(a) \/ MasterHas(a)
  \/ PullStarts \/ PullReads \/ PullFolds \/ EditNode

TrafficSpec == TrafficInit /\ [][TrafficNext]_nodeTrafficVars

-----------------------------------------------------------------------------
(* Properties. *)

\* The master never charges a client more than it moved on the node, through failed readings and
\* transactions, counters that go down and clients that come and go, until an edit of the node.
CountedOnceUntilEdit == wiped \/ \A a \in Account : folded[a] <= moved[a]

\* "Single writer (traffic job)" of the readings, which turn cumulative counters into differences:
\* the master never charges a client more than it moved on the node.
CountedOnce == \A a \in Account : folded[a] <= moved[a]
=============================================================================
