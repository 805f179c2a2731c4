------------------------------ MODULE NodeSync ------------------------------
(***************************************************************************)
(* The master pushes its clients to a node.                                *)
(*                                                                         *)
(* service/nodeSync.go: an edit marks the node dirty; a reconcile claims   *)
(* the node, reads what the master expects and what the node has, pushes   *)
(* the difference client by client and clears the mark if the generation   *)
(* it claimed is still current.  The heartbeat reconciles a dirty node,    *)
(* the hourly job any node, the button one node at once.                   *)
(*                                                                         *)
(* A client's state is the number of the edit that made it; some edits     *)
(* take the client off the node.  A node has its own database and its own  *)
(* users, and answers or does not.                                         *)
(***************************************************************************)
EXTENDS Naturals

CONSTANTS
  Client,
  Runner,    \* goroutines that reconcile: heartbeat, fanout, hourly job, button
  MaxEdits,  \* bound on the edits, and on the generation an adoption begins at
  Fault      \* "late": a push that timed out may still reach the node;
             \* "drift": an @cluster client may be deleted on the node itself

ASSUME SyncConstants == MaxEdits \in Nat

VARIABLES
  master,    \* the edit that made each client what the master expects
  gone,      \* edits after which the client is not expected on the node
  edits,     \* how many edits there were
  node,      \* the edit that made each client what the node has
  online,    \* the node answers
  flight,    \* pushes that timed out and may still arrive
  dirty,     \* nodes.dirty, as committed
  gen,       \* dirtyGen
  editor,    \* "idle"; "bump", "mark" (a save); "tx" (an adoption)
  draft,     \* the client an adoption is about to commit
  busy,      \* reconcileBusy
  pc,        \* where a reconcile is
  claimed,   \* the generation it claimed
  want,      \* expectedClients
  have,      \* actualClusterClients
  under,     \* an adoption had bumped and not committed when it claimed
  raced      \* a run cleared the mark of an edit it did not know of, or the
             \* node changed on its own

edit == <<master, gone, edits, editor, draft>>
mark == <<dirty, gen>>
run  == <<pc, claimed, want, have, under>>
wire == <<node, flight>>
vars == <<edit, mark, run, wire, online, busy, raced>>

Absent(v) == v = 0 \/ v \in gone
Differs(v, w) == v # w /\ ~(Absent(v) /\ Absent(w))

Blank == [c \in Client |-> 0]

Init ==
  /\ master = Blank /\ node = Blank
  /\ gone = {} /\ edits = 0 /\ flight = {}
  /\ online = TRUE /\ dirty = FALSE /\ gen = 0
  /\ editor = "idle" /\ draft \in Client
  /\ busy = FALSE /\ raced = FALSE
  /\ pc = [r \in Runner |-> "idle"]
  /\ claimed = [r \in Runner |-> 0]
  /\ want = [r \in Runner |-> Blank]
  /\ have = [r \in Runner |-> Blank]
  /\ under = [r \in Runner |-> FALSE]

-----------------------------------------------------------------------------
(* Edits.                                                                   *)

\* A commit that changes what the node is expected to have.
Expect(c) ==
  /\ edits < MaxEdits
  /\ edits' = edits + 1
  /\ master' = [master EXCEPT ![c] = edits + 1]
  /\ \/ gone' = gone
     \/ gone' = gone \cup {edits + 1}

\* A save of clients commits, ...
SaveClient(c) ==
  /\ editor = "idle"
  /\ Expect(c)
  /\ editor' = "bump"
  /\ UNCHANGED <<draft, mark, run, wire, online, busy, raced>>

\* ... then MarkAllDirty bumps the generation ...
Bump ==
  /\ editor = "bump"
  /\ gen' = gen + 1
  /\ editor' = "mark"
  /\ UNCHANGED <<master, gone, edits, draft, dirty, run, wire, online, busy, raced>>

\* ... and writes the mark.
MarkAllDirty ==
  /\ editor = "mark"
  /\ dirty' = TRUE
  /\ editor' = "idle"
  /\ UNCHANGED <<master, gone, edits, draft, gen, run, wire, online, busy, raced>>

\* AdoptInbounds bumps inside its transaction ...
Adopt(c) ==
  /\ editor = "idle"
  /\ edits < MaxEdits /\ gen < MaxEdits
  /\ draft' = c
  /\ gen' = gen + 1
  /\ editor' = "tx"
  /\ UNCHANGED <<master, gone, edits, dirty, run, wire, online, busy, raced>>

\* ... which commits the replicas and the mark, or not.
CommitAdopt ==
  /\ editor = "tx"
  /\ \/ Expect(draft) /\ dirty' = TRUE
     \/ UNCHANGED <<master, gone, edits, dirty>>
  /\ editor' = "idle"
  /\ UNCHANGED <<draft, gen, run, wire, online, busy, raced>>

-----------------------------------------------------------------------------
(* A reconcile.                                                             *)

Goto(r, label) == pc' = [pc EXCEPT ![r] = label]

\* The end of a run: releaseReconcile, and its local variables are gone.
Release(r) ==
  /\ Goto(r, "idle")
  /\ busy' = FALSE
  /\ claimed' = [claimed EXCEPT ![r] = 0]
  /\ want' = [want EXCEPT ![r] = Blank]
  /\ have' = [have EXCEPT ![r] = Blank]
  /\ under' = [under EXCEPT ![r] = FALSE]

\* Mutant: no single flight.
ClaimAnyway(r) ==
  /\ pc[r] = "idle"
  /\ busy' = TRUE
  /\ claimed' = [claimed EXCEPT ![r] = gen]
  /\ under' = [under EXCEPT ![r] = editor = "tx"]
  /\ Goto(r, "expect")
  /\ UNCHANGED <<edit, mark, want, have, wire, online, raced>>

\* claimReconcile, by the button at any time, by the others after the backoff.
Claim(r) ==
  /\ pc[r] = "idle"
  /\ ~busy
  /\ busy' = TRUE
  /\ claimed' = [claimed EXCEPT ![r] = gen]
  /\ under' = [under EXCEPT ![r] = editor = "tx"]
  /\ Goto(r, "expect")
  /\ UNCHANGED <<edit, mark, want, have, wire, online, raced>>

\* Mutant: a run does nothing for a node that is not marked.
ExpectIfDirty(r) ==
  /\ pc[r] = "expect"
  /\ online
  /\ want' = [want EXCEPT ![r] = IF dirty THEN master ELSE node]
  /\ Goto(r, "actual")
  /\ UNCHANGED <<edit, mark, claimed, have, under, wire, online, busy, raced>>

\* expectedClients, from the master's database.
ReadExpected(r) ==
  /\ pc[r] = "expect"
  /\ online
  /\ want' = [want EXCEPT ![r] = master]
  /\ Goto(r, "actual")
  /\ UNCHANGED <<edit, mark, claimed, have, under, wire, online, busy, raced>>

\* actualClusterClients, from the node.
ReadActual(r) ==
  /\ pc[r] = "actual"
  /\ online
  /\ have' = [have EXCEPT ![r] = node]
  /\ Goto(r, "push")
  /\ UNCHANGED <<edit, mark, claimed, want, under, wire, online, busy, raced>>

Owed(r) == {c \in Client : Differs(want[r][c], have[r][c])}

\* Clients are deleted after the new and the edited ones are pushed.
Turn(r) ==
  IF \E c \in Owed(r) : ~Absent(want[r][c])
  THEN {c \in Owed(r) : ~Absent(want[r][c])}
  ELSE Owed(r)

\* What the node does with a pushed client: a new one is refused when the name
\* is taken.
Accepts(r, c) == Absent(have[r][c]) /\ ~Absent(want[r][c]) => Absent(node[c])

\* pushClient succeeds: new, edit or del of one client.
Push(r) ==
  /\ pc[r] = "push"
  /\ online
  /\ \E c \in Turn(r) :
       /\ Accepts(r, c)
       /\ node' = [node EXCEPT ![c] = want[r][c]]
       /\ have' = [have EXCEPT ![r][c] = want[r][c]]
  /\ UNCHANGED <<edit, mark, pc, claimed, want, under, flight, online, busy, raced>>

\* A push, or a read, fails: the run ends and the mark stays.  The node may
\* have the request all the same, and handle it later.
Refused(r) ==
  \/ pc[r] \in {"expect", "actual"} /\ ~online
  \/ pc[r] = "push" /\ Owed(r) # {} /\ (~online \/ \E c \in Turn(r) : ~Accepts(r, c))

Abort(r) ==
  /\ \/ Refused(r) /\ UNCHANGED flight
     \/ /\ pc[r] = "push" /\ "late" \in Fault
        /\ \E c \in Turn(r) : flight' = flight \cup {<<c, want[r][c]>>}
  /\ Release(r)
  /\ UNCHANGED <<edit, mark, node, online, raced>>

\* All pushed: dirtyUnchangedSince.
CheckGen(r) ==
  /\ pc[r] = "push"
  /\ Owed(r) = {}
  /\ IF gen = claimed[r]
     THEN Goto(r, "clear") /\ UNCHANGED <<busy, claimed, want, have, under>>
     ELSE Release(r)
  /\ UNCHANGED <<edit, mark, wire, online, raced>>

\* UPDATE nodes SET dirty = false.
Clear(r) ==
  /\ pc[r] = "clear"
  /\ dirty' = FALSE
  /\ raced' = (raced \/ gen # claimed[r] \/ under[r])
  /\ Release(r)
  /\ UNCHANGED <<edit, gen, wire, online>>

-----------------------------------------------------------------------------
(* The node.                                                                *)

Reach ==
  /\ online' = ~online
  /\ UNCHANGED <<edit, mark, run, wire, busy, raced>>

\* A push the master gave up on reaches the node, or is lost after all.
Arrive ==
  /\ \E m \in flight :
       /\ flight' = flight \ {m}
       /\ node' \in {node, [node EXCEPT ![m[1]] = m[2]]}
  /\ raced' = (raced \/ node' # node)
  /\ UNCHANGED <<edit, mark, run, online, busy>>

\* An @cluster client is deleted in the node's own panel, an edit nobody marks.
Drift(c) ==
  /\ "drift" \in Fault
  /\ edits < MaxEdits
  /\ edits' = edits + 1
  /\ node' = [node EXCEPT ![c] = 0]
  /\ raced' = TRUE
  /\ UNCHANGED <<master, gone, editor, draft, mark, run, flight, online, busy>>

RunStep(r) ==
  Claim(r) \/ ReadExpected(r) \/ ReadActual(r) \/ Push(r) \/ Abort(r) \/ CheckGen(r) \/ Clear(r)

Next ==
  \/ \E c \in Client : SaveClient(c) \/ Adopt(c) \/ Drift(c)
  \/ Bump \/ MarkAllDirty \/ CommitAdopt
  \/ \E r \in Runner : RunStep(r)
  \/ Reach \/ Arrive

Spec == Init /\ [][Next]_vars

\* The hourly job keeps coming and a run goes on; a node that is called again
\* and again takes a push in time some day; a request in flight ends somehow.
Fairness ==
  /\ WF_vars(\E r \in Runner : Claim(r))
  /\ \A r \in Runner :
       /\ SF_vars(Push(r))
       /\ WF_vars(ReadExpected(r) \/ ReadActual(r) \/ Abort(r) \/ CheckGen(r) \/ Clear(r))
  /\ WF_vars(Bump \/ MarkAllDirty \/ CommitAdopt)
  /\ WF_vars(Arrive)

LiveSpec == Spec /\ Fairness

-----------------------------------------------------------------------------
(* Properties.                                                              *)

Version == 0 .. MaxEdits

TypeOK ==
  /\ master \in [Client -> Version] /\ node \in [Client -> Version]
  /\ gone \subseteq Version /\ edits \in Version
  /\ flight \subseteq Client \X Version
  /\ online \in BOOLEAN /\ dirty \in BOOLEAN /\ busy \in BOOLEAN /\ raced \in BOOLEAN
  /\ gen \in Nat
  /\ editor \in {"idle", "bump", "mark", "tx"} /\ draft \in Client
  /\ pc \in [Runner -> {"idle", "expect", "actual", "push", "clear"}]
  /\ claimed \in [Runner -> Nat]
  /\ want \in [Runner -> [Client -> Version]] /\ have \in [Runner -> [Client -> Version]]
  /\ under \in [Runner -> BOOLEAN]

Synced == \A c \in Client : ~Differs(master[c], node[c])

\* "an edit landing mid-run keeps its flag": with no edit and no run under way,
\* a node that is behind is marked, so the next heartbeat sees it.  But for one
\* window: the generation catches every edit that does not fall between a run's
\* last look at it and the write that clears the mark, or between an adoption's
\* bump and its commit; what changes on the node itself marks nothing.
BehindIsDirtyOrRaced == (editor = "idle" /\ ~busy /\ ~Synced) => (dirty \/ raced)

\* Single flight: a run never takes a client on the node back to an older edit
\* (a change made on the node, and a push that arrives late, can).
NeverBackwards ==
  [][edits' = edits /\ flight' = flight => \A c \in Client : node'[c] >= node[c]]_vars

\* Once the edits stop, a node that stays in reach ends up with what the master
\* expects, whatever was lost, delayed, changed on the node or cleared on the
\* way: the hourly job does not ask for the mark.
Converges == <>[]online => <>[]Synced

\* The push of clients, in one: the state has its type, a node that is behind is marked,
\* and no run takes a client back.
SyncSafety == [](TypeOK /\ BehindIsDirtyOrRaced) /\ NeverBackwards
=============================================================================
