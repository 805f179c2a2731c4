--------------------------- MODULE ClusterIpLimit ---------------------------
(***************************************************************************)
(* One IP limit for one client over a master and its nodes:                *)
(* service/clusterIPLimit.go.                                              *)
(*                                                                         *)
(* Every ten seconds the master asks each node which addresses the client  *)
(* is connected from, plans who keeps a slot, and sends everyone the bans. *)
(* A panel keeps the bans for a lease; what it does on its own afterwards  *)
(* is IpLimit.  A node may be down, fail to answer, or handle a request    *)
(* the master has given up on.                                             *)
(*                                                                         *)
(* Durations count down, so there is no bound on time.  Of the holders'    *)
(* firstSeen the model keeps the order: each has its place among the       *)
(* others by (firstSeen, address).                                         *)
(***************************************************************************)
EXTENDS Integers, FiniteSets

CONSTANTS
  Node,          \* the nodes; the master is one more panel
  Master,
  ClusterAddr,   \* addresses, as numbers: netip.Addr.Compare is their order
  ClusterLimit,  \* clients.limit_ip
  ClusterTTL, ClusterMemory, ClusterLease, ClusterBanMax

ASSUME ClusterConstants ==
  /\ Master \notin Node
  /\ ClusterAddr \subseteq Nat /\ IsFiniteSet(ClusterAddr)
  /\ {ClusterLimit, ClusterTTL, ClusterMemory, ClusterLease, ClusterBanMax} \subseteq Nat \ {0}

Panel == Node \cup {Master}

VARIABLES
  live,      \* the addresses each panel's tracker reports
  denied,    \* the bans each panel holds, ...
  leased,    \* ... and for how long
  place,     \* clusterIPs.holders: the place of each by seniority, 0 for none
  away,      \* for how long a holder has not been seen
  left,      \* clusterIPs.bans: time left, 0 for none
  shown,     \* clusterIPs.active and how long its counts stay fresh
  job,       \* where EnforceClusterIPLimits is
  asked,     \* nodes that are still to answer
  seen,      \* the addresses collected so far
  failed,    \* a node did not take its bans
  late,      \* bans of a request the master gave up on, not yet handled
  whole      \* ghost: the last plan reached every panel

cluMaster == <<place, away, left, shown>>
cluJob    == <<job, asked, seen, failed>>
cluVars   == <<live, denied, leased, cluMaster, cluJob, late, whole>>

ClusterInit ==
  /\ live = [p \in Panel |-> {}] /\ denied = [p \in Panel |-> {}]
  /\ leased = [p \in Panel |-> 0]
  /\ place = [a \in ClusterAddr |-> 0] /\ away = [a \in ClusterAddr |-> 0] /\ left = [a \in ClusterAddr |-> 0]
  /\ shown = 0 /\ job = "idle" /\ asked = {} /\ seen = {} /\ failed = FALSE
  /\ late = {} /\ whole = FALSE

-----------------------------------------------------------------------------
(* The panels.                                                              *)

\* Mutant: a ban holds although its lease is over.
DeniesForever(p, a) == a \in denied[p]

\* allow, as far as the master's bans go.
Denies(p, a) == a \in denied[p] /\ leased[p] > 0

Connect(p, a) ==
  /\ a \notin live[p] /\ ~Denies(p, a)
  /\ live' = [live EXCEPT ![p] = @ \cup {a}]
  /\ UNCHANGED <<denied, leased, cluMaster, cluJob, late, whole>>

Leave(p, a) ==
  /\ a \in live[p]
  /\ live' = [live EXCEPT ![p] = @ \ {a}]
  /\ UNCHANGED <<denied, leased, cluMaster, cluJob, late, whole>>

Down(t) == IF t = 0 THEN 0 ELSE t - 1

\* Ten seconds pass.
ClusterTick ==
  /\ leased' = [p \in Panel |-> Down(leased[p])]
  /\ denied' = [p \in Panel |-> IF p \in Node /\ leased'[p] = 0 THEN {} ELSE denied[p]]
  /\ left' = [a \in ClusterAddr |-> Down(left[a])]
  /\ away' = [a \in ClusterAddr |-> IF place[a] = 0 \/ away[a] > ClusterMemory
                                    THEN away[a] ELSE away[a] + 1]
  /\ shown' = Down(shown)
  /\ UNCHANGED <<live, place, cluJob, late, whole>>

\* ApplyClusterBans on a panel.
Apply(p, bans) ==
  /\ denied' = [denied EXCEPT ![p] = bans]
  /\ leased' = [leased EXCEPT ![p] = ClusterLease]
  /\ live' = [live EXCEPT ![p] = @ \ bans]

-----------------------------------------------------------------------------
(* EnforceClusterIPLimits.                                                  *)

EndJob == job' = "idle" /\ asked' = {} /\ seen' = {} /\ failed' = FALSE

\* The snapshot of the master; a node that the last heartbeat did not reach
\* ends the run.
BeginCluster ==
  /\ job = "idle"
  /\ \/ /\ job' = "ask" /\ asked' = Node /\ seen' = live[Master] /\ failed' = FALSE
        /\ UNCHANGED shown
     \/ shown' = 0 /\ EndJob
  /\ UNCHANGED <<live, denied, leased, place, away, left, late, whole>>

\* clusterIps, one request per node, in any order.
Ask(n) ==
  /\ job = "ask" /\ n \in asked
  /\ seen' = seen \cup live[n]
  /\ asked' = asked \ {n}
  /\ UNCHANGED <<live, denied, leased, cluMaster, job, failed, late, whole>>

\* One of them fails: deactivateClusterIPSnapshot.
AskFails ==
  /\ job = "ask" /\ asked # {}
  /\ shown' = 0
  /\ EndJob
  /\ UNCHANGED <<live, denied, leased, place, away, left, late, whole>>

\* By (firstSeen, address): holders come before those first seen now.
Senior(a, b) ==
  \/ place[a] > 0 /\ (place[b] = 0 \/ place[a] < place[b])
  \/ place[a] = 0 /\ place[b] = 0 /\ a < b
Seniors(a, among) == {b \in among : Senior(b, a)}

\* Holders that are out of sight and not yet forgotten.
Remembered(active) == {a \in ClusterAddr \ active : place[a] > 0 /\ away[a] <= ClusterMemory}

\* Mutant: bans are not lifted while a slot is free.
StandingBansOnly(active) == {a \in ClusterAddr : left[a] > 0}

\* The bans it starts from: none when they leave a slot empty.
StandingBans(active) ==
  LET bans == {a \in ClusterAddr : left[a] > 0}
  IN  IF Cardinality(active \ bans) < ClusterLimit THEN {} ELSE bans

\* The first ClusterLimit that are not banned keep their slot.
Kept(active) ==
  LET free == active \ StandingBans(active)
  IN  {a \in free : Cardinality(Seniors(a, free)) < ClusterLimit}

\* At most ClusterBanMax bans: the soonest to end go, then the lowest address.
Capped(t) ==
  LET bans   == {a \in ClusterAddr : t[a] > 0}
      excess == IF Cardinality(bans) > ClusterBanMax THEN Cardinality(bans) - ClusterBanMax ELSE 0
      earlier(a) == {b \in bans : t[b] < t[a] \/ (t[b] = t[a] /\ b < a)}
  IN  [a \in ClusterAddr |-> IF a \in bans /\ Cardinality(earlier(a)) < excess THEN 0 ELSE t[a]]

\* planClusterIPLimits, then the master's own bans.
PlanCluster ==
  /\ job = "ask" /\ asked = {}
  /\ LET kept == Kept(seen)
         held == kept \cup Remembered(seen)
         old  == StandingBans(seen)
         t    == Capped([a \in ClusterAddr |->
                   IF a \in old THEN left[a]
                   ELSE IF a \in seen \ kept THEN ClusterTTL ELSE 0])
     IN  /\ left' = t
         /\ place' = [a \in ClusterAddr |->
                        IF a \in held THEN Cardinality(Seniors(a, held)) + 1 ELSE 0]
         /\ away' = [a \in ClusterAddr |-> IF a \in held \ seen THEN away[a] ELSE 0]
         /\ Apply(Master, {a \in ClusterAddr : t[a] > 0})
  /\ shown' = ClusterLease
  /\ whole' = TRUE
  /\ job' = "post" /\ asked' = Node /\ seen' = {}
  /\ UNCHANGED <<failed, late>>

Bans == {a \in ClusterAddr : left[a] > 0}

\* The bans of the plan: a request carries what was encoded after it.
Post(n) ==
  /\ job = "post" /\ n \in asked
  /\ Apply(n, denied[Master])
  /\ asked' = asked \ {n}
  /\ UNCHANGED <<cluMaster, job, seen, failed, late, whole>>

\* A request fails; the node may still handle it, later than the next one.
PostFails(n) ==
  /\ job = "post" /\ n \in asked
  /\ asked' = asked \ {n}
  /\ failed' = TRUE
  /\ whole' = FALSE
  /\ late' \in {late, {<<n, denied[Master]>>}}
  /\ UNCHANGED <<live, denied, leased, cluMaster, job, seen>>

EndCluster ==
  /\ job = "post" /\ asked = {}
  /\ shown' = IF failed THEN 0 ELSE shown
  /\ EndJob
  /\ UNCHANGED <<live, denied, leased, place, away, left, late, whole>>

Arrives ==
  /\ \E m \in late : Apply(m[1], m[2])
  /\ late' = {}
  /\ UNCHANGED <<cluMaster, cluJob, whole>>

-----------------------------------------------------------------------------
ClusterNext ==
  \/ \E p \in Panel, a \in ClusterAddr : Connect(p, a) \/ Leave(p, a)
  \/ \E n \in Node : Ask(n) \/ Post(n) \/ PostFails(n)
  \/ ClusterTick \/ BeginCluster \/ AskFails \/ PlanCluster \/ EndCluster \/ Arrives

ClusterSpec == ClusterInit /\ [][ClusterNext]_cluVars

-----------------------------------------------------------------------------
(* Properties.                                                              *)

ClusterTypeOK ==
  /\ live \in [Panel -> SUBSET ClusterAddr] /\ denied \in [Panel -> SUBSET ClusterAddr]
  /\ leased \in [Panel -> 0 .. ClusterLease] /\ shown \in 0 .. ClusterLease
  /\ place \in [ClusterAddr -> 0 .. Cardinality(ClusterAddr)]
  /\ \A a, b \in ClusterAddr : place[a] = place[b] /\ place[a] > 0 => a = b
  /\ left \in [ClusterAddr -> 0 .. ClusterTTL]
  /\ job \in {"idle", "ask", "post"} /\ asked \subseteq Node /\ seen \subseteq ClusterAddr

\* A plan leaves no slot empty while an address waits for one, and gives away no
\* more than there are.
SlotsFilled ==
  [][job = "ask" /\ job' = "post" =>
       Cardinality({a \in seen : place'[a] > 0}) =
         IF Cardinality(seen) < ClusterLimit THEN Cardinality(seen) ELSE ClusterLimit]_cluVars

\* A plan takes the slot of an address that holds one only for an address that
\* has held one longer, if out of sight for a moment.
ClusterSeniority ==
  [][job = "ask" /\ job' = "post" =>
       \A a, b \in seen : place[a] > 0 /\ place'[a] = 0 /\ place'[b] > 0 =>
         place[b] \in 1 .. place[a] - 1]_cluVars

\* The counts the panel shows for the cluster come from a plan that every panel
\* was told of: one that could not be enforced everywhere is not shown.
ShownIsWhole == job = "idle" /\ shown > 0 => whole

\* No panel refuses for good what the master has not banned: a request that came
\* late, or a master that fell silent, costs one lease.
Stranded(p, a) == Denies(p, a) /\ a \notin Bans
DenialEnds ==
  \A a \in ClusterAddr : (\E p \in Panel : Stranded(p, a)) ~> (\A p \in Panel : ~Stranded(p, a))

\* What the limit over all panels promises, through panels that fall silent, leases that
\* run out and requests that come late: full slots, given by seniority, and shown only when
\* enforced everywhere.
ClusterSafety == [](ClusterTypeOK /\ ShownIsWhole) /\ SlotsFilled /\ ClusterSeniority
=============================================================================
