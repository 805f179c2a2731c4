------------------------------ MODULE IpLimit ------------------------------
(***************************************************************************)
(* The IP limit of one client on one panel: core/tracker_conn.go and       *)
(* service/iplimit.go, and the node's half of service/clusterIPLimit.go.   *)
(*                                                                         *)
(* A connection passes the gate and is entered in the tracker in two       *)
(* steps.  A cron job reads the limits, takes a snapshot of the tracker,   *)
(* plans who keeps a slot, bans and closes the others and sweeps the bans. *)
(* Each of these takes its own lock, so connections come and go, the       *)
(* master's bans arrive and the core restarts in between.                  *)
(*                                                                         *)
(* Time is a clock of ticks; the tracker counts from its own epoch.  The   *)
(* maps of the code are per client, so one client is modelled.             *)
(***************************************************************************)
EXTENDS Integers, FiniteSets

CONSTANTS
  Source,       \* addresses as they arrive: <<"v4" | "mapped" | "v6", number>>
  MaxConns,     \* bound on the connections opened
  MaxTicks,     \* bound on the clock
  MaxTrackers,  \* bound on the starts of the core
  MaxLimit,     \* highest limit the operator sets
  BanTTL, IdleGrace, HoldMemory, BanLease, BanMaxSize

ASSUME IpLimitConstants ==
  /\ Source \subseteq {"v4", "mapped", "v6"} \X Nat /\ IsFiniteSet(Source)
  /\ {MaxConns, MaxLimit} \subseteq Nat /\ {MaxTicks, MaxTrackers} \subseteq Nat \ {0}
  /\ {BanTTL, IdleGrace, HoldMemory, BanLease, BanMaxSize} \subseteq Nat \ {0}

VARIABLES
  ticks,     \* the wall clock
  trackers,  \* trackerGeneration
  trackerUp, \* liveConnTracker() is not nil
  epoch,     \* ConnTracker.epoch
  conns,     \* the live connections, by number
  opened,    \* how many connections were opened, and the number of the last
  managed,   \* the client was pushed by a master: clients.group is @cluster
  limitIp,   \* clients.limit_ip of the enabled client, 0 for none
  stamped,   \* ipLimitActive
  ipBans,    \* ipLimiter.bans
  holders,   \* ipLimiter.holders
  heldGen,   \* ipLimiter.lastGeneration
  lease,     \* clusterBans, clusterManaged and clusterLeaseUntil
  scan,      \* the local variables of EnforceIPLimits
  evicted,   \* ghost: the last eviction of an address
  tenure     \* ghost: since when an address has had its slot, on the wall clock

limCore  == <<trackers, trackerUp, epoch>>
limVars  == <<ticks, limCore, conns, opened, managed, limitIp, stamped, ipBans, holders, heldGen, lease,
              scan, evicted, tenure>>

(* normalizeSrc: unmap, then keep the first half of an IPv6 address.  The   *)
(* low bit of a "v6" number stands for the half that is masked out.         *)
normalizeSrc(s) == IF s[1] = "v6" THEN 100 + 2 * (s[2] \div 2) ELSE s[2]

Addr == {normalizeSrc(s) : s \in Source}

NoBan   == [until |-> 0, gen |-> 0]
NoLease == [bans |-> {}, managed |-> FALSE, until |-> 0]
NoScan  == [pc |-> "idle", limit |-> 0, unix |-> 0, gen |-> 0, now |-> 0, active |-> <<>>,
            kept |-> {}, dropped |-> {}]

LimitInit ==
  /\ ticks = 1 /\ trackers = 1 /\ trackerUp = TRUE /\ epoch = 1
  /\ conns = <<>> /\ opened = 0 /\ managed \in BOOLEAN /\ limitIp \in 0 .. MaxLimit /\ stamped = FALSE
  /\ ipBans = [a \in Addr |-> NoBan] /\ holders = <<>> /\ heldGen = 0
  /\ lease = NoLease /\ scan = NoScan
  /\ evicted = [a \in Addr |-> NoBan] /\ tenure = <<>>

-----------------------------------------------------------------------------
(* The tracker.                                                             *)

monoNow == ticks - epoch

Tracked == {c \in DOMAIN conns : conns[c].state = "tracked"}

\* ipLimiter.allow: under a lease only the master's bans count.
allow(a) ==
  LET byCluster == a \in lease.bans /\ lease.until > ticks
  IN  IF lease.managed /\ lease.until > ticks
      THEN ~byCluster
      ELSE ~byCluster /\ ticks >= ipBans[a].until

\* RoutedConnection: admit, ...
Gate(s) ==
  LET a == normalizeSrc(s)
  IN  /\ trackerUp /\ opened < MaxConns /\ opened' = opened + 1
      /\ \A c \in DOMAIN conns : conns[c].state # "gated"
      /\ allow(a)
      /\ conns' = [c \in DOMAIN conns \cup {opened'} |->
           IF c # opened' THEN conns[c]
           ELSE [state |-> "gated", addr |-> a, at |-> monoNow, last |-> monoNow,
                 barred |-> /\ evicted[a].until > ticks /\ evicted[a].gen # trackers
                            /\ ~(lease.managed /\ lease.until > ticks)]]
  /\ UNCHANGED <<managed, ticks, limCore, limitIp, stamped, ipBans, holders, heldGen, lease, scan,
                 evicted, tenure>>

\* ... then trackConnection.
Track(c) ==
  /\ conns[c].state = "gated"
  /\ conns' = [conns EXCEPT ![c].state = "tracked", ![c].at = monoNow, ![c].last = monoNow]
  /\ UNCHANGED <<ticks, limCore, opened, managed, limitIp, stamped, ipBans, holders, heldGen, lease, scan,
                 evicted, tenure>>

\* Bytes move: touch stamps the connection while some client has a limit.
Touch(c) ==
  /\ conns[c].state = "tracked" /\ stamped
  /\ conns' = [conns EXCEPT ![c].last = monoNow]
  /\ UNCHANGED <<ticks, limCore, opened, managed, limitIp, stamped, ipBans, holders, heldGen, lease, scan,
                 evicted, tenure>>

\* The connections that are left when some are closed.
Closing(gone) == [c \in DOMAIN conns \ gone |-> conns[c]]

\* Close or a read error: doUntrack.
Untrack(c) ==
  /\ conns[c].state = "tracked"
  /\ conns' = Closing({c})
  /\ UNCHANGED <<ticks, limCore, opened, managed, limitIp, stamped, ipBans, holders, heldGen, lease, scan,
                 evicted, tenure>>

\* Mutant: the evicted address is barred from dialling again, its connections stay.
CloseNone(drop, gen) == conns

\* CloseConnByUserIPs, on the tracker the caller has.
CloseConnByUserIPs(drop, gen) ==
  IF trackerUp /\ gen = trackers
  THEN Closing({c \in Tracked : conns[c].addr \in drop})
  ELSE conns

\* UserIPs: the window of every live address.
UserIPs ==
  [a \in {conns[c].addr : c \in Tracked} |->
     LET mine == {c \in Tracked : conns[c].addr = a}
     IN  [first |-> CHOOSE t \in {conns[c].at : c \in mine} :
                      \A c \in mine : t <= conns[c].at,
          last  |-> CHOOSE t \in {conns[c].last : c \in mine} :
                      \A c \in mine : t >= conns[c].last]]

\* The core stops and every connection ends with it ...
CoreDown ==
  /\ trackerUp
  /\ trackerUp' = FALSE
  /\ conns' = <<>>
  /\ UNCHANGED <<ticks, trackers, epoch, opened, managed, limitIp, stamped, ipBans, holders, heldGen, lease,
                 scan, evicted, tenure>>

\* ... and starts with a new tracker: NewConnTracker.
CoreUp ==
  /\ ~trackerUp /\ trackers < MaxTrackers
  /\ trackerUp' = TRUE /\ trackers' = trackers + 1 /\ epoch' = ticks
  /\ tenure' = <<>>
  /\ UNCHANGED <<ticks, conns, opened, managed, limitIp, stamped, ipBans, holders, heldGen, lease, scan, evicted>>

LimitTick ==
  /\ ticks < MaxTicks
  /\ ticks' = ticks + 1
  /\ UNCHANGED <<limCore, conns, opened, managed, limitIp, stamped, ipBans, holders, heldGen, lease, scan,
                 evicted, tenure>>

SetLimitIp(n) ==
  /\ n # limitIp
  /\ limitIp' = n
  /\ UNCHANGED <<ticks, limCore, opened, managed, conns, stamped, ipBans, holders, heldGen, lease, scan,
                 evicted, tenure>>

-----------------------------------------------------------------------------
(* EnforceIPLimits.                                                         *)

\* Mutant: a client under its cap is forgiven whichever tracker evicted it.
SweepForgives(bans, unix, capped, gen) ==
  [a \in Addr |-> IF unix >= bans[a].until \/ capped = "unlimited" \/ capped = "under"
                  THEN NoBan ELSE bans[a]]

\* sweepLocked.  capped is "unlimited", "under", "capped", or "unseen" when no
\* scan happened.
sweepLocked(bans, unix, capped, gen) ==
  [a \in Addr |-> IF \/ unix >= bans[a].until
                     \/ capped = "unlimited"
                     \/ capped = "under" /\ bans[a].gen = gen
                  THEN NoBan ELSE bans[a]]

\* evictBansLocked: at most BanMaxSize bans, the soonest to expire go first.
evictBansLocked(bans, unix) ==
  LET swept == sweepLocked(bans, unix, "unseen", 0)
      live  == {a \in Addr : swept[a].until > 0}
      size  == IF Cardinality(live) > BanMaxSize THEN Cardinality(live) - BanMaxSize ELSE 0
      out   == {d \in SUBSET live :
                  /\ Cardinality(d) = size
                  /\ \A a \in d, b \in live \ d : swept[a].until <= swept[b].until}
  IN  {[a \in Addr |-> IF a \in d THEN NoBan ELSE swept[a]] : d \in out}

\* beginScan: the record to plan against, empty when another tracker made it.
beginScan(gen) == IF gen = heldGen THEN holders ELSE <<>>

\* loadIPLimits, and what is left to do without a limit or without a tracker; or
\* the snapshot.  A client under the master's lease is left to the master.
BeginScan ==
  /\ scan.pc = "idle"
  /\ stamped' = (limitIp > 0)
  /\ LET limit == IF lease.managed /\ lease.until > ticks THEN 0 ELSE limitIp
     IN  \/ /\ limit = 0
            /\ holders' = <<>> /\ tenure' = <<>>
            /\ ipBans' = sweepLocked(ipBans, ticks, "unlimited", 0)
            /\ evicted' = [a \in Addr |-> NoBan]
            /\ UNCHANGED <<scan, heldGen>>
         \/ /\ limit > 0 /\ ~trackerUp
            /\ holders' = <<>> /\ tenure' = <<>>
            /\ ipBans' = sweepLocked(ipBans, ticks, "unseen", 0)
            /\ UNCHANGED <<scan, heldGen, evicted>>
         \/ /\ limit > 0 /\ trackerUp
            /\ scan' = [NoScan EXCEPT !.pc = "plan", !.limit = limit, !.unix = ticks,
                                      !.gen = trackers, !.now = monoNow, !.active = UserIPs]
            /\ holders' = beginScan(trackers)
            /\ heldGen' = trackers
            /\ UNCHANGED <<ipBans, evicted, tenure>>
  /\ UNCHANGED <<ticks, limCore, conns, opened, managed, limitIp, lease>>

\* planIPLimit: idle addresses are ignored, the others ranked by standing.
Standing(a) == IF a \in DOMAIN holders THEN holders[a].at ELSE scan.active[a].first

Candidates == {a \in DOMAIN scan.active : scan.now - scan.active[a].last <= IdleGrace}

Before(a, b) == Standing(a) < Standing(b) \/ (Standing(a) = Standing(b) /\ a < b)

planIPLimit == {a \in Candidates : Cardinality({b \in Candidates : Before(b, a)}) < scan.limit}

\* rememberHolders.
rememberHolders(kept, dropped) ==
  LET owed == {a \in DOMAIN holders \ (kept \cup dropped) :
                 scan.now - holders[a].seen <= HoldMemory}
  IN  [a \in kept \cup owed |->
         IF a \in kept THEN [at |-> Standing(a), seen |-> scan.now] ELSE holders[a]]

\* Ghost: who has a slot, or had one no longer than HoldMemory before the last
\* scan, and since when on this tracker.
Tenures(kept, dropped) ==
  LET was  == DOMAIN tenure \ dropped
      away == {a \in was \ kept : scan.now - tenure[a].seen <= HoldMemory}
  IN  [a \in kept \cup away |->
         [since |-> IF a \in was THEN tenure[a].since ELSE scan.active[a].first,
          seen  |-> IF a \in kept THEN scan.now ELSE tenure[a].seen]]

Plan ==
  /\ scan.pc = "plan"
  /\ LET kept    == planIPLimit
         dropped == Candidates \ kept
         banned  == [a \in Addr |-> IF a \in dropped
                                    THEN [until |-> scan.unix + BanTTL, gen |-> scan.gen]
                                    ELSE ipBans[a]]
     IN  /\ IF dropped = {} THEN ipBans' = ipBans ELSE ipBans' \in evictBansLocked(banned, scan.unix)
         /\ holders' = rememberHolders(kept, dropped)
         /\ scan' = [scan EXCEPT !.pc = "close", !.kept = kept, !.dropped = dropped,
                               !.active = <<>>, !.now = 0]
         /\ evicted' = [a \in Addr |-> IF a \in dropped \/ ipBans'[a] = NoBan
                                       THEN ipBans'[a] ELSE evicted[a]]
         /\ tenure' = IF scan.gen = trackers THEN Tenures(kept, dropped) ELSE <<>>
  /\ UNCHANGED <<ticks, limCore, opened, managed, conns, limitIp, stamped, heldGen, lease>>

\* The dropped addresses lose their connections, and the bans that no longer
\* hold a slot for anyone go.
EndScan ==
  /\ scan.pc = "close"
  /\ conns' = CloseConnByUserIPs(scan.dropped, scan.gen)
  /\ LET capped == IF Cardinality(scan.kept) >= scan.limit \/ scan.dropped # {}
                   THEN "capped" ELSE "under"
     IN  /\ ipBans' = sweepLocked(ipBans, scan.unix, capped, scan.gen)
         /\ evicted' = [a \in Addr |-> IF capped = "under" /\ evicted[a].gen = scan.gen
                                       THEN NoBan ELSE evicted[a]]
  /\ scan' = NoScan
  /\ UNCHANGED <<ticks, limCore, opened, managed, limitIp, stamped, holders, heldGen, lease, tenure>>

-----------------------------------------------------------------------------
(* The master's bans arrive: ApplyClusterBans.                              *)

ApplyClusterBans(bans) ==
  /\ managed /\ ticks + BanLease < MaxTicks
  /\ lease' = [bans |-> bans, managed |-> managed, until |-> ticks + BanLease]
  /\ conns' = CloseConnByUserIPs(bans, trackers)
  /\ UNCHANGED <<ticks, limCore, opened, managed, limitIp, stamped, ipBans, holders, heldGen, scan, evicted, tenure>>

-----------------------------------------------------------------------------
LimitScan == BeginScan \/ Plan \/ EndScan

LimitNext ==
  \/ \E s \in Source : Gate(s)
  \/ \E c \in DOMAIN conns : Track(c) \/ Touch(c) \/ Untrack(c)
  \/ CoreDown \/ CoreUp \/ LimitTick
  \/ \E n \in 0 .. MaxLimit : SetLimitIp(n)
  \/ LimitScan
  \/ \E bans \in SUBSET Addr : ApplyClusterBans(bans)

LimitSpec == LimitInit /\ [][LimitNext]_limVars

-----------------------------------------------------------------------------
(* Properties.                                                              *)

LimitTypeOK ==
  /\ ticks \in 1 .. MaxTicks /\ epoch \in 1 .. MaxTicks /\ trackers \in 1 .. MaxTrackers
  /\ trackerUp \in BOOLEAN /\ stamped \in BOOLEAN /\ limitIp \in 0 .. MaxLimit
  /\ \A c \in DOMAIN conns :
       conns[c].state \in {"gated", "tracked"} /\ conns[c].addr \in Addr
  /\ DOMAIN holders \subseteq Addr /\ DOMAIN tenure \subseteq Addr
  /\ scan.pc \in {"idle", "plan", "close"}
  /\ scan.dropped \subseteq Addr /\ scan.kept \subseteq Addr /\ opened \in 0 .. MaxConns
  /\ Cardinality({a \in Addr : ipBans[a].until > 0}) <= BanMaxSize
  /\ Cardinality(scan.kept) <= scan.limit

\* "a restart ... forgives them -- which is what this list lives outside Box to
\* avoid": an address evicted on one tracker is not let in on a later one before
\* its ban ends, unless its client was seen under its cap before the restart, or
\* was no longer limited.
EvictionOutlivesRestart == \A c \in DOMAIN conns : ~conns[c].barred

\* First come, first served, across redials: an address that has a slot, or had
\* one a moment ago, loses it only to one with a longer tenure or an older
\* connection.
SeniorityHolds ==
  [][scan.pc = "plan" /\ scan'.pc = "close" /\ scan.gen = trackers =>
       \A a \in scan'.dropped \cap DOMAIN tenure, b \in scan'.kept :
         IF b \in DOMAIN tenure
         THEN tenure[b].since <= tenure[a].since
         ELSE scan.active[b].first <= tenure[a].since]_limVars

\* More live addresses than the limit is a passing state: the connections that
\* slipped past the gate before a ban are cut by a later scan, and a node whose
\* master fell silent goes back to its own limit.
OverLimit ==
  /\ limitIp > 0 /\ trackerUp
  /\ ~(lease.managed /\ lease.until > ticks)
  /\ Cardinality({conns[c].addr : c \in {d \in Tracked : monoNow - conns[d].last <= IdleGrace}})
       > limitIp

OverLimitEnds == OverLimit ~> ~OverLimit

\* What the limit on one panel promises: an eviction outlives a restart of the core and
\* the slots go by seniority.
LimitSafety == [](LimitTypeOK /\ EvictionOutlivesRestart) /\ SeniorityHolds
=============================================================================
