------------------------------ MODULE PanelHub ------------------------------
(***************************************************************************)
(* How a change of the configuration reaches an open tab: the commit and   *)
(* its mark (service/config.go), the cached payload (service/paneldata.go),*)
(* the debounced push and the answer to a subscribe (service/hub.go), and  *)
(* the tab that applies them (frontend/src/store/modules/data.ts).         *)
(*                                                                         *)
(* The configuration is the number of changes committed.  Time is in       *)
(* seconds, the granularity of the change gate.  There is one tab, which   *)
(* loses its socket and dials again, and a second reader of the payload    *)
(* under another hostname, which takes the single cache entry from it.     *)
(***************************************************************************)
EXTENDS Integers, Sequences, FiniteSets

CONSTANTS
  Saver,       \* saves that can be under way at once
  MaxCommits, MaxSeconds, MaxDrops, MaxRestarts, \* bounds
  MaxRebuilds, \* bound on the entries lost to the other reader or to their age
  SendBuffer   \* hubSendBuffer

ASSUME HubConstants ==
  {MaxCommits, MaxSeconds, MaxDrops, MaxRestarts, MaxRebuilds} \subseteq Nat /\ SendBuffer \in Nat \ {0}

VARIABLES
  sec,        \* the clock
  version,    \* changes committed
  changed,    \* the date_time of the newest row of changes, 0 for none
  saving,     \* the saves: pc and their dt
  lastUpdate, \* config.go: lastUpdate
  marks,      \* config.go: lastUpdateSeq
  configSeq,  \* paneldata.go
  cache,      \* paneldata.go: configCache
  cacheLock,  \* who builds under configCache.mu
  dirty,      \* Hub.configDirty
  notifier,   \* configNotifier: idle, debounce, push
  build,      \* the payloads being built, by builder
  tab,        \* the tab: connected, subscribed, its socket's queue and what it applied
  drops, rebuilds, restarts

hubServer == <<saving, lastUpdate, marks, cache, cacheLock, dirty, notifier>>
hubVars == <<sec, version, changed, hubServer, configSeq, build, tab, drops, rebuilds, restarts>>

\* Who builds a payload: the push, the answer to the tab, another hostname's reader.
Builder == {"push", "snap", "other"}
HostOf(b) == IF b = "other" THEN 2 ELSE 1

NoCache == [valid |-> FALSE, host |-> 0, marks |-> 0, stamp |-> 0, seq |-> 0, version |-> 0]
NoBuild == [pc |-> "idle", marks |-> 0, load |-> NoCache]
NoSave  == [pc |-> "idle", dt |-> 0]

HubInit ==
  /\ sec = 1 /\ version = 0 /\ changed = 0
  /\ saving = [s \in Saver |-> NoSave]
  /\ lastUpdate = 0 /\ marks = 0 /\ configSeq = 1
  /\ cache = NoCache /\ cacheLock = "free"
  /\ dirty = FALSE /\ notifier = "idle"
  /\ build = [b \in Builder |-> NoBuild]
  /\ tab = [up |-> FALSE, sub |-> FALSE, queue |-> <<>>, version |-> 0, seq |-> 0, lu |-> 0,
            blind |-> FALSE]
  /\ drops = 0 /\ rebuilds = 0 /\ restarts = 0

-----------------------------------------------------------------------------
(* A save.                                                                  *)

\* The change row takes its time inside the transaction ...
BeginSave(s) ==
  /\ saving[s].pc = "idle" /\ version < MaxCommits
  /\ \A t \in Saver : saving[t].pc # "commit"
  /\ saving' = [saving EXCEPT ![s] = [pc |-> "commit", dt |-> sec]]
  /\ UNCHANGED <<sec, version, changed, lastUpdate, marks, cache, cacheLock, dirty, notifier, configSeq,
                 build, tab, drops, rebuilds, restarts>>

\* ... which commits, ...
Commit(s) ==
  /\ saving[s].pc = "commit"
  /\ version' = version + 1 /\ changed' = saving[s].dt
  /\ saving' = [saving EXCEPT ![s].pc = "mark"]
  /\ UNCHANGED <<sec, lastUpdate, marks, cache, cacheLock, dirty, notifier, configSeq, build, tab,
                 drops, rebuilds, restarts>>

\* ... and then SetLastUpdate: MarkLastUpdate and NotifyConfigChanged.
SetLastUpdate(s) ==
  /\ saving[s].pc = "mark"
  /\ lastUpdate' = saving[s].dt /\ marks' = marks + 1 /\ dirty' = TRUE
  /\ saving' = [saving EXCEPT ![s] = NoSave]
  /\ UNCHANGED <<sec, version, changed, cache, cacheLock, notifier, configSeq, build, tab, drops, rebuilds, restarts>>

-----------------------------------------------------------------------------
(* configHalf, called by three goroutines.                                  *)

Free(b) == [build EXCEPT ![b] = NoBuild]

\* The marks are read before the lock ...
StartBuild(b) ==
  /\ build[b].pc = "idle"
  /\ \/ b = "push" /\ notifier = "push" /\ tab.sub /\ UNCHANGED rebuilds
     \/ b = "other" /\ rebuilds < MaxRebuilds /\ rebuilds' = rebuilds + 1
  /\ build' = [build EXCEPT ![b] = [NoBuild EXCEPT !.pc = "lock", !.marks = marks]]
  /\ UNCHANGED <<sec, version, changed, hubServer, configSeq, tab, drops, restarts>>

configCacheUsable(b) == cache.valid /\ cache.host = HostOf(b) /\ cache.marks = build[b].marks

\* ... under which the entry is used, or a stamp and a version are taken ...
LockCache(b) ==
  /\ build[b].pc = "lock" /\ cacheLock = "free"
  /\ IF configCacheUsable(b)
     THEN /\ build' = [build EXCEPT ![b].pc = "send", ![b].load = cache]
          /\ UNCHANGED <<cacheLock, configSeq>>
     ELSE /\ cacheLock' = b
          /\ configSeq' = configSeq + 1
          /\ build' = [build EXCEPT ![b].pc = "read",
                         ![b].load = [valid |-> TRUE, host |-> HostOf(b), marks |-> build[b].marks,
                                      stamp |-> sec, seq |-> configSeq + 1, version |-> 0]]
  /\ UNCHANGED <<sec, version, changed, saving, lastUpdate, marks, cache, dirty, notifier, tab, drops,
                 rebuilds, restarts>>

\* ... before the tables are read and the entry is stored.
ReadTables(b) ==
  /\ build[b].pc = "read"
  /\ cache' = [build[b].load EXCEPT !.version = version]
  /\ build' = [build EXCEPT ![b].pc = "send", ![b].load.version = version]
  /\ cacheLock' = "free"
  /\ UNCHANGED <<sec, version, changed, saving, lastUpdate, marks, dirty, notifier, configSeq, tab,
                 drops, rebuilds, restarts>>

\* The entry outlives its TTL.
ExpireCache ==
  /\ cache.valid /\ cacheLock = "free" /\ rebuilds < MaxRebuilds
  /\ rebuilds' = rebuilds + 1
  /\ cache' = NoCache
  /\ UNCHANGED <<sec, version, changed, saving, lastUpdate, marks, cacheLock, dirty, notifier, configSeq,
                 build, tab, drops, restarts>>

\* enqueue: a tab whose buffer is full is dropped.
Enqueue(load) ==
  IF ~tab.up THEN tab
  ELSE IF Len(tab.queue) < SendBuffer THEN [tab EXCEPT !.queue = Append(@, load)]
  ELSE [tab EXCEPT !.up = FALSE, !.sub = FALSE, !.queue = <<>>]

\* The payload is handed on; the other reader's answer goes elsewhere.
SendPayload(b) ==
  /\ build[b].pc = "send"
  /\ build' = Free(b)
  /\ tab' = IF b = "other" THEN tab ELSE Enqueue(build[b].load)
  /\ notifier' = IF b = "push" THEN "idle" ELSE notifier
  /\ UNCHANGED <<sec, version, changed, saving, lastUpdate, marks, cache, cacheLock, dirty, configSeq,
                 drops, rebuilds, restarts>>

-----------------------------------------------------------------------------
(* configNotifier.                                                          *)

Wake ==
  /\ notifier = "idle" /\ dirty
  /\ dirty' = FALSE /\ notifier' = "debounce"
  /\ UNCHANGED <<sec, version, changed, saving, lastUpdate, marks, cache, cacheLock, configSeq, build, tab,
                 drops, rebuilds, restarts>>

\* Nothing is drained: a notification during the debounce or the build earns its
\* own push.
Debounced ==
  /\ notifier = "debounce"
  /\ notifier' = IF tab.sub THEN "push" ELSE "idle"
  /\ UNCHANGED <<sec, version, changed, saving, lastUpdate, marks, cache, cacheLock, dirty, configSeq, build, tab,
                 drops, rebuilds, restarts>>

\* The tab left after the subscribers were listed.
PushNobody ==
  /\ notifier = "push" /\ build["push"].pc = "idle" /\ ~tab.sub
  /\ notifier' = "idle"
  /\ UNCHANGED <<sec, version, changed, saving, lastUpdate, marks, cache, cacheLock, dirty, configSeq,
                 build, tab, drops, rebuilds, restarts>>

-----------------------------------------------------------------------------
(* The tab.                                                                 *)

\* CheckChanges: after a restart the changes table is asked, and the cache warmed.
CheckChanges(lu) == lu = 0 \/ (IF lastUpdate = 0 THEN changed > lu ELSE lastUpdate > lu)

\* The socket is up and subscribes to load: it joins the broadcast set, then the
\* gate decides whether it is answered with the configuration.
SubscribeLoad ==
  /\ ~tab.up /\ build["snap"].pc = "idle"
  /\ tab' = [tab EXCEPT !.up = TRUE, !.sub = TRUE, !.queue = <<>>,
                        !.blind = ~CheckChanges(tab.lu) /\ tab.version < version]
  /\ build' = IF CheckChanges(tab.lu)
              THEN [build EXCEPT !["snap"] = [NoBuild EXCEPT !.pc = "lock", !.marks = marks]] ELSE build
  /\ lastUpdate' = IF lastUpdate = 0 /\ tab.lu > 0 THEN sec ELSE lastUpdate
  /\ UNCHANGED <<sec, version, changed, saving, marks, cache, cacheLock, dirty, notifier, configSeq, drops,
                 rebuilds, restarts>>

\* Mutant: every payload is applied, whatever its version.
ApplyAll(load) == TRUE

\* applyLive: an older configuration than the one on screen is dropped.
ApplyNewer(load) == load.seq > tab.seq

Receive ==
  /\ tab.up /\ tab.queue # <<>>
  /\ LET load == Head(tab.queue)
         next == [tab EXCEPT !.queue = Tail(@)]
     IN  tab' = IF ApplyNewer(load)
                THEN [next EXCEPT !.version = load.version, !.seq = load.seq, !.lu = load.stamp,
                                  !.blind = FALSE]
                ELSE next
  /\ UNCHANGED <<sec, version, changed, hubServer, configSeq, build, drops, rebuilds, restarts>>

\* The socket breaks, and what it had queued is lost.
Disconnect ==
  /\ tab.up /\ drops < MaxDrops
  /\ drops' = drops + 1
  /\ tab' = [tab EXCEPT !.up = FALSE, !.sub = FALSE, !.queue = <<>>]
  /\ UNCHANGED <<sec, version, changed, hubServer, configSeq, build, rebuilds, restarts>>

\* Mutant: the versions start again at zero.
SeqAtStart == 0

\* init: the versions go on from the wall clock, which is ahead of them.
SeqSeed == configSeq + 1

\* The panel's process ends, anywhere, and starts again.
RestartPanel ==
  /\ restarts < MaxRestarts
  /\ restarts' = restarts + 1
  /\ saving' = [s \in Saver |-> NoSave]
  /\ lastUpdate' = 0 /\ marks' = 0 /\ configSeq' = SeqSeed
  /\ cache' = NoCache /\ cacheLock' = "free" /\ dirty' = FALSE /\ notifier' = "idle"
  /\ build' = [b \in Builder |-> NoBuild]
  /\ tab' = [tab EXCEPT !.up = FALSE, !.sub = FALSE, !.queue = <<>>]
  /\ UNCHANGED <<sec, version, changed, drops, rebuilds>>

HubTick ==
  /\ sec < MaxSeconds /\ sec' = sec + 1
  /\ UNCHANGED <<version, changed, hubServer, configSeq, build, tab, drops, rebuilds, restarts>>

HubNext ==
  \/ \E s \in Saver : BeginSave(s) \/ Commit(s) \/ SetLastUpdate(s)
  \/ \E b \in Builder : StartBuild(b) \/ LockCache(b) \/ ReadTables(b) \/ SendPayload(b)
  \/ ExpireCache \/ Wake \/ Debounced \/ PushNobody
  \/ SubscribeLoad \/ Receive \/ Disconnect \/ RestartPanel \/ HubTick

HubSpec == HubInit /\ [][HubNext]_hubVars

\* The server's goroutines go on with what they have begun, and the tab redials
\* and reads.  None of it lasts for ever, so some step of it each time is enough.
HubWork ==
  \/ \E s \in Saver : Commit(s) \/ SetLastUpdate(s)
  \/ \E b \in Builder : LockCache(b) \/ ReadTables(b) \/ SendPayload(b)
  \/ StartBuild("push") \/ Wake \/ Debounced \/ PushNobody
  \/ SubscribeLoad \/ Receive

-----------------------------------------------------------------------------
(* Properties.                                                              *)

HubTypeOK ==
  /\ version \in 0 .. MaxCommits /\ tab.version \in 0 .. MaxCommits
  /\ \A b \in Builder : build[b].pc \in {"idle", "lock", "read", "send"}
  /\ cacheLock \in {"free"} \cup Builder /\ notifier \in {"idle", "debounce", "push"}
  /\ Len(tab.queue) <= SendBuffer

\* Whatever order pushes and answers are built and delivered in, across lost
\* sockets and restarts, a tab's configuration never goes back to an older one,
\* and it is never the one of another hostname.
TabNeverBack == [][tab'.version >= tab.version]_hubVars
OwnHost == \A i \in DOMAIN tab.queue : tab.queue[i].host = 1

\* A tab that is behind catches up, unless the gate told it on a reconnect that
\* nothing had changed: its configuration was stamped in the second of the change
\* it does not have (or a later one was marked before it).
TabCatchesUp == tab.version < version ~> (tab.version = version \/ tab.blind)

\* "a change committing during the build is then strictly newer than the stamp, so
\* the next gate still reports it" (paneldata.go:202): no tab stays behind.
\* A blind tab refutes it (README, section 6).
GateReports == tab.version < version ~> tab.version = version

\* What a tab is shown is never older than what it had, nor another hostname's.
HubSafety == [](HubTypeOK /\ OwnHost) /\ TabNeverBack
=============================================================================
