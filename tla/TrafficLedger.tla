--------------------------- MODULE TrafficLedger ---------------------------
(***************************************************************************)
(* Where every byte the core counted is, until it is charged to a client.  *)
(*                                                                         *)
(* core/tracker_stats.go (GetStats empties the counters, Reset drops       *)
(* them), service/stats.go (SaveStats, the pending buffer, carryOverStats, *)
(* FlushStats), cronjob/statsJob.go (one run at a time) and the shutdown   *)
(* of app/app.go.                                                          *)
(*                                                                         *)
(* Traffic is a set of chunks: a chunk is a number of bytes added to one   *)
(* counter, and KeyOf gives the (resource, tag, direction) of that         *)
(* counter.  A statistics row is the set of the chunks summed in it, so    *)
(* adding two rows is the union of disjoint sets, and a byte lost or       *)
(* counted twice is a chunk missing or present twice.                      *)
(***************************************************************************)
EXTENDS Integers, FiniteSets

CONSTANTS
  Chunk,     \* the traffic that will go through the core
  Key,       \* (resource, tag, direction) of a counter
  KeyOf,     \* [Chunk -> Key]
  UserKey,   \* the keys whose traffic is charged to a client
  Flusher,   \* goroutines that run StatsJob.Run
  Cap,       \* maxPendingStats
  Fault,     \* "commit": a flush may fail; "crash": the process may be killed
  None

ASSUME LedgerConstants ==
  /\ KeyOf \in [Chunk -> Key]
  /\ UserKey \subseteq Key
  /\ Cap \in Nat
  /\ None \notin Flusher

VARIABLES
  fresh,      \* traffic that has not gone through yet
  counter,    \* the running tracker's counters
  hand,       \* what a flush has drained and taken and not committed
  pc,         \* where a flush is
  job,        \* StatsJob.running: the flush holding it, or None
  pending,    \* pendingStats: rows owed to the database
  carried,    \* what carryOverStats has drained and not yet handed over
  core,       \* "up", "carrying", "closing" or "down"
  clients,    \* user keys that have a client row
  edited,     \* user keys whose client row was not always there
  committed,  \* traffic whose flush committed
  charged,    \* traffic added to a client's up or down
  lost,       \* traffic nothing remembers any more
  late,       \* traffic counted after the drain of a stop
  dropped,    \* traffic the cap of the buffer dropped or a process end took
  phase,      \* the panel: "up", "flush", "flushing", "retire", "stopped"
  due,        \* what had been counted when app.Stop asked for the last flush
  cut         \* of that, what the exit lost

tracker == <<fresh, counter, late>>
flushes == <<hand, pc, job>>
books   == <<clients, edited, committed, charged>>
exits   == <<phase, due, cut>>
vars == <<tracker, flushes, pending, carried, core, books, lost, dropped, exits>>

UserChunk == {c \in Chunk : KeyOf[c] \in UserKey}

\* The rows of a drain: one per key that moved traffic.
RowsOf(S) == {{c \in S : KeyOf[c] = k} : k \in {KeyOf[c] : c \in S}}

\* The traffic in the buffer.
Pending == UNION pending

Init ==
  /\ fresh = Chunk
  /\ counter = {} /\ carried = {} /\ pending = {}
  /\ hand = [f \in Flusher |-> {}]
  /\ pc = [f \in Flusher |-> "idle"]
  /\ job = None
  /\ core = "down"
  /\ clients = UserKey /\ edited = {}
  /\ committed = {} /\ charged = {} /\ lost = {} /\ late = {} /\ dropped = {}
  /\ phase = "up"
  /\ due = {} /\ cut = {}

-----------------------------------------------------------------------------
(* The core.                                                                *)

\* A routed connection adds to a counter, until the box is closed.
Move(c) ==
  /\ core # "down"
  /\ c \in fresh
  /\ fresh' = fresh \ {c}
  /\ counter' = counter \cup {c}
  /\ late' = IF core = "up" THEN late ELSE late \cup {c}
  /\ UNCHANGED <<flushes, pending, carried, core, books, lost, dropped, exits>>

StartCore ==
  /\ core = "down"
  /\ phase = "up"
  /\ core' = "up"
  /\ UNCHANGED <<tracker, flushes, pending, carried, books, lost, dropped, exits>>

\* keepPendingLocked: no more than Cap rows stay.  Which ones go depends on the
\* order GetStats met the keys in, a map's; the model leaves it open.
KeepPending(rows) ==
  \E kept \in SUBSET rows :
    /\ Cardinality(kept) = IF Cardinality(rows) > Cap THEN Cap ELSE Cardinality(rows)
    /\ pending' = kept
    /\ lost' = lost \cup (UNION (rows \ kept))
    /\ dropped' = dropped \cup (UNION (rows \ kept))

\* Mutant: the core is stopped without carrying its counts over.
CloseFirst ==
  /\ core = "up"
  /\ core' = "closing"
  /\ UNCHANGED <<tracker, flushes, pending, carried, books, lost, dropped, exits>>

\* carryOverStats, of every stop: the drain ...
CarryDrain ==
  /\ core = "up"
  /\ phase \in {"up", "retire"}
  /\ core' = "carrying"
  /\ carried' = counter
  /\ counter' = {}
  /\ UNCHANGED <<fresh, late, flushes, pending, books, lost, dropped, exits>>

\* ... and carryPending; then the core is published as down.
CarryHold ==
  /\ core = "carrying"
  /\ KeepPending(pending \cup RowsOf(carried))
  /\ carried' = {}
  /\ core' = "closing"
  /\ UNCHANGED <<tracker, flushes, books, exits>>

\* Box.Close: the connections end and the tracker is reset.  A flush that had
\* looked this box up finds nothing in it from now on, whatever runs next.
CloseCore ==
  /\ core = "closing"
  /\ core' = "down"
  /\ lost' = lost \cup counter
  /\ counter' = {}
  /\ pc' = [f \in Flusher |-> IF pc[f] = "drain" THEN "take" ELSE pc[f]]
  /\ UNCHANGED <<fresh, late, hand, job, pending, carried, books, dropped, exits>>

-----------------------------------------------------------------------------
(* StatsJob.Run and SaveStats.                                              *)

Goto(f, label) == pc' = [pc EXCEPT ![f] = label]

\* The end of a run.  A panel restart made a new job with a lock of its own,
\* so a run older than that gives back nothing.
Finish(f) ==
  /\ Goto(f, "idle")
  /\ job' = IF job = f THEN None ELSE job

\* running.TryLock, on a cron tick.
StartFlush(f) ==
  /\ phase = "up"
  /\ job = None
  /\ pc[f] = "idle"
  /\ job' = f
  /\ Goto(f, "look")
  /\ UNCHANGED <<tracker, hand, pending, carried, core, books, lost, dropped, exits>>

\* Mutant: a core that is down ends the run before the buffer is looked at.
LookOrEnd(f) ==
  /\ pc[f] = "look"
  /\ IF core \in {"up", "carrying"} THEN Goto(f, "drain") /\ UNCHANGED job ELSE Finish(f)
  /\ UNCHANGED <<tracker, hand, pending, carried, core, books, lost, dropped, exits>>

\* IsRunning and GetInstance: which box to drain, if any.
Look(f) ==
  /\ pc[f] = "look"
  /\ Goto(f, IF core \in {"up", "carrying"} THEN "drain" ELSE "take")
  /\ UNCHANGED <<tracker, hand, job, pending, carried, core, books, lost, dropped, exits>>

\* Mutant: the counters are read and not emptied.
DrainRead(f) ==
  /\ pc[f] = "drain"
  /\ hand' = [hand EXCEPT ![f] = counter]
  /\ Goto(f, "take")
  /\ UNCHANGED <<tracker, job, pending, carried, core, books, lost, dropped, exits>>

\* GetStats: each counter is swapped for zero.
Drain(f) ==
  /\ pc[f] = "drain"
  /\ hand' = [hand EXCEPT ![f] = counter]
  /\ counter' = {}
  /\ Goto(f, "take")
  /\ UNCHANGED <<fresh, late, job, pending, carried, core, books, lost, dropped, exits>>

\* takePending and mergeStats: from here on one row per key.
TakePending(f) ==
  /\ pc[f] = "take"
  /\ hand' = [hand EXCEPT ![f] = @ \cup Pending]
  /\ pending' = {}
  /\ IF hand'[f] = {} THEN Finish(f) ELSE Goto(f, "commit") /\ UNCHANGED job
  /\ UNCHANGED <<tracker, carried, core, books, lost, dropped, exits>>

\* Mutant: the counters are written row by row, outside a transaction.
CommitPart(f) ==
  /\ pc[f] = "commit"
  /\ \E part \in SUBSET hand[f] :
       /\ committed' = committed \cup hand[f]
       /\ charged' = charged \cup {c \in part : KeyOf[c] \in clients}
  /\ hand' = [hand EXCEPT ![f] = {}]
  /\ Finish(f)
  /\ UNCHANGED <<tracker, pending, carried, core, clients, edited, lost, dropped, exits>>

\* Mutant: the rows of inbounds and outbounds are charged too.
CommitEveryRow(f) ==
  /\ pc[f] = "commit"
  /\ committed' = committed \cup hand[f]
  /\ charged' = charged \cup hand[f]
  /\ hand' = [hand EXCEPT ![f] = {}]
  /\ Finish(f)
  /\ UNCHANGED <<tracker, pending, carried, core, clients, edited, lost, dropped, exits>>

\* The transaction: UPDATE clients ... WHERE name = ?, which finds no row for a
\* client deleted or renamed meanwhile.
Commit(f) ==
  /\ pc[f] = "commit"
  /\ committed' = committed \cup hand[f]
  /\ charged' = charged \cup {c \in hand[f] : KeyOf[c] \in clients}
  /\ hand' = [hand EXCEPT ![f] = {}]
  /\ Finish(f)
  /\ UNCHANGED <<tracker, pending, carried, core, clients, edited, lost, dropped, exits>>

\* Mutant: the batch replaces what was carried over while it ran.
FailReplaces(f) ==
  /\ pc[f] = "commit"
  /\ "commit" \in Fault
  /\ KeepPending(RowsOf(hand[f]))
  /\ hand' = [hand EXCEPT ![f] = {}]
  /\ Finish(f)
  /\ UNCHANGED <<tracker, carried, core, books, exits>>

\* The rollback, or a commit that failed: holdPending.
Fail(f) ==
  /\ pc[f] = "commit"
  /\ "commit" \in Fault
  /\ KeepPending(RowsOf(hand[f]) \cup pending)
  /\ hand' = [hand EXCEPT ![f] = {}]
  /\ Finish(f)
  /\ UNCHANGED <<tracker, carried, core, books, exits>>

\* A save deletes or renames a client, or adds one under a name used before.
EditClients(k) ==
  /\ clients' = IF k \in clients THEN clients \ {k} ELSE clients \cup {k}
  /\ edited' = edited \cup {k}
  /\ UNCHANGED <<tracker, flushes, pending, carried, core, committed, charged, lost, dropped, exits>>

-----------------------------------------------------------------------------
(* app.Stop, and what follows it.                                           *)

\* The cron scheduler stops: no new tick, but a run under way goes on.
StopPanel ==
  /\ phase = "up"
  /\ phase' = "flush"
  /\ due' = counter \cup Pending
  /\ UNCHANGED <<tracker, flushes, pending, carried, core, books, lost, dropped, cut>>

\* FlushStats: StatsJob.Run once more, which gives up when a run is under way.
FlushStats(f) ==
  /\ phase = "flush"
  /\ IF job = None
     THEN /\ pc[f] = "idle"
          /\ job' = f
          /\ Goto(f, "look")
          /\ phase' = "flushing"
     ELSE phase' = "retire" /\ UNCHANGED <<job, pc>>
  /\ UNCHANGED <<tracker, hand, pending, carried, core, books, lost, dropped, due, cut>>

\* Its return.
Flushed ==
  /\ phase = "flushing"
  /\ job = None
  /\ phase' = "retire"
  /\ UNCHANGED <<tracker, flushes, pending, carried, core, books, lost, dropped, due, cut>>

\* RetireCore has returned.
Retired ==
  /\ phase = "retire"
  /\ core = "down"
  /\ phase' = "stopped"
  /\ UNCHANGED <<tracker, flushes, pending, carried, core, books, lost, dropped, due, cut>>

\* SIGHUP: app.Start in the same process, with a new StatsJob.
RestartPanel ==
  /\ phase = "stopped"
  /\ phase' = "up"
  /\ job' = None
  /\ due' = {}
  /\ UNCHANGED <<tracker, hand, pc, pending, carried, core, books, lost, dropped, cut>>

InMemory ==
  counter \cup carried \cup Pending \cup {c \in Chunk : \E f \in Flusher : c \in hand[f]}

\* The process ends and another begins, with nothing but the database.
EndProcess ==
  /\ lost' = lost \cup InMemory
  /\ dropped' = dropped \cup InMemory
  /\ cut' = cut \cup (due \cap InMemory)
  /\ counter' = {} /\ carried' = {} /\ pending' = {}
  /\ hand' = [f \in Flusher |-> {}]
  /\ pc' = [f \in Flusher |-> "idle"]
  /\ job' = None
  /\ core' = "down"
  /\ phase' = "up"
  /\ due' = {}
  /\ UNCHANGED <<fresh, late, books>>

Exit == phase = "stopped" /\ EndProcess

\* Killed: no app.Stop, so nothing was promised.
Crash ==
  /\ "crash" \in Fault
  /\ phase = "up"
  /\ EndProcess

Next ==
  \/ \E c \in Chunk : Move(c)
  \/ StartCore \/ CarryDrain \/ CarryHold \/ CloseCore
  \/ \E f \in Flusher :
       \/ StartFlush(f) \/ Look(f) \/ Drain(f) \/ TakePending(f)
       \/ Commit(f) \/ Fail(f) \/ FlushStats(f)
  \/ \E k \in UserKey : EditClients(k)
  \/ StopPanel \/ Flushed \/ Retired \/ RestartPanel \/ Exit \/ Crash

Spec == Init /\ [][Next]_vars

\* Cron keeps ticking and a run that began goes on; the panel that was stopped
\* is restarted or ended; a database that refuses writes accepts one some day.
Fairness ==
  /\ \A f \in Flusher :
       /\ WF_vars(StartFlush(f) \/ Look(f) \/ Drain(f) \/ TakePending(f))
       /\ SF_vars(Commit(f))
  /\ WF_vars(CarryHold \/ CloseCore)
  /\ WF_vars(CarryDrain /\ phase = "retire")
  /\ WF_vars((\E f \in Flusher : FlushStats(f)) \/ Flushed \/ Retired \/ RestartPanel)

LiveSpec == Spec /\ Fairness

-----------------------------------------------------------------------------
(* Properties.                                                              *)

TypeOK ==
  /\ fresh \subseteq Chunk /\ counter \subseteq Chunk /\ carried \subseteq Chunk
  /\ hand \in [Flusher -> SUBSET Chunk]
  /\ pc \in [Flusher -> {"idle", "look", "drain", "take", "commit"}]
  /\ job \in Flusher \cup {None}
  /\ pending \subseteq SUBSET Chunk
  /\ core \in {"up", "carrying", "closing", "down"}
  /\ clients \subseteq UserKey /\ edited \subseteq UserKey
  /\ committed \subseteq Chunk /\ charged \subseteq UserChunk
  /\ lost \subseteq Chunk /\ late \subseteq Chunk /\ dropped \subseteq Chunk
  /\ phase \in {"up", "flush", "flushing", "retire", "stopped"}
  /\ due \subseteq Chunk /\ cut \subseteq Chunk

\* Every byte is in exactly one place: a drain, a retry, a core restart, a
\* failed commit or a killed process neither forgets it unnoticed nor leaves it
\* where a second flush would charge it again.
Conservation ==
  /\ \A c \in Chunk :
       \/ c \in fresh \/ c \in counter \/ c \in carried \/ c \in Pending
       \/ c \in committed \/ c \in lost \/ \E f \in Flusher : c \in hand[f]
  /\ fresh \cap (counter \cup carried \cup Pending \cup committed \cup lost) = {}
  /\ counter \cap (carried \cup Pending \cup committed \cup lost) = {}
  /\ carried \cap (Pending \cup committed \cup lost) = {}
  /\ Pending \cap (committed \cup lost) = {}
  /\ committed \cap lost = {}
  /\ \A f \in Flusher :
       hand[f] \cap (fresh \cup counter \cup carried \cup Pending \cup committed \cup lost) = {}
  /\ \A f, g \in Flusher : f # g => hand[f] \cap hand[g] = {}
  /\ \A r, s \in pending : r # s => r \cap s = {}

\* A client whose row was there all along has been charged for every byte that
\* was committed under its name, and nobody for a byte that was not.
ChargedIsCommitted ==
  /\ charged \subseteq committed
  /\ \A c \in committed \cap UserChunk : KeyOf[c] \notin edited => c \in charged

\* A stop of the core loses only what was counted after its drain; all else was
\* dropped by the cap of the buffer or went with the process.
StopLosesOnlyLate == lost \ dropped \subseteq late

\* app.Stop "commits what the core has counted": an orderly exit loses nothing
\* that had been counted when it asked for the last flush.  A flush of the cron that
\* is still running refutes it (README, section 6).
ExitKeepsTraffic == cut = {}

\* The ledger implements the bill (module TrafficBill): whatever the counters, the
\* flushes, the buffer and the stops do, what they add up to is traffic that is
\* counted once, then settled and billed in one step, or given up.
Bill == INSTANCE TrafficBill WITH open <- InMemory, settled <- committed, billed <- charged, gone <- lost
BillKept == Bill!Spec

\* Traffic that was counted is charged in the end, or known to be lost.
Delivered == \A c \in Chunk : (c \in counter) ~> (c \in committed \cup lost)

=============================================================================
