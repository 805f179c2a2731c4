---------------------------- MODULE StatsHistory ----------------------------
(***************************************************************************)
(* The traffic history: the stats table, the switch that turns it off      *)
(* (trafficAge) and the per-inbound totals kept in memory beside it.       *)
(*                                                                         *)
(* service/stats.go (SaveStats, addInboundTraffic, GetInboundTraffic,      *)
(* InvalidateInboundTraffic, PurgeTrafficHistoryIfDisabled, DelOldStats)   *)
(* and the trafficAge branch of service/setting.go.                        *)
(*                                                                         *)
(* The totals are seeded from the table and advanced by each drain, so     *)
(* they are right only if the two never cover the same traffic and never   *)
(* miss any.  Traffic is a set of chunks of one inbound; the totals say    *)
(* how many times each chunk was counted.                                  *)
(*                                                                         *)
(* SQLite runs in WAL mode with immediate transactions: one writer at a    *)
(* time, and a reader sees what was committed when it read.                *)
(***************************************************************************)
EXTENDS Naturals

CONSTANTS
  Chunk,     \* traffic of one inbound
  Flusher,   \* goroutines in SaveStatsForCurrentSettings
  Fault,     \* "seed": reading the table may fail; "commit": a flush may fail
  Purge,     \* whether trafficAge is ever 0
  Saver,     \* the goroutine in SettingService.Save, or in app.Start
  None

ASSUME HistoryConstants ==
  /\ Purge \in BOOLEAN
  /\ Saver \notin Flusher
  /\ None \notin Flusher \cup {Saver}

VARIABLES
  age,       \* trafficAge > 0, as committed
  fresh,     \* traffic the core has not counted yet
  table,     \* the stats rows of the inbound, as committed
  pend,      \* pendingStats
  total,     \* inboundTraffic
  seeded,    \* inboundTrafficSeeded
  lock,      \* the goroutine in a write transaction
  pc,        \* where a flush is
  enable,    \* trafficAge > 0, as the flush read it
  got,       \* the flush's own drain
  hand,      \* its batch: the drain and what was pending
  carried,   \* what carryOverStats has folded and not yet handed over
  save,      \* where the save is: "idle", "on", "off", "dropped", "start"
  cleaner,   \* DelStatsJob has read a retention and not deleted yet
  stale,     \* flushes that read the switch before a save turned it off
  late,      \* what such a flush wrote
  purged     \* what a save, or the start of the panel, deleted

memory == <<total, seeded>>
batch  == <<got, hand>>
flush  == <<pc, enable, batch>>
ghosts == <<stale, late, purged>>
vars == <<age, fresh, table, pend, memory, lock, flush, carried, save, cleaner, ghosts>>

Zero == [c \in Chunk |-> 0]
CountsOf(S) == [c \in Chunk |-> IF c \in S THEN 1 ELSE 0]
Added(t, S) == [c \in Chunk |-> IF c \in S THEN t[c] + 1 ELSE t[c]]

Init ==
  /\ age \in BOOLEAN /\ (age \/ Purge)
  /\ fresh = Chunk
  /\ table = {} /\ pend = {} /\ carried = {}
  /\ total = Zero /\ seeded = FALSE
  /\ lock = None
  /\ pc = [f \in Flusher |-> "idle"]
  /\ enable = [f \in Flusher |-> FALSE]
  /\ got = [f \in Flusher |-> {}]
  /\ hand = [f \in Flusher |-> {}]
  /\ save = "idle" /\ cleaner = FALSE
  /\ stale = {} /\ late = {} /\ purged = {}

-----------------------------------------------------------------------------
(* The totals.                                                              *)

\* seedInboundTrafficLocked: once, from the rows that are committed now.
Seeded == IF seeded THEN total ELSE CountsOf(table)

\* addInboundTraffic.  A seed that fails drops the delta.
AddInboundTraffic(S) ==
  \/ seeded' = TRUE /\ total' = Added(Seeded, S)
  \/ "seed" \in Fault /\ ~seeded /\ UNCHANGED memory

\* GetInboundTraffic, for a page or the live payload.
Read ==
  /\ save # "start"
  /\ ~seeded
  /\ AddInboundTraffic({})
  /\ UNCHANGED <<age, fresh, table, pend, lock, flush, carried, save, cleaner, ghosts>>

\* InvalidateInboundTraffic.
Invalidate == total' = Zero /\ seeded' = FALSE

-----------------------------------------------------------------------------
(* A flush.                                                                 *)

Goto(f, label) == pc' = [pc EXCEPT ![f] = label]

\* Mutant: the switch as it was when the job was registered.
ReadAgeOnce(f) ==
  /\ pc[f] = "idle" /\ save # "start"
  /\ Goto(f, "drain")
  /\ enable' = [enable EXCEPT ![f] = @ \/ age]
  /\ UNCHANGED <<age, fresh, table, pend, memory, lock, batch, carried, save, cleaner, ghosts>>

\* SaveStatsForCurrentSettings reads the switch first.
ReadAge(f) ==
  /\ pc[f] = "idle" /\ save # "start"
  /\ Goto(f, "drain")
  /\ enable' = [enable EXCEPT ![f] = age]
  /\ UNCHANGED <<age, fresh, table, pend, memory, lock, batch, carried, save, cleaner, ghosts>>

\* GetStats, of whatever went through since the last drain.
Drain(f) ==
  /\ pc[f] = "drain"
  /\ \E S \in SUBSET fresh :
       /\ fresh' = fresh \ S
       /\ got' = [got EXCEPT ![f] = S]
       /\ hand' = [hand EXCEPT ![f] = S]
  /\ Goto(f, "take")
  /\ UNCHANGED <<age, table, pend, memory, lock, enable, carried, save, cleaner, ghosts>>

Done(f) ==
  /\ Goto(f, "idle")
  /\ got' = [got EXCEPT ![f] = {}]
  /\ hand' = [hand EXCEPT ![f] = {}]
  /\ stale' = stale \ {f}

\* takePending; with nothing at all to write the run ends here.
Take(f) ==
  /\ pc[f] = "take"
  /\ IF hand[f] \cup pend = {}
     THEN Done(f)
     ELSE /\ hand' = [hand EXCEPT ![f] = @ \cup pend]
          /\ Goto(f, "begin")
          /\ UNCHANGED <<got, stale>>
  /\ pend' = {}
  /\ UNCHANGED <<age, fresh, table, memory, lock, enable, carried, save, cleaner, late, purged>>

\* db.Begin: an immediate transaction waits for the write lock.
Begin(f) ==
  /\ pc[f] = "begin"
  /\ lock = None
  /\ lock' = f
  /\ Goto(f, "fold")
  /\ UNCHANGED <<age, fresh, table, pend, memory, enable, batch, carried, save, cleaner, ghosts>>

\* Mutant: the whole batch is folded, a retried window with it.
FoldBatch(f) ==
  /\ pc[f] = "fold"
  /\ AddInboundTraffic(hand[f])
  /\ Goto(f, "write")
  /\ UNCHANGED <<age, fresh, table, pend, lock, enable, batch, carried, save, cleaner, ghosts>>

\* The drain's deltas, before its rows are written.
Fold(f) ==
  /\ pc[f] = "fold"
  /\ AddInboundTraffic(got[f])
  /\ Goto(f, "write")
  /\ UNCHANGED <<age, fresh, table, pend, lock, enable, batch, carried, save, cleaner, ghosts>>

\* The upsert, when history was on, and the commit.
Write(f) ==
  /\ pc[f] = "write"
  /\ table' = IF enable[f] THEN table \cup hand[f] ELSE table
  /\ late' = IF enable[f] /\ f \in stale THEN late \cup hand[f] ELSE late
  /\ lock' = None
  /\ Done(f)
  /\ UNCHANGED <<age, fresh, pend, memory, enable, carried, save, cleaner, purged>>

\* The rollback, or the commit that failed: holdPending.
Fail(f) ==
  /\ pc[f] = "write"
  /\ "commit" \in Fault
  /\ pend' = pend \cup hand[f]
  /\ lock' = None
  /\ Done(f)
  /\ UNCHANGED <<age, fresh, table, memory, enable, carried, save, cleaner, late, purged>>

\* carryOverStats, before the core stops: it drains and folds ...
CarryFold ==
  /\ carried = {}
  /\ \E S \in SUBSET fresh \ {{}} :
       /\ carried' = S
       /\ fresh' = fresh \ S
       /\ AddInboundTraffic(S)
  /\ UNCHANGED <<age, table, pend, lock, flush, save, cleaner, ghosts>>

\* ... and leaves the rows to the next flush.
CarryHold ==
  /\ carried # {}
  /\ pend' = pend \cup carried
  /\ carried' = {}
  /\ UNCHANGED <<age, fresh, table, memory, lock, flush, save, cleaner, ghosts>>

-----------------------------------------------------------------------------
(* The switch.                                                              *)

\* A save of trafficAge is in its transaction.
BeginSave(kind) ==
  /\ save = "idle"
  /\ kind = "off" => Purge
  /\ lock = None
  /\ lock' = Saver
  /\ save' = kind
  /\ UNCHANGED <<age, fresh, table, pend, memory, flush, carried, cleaner, ghosts>>

\* A save of 0 deletes the rows, in the transaction, and drops the totals.
DropTotals ==
  /\ save = "off"
  /\ Invalidate
  /\ save' = "dropped"
  /\ UNCHANGED <<age, fresh, table, pend, lock, flush, carried, cleaner, ghosts>>

\* The end of ConfigService.Save: a commit ...
CommitSave ==
  /\ save \in {"on", "dropped"}
  /\ age' = (save = "on")
  /\ table' = IF save = "on" THEN table ELSE {}
  /\ purged' = IF save = "on" THEN purged ELSE purged \cup table
  /\ stale' = IF save = "on" THEN {} ELSE {f \in Flusher : pc[f] # "idle" /\ enable[f]}
  /\ lock' = None /\ save' = "idle"
  /\ UNCHANGED <<fresh, pend, memory, flush, carried, cleaner, late>>

\* ... or a rollback, when anything after the purge failed.
RollbackSave ==
  /\ save \in {"on", "off", "dropped"}
  /\ lock' = None /\ save' = "idle"
  /\ UNCHANGED <<age, fresh, table, pend, memory, flush, carried, cleaner, ghosts>>

\* PurgeTrafficHistoryIfDisabled, at the start of the panel: no page is served
\* and no flush begins, but one of before a restart may still be running.
StartPurge ==
  /\ save = "idle"
  /\ ~age
  /\ lock = None
  /\ table' = {}
  /\ purged' = purged \cup table
  /\ save' = "start"
  /\ UNCHANGED <<age, fresh, pend, memory, lock, flush, carried, cleaner, stale, late>>

StartDrop ==
  /\ save = "start"
  /\ Invalidate
  /\ save' = "idle"
  /\ UNCHANGED <<age, fresh, table, pend, lock, flush, carried, cleaner, ghosts>>

\* DelStatsJob reads the retention ...
ReadRetention ==
  /\ age
  /\ ~cleaner
  /\ cleaner' = TRUE
  /\ UNCHANGED <<age, fresh, table, pend, memory, lock, flush, carried, save, ghosts>>

\* ... and deletes what is older; the totals keep counting it.
DelOldStats ==
  /\ cleaner
  /\ lock = None
  /\ \E old \in SUBSET table : table' = table \ old
  /\ cleaner' = FALSE
  /\ UNCHANGED <<age, fresh, pend, memory, lock, flush, carried, save, ghosts>>

Next ==
  \/ Read
  \/ \E f \in Flusher :
       \/ ReadAge(f) \/ Drain(f) \/ Take(f) \/ Begin(f) \/ Fold(f) \/ Write(f) \/ Fail(f)
  \/ CarryFold \/ CarryHold
  \/ \E kind \in {"on", "off"} : BeginSave(kind)
  \/ DropTotals \/ CommitSave \/ RollbackSave \/ StartPurge \/ StartDrop
  \/ ReadRetention \/ DelOldStats

Spec == Init /\ [][Next]_vars

-----------------------------------------------------------------------------
(* Properties.                                                              *)

TypeOK ==
  /\ age \in BOOLEAN /\ seeded \in BOOLEAN /\ cleaner \in BOOLEAN
  /\ fresh \subseteq Chunk /\ table \subseteq Chunk /\ pend \subseteq Chunk
  /\ carried \subseteq Chunk /\ late \subseteq Chunk /\ purged \subseteq Chunk
  /\ total \in [Chunk -> Nat]
  /\ lock \in Flusher \cup {Saver, None}
  /\ pc \in [Flusher -> {"idle", "drain", "take", "begin", "fold", "write"}]
  /\ enable \in [Flusher -> BOOLEAN]
  /\ got \in [Flusher -> SUBSET Chunk] /\ hand \in [Flusher -> SUBSET Chunk]
  /\ save \in {"idle", "on", "off", "dropped", "start"}
  /\ stale \subseteq Flusher

\* addInboundTraffic: "the seed and the deltas never cover the same bytes",
\* whatever is retried, carried over or invalidated meanwhile.
NeverTwice == \A c \in Chunk : total[c] <= 1

\* With history off the table holds nothing, but for what a flush that had read
\* the switch before the save wrote after it.
OffKeepsLateOnly == ~age => table \subseteq late

\* Every row of the table is in the totals: while the switch is never turned
\* off, they are never behind the history they stand for.
Covered == seeded => \A c \in table : total[c] = 1

\* InvalidateInboundTraffic: "the rebuild reads whatever survived", so the
\* totals do not count what a save of 0 deleted.  A page loaded before the commit
\* refutes it (README, section 6).
PurgedForgotten == save = "idle" => \A c \in purged : total[c] = 0

=============================================================================
