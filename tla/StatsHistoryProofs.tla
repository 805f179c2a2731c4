------------------------- MODULE StatsHistoryProofs -------------------------
(***************************************************************************)
(* The traffic history, for every set of chunks and flushes and every      *)
(* choice of faults, and the schedules that reset traffic, for every       *)
(* calendar, set of periods and clock.                                     *)
(*                                                                         *)
(* NeverTwice rests on where a chunk can be: what was drained and not yet  *)
(* written is in one place and not in the table (PlaceInv), so the seed    *)
(* cannot count it before its delta does (CountInv).  Covered needs more,  *)
(* and holds only where seeding never fails and history is never turned    *)
(* off: then whatever is on its way to the table was folded already        *)
(* (FoldedInv).                                                            *)
(***************************************************************************)
EXTENDS StatsHistory, ClientSchedule, WellFoundedInduction, TLAPS

PlaceInv ==
  /\ fresh \cap (table \cup pend \cup carried) = {}
  /\ table \cap (pend \cup carried) = {}
  /\ pend \cap carried = {}
  /\ \A f \in Flusher :
       /\ got[f] \subseteq hand[f]
       /\ hand[f] \cap (fresh \cup table \cup pend \cup carried) = {}
       /\ pc[f] \in {"idle", "drain"} => hand[f] = {}
       /\ pc[f] = "take" => hand[f] = got[f]
  /\ \A f, g \in Flusher : f # g => hand[f] \cap hand[g] = {}

CountInv ==
  /\ \A c \in Chunk : total[c] <= 1
  /\ ~seeded => \A c \in Chunk : total[c] = 0
  /\ \A c \in fresh : total[c] = 0
  /\ \A f \in Flusher : pc[f] # "write" => \A c \in got[f] : total[c] = 0

StaleInv ==
  ~age => \A f \in Flusher : (pc[f] # "idle" /\ enable[f]) => f \in stale

IInv == TypeOK /\ PlaceInv /\ CountInv /\ StaleInv /\ OffKeepsLateOnly

OnInv == age /\ save \in {"idle", "on"}

\* What the totals already count: all but the drains that are not folded yet.
Folded(c) ==
  \/ c \in table \/ c \in pend \/ c \in carried
  \/ \E f \in Flusher : c \in hand[f] /\ (c \in got[f] => pc[f] = "write")

FoldedInv == \A c \in Chunk : Folded(c) => seeded /\ total[c] >= 1

-----------------------------------------------------------------------------
(* Folding a drain.                                                         *)

LEMMA AddTypes ==
  ASSUME TypeOK, NEW S, AddInboundTraffic(S)
  PROVE  total' \in [Chunk -> Nat] /\ seeded' \in BOOLEAN
<1>1. Seeded \in [Chunk -> Nat]
  BY DEF TypeOK, Seeded, CountsOf
<1>2. Added(Seeded, S) \in [Chunk -> Nat]
  BY <1>1 DEF Added
<1> QED
  BY <1>2 DEF TypeOK, AddInboundTraffic, memory

-----------------------------------------------------------------------------
(* Each part of the invariant, step by step.                                *)

\* Types are preserved by every step.
LEMMA TypeOKStep ==
  ASSUME TypeOK, [Next]_vars
  PROVE  TypeOK'
<1>1. CASE Read
  <2>1. total' \in [Chunk -> Nat] /\ seeded' \in BOOLEAN
    BY <1>1, AddTypes DEF Read
  <2> QED
    BY <1>1, <2>1, HistoryConstants DEF TypeOK, Read, memory, flush, batch, ghosts
<1>2. ASSUME NEW f \in Flusher, ReadAge(f) PROVE TypeOK'
  BY <1>2, HistoryConstants DEF TypeOK, ReadAge, Goto, memory, flush, batch, ghosts
<1>3. ASSUME NEW f \in Flusher, Drain(f) PROVE TypeOK'
  BY <1>3, HistoryConstants DEF TypeOK, Drain, Goto, memory, flush, batch, ghosts
<1>4. ASSUME NEW f \in Flusher, Take(f) PROVE TypeOK'
  BY <1>4, HistoryConstants DEF TypeOK, Take, Done, Goto, memory, flush, batch, ghosts
<1>5. ASSUME NEW f \in Flusher, Begin(f) PROVE TypeOK'
  BY <1>5, HistoryConstants DEF TypeOK, Begin, Goto, memory, flush, batch, ghosts
<1>6. ASSUME NEW f \in Flusher, Fold(f) PROVE TypeOK'
  <2>1. total' \in [Chunk -> Nat] /\ seeded' \in BOOLEAN
    BY <1>6, AddTypes DEF Fold
  <2> QED
    BY <1>6, <2>1, HistoryConstants DEF TypeOK, Fold, Goto, memory, flush, batch, ghosts
<1>7. ASSUME NEW f \in Flusher, Write(f) PROVE TypeOK'
  BY <1>7, HistoryConstants DEF TypeOK, Write, Done, Goto, memory, flush, batch, ghosts
<1>8. ASSUME NEW f \in Flusher, Fail(f) PROVE TypeOK'
  BY <1>8, HistoryConstants DEF TypeOK, Fail, Done, Goto, memory, flush, batch, ghosts
<1>9. CASE CarryFold
  <2>1. total' \in [Chunk -> Nat] /\ seeded' \in BOOLEAN
    BY <1>9, AddTypes DEF CarryFold
  <2> QED
    BY <1>9, <2>1, HistoryConstants DEF TypeOK, CarryFold, memory, flush, batch, ghosts
<1>10. CASE CarryHold
  BY <1>10, HistoryConstants DEF TypeOK, CarryHold, memory, flush, batch, ghosts
<1>11. ASSUME NEW kind \in {"on", "off"}, BeginSave(kind) PROVE TypeOK'
  BY <1>11, HistoryConstants DEF TypeOK, BeginSave, memory, flush, batch, ghosts
<1>12. CASE DropTotals
  BY <1>12, HistoryConstants DEF TypeOK, DropTotals, Invalidate, Zero, memory, flush, batch, ghosts
<1>13. CASE CommitSave
  BY <1>13, HistoryConstants DEF TypeOK, CommitSave, memory, flush, batch, ghosts
<1>14. CASE RollbackSave
  BY <1>14, HistoryConstants DEF TypeOK, RollbackSave, memory, flush, batch, ghosts
<1>15. CASE StartPurge
  BY <1>15, HistoryConstants DEF TypeOK, StartPurge, memory, flush, batch, ghosts
<1>16. CASE StartDrop
  BY <1>16, HistoryConstants DEF TypeOK, StartDrop, Invalidate, Zero, memory, flush, batch, ghosts
<1>17. CASE ReadRetention
  BY <1>17, HistoryConstants DEF TypeOK, ReadRetention, memory, flush, batch, ghosts
<1>18. CASE DelOldStats
  BY <1>18, HistoryConstants DEF TypeOK, DelOldStats, memory, flush, batch, ghosts
<1>19. CASE UNCHANGED vars
  BY <1>19 DEF TypeOK, vars, memory, flush, batch, ghosts
<1> QED
  BY <1>1, <1>2, <1>3, <1>4, <1>5, <1>6, <1>7, <1>8, <1>9, <1>10, <1>11, <1>12, <1>13, <1>14, <1>15, <1>16, <1>17, <1>18, <1>19 DEF Next

\* A chunk that was not written yet is in one place, and not in the table.
LEMMA PlaceInvStep ==
  ASSUME TypeOK, PlaceInv, [Next]_vars
  PROVE  PlaceInv'
<1>1. CASE Read
  BY <1>1 DEF TypeOK, PlaceInv, Read, Seeded, AddInboundTraffic, Added, CountsOf, memory, flush, batch, ghosts
<1>2. ASSUME NEW f \in Flusher, ReadAge(f) PROVE PlaceInv'
  BY <1>2 DEF TypeOK, PlaceInv, ReadAge, Goto, memory, flush, batch, ghosts
<1>3. ASSUME NEW f \in Flusher, Drain(f) PROVE PlaceInv'
  BY <1>3 DEF TypeOK, PlaceInv, Drain, Goto, memory, flush, batch, ghosts
<1>4. ASSUME NEW f \in Flusher, Take(f) PROVE PlaceInv'
  BY <1>4 DEF TypeOK, PlaceInv, Take, Done, Goto, memory, flush, batch, ghosts
<1>5. ASSUME NEW f \in Flusher, Begin(f) PROVE PlaceInv'
  BY <1>5 DEF TypeOK, PlaceInv, Begin, Goto, memory, flush, batch, ghosts
<1>6. ASSUME NEW f \in Flusher, Fold(f) PROVE PlaceInv'
  BY <1>6 DEF TypeOK, PlaceInv, Fold, Seeded, AddInboundTraffic, Added, CountsOf, Goto, memory, flush, batch, ghosts
<1>7. ASSUME NEW f \in Flusher, Write(f) PROVE PlaceInv'
  BY <1>7 DEF TypeOK, PlaceInv, Write, Done, Goto, memory, flush, batch, ghosts
<1>8. ASSUME NEW f \in Flusher, Fail(f) PROVE PlaceInv'
  BY <1>8 DEF TypeOK, PlaceInv, Fail, Done, Goto, memory, flush, batch, ghosts
<1>9. CASE CarryFold
  BY <1>9 DEF TypeOK, PlaceInv, CarryFold, Seeded, AddInboundTraffic, Added, CountsOf, memory, flush, batch, ghosts
<1>10. CASE CarryHold
  BY <1>10 DEF TypeOK, PlaceInv, CarryHold, memory, flush, batch, ghosts
<1>11. ASSUME NEW kind \in {"on", "off"}, BeginSave(kind) PROVE PlaceInv'
  BY <1>11 DEF TypeOK, PlaceInv, BeginSave, memory, flush, batch, ghosts
<1>12. CASE DropTotals
  BY <1>12 DEF TypeOK, PlaceInv, DropTotals, Invalidate, Zero, memory, flush, batch, ghosts
<1>13. CASE CommitSave
  BY <1>13 DEF TypeOK, PlaceInv, CommitSave, memory, flush, batch, ghosts
<1>14. CASE RollbackSave
  BY <1>14 DEF TypeOK, PlaceInv, RollbackSave, memory, flush, batch, ghosts
<1>15. CASE StartPurge
  BY <1>15 DEF TypeOK, PlaceInv, StartPurge, memory, flush, batch, ghosts
<1>16. CASE StartDrop
  BY <1>16 DEF TypeOK, PlaceInv, StartDrop, Invalidate, Zero, memory, flush, batch, ghosts
<1>17. CASE ReadRetention
  BY <1>17 DEF TypeOK, PlaceInv, ReadRetention, memory, flush, batch, ghosts
<1>18. CASE DelOldStats
  BY <1>18 DEF TypeOK, PlaceInv, DelOldStats, memory, flush, batch, ghosts
<1>19. CASE UNCHANGED vars
  BY <1>19 DEF TypeOK, PlaceInv, vars, memory, flush, batch, ghosts
<1> QED
  BY <1>1, <1>2, <1>3, <1>4, <1>5, <1>6, <1>7, <1>8, <1>9, <1>10, <1>11, <1>12, <1>13, <1>14, <1>15, <1>16, <1>17, <1>18, <1>19 DEF Next

\* Traffic that was not folded yet is not in the totals, and none is there twice.
LEMMA CountInvStep ==
  ASSUME TypeOK, PlaceInv, CountInv, [Next]_vars
  PROVE  CountInv'
<1>1. CASE Read
  BY <1>1 DEF TypeOK, PlaceInv, CountInv, Read, Seeded, AddInboundTraffic, Added, CountsOf, memory, flush, batch, ghosts
<1>2. ASSUME NEW f \in Flusher, ReadAge(f) PROVE CountInv'
  BY <1>2 DEF TypeOK, PlaceInv, CountInv, ReadAge, Goto, memory, flush, batch, ghosts
<1>3. ASSUME NEW f \in Flusher, Drain(f) PROVE CountInv'
  BY <1>3 DEF TypeOK, PlaceInv, CountInv, Drain, Goto, memory, flush, batch, ghosts
<1>4. ASSUME NEW f \in Flusher, Take(f) PROVE CountInv'
  BY <1>4 DEF TypeOK, PlaceInv, CountInv, Take, Done, Goto, memory, flush, batch, ghosts
<1>5. ASSUME NEW f \in Flusher, Begin(f) PROVE CountInv'
  BY <1>5 DEF TypeOK, PlaceInv, CountInv, Begin, Goto, memory, flush, batch, ghosts
<1>6. ASSUME NEW f \in Flusher, Fold(f) PROVE CountInv'
  BY <1>6 DEF TypeOK, PlaceInv, CountInv, Fold, Seeded, AddInboundTraffic, Added, CountsOf, Goto, memory, flush, batch, ghosts
<1>7. ASSUME NEW f \in Flusher, Write(f) PROVE CountInv'
  BY <1>7 DEF TypeOK, PlaceInv, CountInv, Write, Done, Goto, memory, flush, batch, ghosts
<1>8. ASSUME NEW f \in Flusher, Fail(f) PROVE CountInv'
  BY <1>8 DEF TypeOK, PlaceInv, CountInv, Fail, Done, Goto, memory, flush, batch, ghosts
<1>9. CASE CarryFold
  BY <1>9 DEF TypeOK, PlaceInv, CountInv, CarryFold, Seeded, AddInboundTraffic, Added, CountsOf, memory, flush, batch, ghosts
<1>10. CASE CarryHold
  BY <1>10 DEF TypeOK, PlaceInv, CountInv, CarryHold, memory, flush, batch, ghosts
<1>11. ASSUME NEW kind \in {"on", "off"}, BeginSave(kind) PROVE CountInv'
  BY <1>11 DEF TypeOK, PlaceInv, CountInv, BeginSave, memory, flush, batch, ghosts
<1>12. CASE DropTotals
  BY <1>12 DEF TypeOK, PlaceInv, CountInv, DropTotals, Invalidate, Zero, memory, flush, batch, ghosts
<1>13. CASE CommitSave
  BY <1>13 DEF TypeOK, PlaceInv, CountInv, CommitSave, memory, flush, batch, ghosts
<1>14. CASE RollbackSave
  BY <1>14 DEF TypeOK, PlaceInv, CountInv, RollbackSave, memory, flush, batch, ghosts
<1>15. CASE StartPurge
  BY <1>15 DEF TypeOK, PlaceInv, CountInv, StartPurge, memory, flush, batch, ghosts
<1>16. CASE StartDrop
  BY <1>16 DEF TypeOK, PlaceInv, CountInv, StartDrop, Invalidate, Zero, memory, flush, batch, ghosts
<1>17. CASE ReadRetention
  BY <1>17 DEF TypeOK, PlaceInv, CountInv, ReadRetention, memory, flush, batch, ghosts
<1>18. CASE DelOldStats
  BY <1>18 DEF TypeOK, PlaceInv, CountInv, DelOldStats, memory, flush, batch, ghosts
<1>19. CASE UNCHANGED vars
  BY <1>19 DEF TypeOK, PlaceInv, CountInv, vars, memory, flush, batch, ghosts
<1> QED
  BY <1>1, <1>2, <1>3, <1>4, <1>5, <1>6, <1>7, <1>8, <1>9, <1>10, <1>11, <1>12, <1>13, <1>14, <1>15, <1>16, <1>17, <1>18, <1>19 DEF Next

\* While history is off, only a flush of before believes it on.
LEMMA StaleInvStep ==
  ASSUME TypeOK, StaleInv, [Next]_vars
  PROVE  StaleInv'
<1>1. CASE Read
  BY <1>1 DEF TypeOK, StaleInv, Read, Seeded, AddInboundTraffic, Added, CountsOf, memory, flush, batch, ghosts
<1>2. ASSUME NEW f \in Flusher, ReadAge(f) PROVE StaleInv'
  BY <1>2 DEF TypeOK, StaleInv, ReadAge, Goto, memory, flush, batch, ghosts
<1>3. ASSUME NEW f \in Flusher, Drain(f) PROVE StaleInv'
  BY <1>3 DEF TypeOK, StaleInv, Drain, Goto, memory, flush, batch, ghosts
<1>4. ASSUME NEW f \in Flusher, Take(f) PROVE StaleInv'
  BY <1>4 DEF TypeOK, StaleInv, Take, Done, Goto, memory, flush, batch, ghosts
<1>5. ASSUME NEW f \in Flusher, Begin(f) PROVE StaleInv'
  BY <1>5 DEF TypeOK, StaleInv, Begin, Goto, memory, flush, batch, ghosts
<1>6. ASSUME NEW f \in Flusher, Fold(f) PROVE StaleInv'
  BY <1>6 DEF TypeOK, StaleInv, Fold, Seeded, AddInboundTraffic, Added, CountsOf, Goto, memory, flush, batch, ghosts
<1>7. ASSUME NEW f \in Flusher, Write(f) PROVE StaleInv'
  BY <1>7 DEF TypeOK, StaleInv, Write, Done, Goto, memory, flush, batch, ghosts
<1>8. ASSUME NEW f \in Flusher, Fail(f) PROVE StaleInv'
  BY <1>8 DEF TypeOK, StaleInv, Fail, Done, Goto, memory, flush, batch, ghosts
<1>9. CASE CarryFold
  BY <1>9 DEF TypeOK, StaleInv, CarryFold, Seeded, AddInboundTraffic, Added, CountsOf, memory, flush, batch, ghosts
<1>10. CASE CarryHold
  BY <1>10 DEF TypeOK, StaleInv, CarryHold, memory, flush, batch, ghosts
<1>11. ASSUME NEW kind \in {"on", "off"}, BeginSave(kind) PROVE StaleInv'
  BY <1>11 DEF TypeOK, StaleInv, BeginSave, memory, flush, batch, ghosts
<1>12. CASE DropTotals
  BY <1>12 DEF TypeOK, StaleInv, DropTotals, Invalidate, Zero, memory, flush, batch, ghosts
<1>13. CASE CommitSave
  BY <1>13 DEF TypeOK, StaleInv, CommitSave, memory, flush, batch, ghosts
<1>14. CASE RollbackSave
  BY <1>14 DEF TypeOK, StaleInv, RollbackSave, memory, flush, batch, ghosts
<1>15. CASE StartPurge
  BY <1>15 DEF TypeOK, StaleInv, StartPurge, memory, flush, batch, ghosts
<1>16. CASE StartDrop
  BY <1>16 DEF TypeOK, StaleInv, StartDrop, Invalidate, Zero, memory, flush, batch, ghosts
<1>17. CASE ReadRetention
  BY <1>17 DEF TypeOK, StaleInv, ReadRetention, memory, flush, batch, ghosts
<1>18. CASE DelOldStats
  BY <1>18 DEF TypeOK, StaleInv, DelOldStats, memory, flush, batch, ghosts
<1>19. CASE UNCHANGED vars
  BY <1>19 DEF TypeOK, StaleInv, vars, memory, flush, batch, ghosts
<1> QED
  BY <1>1, <1>2, <1>3, <1>4, <1>5, <1>6, <1>7, <1>8, <1>9, <1>10, <1>11, <1>12, <1>13, <1>14, <1>15, <1>16, <1>17, <1>18, <1>19 DEF Next

\* While history is off, only such a flush writes.
LEMMA OffKeepsLateOnlyStep ==
  ASSUME TypeOK, StaleInv, OffKeepsLateOnly, [Next]_vars
  PROVE  OffKeepsLateOnly'
<1>1. CASE Read
  BY <1>1 DEF TypeOK, StaleInv, OffKeepsLateOnly, Read, Seeded, AddInboundTraffic, Added, CountsOf, memory, flush, batch, ghosts
<1>2. ASSUME NEW f \in Flusher, ReadAge(f) PROVE OffKeepsLateOnly'
  BY <1>2 DEF TypeOK, StaleInv, OffKeepsLateOnly, ReadAge, Goto, memory, flush, batch, ghosts
<1>3. ASSUME NEW f \in Flusher, Drain(f) PROVE OffKeepsLateOnly'
  BY <1>3 DEF TypeOK, StaleInv, OffKeepsLateOnly, Drain, Goto, memory, flush, batch, ghosts
<1>4. ASSUME NEW f \in Flusher, Take(f) PROVE OffKeepsLateOnly'
  BY <1>4 DEF TypeOK, StaleInv, OffKeepsLateOnly, Take, Done, Goto, memory, flush, batch, ghosts
<1>5. ASSUME NEW f \in Flusher, Begin(f) PROVE OffKeepsLateOnly'
  BY <1>5 DEF TypeOK, StaleInv, OffKeepsLateOnly, Begin, Goto, memory, flush, batch, ghosts
<1>6. ASSUME NEW f \in Flusher, Fold(f) PROVE OffKeepsLateOnly'
  BY <1>6 DEF TypeOK, StaleInv, OffKeepsLateOnly, Fold, Seeded, AddInboundTraffic, Added, CountsOf, Goto, memory, flush, batch, ghosts
<1>7. ASSUME NEW f \in Flusher, Write(f) PROVE OffKeepsLateOnly'
  BY <1>7 DEF TypeOK, StaleInv, OffKeepsLateOnly, Write, Done, Goto, memory, flush, batch, ghosts
<1>8. ASSUME NEW f \in Flusher, Fail(f) PROVE OffKeepsLateOnly'
  BY <1>8 DEF TypeOK, StaleInv, OffKeepsLateOnly, Fail, Done, Goto, memory, flush, batch, ghosts
<1>9. CASE CarryFold
  BY <1>9 DEF TypeOK, StaleInv, OffKeepsLateOnly, CarryFold, Seeded, AddInboundTraffic, Added, CountsOf, memory, flush, batch, ghosts
<1>10. CASE CarryHold
  BY <1>10 DEF TypeOK, StaleInv, OffKeepsLateOnly, CarryHold, memory, flush, batch, ghosts
<1>11. ASSUME NEW kind \in {"on", "off"}, BeginSave(kind) PROVE OffKeepsLateOnly'
  BY <1>11 DEF TypeOK, StaleInv, OffKeepsLateOnly, BeginSave, memory, flush, batch, ghosts
<1>12. CASE DropTotals
  BY <1>12 DEF TypeOK, StaleInv, OffKeepsLateOnly, DropTotals, Invalidate, Zero, memory, flush, batch, ghosts
<1>13. CASE CommitSave
  BY <1>13 DEF TypeOK, StaleInv, OffKeepsLateOnly, CommitSave, memory, flush, batch, ghosts
<1>14. CASE RollbackSave
  BY <1>14 DEF TypeOK, StaleInv, OffKeepsLateOnly, RollbackSave, memory, flush, batch, ghosts
<1>15. CASE StartPurge
  BY <1>15 DEF TypeOK, StaleInv, OffKeepsLateOnly, StartPurge, memory, flush, batch, ghosts
<1>16. CASE StartDrop
  BY <1>16 DEF TypeOK, StaleInv, OffKeepsLateOnly, StartDrop, Invalidate, Zero, memory, flush, batch, ghosts
<1>17. CASE ReadRetention
  BY <1>17 DEF TypeOK, StaleInv, OffKeepsLateOnly, ReadRetention, memory, flush, batch, ghosts
<1>18. CASE DelOldStats
  BY <1>18 DEF TypeOK, StaleInv, OffKeepsLateOnly, DelOldStats, memory, flush, batch, ghosts
<1>19. CASE UNCHANGED vars
  BY <1>19 DEF TypeOK, StaleInv, OffKeepsLateOnly, vars, memory, flush, batch, ghosts
<1> QED
  BY <1>1, <1>2, <1>3, <1>4, <1>5, <1>6, <1>7, <1>8, <1>9, <1>10, <1>11, <1>12, <1>13, <1>14, <1>15, <1>16, <1>17, <1>18, <1>19 DEF Next

\* Where history is never off, no save drops the totals.
LEMMA OnInvStep ==
  ASSUME OnInv, ~Purge, [Next]_vars
  PROVE  OnInv'
<1>1. CASE Read
  BY <1>1 DEF OnInv, Read, Seeded, AddInboundTraffic, Added, CountsOf, memory, flush, batch, ghosts
<1>2. ASSUME NEW f \in Flusher, ReadAge(f) PROVE OnInv'
  BY <1>2 DEF OnInv, ReadAge, Goto, memory, flush, batch, ghosts
<1>3. ASSUME NEW f \in Flusher, Drain(f) PROVE OnInv'
  BY <1>3 DEF OnInv, Drain, Goto, memory, flush, batch, ghosts
<1>4. ASSUME NEW f \in Flusher, Take(f) PROVE OnInv'
  BY <1>4 DEF OnInv, Take, Done, Goto, memory, flush, batch, ghosts
<1>5. ASSUME NEW f \in Flusher, Begin(f) PROVE OnInv'
  BY <1>5 DEF OnInv, Begin, Goto, memory, flush, batch, ghosts
<1>6. ASSUME NEW f \in Flusher, Fold(f) PROVE OnInv'
  BY <1>6 DEF OnInv, Fold, Seeded, AddInboundTraffic, Added, CountsOf, Goto, memory, flush, batch, ghosts
<1>7. ASSUME NEW f \in Flusher, Write(f) PROVE OnInv'
  BY <1>7 DEF OnInv, Write, Done, Goto, memory, flush, batch, ghosts
<1>8. ASSUME NEW f \in Flusher, Fail(f) PROVE OnInv'
  BY <1>8 DEF OnInv, Fail, Done, Goto, memory, flush, batch, ghosts
<1>9. CASE CarryFold
  BY <1>9 DEF OnInv, CarryFold, Seeded, AddInboundTraffic, Added, CountsOf, memory, flush, batch, ghosts
<1>10. CASE CarryHold
  BY <1>10 DEF OnInv, CarryHold, memory, flush, batch, ghosts
<1>11. ASSUME NEW kind \in {"on", "off"}, BeginSave(kind) PROVE OnInv'
  BY <1>11 DEF OnInv, BeginSave, memory, flush, batch, ghosts
<1>12. CASE DropTotals
  BY <1>12 DEF OnInv, DropTotals, Invalidate, Zero, memory, flush, batch, ghosts
<1>13. CASE CommitSave
  BY <1>13 DEF OnInv, CommitSave, memory, flush, batch, ghosts
<1>14. CASE RollbackSave
  BY <1>14 DEF OnInv, RollbackSave, memory, flush, batch, ghosts
<1>15. CASE StartPurge
  BY <1>15 DEF OnInv, StartPurge, memory, flush, batch, ghosts
<1>16. CASE StartDrop
  BY <1>16 DEF OnInv, StartDrop, Invalidate, Zero, memory, flush, batch, ghosts
<1>17. CASE ReadRetention
  BY <1>17 DEF OnInv, ReadRetention, memory, flush, batch, ghosts
<1>18. CASE DelOldStats
  BY <1>18 DEF OnInv, DelOldStats, memory, flush, batch, ghosts
<1>19. CASE UNCHANGED vars
  BY <1>19 DEF OnInv, vars, memory, flush, batch, ghosts
<1> QED
  BY <1>1, <1>2, <1>3, <1>4, <1>5, <1>6, <1>7, <1>8, <1>9, <1>10, <1>11, <1>12, <1>13, <1>14, <1>15, <1>16, <1>17, <1>18, <1>19 DEF Next

\* Where seeding never fails and history is never off, what is to be written, or was, is in the totals.
LEMMA FoldedInvStep ==
  ASSUME TypeOK, PlaceInv, OnInv, FoldedInv, "seed" \notin Fault, ~Purge, [Next]_vars
  PROVE  FoldedInv'
<1>1. CASE Read
  BY <1>1 DEF TypeOK, PlaceInv, OnInv, FoldedInv, Folded, Read, Seeded, AddInboundTraffic, Added, CountsOf, memory, flush, batch, ghosts
<1>2. ASSUME NEW f \in Flusher, ReadAge(f) PROVE FoldedInv'
  BY <1>2 DEF TypeOK, PlaceInv, OnInv, FoldedInv, Folded, ReadAge, Goto, memory, flush, batch, ghosts
<1>3. ASSUME NEW f \in Flusher, Drain(f) PROVE FoldedInv'
  BY <1>3 DEF TypeOK, PlaceInv, OnInv, FoldedInv, Folded, Drain, Goto, memory, flush, batch, ghosts
<1>4. ASSUME NEW f \in Flusher, Take(f) PROVE FoldedInv'
  BY <1>4 DEF TypeOK, PlaceInv, OnInv, FoldedInv, Folded, Take, Done, Goto, memory, flush, batch, ghosts
<1>5. ASSUME NEW f \in Flusher, Begin(f) PROVE FoldedInv'
  BY <1>5 DEF TypeOK, PlaceInv, OnInv, FoldedInv, Folded, Begin, Goto, memory, flush, batch, ghosts
<1>6. ASSUME NEW f \in Flusher, Fold(f) PROVE FoldedInv'
  BY <1>6 DEF TypeOK, PlaceInv, OnInv, FoldedInv, Folded, Fold, Seeded, AddInboundTraffic, Added, CountsOf, Goto, memory, flush, batch, ghosts
<1>7. ASSUME NEW f \in Flusher, Write(f) PROVE FoldedInv'
  BY <1>7 DEF TypeOK, PlaceInv, OnInv, FoldedInv, Folded, Write, Done, Goto, memory, flush, batch, ghosts
<1>8. ASSUME NEW f \in Flusher, Fail(f) PROVE FoldedInv'
  BY <1>8 DEF TypeOK, PlaceInv, OnInv, FoldedInv, Folded, Fail, Done, Goto, memory, flush, batch, ghosts
<1>9. CASE CarryFold
  BY <1>9 DEF TypeOK, PlaceInv, OnInv, FoldedInv, Folded, CarryFold, Seeded, AddInboundTraffic, Added, CountsOf, memory, flush, batch, ghosts
<1>10. CASE CarryHold
  BY <1>10 DEF TypeOK, PlaceInv, OnInv, FoldedInv, Folded, CarryHold, memory, flush, batch, ghosts
<1>11. ASSUME NEW kind \in {"on", "off"}, BeginSave(kind) PROVE FoldedInv'
  BY <1>11 DEF TypeOK, PlaceInv, OnInv, FoldedInv, Folded, BeginSave, memory, flush, batch, ghosts
<1>12. CASE DropTotals
  BY <1>12 DEF TypeOK, PlaceInv, OnInv, FoldedInv, Folded, DropTotals, Invalidate, Zero, memory, flush, batch, ghosts
<1>13. CASE CommitSave
  BY <1>13 DEF TypeOK, PlaceInv, OnInv, FoldedInv, Folded, CommitSave, memory, flush, batch, ghosts
<1>14. CASE RollbackSave
  BY <1>14 DEF TypeOK, PlaceInv, OnInv, FoldedInv, Folded, RollbackSave, memory, flush, batch, ghosts
<1>15. CASE StartPurge
  BY <1>15 DEF TypeOK, PlaceInv, OnInv, FoldedInv, Folded, StartPurge, memory, flush, batch, ghosts
<1>16. CASE StartDrop
  BY <1>16 DEF TypeOK, PlaceInv, OnInv, FoldedInv, Folded, StartDrop, Invalidate, Zero, memory, flush, batch, ghosts
<1>17. CASE ReadRetention
  BY <1>17 DEF TypeOK, PlaceInv, OnInv, FoldedInv, Folded, ReadRetention, memory, flush, batch, ghosts
<1>18. CASE DelOldStats
  BY <1>18 DEF TypeOK, PlaceInv, OnInv, FoldedInv, Folded, DelOldStats, memory, flush, batch, ghosts
<1>19. CASE UNCHANGED vars
  BY <1>19 DEF TypeOK, PlaceInv, OnInv, FoldedInv, Folded, vars, memory, flush, batch, ghosts
<1> QED
  BY <1>1, <1>2, <1>3, <1>4, <1>5, <1>6, <1>7, <1>8, <1>9, <1>10, <1>11, <1>12, <1>13, <1>14, <1>15, <1>16, <1>17, <1>18, <1>19 DEF Next

-----------------------------------------------------------------------------
(* The theorems.                                                            *)

LEMMA InitIInv == Init => IInv
<1> SUFFICES ASSUME Init PROVE IInv
  OBVIOUS
<1>1. total \in [Chunk -> Nat] /\ \A c \in Chunk : total[c] = 0
  BY DEF Init, Zero
<1>2. TypeOK
  BY <1>1, HistoryConstants DEF Init, TypeOK
<1>3. PlaceInv /\ StaleInv /\ OffKeepsLateOnly
  BY DEF Init, PlaceInv, StaleInv, OffKeepsLateOnly
<1>4. CountInv
  BY <1>1, <1>2 DEF Init, CountInv
<1> QED
  BY <1>2, <1>3, <1>4 DEF IInv

\* The inductive invariant of the flushes, the saves and the totals.
THEOREM HistoryInvariance == Spec => []IInv
<1>1. IInv /\ [Next]_vars => IInv'
  BY TypeOKStep, PlaceInvStep, CountInvStep, StaleInvStep, OffKeepsLateOnlyStep DEF IInv
<1> QED
  BY InitIInv, <1>1, PTL DEF Spec

\* The variables of the history keep their types.
THEOREM HistoryTypes == Spec => []TypeOK
<1>1. IInv => TypeOK
  BY DEF IInv
<1> QED
  BY HistoryInvariance, <1>1, PTL

\* The per-inbound totals count no byte twice (addInboundTraffic).
THEOREM TotalsCountOnce == Spec => []NeverTwice
<1>1. IInv => NeverTwice
  BY DEF IInv, CountInv, NeverTwice
<1> QED
  BY HistoryInvariance, <1>1, PTL

\* History that is off grows only by a flush of before the save.
THEOREM OffMeansOff == Spec => []OffKeepsLateOnly
<1>1. IInv => OffKeepsLateOnly
  BY DEF IInv
<1> QED
  BY HistoryInvariance, <1>1, PTL

\* Where reading the table never fails and history is never turned off, the
\* totals count every row of the table, however many flushes fail to commit.
THEOREM TotalsCoverTable ==
  ASSUME ~Purge, "seed" \notin Fault
  PROVE  Spec => []Covered
<1>1. Init => OnInv /\ FoldedInv
  BY DEF Init, OnInv, FoldedInv, Folded
<1>2. IInv /\ OnInv /\ FoldedInv /\ [Next]_vars => OnInv' /\ FoldedInv'
  BY OnInvStep, FoldedInvStep DEF IInv
<1>3. IInv /\ FoldedInv => Covered
  <2> SUFFICES ASSUME IInv, FoldedInv, NEW c \in table PROVE total[c] = 1
    BY DEF Covered
  <2>1. c \in Chunk /\ total[c] \in Nat
    BY DEF IInv, TypeOK
  <2>2. total[c] >= 1
    BY <2>1 DEF FoldedInv, Folded
  <2>3. total[c] <= 1
    BY <2>1 DEF IInv, CountInv
  <2> QED
    BY <2>1, <2>2, <2>3
<1> QED
  BY HistoryInvariance, <1>1, <1>2, <1>3, PTL DEF Spec

-----------------------------------------------------------------------------
(* The reset schedules.                                                      *)
(*                                                                           *)
(* A clear leaves a boundary that is a period, or a month, later, and what   *)
(* is edited afterwards keeps it or computes a later one; this is what       *)
(* PeriodInv and MonthInv say of the boundary and the clear last made.  The  *)
(* second needs the calendar: a later month resets on a later day.           *)

Schedules ==
  [enable : BOOLEAN, auto : BOOLEAN, delay : BOOLEAN, days : Nat, dom : Nat, next : Int, used : Nat]
Clears == [at : Int, month : Nat, dom : Nat]
ScheduleTypes ==
  /\ clock \in Nat /\ clock >= 2 /\ zone \in {0, 1}
  /\ row \in Schedules /\ listed \in BOOLEAN
  /\ last \in Clears /\ prev \in Clears /\ due \in Months \cup {0}
  /\ spec \in Nat /\ gnext \in Nat /\ glast \in Nat
\* A boundary is there when there is a schedule that has begun.
RowInv ==
  /\ row.auto => HasPeriod(row)
  /\ ~row.auto => row.days = 0 /\ row.dom = 0 /\ ~row.delay /\ row.next = 0
  /\ row.delay => row.next = 0
  /\ row.auto /\ ~row.delay => row.next > 0
  /\ last.at <= clock
\* The boundary of a period is a period after the last clear.
PeriodInv ==
  row.auto /\ ~row.delay /\ row.dom = 0 /\ last.at >= 0 /\ last.dom = 0 => row.next >= last.at + 2 * row.days
\* The month's day is over when the boundary is, in either zone; or it is over in this
\* one, the boundary having been moved to fall due at once.
Behind(m) ==
  \/ 2 * ResetDay(m, row.dom) <= row.next
  \/ row.next < clock /\ Midnight(ResetDay(m, row.dom), zone) <= clock
\* The boundary stands for a month after the one last cleared for; one that stands for
\* none is about to be served or lies past the calendar.
MonthInv ==
  /\ due > 0 => row.auto /\ ~row.delay /\ row.dom > 0 /\ Behind(due)
  /\ last.dom > 0 => /\ row.auto /\ ~row.delay /\ last.dom = row.dom
                     /\ due > 0 => last.month < due
                     /\ due = 0 => row.next < clock \/ row.next = 2 * LastDay + 9
GlobalInv == glast = 0 \/ glast < gnext
ScheduleInv == ScheduleTypes /\ RowInv /\ PeriodInv /\ MonthInv /\ GlobalInv /\ ClearedOnce /\ MonthOnce

-----------------------------------------------------------------------------
(* The calendar. *)

\* A set of numbers has a least one.
LEMMA LeastNumber ==
  ASSUME NEW S, S \subseteq Nat, S # {}
  PROVE  \E n \in S : \A m \in S : n <= m
<1>1. IsWellFoundedOn(OpToRel(<, Nat), Nat)
  BY NatLessThanWellFounded
<1>2. PICK n \in S : \A m \in S : ~ (<<m, n>> \in OpToRel(<, Nat))
  BY <1>1, WFMin
<1>3. \A m \in S : ~ (m < n)
  BY <1>2 DEF OpToRel
<1> QED
  BY <1>3

MonthCount == Len(MonthLen)

LEMMA Calendar == MonthCount \in Nat \ {0} /\ MonthLen \in [Months -> Nat \ {0}]
BY ScheduleConstants DEF MonthCount, Months

\* f gives the days before each of the first n months.
Counts(f, n) ==
  /\ f \in [1..n -> Nat]
  /\ f[1] = 0
  /\ \A m \in 2..n : f[m] = f[m - 1] + MonthLen[m - 1]

\* Such a function can be continued by a month, so there is one for all of them.
LEMMA CountsOn ==
  ASSUME NEW n \in 1..MonthCount, NEW f, Counts(f, n)
  PROVE  \E g : Counts(g, n + 1)
<1> DEFINE g == [m \in 1..n + 1 |-> IF m = n + 1 THEN f[n] + MonthLen[n] ELSE f[m]]
<1>1. n \in Nat /\ n >= 1 /\ n \in Months /\ MonthLen[n] \in Nat /\ f[n] \in Nat
  BY Calendar DEF Counts, Months, MonthCount
<1>2. g \in [1..n + 1 -> Nat]
  BY <1>1 DEF Counts
<1>3. g[1] = 0
  BY <1>1 DEF Counts
<1>4. ASSUME NEW m \in 2..n + 1 PROVE g[m] = g[m - 1] + MonthLen[m - 1]
  <2>1. CASE m = n + 1
    BY <1>1, <2>1
  <2>2. CASE m \in 2..n
    BY <1>1, <2>2 DEF Counts
  <2> QED
    BY <1>1, <2>1, <2>2
<1>5. Counts(g, n + 1)
  BY <1>2, <1>3, <1>4 DEF Counts
<1> QED
  BY <1>5

LEMMA CountsExist == \A n \in 1..MonthCount + 1 : \E f : Counts(f, n)
<1> DEFINE Bad == {n \in 1..MonthCount + 1 : ~ \E f : Counts(f, n)}
<1>1. SUFFICES ASSUME Bad # {} PROVE FALSE
  OBVIOUS
<1>2. Bad \subseteq Nat
  BY Calendar
<1>3. PICK n \in Bad : \A m \in Bad : n <= m
  BY <1>1, <1>2, LeastNumber
<1>4. n \in 1..MonthCount + 1 /\ MonthCount \in Nat
  BY <1>3, Calendar
<1>5. CASE n = 1
  <2> DEFINE f == [m \in 1..1 |-> 0]
  <2>1. Counts(f, 1)
    BY DEF Counts
  <2> QED
    BY <1>3, <1>5, <2>1
<1>6. CASE n # 1
  <2>1. n - 1 \in 1..MonthCount /\ n - 1 < n /\ n - 1 + 1 = n
    BY <1>4, <1>6
  <2>2. n - 1 \notin Bad
    BY <1>3, <1>4, <2>1
  <2>3. PICK f : Counts(f, n - 1)
    BY <1>4, <2>1, <2>2
  <2>4. \E g : Counts(g, n - 1 + 1)
    BY <2>1, <2>3, CountsOn
  <2> QED
    BY <1>3, <2>1, <2>4
<1> QED
  BY <1>5, <1>6

\* What the days before the months are.
LEMMA DaysAre == Counts(DaysBefore, MonthCount + 1)
<1> DEFINE Body(f) == [m \in 1..MonthCount + 1 |-> IF m = 1 THEN 0 ELSE f[m - 1] + MonthLen[m - 1]]
<1>1. MonthCount + 1 \in 1..MonthCount + 1 /\ MonthCount \in Nat /\ MonthCount >= 1
  BY Calendar
<1>2. PICK f : Counts(f, MonthCount + 1)
  BY <1>1, CountsExist
<1>3. f = Body(f)
  BY <1>1, <1>2 DEF Counts
<1>4. DaysBefore = CHOOSE g : g = Body(g)
  BY DEF DaysBefore, MonthCount
<1>5. DaysBefore = Body(DaysBefore)
  BY <1>3, <1>4
<1>6. \A m \in 1..MonthCount + 1 : DaysBefore[m] = IF m = 1 THEN 0 ELSE DaysBefore[m - 1] + MonthLen[m - 1]
  BY <1>5
<1>7. \A m \in 1..MonthCount + 1 : DaysBefore[m] \in Nat
  <2> DEFINE Bad == {m \in 1..MonthCount + 1 : DaysBefore[m] \notin Nat}
  <2>1. SUFFICES ASSUME Bad # {} PROVE FALSE
    OBVIOUS
  <2>2. Bad \subseteq Nat
    BY <1>1
  <2>3. PICK m \in Bad : \A k \in Bad : m <= k
    BY <2>1, <2>2, LeastNumber
  <2>4. m # 1
    BY <1>6, <2>3
  <2>5. m - 1 \in 1..MonthCount + 1 /\ m - 1 \notin Bad /\ m - 1 \in Months
    BY <1>1, <2>3, <2>4 DEF Months, MonthCount
  <2>6. DaysBefore[m - 1] \in Nat /\ MonthLen[m - 1] \in Nat
    BY <2>5, Calendar
  <2> QED
    BY <1>6, <2>3, <2>4, <2>6
<1>8. DaysBefore \in [1..MonthCount + 1 -> Nat]
  BY <1>5, <1>7
<1> QED
  BY <1>1, <1>6, <1>8 DEF Counts

\* The days before a month are those up to the end of the one before it.
LEMMA NextMonth ==
  ASSUME NEW m \in Months
  PROVE  /\ m \in Nat /\ m >= 1 /\ m + 1 \in 1..MonthCount + 1 /\ m \in 1..MonthCount + 1
         /\ DaysBefore[m] \in Nat /\ MonthLen[m] \in Nat /\ MonthLen[m] > 0
         /\ DaysBefore[m + 1] = DaysBefore[m] + MonthLen[m]
<1>1. m \in 1..MonthCount /\ MonthCount \in Nat /\ MonthLen[m] \in Nat \ {0}
  BY Calendar DEF Months, MonthCount
<1>2. m + 1 \in 2..MonthCount + 1 /\ m + 1 - 1 = m
  BY <1>1
<1>3. \A i \in 2..MonthCount + 1 : DaysBefore[i] = DaysBefore[i - 1] + MonthLen[i - 1]
  BY DaysAre DEF Counts
<1>4. DaysBefore[m] \in Nat
  BY <1>1, DaysAre DEF Counts
<1> QED
  BY <1>1, <1>2, <1>3, <1>4

LEMMA DaysGrow ==
  ASSUME NEW j \in 1..MonthCount + 1, NEW k \in 1..MonthCount + 1, j <= k
  PROVE  DaysBefore[j] <= DaysBefore[k]
<1> DEFINE Bad == {n \in j..MonthCount + 1 : DaysBefore[n] < DaysBefore[j]}
<1>1. MonthCount \in Nat
  BY Calendar
<1>2. \A n \in 1..MonthCount + 1 : DaysBefore[n] \in Nat
  BY DaysAre DEF Counts
<1>3. ASSUME Bad # {} PROVE FALSE
  <2>1. Bad \subseteq Nat
    BY <1>1
  <2>2. PICK n \in Bad : \A i \in Bad : n <= i
    BY <1>3, <2>1, LeastNumber
  <2>3. n # j
    BY <1>2, <2>2
  <2>4. n - 1 \in j..MonthCount + 1 /\ n - 1 \in Months /\ n - 1 < n /\ n - 1 + 1 = n
    BY <1>1, <2>2, <2>3 DEF Months, MonthCount
  <2>5. n - 1 \notin Bad
    BY <2>2, <2>4
  <2>6. DaysBefore[j] <= DaysBefore[n - 1]
    BY <1>2, <2>4, <2>5
  <2>7. DaysBefore[n - 1 + 1] = DaysBefore[n - 1] + MonthLen[n - 1] /\ MonthLen[n - 1] \in Nat /\ DaysBefore[n - 1] \in Nat
    BY <2>4, NextMonth
  <2> QED
    BY <1>2, <2>2, <2>4, <2>6, <2>7
<1>4. k \in j..MonthCount + 1
  BY <1>1
<1> QED
  BY <1>2, <1>3, <1>4

\* A month resets on one of its own days, so a later month on a later day.
LEMMA ResetDayIn ==
  ASSUME NEW m \in Months, NEW dom \in Nat
  PROVE  /\ ResetDay(m, dom) \in Nat /\ ResetDay(m, dom) <= DaysBefore[m + 1]
         /\ dom > 0 => ResetDay(m, dom) > DaysBefore[m]
BY NextMonth DEF ResetDay

LEMMA ResetDaysGrow ==
  ASSUME NEW j \in Months, NEW k \in Months, NEW dom \in Nat \ {0}
  PROVE  ResetDay(j, dom) <= ResetDay(k, dom) => j <= k
<1>1. SUFFICES ASSUME k < j PROVE ResetDay(k, dom) < ResetDay(j, dom)
  BY NextMonth, ResetDayIn
<1>2. k + 1 <= j /\ k + 1 \in 1..MonthCount + 1 /\ j \in 1..MonthCount + 1
  BY <1>1, NextMonth
<1>3. DaysBefore[k + 1] <= DaysBefore[j]
  BY <1>2, DaysGrow
<1>4. ResetDay(k, dom) <= DaysBefore[k + 1] /\ DaysBefore[j] < ResetDay(j, dom)
  BY ResetDayIn
<1>5. {DaysBefore[k + 1], DaysBefore[j], ResetDay(k, dom), ResetDay(j, dom)} \subseteq Nat
  BY <1>2, DaysAre, ResetDayIn DEF Counts
<1> QED
  BY <1>3, <1>4, <1>5

LEMMA ResetDaysEnd ==
  ASSUME NEW m \in Months, NEW dom \in Nat
  PROVE  LastDay \in Nat /\ ResetDay(m, dom) \in Nat /\ ResetDay(m, dom) <= LastDay
<1>1. m + 1 \in 1..MonthCount + 1 /\ MonthCount + 1 \in 1..MonthCount + 1 /\ m + 1 <= MonthCount + 1
  BY NextMonth, Calendar DEF Months, MonthCount
<1>2. DaysBefore[m + 1] <= DaysBefore[MonthCount + 1]
  BY <1>1, DaysGrow
<1>3. DaysBefore[m + 1] \in Nat /\ DaysBefore[MonthCount + 1] \in Nat
  BY <1>1, DaysAre DEF Counts
<1>4. ResetDay(m, dom) \in Nat /\ ResetDay(m, dom) <= DaysBefore[m + 1]
  BY ResetDayIn
<1> QED
  BY <1>2, <1>3, <1>4 DEF LastDay, MonthCount

LEMMA LastDayIs == LastDay \in Nat
<1>1. MonthCount + 1 \in 1..MonthCount + 1
  BY Calendar
<1> QED
  BY <1>1, DaysAre DEF Counts, LastDay, MonthCount

-----------------------------------------------------------------------------
(* The boundaries. *)

\* The month of the next boundary has it after from, and no earlier one has.
LEMMA NextMonthlyIs ==
  ASSUME NEW from \in Nat, NEW dom \in Nat, NEW z \in {0, 1}
  PROVE  LET m == nextMonthlyReset(from, dom, z) IN
         /\ m \in Months \cup {0}
         /\ m # 0 => Midnight(ResetDay(m, dom), z) > from
<1> DEFINE After == {k \in Months : Midnight(ResetDay(k, dom), z) > from}
           Is(m) == /\ m # 0 => Midnight(ResetDay(m, dom), z) > from
                    /\ \A k \in Months : Midnight(ResetDay(k, dom), z) > from => m # 0 /\ m <= k
<1>1. Months \subseteq Nat /\ 0 \notin Months
  BY Calendar DEF Months, MonthCount
<1>2. \E m \in Months \cup {0} : Is(m)
  <2>1. CASE After = {}
    BY <2>1
  <2>2. CASE After # {}
    <3>1. PICK m \in After : \A k \in After : m <= k
      BY <1>1, <2>2, LeastNumber
    <3> QED
      BY <1>1, <3>1
  <2> QED
    BY <2>1, <2>2
<1>3. nextMonthlyReset(from, dom, z) = CHOOSE m \in Months \cup {0} : Is(m)
  BY DEF nextMonthlyReset
<1> HIDE DEF Is
<1>4. /\ nextMonthlyReset(from, dom, z) \in Months \cup {0}
      /\ Is(nextMonthlyReset(from, dom, z))
  BY <1>2, <1>3
<1> QED
  BY <1>4 DEF Is

\* The next boundary of a schedule, by its period or by the day of the month.
LEMMA NextResetIs ==
  ASSUME NEW c, c.dom \in Nat, c.days \in Nat, NEW dt \in Nat, NEW z \in {0, 1}
  PROVE  LET n == nextResetAt(c, dt, z) IN
         /\ n.at \in Nat /\ n.month \in Months \cup {0}
         /\ c.dom = 0 => n.at = dt + 2 * c.days /\ n.month = 0
         /\ c.dom > 0 /\ n.month = 0 => n.at = 2 * LastDay + 9
         /\ c.dom > 0 /\ n.month # 0 => /\ n.at = Midnight(ResetDay(n.month, c.dom), z)
                                        /\ n.at > dt /\ n.at < 2 * LastDay + 9
<1> DEFINE m == nextMonthlyReset(dt, c.dom, z)
<1>1. m \in Months \cup {0} /\ (m # 0 => Midnight(ResetDay(m, c.dom), z) > dt)
  BY NextMonthlyIs
<1>2. LastDay \in Nat
  BY LastDayIs
<1>3. m # 0 => ResetDay(m, c.dom) \in Nat /\ ResetDay(m, c.dom) <= LastDay
  BY <1>1, ResetDaysEnd
<1>4. nextResetAt(c, dt, z) =
        IF c.dom > 0 THEN [at |-> IF m = 0 THEN 2 * LastDay + 9 ELSE Midnight(ResetDay(m, c.dom), z), month |-> m]
        ELSE [at |-> dt + 2 * c.days, month |-> 0]
  BY DEF nextResetAt
<1> HIDE DEF m
<1>5. CASE c.dom = 0
  BY <1>4, <1>5
<1>6. CASE c.dom > 0 /\ m = 0
  BY <1>2, <1>4, <1>6
<1>7. CASE c.dom > 0 /\ m # 0
  BY <1>1, <1>2, <1>3, <1>4, <1>7 DEF Midnight
<1> QED
  BY <1>1, <1>5, <1>6, <1>7

-----------------------------------------------------------------------------
(* The steps. *)

LEMMA ScheduleStart == ScheduleInit => ScheduleInv
<1> SUFFICES ASSUME ScheduleInit PROVE ScheduleInv
  OBVIOUS
<1>1. NoClear \in Clears /\ NoClear.at = -1 /\ NoClear.month = 0 /\ NoClear.dom = 0
  BY DEF NoClear, Clears
<1>2. ScheduleTypes
  BY <1>1 DEF ScheduleInit, ScheduleTypes, Schedules
<1>3. RowInv /\ PeriodInv
  BY <1>1 DEF ScheduleInit, RowInv, PeriodInv, HasPeriod
<1>4. MonthInv /\ GlobalInv /\ ClearedOnce /\ MonthOnce
  BY <1>1 DEF ScheduleInit, MonthInv, GlobalInv, ClearedOnce, MonthOnce
<1> QED
  BY <1>2, <1>3, <1>4 DEF ScheduleInv

\* A step that leaves the schedule, its boundary and its history alone.
LEMMA Untouched ==
  ASSUME ScheduleInv, row' \in Schedules, row'.auto = row.auto, row'.delay = row.delay, row'.days = row.days,
         row'.dom = row.dom, row'.next = row.next, UNCHANGED <<zone, last, prev, due>>,
         clock' \in Nat, clock' >= clock
  PROVE  RowInv' /\ PeriodInv' /\ MonthInv' /\ ClearedOnce' /\ MonthOnce'
<1>1. ScheduleTypes /\ RowInv /\ PeriodInv /\ MonthInv /\ ClearedOnce /\ MonthOnce
  BY DEF ScheduleInv
<1>2. RowInv'
  BY <1>1 DEF ScheduleTypes, RowInv, HasPeriod, Clears
<1>3. PeriodInv'
  BY <1>1 DEF PeriodInv
<1>4. due > 0 => (Behind(due))'
  <2>1. SUFFICES ASSUME due > 0 PROVE (Behind(due))'
    OBVIOUS
  <2>2. due \in Months /\ row.dom \in Nat /\ row.next \in Int /\ clock \in Nat /\ zone \in {0, 1}
    BY <1>1, <2>1 DEF ScheduleTypes, Schedules
  <2>3. ResetDay(due, row.dom) \in Nat
    BY <2>2, ResetDayIn
  <2>4. Behind(due)
    BY <1>1, <2>1 DEF MonthInv
  <2>5. ResetDay(due, row.dom)' = ResetDay(due, row.dom)
    BY DEF ResetDay
  <2> QED
    BY <2>2, <2>3, <2>4, <2>5 DEF Behind, Midnight
<1>5. MonthInv'
  BY <1>1, <1>4 DEF MonthInv, ScheduleTypes, Schedules, LastDay
<1>6. ClearedOnce' /\ MonthOnce'
  BY <1>1 DEF ClearedOnce, MonthOnce
<1> QED
  BY <1>2, <1>3, <1>5, <1>6

\* The next occurrence of the panel-wide schedule is after now.
LEMMA Products ==
  ASSUME NEW a \in Nat, NEW b \in Nat, NEW s \in Nat, a <= b
  PROVE  a * s \in Nat /\ b * s \in Nat /\ a * s <= b * s
<1>1. PICK d \in Nat : b = a + d
  BY b - a \in Nat
<1>2. b * s = a * s + d * s
  BY <1>1
<1>3. a * s \in Nat /\ b * s \in Nat /\ d * s \in Nat
  BY <1>1
<1> QED
  BY <1>2, <1>3

LEMMA ScheduleNextIs ==
  ASSUME clock \in Nat, spec \in Nat \ {0}, zone \in {0, 1}
  PROVE  ScheduleNext \in Nat /\ ScheduleNext > clock
<1> DEFINE Later == {k \in 0..(clock + 1) : Midnight(k * spec, zone) > clock}
           Range == (clock + 1)..(clock + 2 * spec + 1)
           Soon == {t \in Range : Occurs(t)}
<1>1. clock + 1 \in Later
  <2>1. 1 * (clock + 1) <= spec * (clock + 1) /\ spec * (clock + 1) \in Nat
    BY Products
  <2>2. spec * (clock + 1) = (clock + 1) * spec
    OBVIOUS
  <2> HIDE DEF Later
  <2>3. (clock + 1) * spec \in Nat /\ (clock + 1) * spec >= clock + 1
    BY <2>1, <2>2
  <2>4. Midnight((clock + 1) * spec, zone) > clock
    BY <2>3 DEF Midnight
  <2> QED
    BY <2>4 DEF Later
<1>2. PICK k \in Later : \A j \in Later : k <= j
  <2>1. Later \subseteq Nat
    OBVIOUS
  <2> QED
    BY <1>1, <2>1, LeastNumber
<1>3. Midnight(k * spec, zone) \in Range
  <2>1. k \in Nat /\ k <= clock + 1 /\ Midnight(k * spec, zone) > clock
    BY <1>2
  <2>2. CASE k = 0
    BY <2>1, <2>2 DEF Midnight
  <2>3. CASE k > 0
    <3>1. k - 1 \in 0..(clock + 1) /\ k - 1 \notin Later
      BY <1>2, <2>1, <2>3
    <3>2. ~ (Midnight((k - 1) * spec, zone) > clock)
      BY <3>1
    <3>3. k * spec = (k - 1) * spec + spec
      BY <2>1
    <3>4. (k - 1) * spec \in Int
      BY <2>1
    <3> QED
      BY <2>1, <3>2, <3>3, <3>4 DEF Midnight
  <2> QED
    BY <2>1, <2>2, <2>3
<1>4. Midnight(k * spec, zone) \in Soon
  BY <1>2, <1>3 DEF Occurs
<1>5. PICK t \in Soon : \A u \in Soon : t <= u
  <2>1. Soon \subseteq Nat
    OBVIOUS
  <2> QED
    BY <1>4, <2>1, LeastNumber
<1>6. t \in Range /\ Occurs(t) /\ \A u \in (clock + 1)..(t - 1) : ~Occurs(u)
  BY <1>5
<1>7. ScheduleNext \in Range
  BY <1>6 DEF ScheduleNext
<1> QED
  BY <1>7

LEMMA GlobalStep ==
  ASSUME ScheduleInv, GlobalReset
  PROVE  /\ ScheduleInv'
         /\ glast' > 0 => glast < glast' /\ glast' <= clock /\ clock < gnext' /\ gfor = <<spec, zone>>
<1>1. ScheduleTypes /\ GlobalInv
  BY DEF ScheduleInv
<1>2. clock \in Nat /\ spec \in Nat \ {0} /\ zone \in {0, 1} /\ gnext' = ScheduleNext /\ row \in Schedules
  BY <1>1 DEF ScheduleTypes, GlobalReset
<1>3. gnext' \in Nat /\ gnext' > clock
  BY <1>2, ScheduleNextIs
<1>4. \/ glast' = 0 /\ row' = row
      \/ glast' = gnext /\ gfor = <<spec, zone>> /\ gnext # 0 /\ gnext <= clock /\ row' = [row EXCEPT !.used = 0, !.enable = TRUE]
  <2>1. CASE planGlobalReset = "arm"
    BY <2>1 DEF GlobalReset
  <2>2. CASE planGlobalReset = "run"
    <3>1. gfor = <<spec, zone>> /\ gnext # 0 /\ ~(gnext > clock)
      BY <2>2 DEF planGlobalReset
    <3>2. glast' = gnext /\ row' = [row EXCEPT !.used = 0, !.enable = TRUE]
      BY <2>2 DEF GlobalReset, ResetAllClientsTraffic
    <3> QED
      BY <1>1, <3>1, <3>2 DEF ScheduleTypes
  <2> QED
    BY <2>1, <2>2 DEF GlobalReset, planGlobalReset
<1>5. /\ row' \in Schedules /\ row'.auto = row.auto /\ row'.delay = row.delay /\ row'.days = row.days
      /\ row'.dom = row.dom /\ row'.next = row.next
  <2>1. CASE row' = row
    BY <1>2, <2>1
  <2>2. CASE row' = [row EXCEPT !.used = 0, !.enable = TRUE]
    BY <1>2, <2>2 DEF Schedules
  <2> QED
    BY <1>4, <2>1, <2>2
<1>6. UNCHANGED <<clock, zone, listed, last, prev, due, spec>>
  BY DEF GlobalReset
<1>7. RowInv' /\ PeriodInv' /\ MonthInv' /\ ClearedOnce' /\ MonthOnce'
  BY <1>2, <1>5, <1>6, Untouched
<1>8. ScheduleTypes'
  BY <1>1, <1>3, <1>4, <1>5, <1>6 DEF ScheduleTypes
<1>9. GlobalInv' /\ (glast' > 0 => glast < glast' /\ glast' <= clock /\ clock < gnext' /\ gfor = <<spec, zone>>)
  BY <1>1, <1>2, <1>3, <1>4 DEF GlobalInv, ScheduleTypes
<1> QED
  BY <1>7, <1>8, <1>9 DEF ScheduleInv

LEMMA SmallSteps ==
  ASSUME ScheduleInv, ListClients \/ EditBulk(listed) \/ UseTraffic \/ TimePasses \/ \E s \in SpecSet : SetSpec(s)
  PROVE  ScheduleInv' /\ UNCHANGED glast
<1>1. ScheduleTypes /\ GlobalInv
  BY DEF ScheduleInv
<1>2. /\ row' \in Schedules /\ row'.auto = row.auto /\ row'.delay = row.delay /\ row'.days = row.days
      /\ row'.dom = row.dom /\ row'.next = row.next
  BY <1>1 DEF ListClients, EditBulk, UseTraffic, TimePasses, SetSpec, Schedules, ScheduleTypes
<1>3. clock' \in Nat /\ clock' >= clock
  BY <1>1 DEF ListClients, EditBulk, UseTraffic, TimePasses, SetSpec, ScheduleTypes
<1>4. UNCHANGED <<zone, last, prev, due, gnext, glast>> /\ spec' \in Nat /\ listed' \in BOOLEAN
  BY <1>1, ScheduleConstants DEF ListClients, EditBulk, UseTraffic, TimePasses, SetSpec, ScheduleTypes, Schedules
<1>5. RowInv' /\ PeriodInv' /\ MonthInv' /\ ClearedOnce' /\ MonthOnce'
  BY <1>2, <1>3, <1>4, Untouched
<1>6. ScheduleTypes' /\ GlobalInv'
  BY <1>1, <1>2, <1>3, <1>4 DEF ScheduleTypes, GlobalInv
<1> QED
  BY <1>4, <1>5, <1>6 DEF ScheduleInv

\* A boundary is computed anew, and the history is of another day or of earlier months.
LEMMA NewBoundary ==
  ASSUME ScheduleInv, NEW c, c.dom = row'.dom, c.days = row'.days,
         row' \in Schedules, row'.auto, ~row'.delay, HasPeriod(row'),
         row'.next = nextResetAt(c, clock, zone).at, due' = nextResetAt(c, clock, zone).month,
         UNCHANGED <<clock, zone>>, last' \in Clears, last'.at <= clock,
         last'.dom > 0 => last'.dom = row'.dom /\ (due' > 0 => last'.month < due')
  PROVE  RowInv' /\ PeriodInv' /\ MonthInv' /\ due' \in Months \cup {0}
<1>1. ScheduleTypes
  BY DEF ScheduleInv
<1>2. clock \in Nat /\ clock >= 2 /\ zone \in {0, 1} /\ row'.dom \in Nat /\ row'.days \in Nat
  BY <1>1 DEF ScheduleTypes, Schedules
<1>3. /\ row'.next \in Nat /\ due' \in Months \cup {0}
      /\ row'.dom = 0 => row'.next = clock + 2 * row'.days /\ due' = 0
      /\ row'.dom > 0 /\ due' = 0 => row'.next = 2 * LastDay + 9
      /\ row'.dom > 0 /\ due' # 0 => row'.next = Midnight(ResetDay(due', row'.dom), zone)
  BY <1>2, NextResetIs
<1>4. LastDay \in Nat /\ LastDay' = LastDay /\ Months' = Months /\ 0 \notin Months /\ Months \subseteq Nat
  BY LastDayIs, Calendar DEF LastDay, Months, MonthCount
<1>5. RowInv'
  <2>1. row'.next > 0
    <3>1. CASE row'.dom > 0 /\ due' # 0
      <4>1. ResetDay(due', row'.dom) > DaysBefore[due'] /\ ResetDay(due', row'.dom) \in Nat /\ DaysBefore[due'] \in Nat
        BY <1>2, <1>3, <3>1, ResetDayIn, NextMonth
      <4> QED
        BY <1>2, <1>3, <3>1, <4>1 DEF Midnight
    <3> QED
      BY <1>2, <1>3, <1>4, <3>1
  <2> QED
    BY <2>1 DEF RowInv, HasPeriod
<1>6. PeriodInv'
  BY <1>2, <1>3 DEF PeriodInv, Clears
<1>7. due' > 0 => row'.dom > 0 /\ Behind(due)'
  <2>1. SUFFICES ASSUME due' > 0 PROVE row'.dom > 0 /\ Behind(due)'
    OBVIOUS
  <2>2. due' \in Months /\ row'.dom > 0
    BY <1>2, <1>3, <1>4, <2>1
  <2>3. ResetDay(due', row'.dom) \in Nat /\ row'.next = Midnight(ResetDay(due', row'.dom), zone)
    BY <1>2, <1>3, <1>4, <2>2, ResetDayIn
  <2>4. 2 * ResetDay(due', row'.dom) <= row'.next
    BY <1>2, <2>3 DEF Midnight
  <2> QED
    BY <2>2, <2>4 DEF Behind, ResetDay
<1>8. MonthInv'
  BY <1>2, <1>3, <1>4, <1>7 DEF MonthInv
<1> QED
  BY <1>3, <1>5, <1>6, <1>8

\* There is no boundary: no schedule, or one that waits for the first use.
LEMMA NoBoundary ==
  ASSUME ScheduleInv, row' \in Schedules, row'.next = 0, due' = 0, UNCHANGED <<clock, zone>>,
         last' \in Clears, last'.at <= clock, last'.dom = 0,
         \/ row'.auto /\ row'.delay /\ HasPeriod(row')
         \/ ~row'.auto /\ ~row'.delay /\ row'.days = 0 /\ row'.dom = 0
  PROVE  RowInv' /\ PeriodInv' /\ MonthInv'
BY DEF RowInv, PeriodInv, MonthInv, HasPeriod

\* The history is kept, or begins anew.
LEMMA RestartIs ==
  ASSUME ScheduleInv, NEW anew \in BOOLEAN, Restart(anew)
  PROVE  /\ last' \in Clears /\ prev' \in Clears /\ last'.at <= clock
         /\ anew => last'.dom = 0 /\ last'.at = -1
         /\ ~anew => last' = last
         /\ ClearedOnce' /\ MonthOnce'
<1>1. ScheduleTypes /\ RowInv /\ ClearedOnce /\ MonthOnce
  BY DEF ScheduleInv
<1>2. NoClear \in Clears /\ NoClear.at = -1 /\ NoClear.month = 0 /\ NoClear.dom = 0
  BY DEF NoClear, Clears
<1>3. CASE anew
  <2>1. last' = NoClear /\ prev' = NoClear
    BY <1>3 DEF Restart
  <2> QED
    BY <1>1, <1>2, <1>3, <2>1 DEF ScheduleTypes, ClearedOnce, MonthOnce
<1>4. CASE ~anew
  <2>1. last' = last /\ prev' = prev
    BY <1>4 DEF Restart
  <2> QED
    BY <1>1, <1>4, <2>1 DEF ScheduleTypes, RowInv, ClearedOnce, MonthOnce
<1> QED
  BY <1>3, <1>4

\* The time zone.
LEMMA ZoneStep ==
  ASSUME ScheduleInv, NEW z \in {0, 1}, SetZone(z)
  PROVE  ScheduleInv' /\ UNCHANGED glast
<1>1. ScheduleTypes /\ RowInv /\ PeriodInv /\ MonthInv /\ GlobalInv /\ ClearedOnce /\ MonthOnce
  BY DEF ScheduleInv
<1>2. /\ clock \in Nat /\ clock >= 2 /\ zone \in {0, 1} /\ row.dom \in Nat /\ row.days \in Nat /\ row.next \in Int
      /\ row \in Schedules /\ due \in Months \cup {0} /\ last \in Clears
  BY <1>1 DEF ScheduleTypes, Schedules
<1>3. UNCHANGED <<clock, listed, last, prev, spec, gnext, gfor, glast>> /\ zone' = z
  BY DEF SetZone
<1>4. LastDay \in Nat /\ LastDay' = LastDay /\ Months' = Months /\ 0 \notin Months /\ Months \subseteq Nat
  BY LastDayIs, Calendar DEF LastDay, Months, MonthCount
<1>5. due' \in {0, due}
  BY DEF SetZone
<1>6. GlobalInv' /\ ClearedOnce' /\ MonthOnce'
  BY <1>1, <1>3 DEF GlobalInv, ClearedOnce, MonthOnce
<1> DEFINE m == nextMonthlyReset(clock, row.dom, zone)
           b == Midnight(ResetDay(m, row.dom), z)
           Moves == /\ row.auto /\ ~row.delay /\ row.dom > 0 /\ row.next > clock
                    /\ m # 0 /\ row.next = Midnight(ResetDay(m, row.dom), zone)
<1>7. m \in Months \cup {0}
  BY <1>2, NextMonthlyIs
<1>8. row' = IF Moves THEN [row EXCEPT !.next = RebasedTo(z)] ELSE row
  BY DEF SetZone
<1>9. RebasedTo(z) = IF b <= clock THEN clock - 1 ELSE b
  BY DEF RebasedTo
<1>10. due' = IF Passed THEN 0 ELSE due
  BY DEF SetZone
<1> HIDE DEF m, b, Moves
<1>11. CASE Moves
  <2>1. /\ row.auto /\ ~row.delay /\ row.dom > 0 /\ row.next > clock /\ m \in Months
        /\ row.next = Midnight(ResetDay(m, row.dom), zone)
    BY <1>7, <1>11 DEF Moves
  <2>2. ResetDay(m, row.dom) \in Nat /\ ResetDay(m, row.dom) <= LastDay
    BY <1>2, <2>1, ResetDaysEnd
  <2>3. b = 2 * ResetDay(m, row.dom) + z /\ row.next = 2 * ResetDay(m, row.dom) + zone
    BY <2>1 DEF b, Midnight
  <2> DEFINE x == IF b <= clock THEN clock - 1 ELSE b
  <2>4. row' = [row EXCEPT !.next = x] /\ x \in Int /\ x > 0
    BY <1>2, <1>8, <1>9, <1>11, <2>2, <2>3
  <2>5. /\ row' \in Schedules /\ row'.auto = row.auto /\ row'.delay = row.delay /\ row'.days = row.days
        /\ row'.dom = row.dom /\ row'.next = x
    BY <1>2, <2>4 DEF Schedules
  <2>6. ~Passed /\ due' = due
    BY <1>2, <1>10, <2>1 DEF Passed
  <2>7. RowInv'
    BY <1>1, <1>3, <2>1, <2>4, <2>5 DEF RowInv, HasPeriod
  <2>8. PeriodInv'
    BY <2>1, <2>5 DEF PeriodInv
  <2>9. due > 0 => Behind(due)'
    <3>1. SUFFICES ASSUME due > 0 PROVE Behind(due)'
      OBVIOUS
    <3>2. due \in Months
      BY <1>2, <3>1
    <3>3. ResetDay(due, row.dom) \in Nat
      BY <1>2, <3>2, ResetDayIn
    <3>4. Behind(due)
      BY <1>1, <3>1 DEF MonthInv
    <3>5. 2 * ResetDay(due, row.dom) <= row.next
      BY <1>2, <2>1, <3>4 DEF Behind
    <3>6. ResetDay(due, row.dom) <= ResetDay(m, row.dom)
      BY <1>2, <2>2, <2>3, <3>3, <3>5
    <3>7. 2 * ResetDay(due, row.dom) <= x \/ (x < clock /\ Midnight(ResetDay(due, row.dom), z) <= clock)
      BY <1>2, <2>2, <2>3, <3>3, <3>6 DEF Midnight
    <3>8. ResetDay(due, row.dom)' = ResetDay(due, row.dom)
      BY <2>5, <2>6 DEF ResetDay
    <3> QED
      BY <1>3, <2>5, <3>7, <3>8 DEF Behind
  <2>10. last.dom > 0 => due > 0
    BY <1>1, <1>2, <1>4, <2>1, <2>2, <2>3 DEF MonthInv
  <2> HIDE DEF x
  <2>11. MonthInv'
    <3>1. due' > 0 => row'.auto /\ ~row'.delay /\ row'.dom > 0 /\ Behind(due)'
      BY <2>1, <2>5, <2>6, <2>9
    <3>2. last'.dom > 0 => row'.auto /\ ~row'.delay /\ last'.dom = row'.dom /\ due' > 0 /\ last'.month < due'
      BY <1>1, <1>3, <2>1, <2>5, <2>6, <2>10 DEF MonthInv
    <3> QED
      BY <3>1, <3>2 DEF MonthInv
  <2>12. ScheduleTypes'
    BY <1>1, <1>3, <1>4, <2>5, <2>6 DEF ScheduleTypes
  <2> QED
    BY <1>3, <1>6, <2>7, <2>8, <2>11, <2>12 DEF ScheduleInv
<1>12. CASE ~Moves
  <2>1. row' = row
    BY <1>8, <1>12
  <2>2. RowInv' /\ PeriodInv'
    BY <1>1, <1>3, <2>1 DEF RowInv, PeriodInv, HasPeriod
  <2>3. due' > 0 => Behind(due)'
    <3>1. SUFFICES ASSUME due' > 0 PROVE Behind(due)'
      OBVIOUS
    <3>2. due' = due /\ ~Passed /\ due > 0
      BY <1>10, <3>1
    <3>3. Behind(due) /\ row.auto /\ ~row.delay /\ row.dom > 0
      BY <1>1, <3>2 DEF MonthInv
    <3>4. 2 * ResetDay(due, row.dom) <= row.next
      BY <3>2, <3>3 DEF Behind, Passed, HasPeriod
    <3> QED
      BY <2>1, <3>2, <3>4 DEF Behind, ResetDay
  <2>4. MonthInv'
    BY <1>1, <1>2, <1>3, <1>4, <1>10, <2>1, <2>3 DEF MonthInv, Passed
  <2>5. ScheduleTypes'
    BY <1>1, <1>3, <1>4, <1>5, <2>1 DEF ScheduleTypes
  <2> QED
    BY <1>3, <1>6, <2>2, <2>4, <2>5 DEF ScheduleInv
<1> QED
  BY <1>11, <1>12

\* A schedule for a selection.
LEMMA PolicyStep ==
  ASSUME ScheduleInv, NEW auto \in BOOLEAN, NEW days \in ResetDaysSet, NEW dom \in ResetDomSet,
         ResetPolicy(auto, days, dom)
  PROVE  ScheduleInv' /\ UNCHANGED glast
<1>1. ScheduleTypes /\ RowInv /\ PeriodInv /\ MonthInv /\ GlobalInv /\ ClearedOnce /\ MonthOnce
  BY DEF ScheduleInv
<1>2. /\ clock \in Nat /\ clock >= 2 /\ zone \in {0, 1} /\ row \in Schedules /\ days \in Nat /\ dom \in Nat
      /\ row.dom \in Nat /\ row.days \in Nat /\ row.next \in Int /\ due \in Months \cup {0} /\ last \in Clears
  BY <1>1, ScheduleConstants DEF ScheduleTypes, Schedules
<1>3. UNCHANGED <<clock, zone, listed, spec, gnext, gfor, glast>>
  BY DEF ResetPolicy
<1> DEFINE c == [row EXCEPT !.auto = auto, !.days = IF auto THEN days ELSE 0, !.dom = IF auto THEN dom ELSE 0,
                            !.delay = auto /\ row.delay]
           keep == auto /\ row.auto /\ row.days = days /\ row.dom = dom /\ row.next > clock
           n == nextResetAt(c, clock, zone)
           anew == c.dom # row.dom \/ (c.dom > 0 /\ ~keep)
           x == IF row.delay \/ ~auto THEN 0 ELSE IF keep THEN row.next ELSE n.at
<1>4. /\ row' = [c EXCEPT !.next = x]
      /\ due' = IF row.delay \/ ~auto THEN 0 ELSE IF keep THEN due ELSE n.month
      /\ Restart(anew) /\ (auto => days > 0 \/ dom > 0)
  BY DEF ResetPolicy
<1>5. /\ c \in Schedules /\ c.auto = auto /\ c.days = (IF auto THEN days ELSE 0) /\ c.dom = (IF auto THEN dom ELSE 0)
      /\ c.delay = (auto /\ row.delay)
  BY <1>2 DEF Schedules
<1> HIDE DEF c
<1>6. n.at \in Nat /\ n.month \in Months \cup {0} /\ c.dom \in Nat /\ c.days \in Nat
  BY <1>2, <1>5, NextResetIs DEF Schedules
<1>7. x \in Int
  BY <1>2, <1>6
<1> HIDE DEF n, x
<1>8. /\ row' \in Schedules /\ row'.auto = c.auto /\ row'.days = c.days /\ row'.dom = c.dom /\ row'.delay = c.delay
      /\ row'.next = x
  BY <1>4, <1>5, <1>7 DEF Schedules
<1>9. anew \in BOOLEAN
  OBVIOUS
<1> HIDE DEF keep, anew
<1>10. /\ last' \in Clears /\ prev' \in Clears /\ last'.at <= clock /\ ClearedOnce' /\ MonthOnce'
       /\ anew => last'.dom = 0 /\ last'.at = -1
       /\ ~anew => last' = last
  BY <1>4, <1>9, RestartIs
<1>11. CASE row.delay \/ ~auto
  <2>1. x = 0 /\ due' = 0 /\ ~keep
    BY <1>1, <1>2, <1>4, <1>11 DEF x, keep, RowInv
  <2>2. last'.dom = 0
    <3>1. CASE anew
      BY <1>10, <3>1
    <3>2. CASE ~anew
      BY <1>1, <1>2, <1>5, <1>6, <1>10, <2>1, <3>2 DEF anew, MonthInv, Clears
    <3> QED
      BY <3>1, <3>2
  <2>3. \/ row'.auto /\ row'.delay /\ HasPeriod(row')
        \/ ~row'.auto /\ ~row'.delay /\ row'.days = 0 /\ row'.dom = 0
    BY <1>4, <1>5, <1>8, <1>11 DEF HasPeriod
  <2>4. RowInv' /\ PeriodInv' /\ MonthInv'
    BY <1>3, <1>8, <1>10, <2>1, <2>2, <2>3, NoBoundary
  <2> QED
    BY <1>1, <1>2, <1>3, <1>8, <1>10, <2>1, <2>4 DEF ScheduleInv, ScheduleTypes, Months, GlobalInv
<1>12. CASE auto /\ ~row.delay /\ keep
  <2>1. x = row.next /\ due' = due /\ ~anew
    BY <1>2, <1>4, <1>5, <1>12 DEF x, keep, anew
  <2>2. /\ row'.auto = row.auto /\ row'.delay = row.delay /\ row'.days = row.days
        /\ row'.dom = row.dom /\ row'.next = row.next
    BY <1>2, <1>5, <1>8, <1>12, <2>1 DEF keep, Schedules
  <2>3. UNCHANGED <<last, prev>>
    BY <1>4, <2>1 DEF Restart
  <2>4. RowInv' /\ PeriodInv' /\ MonthInv'
    BY <1>2, <1>3, <1>8, <2>1, <2>2, <2>3, Untouched
  <2> QED
    BY <1>1, <1>2, <1>3, <1>8, <1>10, <2>1, <2>4 DEF ScheduleInv, ScheduleTypes, Months, GlobalInv
<1>13. CASE auto /\ ~row.delay /\ ~keep
  <2>1. x = n.at /\ due' = n.month
    BY <1>4, <1>13 DEF x
  <2>2. last'.dom = 0
    <3>1. CASE anew
      BY <1>10, <3>1
    <3>2. CASE ~anew
      BY <1>1, <1>2, <1>5, <1>6, <1>10, <1>13, <3>2 DEF anew, MonthInv, Clears
    <3> QED
      BY <3>1, <3>2
  <2>3. row'.auto /\ ~row'.delay /\ HasPeriod(row')
    BY <1>4, <1>5, <1>8, <1>13 DEF HasPeriod
  <2>4. RowInv' /\ PeriodInv' /\ MonthInv'
    <3>1. row'.next = nextResetAt(c, clock, zone).at /\ due' = nextResetAt(c, clock, zone).month
      BY <1>8, <2>1 DEF n
    <3> QED
      BY <1>3, <1>8, <1>10, <2>2, <2>3, <3>1, NewBoundary
  <2> QED
    BY <1>1, <1>2, <1>3, <1>6, <1>8, <1>10, <2>1, <2>4 DEF ScheduleInv, ScheduleTypes, Months, GlobalInv
<1> QED
  BY <1>11, <1>12, <1>13

\* The job of every minute.
LEMMA DepleteStep ==
  ASSUME ScheduleInv, DepleteClients
  PROVE  ScheduleInv' /\ UNCHANGED glast
<1>1. ScheduleTypes /\ RowInv /\ PeriodInv /\ MonthInv /\ GlobalInv /\ ClearedOnce /\ MonthOnce
  BY DEF ScheduleInv
<1>2. /\ clock \in Nat /\ clock >= 2 /\ zone \in {0, 1} /\ row \in Schedules
      /\ row.dom \in Nat /\ row.days \in Nat /\ row.next \in Int /\ due \in Months \cup {0} /\ last \in Clears /\ prev \in Clears
  BY <1>1 DEF ScheduleTypes, Schedules
<1>3. UNCHANGED <<clock, zone, listed, spec, gnext, gfor, glast>>
  BY DEF DepleteClients
<1>4. Months' = Months /\ 0 \notin Months /\ Months \subseteq Nat /\ LastDay \in Nat
  BY LastDayIs, Calendar DEF Months, MonthCount
<1> DEFINE n == nextResetAt(row, clock, zone)
<1>5. /\ n.at \in Nat /\ n.month \in Months \cup {0}
      /\ row.dom = 0 => n.at = clock + 2 * row.days /\ n.month = 0
      /\ row.dom > 0 /\ n.month # 0 => n.at = Midnight(ResetDay(n.month, row.dom), zone) /\ n.at > clock
      /\ row.dom > 0 /\ n.month = 0 => n.at = 2 * LastDay + 9
  BY <1>2, NextResetIs
<1> HIDE DEF n
<1> DEFINE r == AfterReset
<1>6. r \in Schedules => row' \in Schedules /\ row'.auto = r.auto /\ row'.days = r.days /\ row'.dom = r.dom /\ row'.delay = r.delay
                      /\ row'.next = r.next
  <2>1. row' = r \/ row' = [r EXCEPT !.enable = FALSE]
    BY DEF DepleteClients
  <2> HIDE DEF r
  <2> QED
    BY <2>1 DEF Schedules
<1>7. due' = IF r.next # row.next \/ Passed THEN n.month ELSE due
  BY DEF DepleteClients, n
<1>8. CASE FirstUse
  <2>1. row.delay /\ row.auto /\ HasPeriod(row) /\ ~Passed /\ row.next = 0
    BY <1>1, <1>8 DEF FirstUse, RowInv, Passed
  <2>2. r = [row EXCEPT !.delay = FALSE, !.next = n.at]
    BY <1>8, <2>1 DEF AfterReset, n
  <2>3. /\ r \in Schedules /\ r.auto = row.auto /\ r.days = row.days /\ r.dom = row.dom /\ r.delay = FALSE
        /\ r.next = n.at
    <3>1. n.at \in Int
      BY <1>5
    <3> HIDE DEF r
    <3> QED
      BY <1>2, <2>2, <3>1 DEF Schedules
  <2>4. n.at > 0
    <3>1. CASE row.dom = 0
      BY <1>2, <1>5, <3>1
    <3>2. CASE row.dom > 0
      BY <1>2, <1>4, <1>5, <3>2
    <3> QED
      BY <1>2, <3>1, <3>2
  <2>5. due' = n.month
    BY <1>7, <2>1, <2>3, <2>4
  <2>6. UNCHANGED <<last, prev>>
    BY <2>1 DEF DepleteClients
  <2>7. last.dom = 0 /\ last.at <= clock
    BY <1>1, <1>2, <2>1 DEF MonthInv, Clears, RowInv
  <2>8. RowInv' /\ PeriodInv' /\ MonthInv'
    <3>1. row'.next = nextResetAt(row, clock, zone).at /\ due' = nextResetAt(row, clock, zone).month
      BY <1>6, <2>3, <2>5 DEF n
    <3>2. row' \in Schedules /\ row'.auto /\ ~row'.delay /\ row.dom = row'.dom /\ row.days = row'.days /\ HasPeriod(row')
      BY <1>6, <2>1, <2>3 DEF HasPeriod
    <3>3. last' \in Clears /\ last'.at <= clock /\ last'.dom = 0
      BY <1>2, <2>6, <2>7
    <3> QED
      BY <1>3, <3>1, <3>2, <3>3, NewBoundary
  <2>9. ClearedOnce' /\ MonthOnce' /\ ScheduleTypes' /\ GlobalInv'
    BY <1>1, <1>3, <1>4, <1>5, <1>6, <2>3, <2>5, <2>6 DEF ScheduleTypes, ClearedOnce, MonthOnce, GlobalInv
  <2> QED
    BY <1>3, <2>8, <2>9 DEF ScheduleInv
<1>9. CASE ~FirstUse /\ Passed
  <2>1. row.auto /\ ~row.delay /\ HasPeriod(row) /\ row.next < clock
    BY <1>9 DEF Passed
  <2>2. r = [row EXCEPT !.next = n.at, !.used = 0, !.enable = TRUE]
    BY <1>9 DEF AfterReset, n
  <2>3. /\ r \in Schedules /\ r.auto = row.auto /\ r.days = row.days /\ r.dom = row.dom /\ r.delay = row.delay
        /\ r.next = n.at
    <3>1. n.at \in Int
      BY <1>5
    <3> HIDE DEF r
    <3> QED
      BY <1>2, <2>2, <3>1 DEF Schedules
  <2>4. due' = n.month
    BY <1>7, <1>9
  <2>5. prev' = last /\ last' = IF row.dom > 0 /\ due = 0 THEN NoClear ELSE [at |-> clock, month |-> due, dom |-> row.dom]
    BY <1>9 DEF DepleteClients
  <2>6. NoClear \in Clears /\ NoClear.at = -1 /\ NoClear.month = 0 /\ NoClear.dom = 0
    BY DEF NoClear, Clears
  <2>7. /\ last' \in Clears /\ last'.at <= clock
        /\ last'.dom > 0 => last'.dom = row.dom /\ due > 0 /\ last'.month = due
        /\ last'.at >= 0 => last'.at = clock /\ last'.dom = row.dom
    <3>1. CASE row.dom > 0 /\ due = 0
      BY <1>2, <2>5, <2>6, <3>1
    <3>2. CASE ~(row.dom > 0 /\ due = 0)
      <4>1. last' = [at |-> clock, month |-> due, dom |-> row.dom]
        BY <2>5, <3>2
      <4>2. due \in Nat /\ (row.dom > 0 => due > 0)
        BY <1>2, <1>4, <3>2
      <4> QED
        BY <1>2, <4>1, <4>2 DEF Clears
    <3> QED
      BY <3>1, <3>2
  <2>8. row.dom > 0 /\ due > 0 /\ n.month > 0 => due < n.month
    <3>1. SUFFICES ASSUME row.dom > 0, due > 0, n.month > 0 PROVE due < n.month
      OBVIOUS
    <3>2. due \in Months /\ n.month \in Months /\ row.dom \in Nat \ {0}
      BY <1>2, <1>5, <3>1
    <3>3. ResetDay(due, row.dom) \in Nat /\ ResetDay(n.month, row.dom) \in Nat
      BY <3>2, ResetDayIn
    <3>4. Behind(due)
      BY <1>1, <3>1 DEF MonthInv
    <3>5. Midnight(ResetDay(due, row.dom), zone) <= clock
      BY <1>2, <2>1, <3>3, <3>4 DEF Behind, Midnight
    <3>6. Midnight(ResetDay(n.month, row.dom), zone) > clock
      BY <1>4, <1>5, <3>1, <3>2
    <3>7. ~(ResetDay(n.month, row.dom) <= ResetDay(due, row.dom))
      BY <1>2, <3>3, <3>5, <3>6 DEF Midnight
    <3>8. due <= n.month
      BY <3>2, <3>3, <3>7, ResetDaysGrow
    <3>9. due # n.month
      BY <3>3, <3>7
    <3>10. due \in Nat /\ n.month \in Nat
      BY <1>4, <3>2
    <3> QED
      BY <3>8, <3>9, <3>10
  <2>9. RowInv' /\ PeriodInv' /\ MonthInv'
    <3>1. row'.next = nextResetAt(row, clock, zone).at /\ due' = nextResetAt(row, clock, zone).month
      BY <1>6, <2>3, <2>4 DEF n
    <3>2. row' \in Schedules /\ row'.auto /\ ~row'.delay /\ row.dom = row'.dom /\ row.days = row'.days /\ HasPeriod(row')
      BY <1>6, <2>1, <2>3 DEF HasPeriod
    <3>3. last'.dom > 0 => last'.dom = row'.dom /\ (due' > 0 => last'.month < due')
      BY <2>4, <2>7, <2>8, <3>2
    <3> QED
      BY <1>3, <2>7, <3>1, <3>2, <3>3, NewBoundary
  <2>10. ClearedOnce'
    <3>1. SUFFICES ASSUME last'.at >= 0, last'.dom = 0, last.dom = 0 PROVE last.at < last'.at
      BY <2>5 DEF ClearedOnce
    <3>2. row.dom = 0 /\ last'.at = clock
      BY <2>7, <3>1
    <3> QED
      BY <1>1, <1>2, <2>1, <3>1, <3>2 DEF PeriodInv, Clears
  <2>11. MonthOnce'
    BY <1>1, <2>5, <2>7 DEF MonthOnce, MonthInv
  <2>12. ScheduleTypes' /\ GlobalInv'
    BY <1>1, <1>3, <1>4, <1>5, <1>6, <2>3, <2>4, <2>5, <2>7 DEF ScheduleTypes, GlobalInv
  <2> QED
    BY <1>3, <2>9, <2>10, <2>11, <2>12 DEF ScheduleInv
<1>10. CASE ~FirstUse /\ ~Passed
  <2>1. r = row
    BY <1>10 DEF AfterReset
  <2>2. due' = due
    BY <1>7, <1>10, <2>1
  <2>3. UNCHANGED <<last, prev>>
    BY <1>10 DEF DepleteClients
  <2>4. /\ row' \in Schedules /\ row'.auto = row.auto /\ row'.delay = row.delay /\ row'.days = row.days
        /\ row'.dom = row.dom /\ row'.next = row.next
    BY <1>2, <1>6, <2>1
  <2>5. RowInv' /\ PeriodInv' /\ MonthInv' /\ ClearedOnce' /\ MonthOnce'
    BY <1>2, <1>3, <2>2, <2>3, <2>4, Untouched
  <2>6. ScheduleTypes' /\ GlobalInv'
    BY <1>1, <1>3, <1>4, <2>2, <2>3, <2>4 DEF ScheduleTypes, GlobalInv
  <2> QED
    BY <1>3, <2>5, <2>6 DEF ScheduleInv
<1> QED
  BY <1>8, <1>9, <1>10

\* What an edit may send.
LEMMA EditsAre ==
  ASSUME ScheduleTypes, RowInv, NEW e \in Edits
  PROVE  /\ e.c \in Schedules /\ e.hasNext \in BOOLEAN
         /\ e.c.auto => HasPeriod(e.c)
         /\ ~e.hasNext => e.c.next = row.next
         /\ e.hasNext => /\ e.c.auto = row.auto /\ e.c.delay = row.delay /\ e.c.days = row.days /\ e.c.dom = row.dom
                         /\ e.c.next >= 0
<1>1. row \in Schedules /\ clock \in Nat /\ clock >= 2
  BY DEF ScheduleTypes
<1> DEFINE A == {[row EXCEPT !.enable = x] : x \in BOOLEAN} \cup {[row EXCEPT !.used = 0]}
           B == ByDays(TRUE)
           B2 == ByDays(FALSE)
           C == {[row EXCEPT !.auto = TRUE, !.dom = d] : d \in {x \in ResetDomSet : x > 0 \/ row.days > 0}}
           D == {[row EXCEPT !.auto = FALSE]}
           T == {[row EXCEPT !.next = t] : t \in {0, clock - 1, clock + 1}}
           Good(c) == c \in Schedules /\ (c.auto => HasPeriod(c)) /\ c.next = row.next
<1>2. \A c \in A : Good(c)
  BY <1>1 DEF Schedules, RowInv, HasPeriod
<1>3. ASSUME NEW w \in BOOLEAN PROVE \A c \in ByDays(w) : Good(c)
  <2>1. ASSUME NEW d \in ResetDaysSet \ {0}, NEW c, c = [row EXCEPT !.auto = TRUE, !.days = d, !.delay = w]
        PROVE  Good(c)
    <3>1. d \in Nat /\ d > 0
      BY ScheduleConstants
    <3>2. c \in Schedules /\ c.days = d /\ c.next = row.next
      BY <1>1, <2>1, <3>1 DEF Schedules
    <3> QED
      BY <3>1, <3>2 DEF HasPeriod
  <2> HIDE DEF Good
  <2> QED
    BY <2>1 DEF ByDays
<1>4. \A c \in C : Good(c)
  BY <1>1, ScheduleConstants DEF Schedules, HasPeriod
<1>5. \A c \in D : Good(c)
  BY <1>1 DEF Schedules, HasPeriod
<1>6. \A c \in T : /\ c \in Schedules /\ (c.auto => HasPeriod(c)) /\ c.next >= 0
                   /\ c.auto = row.auto /\ c.delay = row.delay /\ c.days = row.days /\ c.dom = row.dom
  BY <1>1 DEF Schedules, RowInv, HasPeriod
<1>7. e \in [c : A \cup B \cup B2 \cup C \cup D, hasNext : {FALSE}] \cup [c : T, hasNext : {TRUE}]
  <2>1. Edits = [c : A \cup B \cup B2 \cup C \cup D, hasNext : {FALSE}] \cup [c : T, hasNext : {TRUE}]
    BY DEF Edits
  <2> HIDE DEF A, B, B2, C, D, T
  <2> QED
    BY <2>1
<1> HIDE DEF A, B, B2, C, D, T, Good
<1>10. (\A c \in B : Good(c)) /\ (\A c \in B2 : Good(c))
  BY <1>3 DEF B, B2
<1>8. CASE e \in [c : A \cup B \cup B2 \cup C \cup D, hasNext : {FALSE}]
  <2>1. e.c \in A \cup B \cup B2 \cup C \cup D /\ e.hasNext = FALSE
    BY <1>8
  <2>2. Good(e.c)
    BY <1>2, <1>4, <1>5, <1>10, <2>1
  <2> QED
    BY <2>1, <2>2 DEF Good
<1>9. CASE e \in [c : T, hasNext : {TRUE}]
  <2>1. e.c \in T /\ e.hasNext = TRUE
    BY <1>9
  <2> QED
    BY <1>6, <2>1
<1> QED
  BY <1>7, <1>8, <1>9

\* normalizeResetSchedule, and when it moves the boundary.
Shifts(c, hasNext, stored) ==
  /\ ~hasNext /\ c.auto /\ stored.auto /\ c.dom = 0 /\ stored.dom = 0
  /\ c.days > 0 /\ stored.days > 0 /\ stored.next > 0

Normalized(n, c, hasNext, stored) ==
  /\ n \in Schedules /\ n.auto = c.auto
  /\ c.auto => n.days = c.days /\ n.dom = c.dom /\ n.delay = c.delay
  /\ ~c.auto => n.days = 0 /\ n.dom = 0 /\ n.delay = FALSE
  /\ Shifts(c, hasNext, stored) => n.next = stored.next + 2 * (c.days - stored.days)
  /\ ~Shifts(c, hasNext, stored) => n.next = c.next

LEMMA NormalizeIs ==
  ASSUME NEW c \in Schedules, NEW hasNext \in BOOLEAN, NEW stored \in Schedules
  PROVE  Normalized(normalizeResetSchedule(c, hasNext, stored), c, hasNext, stored)
<1> DEFINE n == normalizeResetSchedule(c, hasNext, stored)
<1> SUFFICES Normalized(n, c, hasNext, stored)
  OBVIOUS
<1> USE DEF Normalized
<1> DEFINE x == stored.next + 2 * (c.days - stored.days)
           s == IF Shifts(c, hasNext, stored) THEN [c EXCEPT !.next = x] ELSE c
<1>1. n = IF c.auto THEN s ELSE [s EXCEPT !.delay = FALSE, !.days = 0, !.dom = 0]
  BY DEF normalizeResetSchedule, Shifts
<1> HIDE DEF n
<1>2. x \in Int
  BY DEF Schedules
<1> HIDE DEF x
<1>3. /\ s \in Schedules /\ s.auto = c.auto /\ s.days = c.days /\ s.dom = c.dom /\ s.delay = c.delay
      /\ s.next = IF Shifts(c, hasNext, stored) THEN x ELSE c.next
  BY <1>2 DEF Schedules
<1> HIDE DEF s
<1>4. CASE c.auto
  BY <1>1, <1>3, <1>4 DEF x
<1>5. CASE ~c.auto
  <2>1. n = [s EXCEPT !.delay = FALSE, !.days = 0, !.dom = 0]
    BY <1>1, <1>5
  <2>2. n \in Schedules /\ n.auto = s.auto /\ n.days = 0 /\ n.dom = 0 /\ n.delay = FALSE /\ n.next = s.next
    <3>1. s \in Schedules
      BY <1>3
    <3>2. n = [enable |-> s.enable, auto |-> s.auto, delay |-> FALSE, days |-> 0, dom |-> 0, next |-> s.next, used |-> s.used]
      BY <2>1, <3>1, Zenon DEF Schedules
    <3> QED
      BY <3>1, <3>2 DEF Schedules
  <2> QED
    BY <1>3, <1>5, <2>2 DEF x
<1> QED
  BY <1>4, <1>5

\* An edited client is saved.
LEMMA EditStep ==
  ASSUME ScheduleInv, NEW e \in Edits, EditClient(e.c, e.hasNext)
  PROVE  ScheduleInv' /\ UNCHANGED glast
<1>1. ScheduleTypes /\ RowInv /\ PeriodInv /\ MonthInv /\ GlobalInv /\ ClearedOnce /\ MonthOnce
  BY DEF ScheduleInv
<1>2. /\ clock \in Nat /\ clock >= 2 /\ zone \in {0, 1} /\ row \in Schedules
      /\ row.dom \in Nat /\ row.days \in Nat /\ row.next \in Int /\ due \in Months \cup {0} /\ last \in Clears
      /\ row.auto \in BOOLEAN /\ row.delay \in BOOLEAN
  BY <1>1 DEF ScheduleTypes, Schedules
<1>3. UNCHANGED <<clock, zone, listed, spec, gnext, gfor, glast>>
  BY DEF EditClient
<1>4. Months' = Months /\ 0 \notin Months /\ Months \subseteq Nat /\ LastDay \in Nat
  BY LastDayIs, Calendar DEF Months, MonthCount
<1> DEFINE c == e.c
           h == e.hasNext
<1>5. /\ c \in Schedules /\ h \in BOOLEAN /\ (c.auto => HasPeriod(c)) /\ (~h => c.next = row.next)
      /\ h => c.auto = row.auto /\ c.delay = row.delay /\ c.days = row.days /\ c.dom = row.dom /\ c.next >= 0
  BY <1>1, EditsAre
<1> HIDE DEF c, h
<1>6. EditClient(c, h)
  BY DEF c, h
<1> DEFINE n == normalizeResetSchedule(c, h, row)
           a == alignNextReset(n, row)
           N == nextResetAt(n, clock, zone)
           anew == (h /\ c.next # 0) \/ n.dom # row.dom \/ (n.dom > 0 /\ a.next # row.next)
<1>7. row' = [n EXCEPT !.next = a.next] /\ due' = (IF h /\ a.next = c.next THEN 0 ELSE a.month) /\ Restart(anew)
  BY <1>6 DEF EditClient
<1>8. /\ n \in Schedules /\ n.auto = c.auto
      /\ c.auto => n.days = c.days /\ n.dom = c.dom /\ n.delay = c.delay
      /\ ~c.auto => n.days = 0 /\ n.dom = 0 /\ n.delay = FALSE
      /\ Shifts(c, h, row) => n.next = row.next + 2 * (c.days - row.days)
      /\ ~Shifts(c, h, row) => n.next = c.next
  <2>1. c \in Schedules /\ h \in BOOLEAN /\ row \in Schedules
    BY <1>2, <1>5
  <2>2. Normalized(normalizeResetSchedule(c, h, row), c, h, row)
    BY <2>1, NormalizeIs
  <2>3. Normalized(n, c, h, row)
    BY <2>2
  <2> HIDE DEF n
  <2> QED
    BY <2>3 DEF Normalized
<1> HIDE DEF n
<1>9. n.dom \in Nat /\ n.days \in Nat /\ n.next \in Int /\ n.auto \in BOOLEAN /\ n.delay \in BOOLEAN /\ (n.auto => HasPeriod(n))
  BY <1>5, <1>8 DEF Schedules, HasPeriod
<1>10. /\ N.at \in Nat /\ N.month \in Months \cup {0}
       /\ n.dom = 0 => N.at = clock + 2 * n.days /\ N.month = 0
       /\ n.dom > 0 /\ N.month = 0 => N.at = 2 * LastDay + 9
       /\ n.dom > 0 /\ N.month # 0 => N.at = Midnight(ResetDay(N.month, n.dom), zone) /\ N.at > clock /\ N.at < 2 * LastDay + 9
  BY <1>2, <1>9, NextResetIs
<1> DEFINE Off == ~n.auto \/ n.delay
           Fresh == n.next <= 0 \/ row.dom # n.dom \/ (~row.auto /\ n.next <= clock)
<1>11. /\ Off => a.next = 0 /\ a.month = 0
       /\ ~Off /\ Fresh => a.next = N.at /\ a.month = N.month
       /\ ~Off /\ ~Fresh => a.next = n.next /\ a.month = due
  BY <1>9 DEF alignNextReset
<1> HIDE DEF a, N
<1>12. a.next \in Int
  BY <1>9, <1>10, <1>11
<1>13. /\ row' \in Schedules /\ row'.auto = n.auto /\ row'.days = n.days /\ row'.dom = n.dom /\ row'.delay = n.delay
       /\ row'.next = a.next
  BY <1>7, <1>8, <1>12 DEF Schedules
<1>14. anew \in BOOLEAN
  OBVIOUS
<1> HIDE DEF anew, Off, Fresh
<1>15. /\ last' \in Clears /\ prev' \in Clears /\ last'.at <= clock /\ ClearedOnce' /\ MonthOnce'
       /\ anew => last'.dom = 0 /\ last'.at = -1
       /\ ~anew => last' = last
  BY <1>7, <1>14, RestartIs
<1>16. CASE Off
  <2>1. a.next = 0 /\ due' = 0
    BY <1>7, <1>11, <1>16
  <2>2. last'.dom = 0
    <3>1. CASE anew
      BY <1>15, <3>1
    <3>2. CASE ~anew
      <4>1. n.dom = row.dom /\ (n.dom > 0 => row.next = 0)
        BY <1>9, <2>1, <3>2 DEF anew
      <4> QED
        BY <1>1, <1>2, <1>15, <3>2, <4>1 DEF MonthInv, RowInv, Clears
    <3> QED
      BY <3>1, <3>2
  <2>3. \/ row'.auto /\ row'.delay /\ HasPeriod(row')
        \/ ~row'.auto /\ ~row'.delay /\ row'.days = 0 /\ row'.dom = 0
    BY <1>8, <1>9, <1>13, <1>16 DEF HasPeriod, Off
  <2>4. RowInv' /\ PeriodInv' /\ MonthInv'
    BY <1>3, <1>13, <1>15, <2>1, <2>2, <2>3, NoBoundary
  <2> QED
    BY <1>1, <1>2, <1>3, <1>4, <1>13, <1>15, <2>1, <2>4 DEF ScheduleInv, ScheduleTypes, GlobalInv
<1>17. CASE ~Off /\ Fresh
  <2>1. row'.auto /\ ~row'.delay /\ HasPeriod(row')
    BY <1>9, <1>13, <1>17 DEF HasPeriod, Off
  <2>2. N.at > 0
    <3>1. CASE n.dom = 0
      BY <1>2, <1>9, <1>10, <3>1
    <3>2. CASE n.dom > 0
      BY <1>2, <1>4, <1>10, <3>2
    <3> QED
      BY <1>9, <3>1, <3>2
  <2>3. CASE h /\ N.at = c.next
    \* A date that is typed in and is the computed one.
    <3>1. due' = 0 /\ row'.next = c.next
      BY <1>7, <1>11, <1>13, <1>17, <2>3
    <3>2. n.next = c.next /\ n.dom = row.dom /\ row.auto
      BY <1>2, <1>5, <1>8, <1>9, <1>17, <2>3 DEF Shifts, Off
    <3> QED
      BY <1>9, <1>17, <2>2, <2>3, <3>2 DEF Fresh
  <2>4. CASE ~(h /\ N.at = c.next)
    <3>1. due' = N.month /\ row'.next = N.at
      BY <1>7, <1>11, <1>13, <1>17, <2>4
    <3>2. last'.dom > 0 => last'.dom = n.dom /\ (due' > 0 => last'.month < due')
      <4>1. SUFFICES ASSUME last'.dom > 0 PROVE last'.dom = n.dom /\ (due' > 0 => last'.month < due')
        OBVIOUS
      <4>2. ~anew /\ last' = last
        BY <1>15, <4>1
      <4>3. n.dom = row.dom /\ (n.dom > 0 => row.next = N.at)
        BY <1>11, <1>17, <4>2 DEF anew
      <4>4. /\ last.dom = row.dom /\ row.dom > 0 /\ (due > 0 => last.month < due)
            /\ due = 0 => row.next < clock \/ row.next = 2 * LastDay + 9
        BY <1>1, <1>2, <4>1, <4>2 DEF MonthInv
      <4>5. ASSUME N.month > 0 PROVE last.month < N.month
        <5>1. N.month \in Months /\ N.at = Midnight(ResetDay(N.month, row.dom), zone) /\ N.at > clock /\ N.at < 2 * LastDay + 9
          BY <1>4, <1>9, <1>10, <4>3, <4>4, <4>5
        <5>2. due > 0 /\ due \in Months
          BY <1>2, <1>4, <4>3, <4>4, <5>1
        <5>3. ResetDay(N.month, row.dom) \in Nat /\ ResetDay(due, row.dom) \in Nat
          BY <1>2, <5>1, <5>2, ResetDayIn
        <5>4. Behind(due)
          BY <1>1, <5>2 DEF MonthInv
        <5>5. 2 * ResetDay(due, row.dom) <= row.next
          BY <1>2, <4>3, <4>4, <5>1, <5>4 DEF Behind
        <5>6. ResetDay(due, row.dom) <= ResetDay(N.month, row.dom)
          BY <1>2, <4>3, <4>4, <5>1, <5>3, <5>5 DEF Midnight
        <5>7. due <= N.month
          BY <1>2, <4>4, <5>1, <5>2, <5>6, ResetDaysGrow
        <5>8. last.month \in Nat /\ due \in Nat /\ N.month \in Nat
          BY <1>2, <1>4, <5>1, <5>2 DEF Clears
        <5> QED
          BY <4>4, <5>2, <5>7, <5>8
      <4> QED
        BY <3>1, <4>2, <4>3, <4>4, <4>5
    <3>3. RowInv' /\ PeriodInv' /\ MonthInv'
      <4>1. row'.next = nextResetAt(n, clock, zone).at /\ due' = nextResetAt(n, clock, zone).month
        BY <3>1 DEF N
      <4>2. last'.dom > 0 => last'.dom = row'.dom /\ (due' > 0 => last'.month < due')
        BY <1>13, <3>2
      <4> QED
        BY <1>3, <1>13, <1>15, <2>1, <4>1, <4>2, NewBoundary
    <3> QED
      BY <1>1, <1>2, <1>3, <1>4, <1>10, <1>13, <1>15, <3>1, <3>3 DEF ScheduleInv, ScheduleTypes, GlobalInv
  <2> QED
    BY <2>3, <2>4
<1>18. CASE ~Off /\ ~Fresh
  <2>1. row'.auto /\ ~row'.delay /\ HasPeriod(row')
    BY <1>9, <1>13, <1>18 DEF HasPeriod, Off
  <2>2. a.next = n.next /\ a.month = due /\ n.next > 0 /\ n.dom = row.dom /\ (row.auto \/ n.next > clock)
    BY <1>2, <1>9, <1>11, <1>18 DEF Fresh
  <2>3. c.auto /\ n.days = c.days /\ n.dom = c.dom /\ n.delay = c.delay /\ ~c.delay
    BY <1>5, <1>8, <1>9, <1>18 DEF Off
  <2>4. row.auto /\ ~row.delay
    <3>1. CASE h
      BY <1>5, <2>3, <3>1
    <3>2. CASE ~h
      <4>1. n.next > 0 => row.next > 0
        BY <1>2, <1>5, <1>8, <3>2 DEF Shifts
      <4> QED
        BY <1>1, <1>2, <2>2, <4>1 DEF RowInv
    <3> QED
      BY <1>5, <3>1, <3>2
  <2>5. CASE h
    \* A date that is typed in.
    <3>1. n.next = c.next /\ c.next # 0
      BY <1>8, <2>2, <2>5 DEF Shifts
    <3>2. due' = 0 /\ anew
      BY <1>7, <2>2, <2>5, <3>1 DEF anew
    <3>3. last'.dom = 0 /\ last'.at = -1
      BY <1>15, <3>2
    <3>4. RowInv' /\ PeriodInv' /\ MonthInv'
      BY <1>3, <1>13, <1>15, <2>1, <2>2, <3>2, <3>3 DEF RowInv, PeriodInv, MonthInv, HasPeriod
    <3> QED
      BY <1>1, <1>2, <1>3, <1>4, <1>13, <1>15, <3>2, <3>4 DEF ScheduleInv, ScheduleTypes, GlobalInv
  <2>6. CASE ~h /\ n.dom > 0
    <3>1. n.next = row.next /\ due' = due
      BY <1>5, <1>7, <1>8, <2>2, <2>3, <2>6 DEF Shifts
    <3>2. ~anew
      BY <2>2, <2>6, <3>1 DEF anew
    <3>3. last' = last
      BY <1>15, <3>2
    <3>4. RowInv' /\ PeriodInv'
      BY <1>3, <1>13, <1>15, <2>1, <2>2, <2>6, <3>1 DEF RowInv, PeriodInv, HasPeriod
    <3>5. due > 0 => Behind(due)'
      <4>1. due > 0 => Behind(due)
        BY <1>1 DEF MonthInv
      <4>2. ResetDay(due, row.dom)' = ResetDay(due, row.dom)
        BY <1>13, <2>2, <3>1 DEF ResetDay
      <4>3. row'.next = row.next
        BY <1>13, <2>2, <3>1
      <4> QED
        BY <1>3, <4>1, <4>2, <4>3 DEF Behind
    <3>6. MonthInv'
      <4>1. due' > 0 => row'.auto /\ ~row'.delay /\ row'.dom > 0 /\ Behind(due)'
        BY <1>13, <2>1, <2>6, <3>1, <3>5
      <4>2. last'.dom > 0 => /\ row'.auto /\ ~row'.delay /\ last'.dom = row'.dom
                             /\ due' > 0 => last'.month < due'
                             /\ due' = 0 => row'.next < clock' \/ row'.next = 2 * LastDay + 9
        BY <1>1, <1>3, <1>13, <2>1, <2>2, <3>1, <3>3 DEF MonthInv
      <4>3. LastDay' = LastDay
        BY DEF LastDay
      <4> QED
        BY <4>1, <4>2, <4>3 DEF MonthInv
    <3> QED
      BY <1>1, <1>2, <1>3, <1>4, <1>13, <1>15, <3>1, <3>4, <3>6 DEF ScheduleInv, ScheduleTypes, GlobalInv
  <2>7. CASE ~h /\ n.dom = 0
    <3>1. row.dom = 0 /\ c.dom = 0 /\ c.days > 0 /\ row.days > 0 /\ row.next > 0
      BY <1>1, <1>2, <1>5, <2>2, <2>3, <2>4, <2>7 DEF RowInv, HasPeriod, Schedules
    <3>2. row'.next = row.next + 2 * (row'.days - row.days)
      BY <1>8, <1>13, <2>2, <2>3, <2>4, <2>7, <3>1 DEF Shifts
    <3>3. due = 0 /\ due' = 0
      BY <1>1, <1>2, <1>4, <1>7, <2>2, <2>7, <3>1 DEF MonthInv
    <3>4. ~anew
      BY <2>2, <2>7 DEF anew
    <3>5. last' = last /\ last.dom = 0
      BY <1>1, <1>2, <1>15, <3>1, <3>4 DEF MonthInv, Clears
    <3>6. RowInv'
      BY <1>3, <1>13, <1>15, <2>1, <2>2 DEF RowInv, HasPeriod
    <3>7. PeriodInv'
      <4>1. last.at >= 0 => row.next >= last.at + 2 * row.days
        BY <1>1, <2>4, <3>1, <3>5 DEF PeriodInv
      <4>2. row'.days \in Nat /\ last.at \in Int
        BY <1>2, <1>9, <1>13 DEF Clears
      <4>3. last.at >= 0 => row'.next >= last.at + 2 * row'.days
        BY <1>2, <3>2, <4>1, <4>2
      <4> QED
        BY <3>5, <4>3 DEF PeriodInv
    <3>8. MonthInv'
      BY <3>3, <3>5 DEF MonthInv
    <3> QED
      BY <1>1, <1>2, <1>3, <1>4, <1>13, <1>15, <3>3, <3>6, <3>7, <3>8 DEF ScheduleInv, ScheduleTypes, GlobalInv
  <2> QED
    BY <1>5, <1>9, <2>5, <2>6, <2>7
<1> QED
  BY <1>16, <1>17, <1>18

LEMMA ScheduleSteps ==
  ASSUME ScheduleInv, [ScheduleNextStep]_schVars
  PROVE  /\ ScheduleInv'
         /\ glast' # glast /\ glast' > 0 => /\ glast < glast' /\ glast' <= clock /\ clock < gnext'
                                            /\ gfor = <<spec, zone>>
<1>1. ASSUME NEW e \in Edits, EditClient(e.c, e.hasNext) PROVE ScheduleInv' /\ UNCHANGED glast
  BY <1>1, EditStep
<1>2. ASSUME NEW a \in BOOLEAN, NEW d \in ResetDaysSet, NEW m \in ResetDomSet, ResetPolicy(a, d, m)
      PROVE  ScheduleInv' /\ UNCHANGED glast
  BY <1>2, PolicyStep
<1>3. ASSUME NEW z \in {0, 1}, SetZone(z) PROVE ScheduleInv' /\ UNCHANGED glast
  BY <1>3, ZoneStep
<1>4. DepleteClients => ScheduleInv' /\ UNCHANGED glast
  BY DepleteStep
<1>5. ASSUME ListClients \/ EditBulk(listed) \/ UseTraffic \/ TimePasses \/ \E s \in SpecSet : SetSpec(s)
      PROVE  ScheduleInv' /\ UNCHANGED glast
  BY <1>5, SmallSteps
<1>6. GlobalReset => /\ ScheduleInv'
                     /\ glast' > 0 => glast < glast' /\ glast' <= clock /\ clock < gnext' /\ gfor = <<spec, zone>>
  BY GlobalStep
<1>7. CASE UNCHANGED schVars
  BY <1>7 DEF schVars, ScheduleInv, ScheduleTypes, RowInv, PeriodInv, MonthInv, GlobalInv, ClearedOnce, MonthOnce,
              HasPeriod, Behind, ResetDay, Months, LastDay
<1>8. CASE ScheduleNextStep
  BY <1>1, <1>2, <1>3, <1>4, <1>5, <1>6, <1>8 DEF ScheduleNextStep
<1> QED
  BY <1>7, <1>8

\* A client on a period is cleared at most once at one time and one on a day of the
\* month at most once for a month, however it is edited and the time zone moves, and
\* the panel-wide reset runs once per occurrence of its schedule (ResetClients,
\* alignNextReset, rebaseMonthlyResets, ResetTrafficJob.Run): for every calendar,
\* set of periods and clock.
THEOREM EveryPeriodResetsOnce == ScheduleSpec => ResetsOnce
<1>1. ScheduleInit => ScheduleInv
  BY ScheduleStart
<1>2. ScheduleInv /\ [ScheduleNextStep]_schVars => ScheduleInv'
  BY ScheduleSteps
<1>3. ScheduleInv => ClearedOnce /\ MonthOnce
  BY DEF ScheduleInv
<1>4. ScheduleInv /\ [ScheduleNextStep]_schVars =>
        [glast' # glast /\ glast' > 0 => /\ glast < glast' /\ glast' <= clock /\ clock < gnext'
                                         /\ gfor = <<spec, zone>>]_schVars
  BY ScheduleSteps
<1> QED
  BY <1>1, <1>2, <1>3, <1>4, PTL DEF ScheduleSpec, ResetsOnce, GlobalOnce

=============================================================================
