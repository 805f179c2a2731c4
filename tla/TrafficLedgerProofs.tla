------------------------- MODULE TrafficLedgerProofs -------------------------
(***************************************************************************)
(* The ledger's safety properties, for every set of chunks, keys and       *)
(* flushes, every size of the pending buffer and every choice of faults.   *)
(*                                                                         *)
(* Conservation needs one fact to be inductive: a flush and a stop hold    *)
(* nothing when they drain, so the drain overwrites nothing (PlaceInv).    *)
(* The other two need one each: a client nobody edited still has its row (ClientInv),    *)
(* and once a stop has drained the counters, only late traffic is in them  *)
(* (LateInv).                                                              *)
(***************************************************************************)
EXTENDS TrafficLedger, TLAPS

ClientInv == \A k \in UserKey : k \notin edited => k \in clients

PlaceInv ==
  /\ \A f \in Flusher : pc[f] \in {"idle", "look", "drain"} => hand[f] = {}
  /\ core # "carrying" => carried = {}

LateInv == core \in {"carrying", "closing"} => counter \subseteq late

IInv ==
  /\ TypeOK /\ PlaceInv /\ Conservation
  /\ ClientInv /\ ChargedIsCommitted
  /\ LateInv /\ StopLosesOnlyLate

-----------------------------------------------------------------------------
(* The rows of a drain.                                                     *)

\* Grouping a drain by key (GetStats, mergeStats) loses and invents nothing.
LEMMA RowsUnion ==
  ASSUME NEW S PROVE (UNION RowsOf(S)) = S
  BY DEF RowsOf

\* Two rows of one drain share no chunk.
LEMMA RowsDisjoint ==
  ASSUME NEW S, NEW r \in RowsOf(S), NEW s \in RowsOf(S), r # s
  PROVE  r \cap s = {}
  BY DEF RowsOf

\* A batch put back beside rows that share no chunk with it.
LEMMA JoinRows ==
  ASSUME NEW S, NEW P,
         S \cap (UNION P) = {},
         \A r, s \in P : r # s => r \cap s = {}
  PROVE  /\ (UNION (RowsOf(S) \cup P)) = S \cup (UNION P)
         /\ \A r, s \in RowsOf(S) \cup P : r # s => r \cap s = {}
<1>1. (UNION RowsOf(S)) = S
  BY RowsUnion
<1>2. \A r, s \in RowsOf(S) : r # s => r \cap s = {}
  BY RowsDisjoint
<1>3. \A r \in RowsOf(S), s \in P : r \cap s = {}
  BY <1>1
<1> QED
  BY <1>1, <1>2, <1>3

\* What the cap keeps and what it drops are apart and are everything.
LEMMA KeepSplits ==
  ASSUME NEW rows, NEW kept \in SUBSET rows,
         \A r, s \in rows : r # s => r \cap s = {}
  PROVE  /\ (UNION kept) \cup (UNION (rows \ kept)) = (UNION rows)
         /\ (UNION kept) \cap (UNION (rows \ kept)) = {}
         /\ \A r, s \in kept : r # s => r \cap s = {}
<1>1. ASSUME NEW x, x \in (UNION kept), x \in (UNION (rows \ kept)) PROVE FALSE
  <2>1. PICK r \in kept : x \in r
    BY <1>1
  <2>2. PICK s \in rows \ kept : x \in s
    BY <1>1
  <2> QED
    BY <2>1, <2>2
<1>2. ASSUME NEW x \in (UNION rows) PROVE x \in (UNION kept) \cup (UNION (rows \ kept))
  <2>1. PICK r \in rows : x \in r
    OBVIOUS
  <2>2. CASE r \in kept
    BY <2>1, <2>2
  <2>3. CASE r \in rows \ kept
    BY <2>1, <2>3
  <2> QED
    BY <2>2, <2>3
<1> QED
  BY <1>1, <1>2

-----------------------------------------------------------------------------
(* Each part of the invariant, step by step.                                *)

\* Types are preserved by every step.
LEMMA TypeOKStep ==
  ASSUME TypeOK, [Next]_vars
  PROVE  TypeOK'
<1>1. ASSUME NEW c \in Chunk, Move(c) PROVE TypeOK'
  BY <1>1, LedgerConstants DEF TypeOK, Move, tracker, flushes, books, exits
<1>2. CASE StartCore
  BY <1>2, LedgerConstants DEF TypeOK, StartCore, tracker, flushes, books, exits
<1>3. CASE CarryDrain
  BY <1>3, LedgerConstants DEF TypeOK, CarryDrain, tracker, flushes, books, exits
<1>4. CASE CarryHold
  <2>1. carried \subseteq Chunk /\ (UNION RowsOf(carried)) = carried
    BY RowsUnion DEF TypeOK
  <2>2. pending \cup RowsOf(carried) \subseteq SUBSET Chunk
    BY <2>1 DEF TypeOK
  <2>3. PICK kept \in SUBSET (pending \cup RowsOf(carried)) :
          /\ pending' = kept
          /\ lost' = lost \cup (UNION ((pending \cup RowsOf(carried)) \ kept))
          /\ dropped' = dropped \cup (UNION ((pending \cup RowsOf(carried)) \ kept))
    BY <1>4 DEF CarryHold, KeepPending
  <2>4. pending' \subseteq SUBSET Chunk /\ lost' \subseteq Chunk /\ dropped' \subseteq Chunk
    BY <2>2, <2>3 DEF TypeOK
  <2> QED
    BY <1>4, <2>4 DEF TypeOK, CarryHold, tracker, flushes, books, exits
<1>5. CASE CloseCore
  BY <1>5, LedgerConstants DEF TypeOK, CloseCore, tracker, flushes, books, exits
<1>6. ASSUME NEW f \in Flusher, StartFlush(f) PROVE TypeOK'
  BY <1>6, LedgerConstants DEF TypeOK, StartFlush, Goto, tracker, flushes, books, exits
<1>7. ASSUME NEW f \in Flusher, Look(f) PROVE TypeOK'
  BY <1>7, LedgerConstants DEF TypeOK, Look, Goto, tracker, flushes, books, exits
<1>8. ASSUME NEW f \in Flusher, Drain(f) PROVE TypeOK'
  BY <1>8, LedgerConstants DEF TypeOK, Drain, Goto, tracker, flushes, books, exits
<1>9. ASSUME NEW f \in Flusher, TakePending(f) PROVE TypeOK'
  BY <1>9, LedgerConstants DEF TypeOK, TakePending, Finish, Goto, Pending, tracker, flushes, books, exits
<1>10. ASSUME NEW f \in Flusher, Commit(f) PROVE TypeOK'
  <2>1. {c \in hand[f] : KeyOf[c] \in clients} \subseteq UserChunk
    BY DEF TypeOK, UserChunk
  <2>2. hand[f] \subseteq Chunk
    BY DEF TypeOK
  <2> QED
    BY <1>10, <2>1, <2>2 DEF TypeOK, Commit, Finish, Goto, tracker, flushes, books, exits
<1>11. ASSUME NEW f \in Flusher, Fail(f) PROVE TypeOK'
  <2>1. hand[f] \subseteq Chunk /\ (UNION RowsOf(hand[f])) = hand[f]
    BY RowsUnion DEF TypeOK
  <2>2. RowsOf(hand[f]) \cup pending \subseteq SUBSET Chunk
    BY <2>1 DEF TypeOK
  <2>3. PICK kept \in SUBSET (RowsOf(hand[f]) \cup pending) :
          /\ pending' = kept
          /\ lost' = lost \cup (UNION ((RowsOf(hand[f]) \cup pending) \ kept))
          /\ dropped' = dropped \cup (UNION ((RowsOf(hand[f]) \cup pending) \ kept))
    BY <1>11 DEF Fail, KeepPending
  <2>4. pending' \subseteq SUBSET Chunk /\ lost' \subseteq Chunk /\ dropped' \subseteq Chunk
    BY <2>2, <2>3 DEF TypeOK
  <2> QED
    BY <1>11, <2>4 DEF TypeOK, Fail, Finish, Goto, tracker, flushes, books, exits
<1>12. ASSUME NEW f \in Flusher, FlushStats(f) PROVE TypeOK'
  BY <1>12, LedgerConstants DEF TypeOK, FlushStats, Goto, tracker, flushes, books, exits
<1>13. ASSUME NEW k \in UserKey, EditClients(k) PROVE TypeOK'
  BY <1>13, LedgerConstants DEF TypeOK, EditClients, tracker, flushes, books, exits
<1>14. CASE StopPanel
  BY <1>14, LedgerConstants DEF TypeOK, StopPanel, Pending, tracker, flushes, books, exits
<1>15. CASE Flushed
  BY <1>15, LedgerConstants DEF TypeOK, Flushed, tracker, flushes, books, exits
<1>16. CASE Retired
  BY <1>16, LedgerConstants DEF TypeOK, Retired, tracker, flushes, books, exits
<1>17. CASE RestartPanel
  BY <1>17, LedgerConstants DEF TypeOK, RestartPanel, tracker, flushes, books, exits
<1>18. CASE Exit
  <2>1. InMemory \subseteq Chunk
    BY DEF InMemory, Pending, TypeOK
  <2> QED
    BY <1>18, <2>1 DEF TypeOK, Exit, EndProcess, tracker, flushes, books, exits
<1>19. CASE Crash
  <2>1. InMemory \subseteq Chunk
    BY DEF InMemory, Pending, TypeOK
  <2> QED
    BY <1>19, <2>1 DEF TypeOK, Crash, EndProcess, tracker, flushes, books, exits
<1>20. CASE UNCHANGED vars
  BY <1>20 DEF TypeOK, vars, tracker, flushes, books, exits
<1> QED
  BY <1>1, <1>2, <1>3, <1>4, <1>5, <1>6, <1>7, <1>8, <1>9, <1>10, <1>11, <1>12, <1>13, <1>14, <1>15, <1>16, <1>17, <1>18, <1>19, <1>20 DEF Next

\* A flush and a stop hold nothing before their drain.
LEMMA PlaceInvStep ==
  ASSUME TypeOK, PlaceInv, [Next]_vars
  PROVE  PlaceInv'
<1>1. ASSUME NEW c \in Chunk, Move(c) PROVE PlaceInv'
  BY <1>1 DEF TypeOK, PlaceInv, Move, tracker, flushes, books, exits
<1>2. CASE StartCore
  BY <1>2 DEF TypeOK, PlaceInv, StartCore, tracker, flushes, books, exits
<1>3. CASE CarryDrain
  BY <1>3 DEF TypeOK, PlaceInv, CarryDrain, tracker, flushes, books, exits
<1>4. CASE CarryHold
  BY <1>4 DEF TypeOK, PlaceInv, CarryHold, KeepPending, tracker, flushes, books, exits
<1>5. CASE CloseCore
  BY <1>5 DEF TypeOK, PlaceInv, CloseCore, tracker, flushes, books, exits
<1>6. ASSUME NEW f \in Flusher, StartFlush(f) PROVE PlaceInv'
  BY <1>6 DEF TypeOK, PlaceInv, StartFlush, Goto, tracker, flushes, books, exits
<1>7. ASSUME NEW f \in Flusher, Look(f) PROVE PlaceInv'
  BY <1>7 DEF TypeOK, PlaceInv, Look, Goto, tracker, flushes, books, exits
<1>8. ASSUME NEW f \in Flusher, Drain(f) PROVE PlaceInv'
  BY <1>8 DEF TypeOK, PlaceInv, Drain, Goto, tracker, flushes, books, exits
<1>9. ASSUME NEW f \in Flusher, TakePending(f) PROVE PlaceInv'
  BY <1>9 DEF TypeOK, PlaceInv, TakePending, Finish, Goto, Pending, tracker, flushes, books, exits
<1>10. ASSUME NEW f \in Flusher, Commit(f) PROVE PlaceInv'
  BY <1>10 DEF TypeOK, PlaceInv, Commit, Finish, Goto, tracker, flushes, books, exits
<1>11. ASSUME NEW f \in Flusher, Fail(f) PROVE PlaceInv'
  BY <1>11 DEF TypeOK, PlaceInv, Fail, KeepPending, Finish, Goto, tracker, flushes, books, exits
<1>12. ASSUME NEW f \in Flusher, FlushStats(f) PROVE PlaceInv'
  BY <1>12 DEF TypeOK, PlaceInv, FlushStats, Goto, tracker, flushes, books, exits
<1>13. ASSUME NEW k \in UserKey, EditClients(k) PROVE PlaceInv'
  BY <1>13 DEF TypeOK, PlaceInv, EditClients, tracker, flushes, books, exits
<1>14. CASE StopPanel
  BY <1>14 DEF TypeOK, PlaceInv, StopPanel, Pending, tracker, flushes, books, exits
<1>15. CASE Flushed
  BY <1>15 DEF TypeOK, PlaceInv, Flushed, tracker, flushes, books, exits
<1>16. CASE Retired
  BY <1>16 DEF TypeOK, PlaceInv, Retired, tracker, flushes, books, exits
<1>17. CASE RestartPanel
  BY <1>17 DEF TypeOK, PlaceInv, RestartPanel, tracker, flushes, books, exits
<1>18. CASE Exit
  BY <1>18 DEF TypeOK, PlaceInv, Exit, EndProcess, InMemory, Pending, tracker, flushes, books, exits
<1>19. CASE Crash
  BY <1>19 DEF TypeOK, PlaceInv, Crash, EndProcess, InMemory, Pending, tracker, flushes, books, exits
<1>20. CASE UNCHANGED vars
  BY <1>20 DEF TypeOK, PlaceInv, vars, tracker, flushes, books, exits
<1> QED
  BY <1>1, <1>2, <1>3, <1>4, <1>5, <1>6, <1>7, <1>8, <1>9, <1>10, <1>11, <1>12, <1>13, <1>14, <1>15, <1>16, <1>17, <1>18, <1>19, <1>20 DEF Next

\* So is the place of every chunk.
LEMMA ConservationStep ==
  ASSUME TypeOK, PlaceInv, Conservation, [Next]_vars
  PROVE  Conservation'
<1>1. ASSUME NEW c \in Chunk, Move(c) PROVE Conservation'
  BY <1>1 DEF TypeOK, PlaceInv, Conservation, Move, Pending, tracker, flushes, books, exits
<1>2. CASE StartCore
  BY <1>2 DEF TypeOK, PlaceInv, Conservation, StartCore, Pending, tracker, flushes, books, exits
<1>3. CASE CarryDrain
  BY <1>3 DEF TypeOK, PlaceInv, Conservation, CarryDrain, Pending, tracker, flushes, books, exits
<1>4. CASE CarryHold
  <2> DEFINE rows == RowsOf(carried) \cup pending
  <2>1. PICK kept \in SUBSET rows :
          pending' = kept /\ lost' = lost \cup (UNION (rows \ kept))
    BY <1>4 DEF CarryHold, KeepPending
  <2>2. /\ carried \cap (UNION pending) = {}
        /\ \A r, s \in pending : r # s => r \cap s = {}
    BY DEF Conservation, Pending
  <2>3. /\ (UNION rows) = carried \cup (UNION pending)
        /\ \A r, s \in rows : r # s => r \cap s = {}
    BY <2>2, JoinRows
  <2> HIDE DEF rows
  <2>4. /\ (UNION kept) \cup (UNION (rows \ kept)) = (UNION rows)
        /\ (UNION kept) \cap (UNION (rows \ kept)) = {}
        /\ \A r, s \in kept : r # s => r \cap s = {}
    BY <2>3, KeepSplits
  <2> DEFINE gone == (UNION (rows \ kept))
  <2>5. /\ Pending' \cup gone = carried \cup Pending
        /\ Pending' \cap gone = {}
        /\ lost' = lost \cup gone
    BY <2>1, <2>3, <2>4 DEF Pending
  <2>6. \A r, s \in pending' : r # s => r \cap s = {}
    BY <2>1, <2>4
  <2> HIDE DEF gone
  <2> QED
    BY <1>4, <2>5, <2>6 DEF CarryHold, Conservation, Pending, TypeOK, tracker, flushes, books, exits
<1>5. CASE CloseCore
  BY <1>5 DEF TypeOK, PlaceInv, Conservation, CloseCore, Pending, tracker, flushes, books, exits
<1>6. ASSUME NEW f \in Flusher, StartFlush(f) PROVE Conservation'
  BY <1>6 DEF TypeOK, PlaceInv, Conservation, StartFlush, Goto, Pending, tracker, flushes, books, exits
<1>7. ASSUME NEW f \in Flusher, Look(f) PROVE Conservation'
  BY <1>7 DEF TypeOK, PlaceInv, Conservation, Look, Goto, Pending, tracker, flushes, books, exits
<1>8. ASSUME NEW f \in Flusher, Drain(f) PROVE Conservation'
  BY <1>8 DEF TypeOK, PlaceInv, Conservation, Drain, Goto, Pending, tracker, flushes, books, exits
<1>9. ASSUME NEW f \in Flusher, TakePending(f) PROVE Conservation'
  BY <1>9 DEF TypeOK, PlaceInv, Conservation, TakePending, Finish, Goto, Pending, tracker, flushes, books, exits
<1>10. ASSUME NEW f \in Flusher, Commit(f) PROVE Conservation'
  BY <1>10 DEF TypeOK, PlaceInv, Conservation, Commit, Finish, Goto, Pending, tracker, flushes, books, exits
<1>11. ASSUME NEW f \in Flusher, Fail(f) PROVE Conservation'
  <2>0. PICK mine : mine = hand[f]
    OBVIOUS
  <2> DEFINE rows == RowsOf(mine) \cup pending
  <2>1. PICK kept \in SUBSET rows :
          pending' = kept /\ lost' = lost \cup (UNION (rows \ kept))
    BY <1>11, <2>0 DEF Fail, KeepPending
  <2>2. /\ mine \cap (UNION pending) = {}
        /\ \A r, s \in pending : r # s => r \cap s = {}
    BY <2>0 DEF Conservation, Pending
  <2>3. /\ (UNION rows) = mine \cup (UNION pending)
        /\ \A r, s \in rows : r # s => r \cap s = {}
    BY <2>2, JoinRows
  <2> HIDE DEF rows
  <2>4. /\ (UNION kept) \cup (UNION (rows \ kept)) = (UNION rows)
        /\ (UNION kept) \cap (UNION (rows \ kept)) = {}
        /\ \A r, s \in kept : r # s => r \cap s = {}
    BY <2>3, KeepSplits
  <2> DEFINE gone == (UNION (rows \ kept))
  <2>5. /\ Pending' \cup gone = mine \cup Pending
        /\ Pending' \cap gone = {}
        /\ lost' = lost \cup gone
    BY <2>1, <2>3, <2>4 DEF Pending
  <2>6. \A r, s \in pending' : r # s => r \cap s = {}
    BY <2>1, <2>4
  <2> HIDE DEF gone
  <2>7. /\ hand' = [hand EXCEPT ![f] = {}]
        /\ fresh' = fresh /\ counter' = counter /\ carried' = carried /\ committed' = committed
    BY <1>11 DEF Fail, tracker, books
  <2> QED
    BY <2>0, <2>5, <2>6, <2>7 DEF Conservation, TypeOK
<1>12. ASSUME NEW f \in Flusher, FlushStats(f) PROVE Conservation'
  BY <1>12 DEF TypeOK, PlaceInv, Conservation, FlushStats, Goto, Pending, tracker, flushes, books, exits
<1>13. ASSUME NEW k \in UserKey, EditClients(k) PROVE Conservation'
  BY <1>13 DEF TypeOK, PlaceInv, Conservation, EditClients, Pending, tracker, flushes, books, exits
<1>14. CASE StopPanel
  BY <1>14 DEF TypeOK, PlaceInv, Conservation, StopPanel, Pending, tracker, flushes, books, exits
<1>15. CASE Flushed
  BY <1>15 DEF TypeOK, PlaceInv, Conservation, Flushed, Pending, tracker, flushes, books, exits
<1>16. CASE Retired
  BY <1>16 DEF TypeOK, PlaceInv, Conservation, Retired, Pending, tracker, flushes, books, exits
<1>17. CASE RestartPanel
  BY <1>17 DEF TypeOK, PlaceInv, Conservation, RestartPanel, Pending, tracker, flushes, books, exits
<1>18. CASE Exit
  <2>1. \A c \in Chunk : c \in InMemory <=> \/ c \in counter \/ c \in carried \/ c \in (UNION pending)
                                 \/ \E f \in Flusher : c \in hand[f]
    BY DEF InMemory, Pending
  <2>2. /\ lost' = lost \cup InMemory
        /\ counter' = {} /\ carried' = {} /\ pending' = {}
        /\ hand' = [f \in Flusher |-> {}]
        /\ fresh' = fresh /\ committed' = committed
    BY <1>18 DEF Exit, EndProcess, books
  <2>3. InMemory \cap (fresh \cup committed) = {}
    BY <2>1 DEF Conservation, Pending, TypeOK
  <2>4. \A c \in Chunk : c \in fresh \/ c \in committed \/ c \in lost \/ c \in InMemory
    BY <2>1 DEF Conservation, Pending
  <2>5. fresh \cap committed = {} /\ fresh \cap lost = {} /\ committed \cap lost = {}
    BY DEF Conservation
  <2> QED
    BY <2>2, <2>3, <2>4, <2>5 DEF Conservation, Pending
<1>19. CASE Crash
  <2>1. \A c \in Chunk : c \in InMemory <=> \/ c \in counter \/ c \in carried \/ c \in (UNION pending)
                                 \/ \E f \in Flusher : c \in hand[f]
    BY DEF InMemory, Pending
  <2>2. /\ lost' = lost \cup InMemory
        /\ counter' = {} /\ carried' = {} /\ pending' = {}
        /\ hand' = [f \in Flusher |-> {}]
        /\ fresh' = fresh /\ committed' = committed
    BY <1>19 DEF Crash, EndProcess, books
  <2>3. InMemory \cap (fresh \cup committed) = {}
    BY <2>1 DEF Conservation, Pending, TypeOK
  <2>4. \A c \in Chunk : c \in fresh \/ c \in committed \/ c \in lost \/ c \in InMemory
    BY <2>1 DEF Conservation, Pending
  <2>5. fresh \cap committed = {} /\ fresh \cap lost = {} /\ committed \cap lost = {}
    BY DEF Conservation
  <2> QED
    BY <2>2, <2>3, <2>4, <2>5 DEF Conservation, Pending
<1>20. CASE UNCHANGED vars
  BY <1>20 DEF TypeOK, PlaceInv, Conservation, Pending, vars, tracker, flushes, books, exits
<1> QED
  BY <1>1, <1>2, <1>3, <1>4, <1>5, <1>6, <1>7, <1>8, <1>9, <1>10, <1>11, <1>12, <1>13, <1>14, <1>15, <1>16, <1>17, <1>18, <1>19, <1>20 DEF Next

\* Only an edit removes a client row.
LEMMA ClientInvStep ==
  ASSUME TypeOK, ClientInv, [Next]_vars
  PROVE  ClientInv'
<1>1. ASSUME NEW c \in Chunk, Move(c) PROVE ClientInv'
  BY <1>1 DEF TypeOK, ClientInv, Move, tracker, flushes, books, exits
<1>2. CASE StartCore
  BY <1>2 DEF TypeOK, ClientInv, StartCore, tracker, flushes, books, exits
<1>3. CASE CarryDrain
  BY <1>3 DEF TypeOK, ClientInv, CarryDrain, tracker, flushes, books, exits
<1>4. CASE CarryHold
  BY <1>4 DEF TypeOK, ClientInv, CarryHold, KeepPending, tracker, flushes, books, exits
<1>5. CASE CloseCore
  BY <1>5 DEF TypeOK, ClientInv, CloseCore, tracker, flushes, books, exits
<1>6. ASSUME NEW f \in Flusher, StartFlush(f) PROVE ClientInv'
  BY <1>6 DEF TypeOK, ClientInv, StartFlush, Goto, tracker, flushes, books, exits
<1>7. ASSUME NEW f \in Flusher, Look(f) PROVE ClientInv'
  BY <1>7 DEF TypeOK, ClientInv, Look, Goto, tracker, flushes, books, exits
<1>8. ASSUME NEW f \in Flusher, Drain(f) PROVE ClientInv'
  BY <1>8 DEF TypeOK, ClientInv, Drain, Goto, tracker, flushes, books, exits
<1>9. ASSUME NEW f \in Flusher, TakePending(f) PROVE ClientInv'
  BY <1>9 DEF TypeOK, ClientInv, TakePending, Finish, Goto, Pending, tracker, flushes, books, exits
<1>10. ASSUME NEW f \in Flusher, Commit(f) PROVE ClientInv'
  BY <1>10 DEF TypeOK, ClientInv, Commit, Finish, Goto, tracker, flushes, books, exits
<1>11. ASSUME NEW f \in Flusher, Fail(f) PROVE ClientInv'
  BY <1>11 DEF TypeOK, ClientInv, Fail, KeepPending, Finish, Goto, tracker, flushes, books, exits
<1>12. ASSUME NEW f \in Flusher, FlushStats(f) PROVE ClientInv'
  BY <1>12 DEF TypeOK, ClientInv, FlushStats, Goto, tracker, flushes, books, exits
<1>13. ASSUME NEW k \in UserKey, EditClients(k) PROVE ClientInv'
  BY <1>13 DEF TypeOK, ClientInv, EditClients, tracker, flushes, books, exits
<1>14. CASE StopPanel
  BY <1>14 DEF TypeOK, ClientInv, StopPanel, Pending, tracker, flushes, books, exits
<1>15. CASE Flushed
  BY <1>15 DEF TypeOK, ClientInv, Flushed, tracker, flushes, books, exits
<1>16. CASE Retired
  BY <1>16 DEF TypeOK, ClientInv, Retired, tracker, flushes, books, exits
<1>17. CASE RestartPanel
  BY <1>17 DEF TypeOK, ClientInv, RestartPanel, tracker, flushes, books, exits
<1>18. CASE Exit
  BY <1>18 DEF TypeOK, ClientInv, Exit, EndProcess, InMemory, Pending, tracker, flushes, books, exits
<1>19. CASE Crash
  BY <1>19 DEF TypeOK, ClientInv, Crash, EndProcess, InMemory, Pending, tracker, flushes, books, exits
<1>20. CASE UNCHANGED vars
  BY <1>20 DEF TypeOK, ClientInv, vars, tracker, flushes, books, exits
<1> QED
  BY <1>1, <1>2, <1>3, <1>4, <1>5, <1>6, <1>7, <1>8, <1>9, <1>10, <1>11, <1>12, <1>13, <1>14, <1>15, <1>16, <1>17, <1>18, <1>19, <1>20 DEF Next

\* A commit charges exactly the rows of the clients that have one.
LEMMA ChargedIsCommittedStep ==
  ASSUME TypeOK, ClientInv, ChargedIsCommitted, [Next]_vars
  PROVE  ChargedIsCommitted'
<1>1. ASSUME NEW c \in Chunk, Move(c) PROVE ChargedIsCommitted'
  BY <1>1, LedgerConstants DEF TypeOK, ClientInv, ChargedIsCommitted, Move, UserChunk, tracker, flushes, books, exits
<1>2. CASE StartCore
  BY <1>2, LedgerConstants DEF TypeOK, ClientInv, ChargedIsCommitted, StartCore, UserChunk, tracker, flushes, books, exits
<1>3. CASE CarryDrain
  BY <1>3, LedgerConstants DEF TypeOK, ClientInv, ChargedIsCommitted, CarryDrain, UserChunk, tracker, flushes, books, exits
<1>4. CASE CarryHold
  BY <1>4, LedgerConstants DEF TypeOK, ClientInv, ChargedIsCommitted, CarryHold, KeepPending, UserChunk, tracker, flushes, books, exits
<1>5. CASE CloseCore
  BY <1>5, LedgerConstants DEF TypeOK, ClientInv, ChargedIsCommitted, CloseCore, UserChunk, tracker, flushes, books, exits
<1>6. ASSUME NEW f \in Flusher, StartFlush(f) PROVE ChargedIsCommitted'
  BY <1>6, LedgerConstants DEF TypeOK, ClientInv, ChargedIsCommitted, StartFlush, Goto, UserChunk, tracker, flushes, books, exits
<1>7. ASSUME NEW f \in Flusher, Look(f) PROVE ChargedIsCommitted'
  BY <1>7, LedgerConstants DEF TypeOK, ClientInv, ChargedIsCommitted, Look, Goto, UserChunk, tracker, flushes, books, exits
<1>8. ASSUME NEW f \in Flusher, Drain(f) PROVE ChargedIsCommitted'
  BY <1>8, LedgerConstants DEF TypeOK, ClientInv, ChargedIsCommitted, Drain, Goto, UserChunk, tracker, flushes, books, exits
<1>9. ASSUME NEW f \in Flusher, TakePending(f) PROVE ChargedIsCommitted'
  BY <1>9, LedgerConstants DEF TypeOK, ClientInv, ChargedIsCommitted, TakePending, Finish, Goto, Pending, UserChunk, tracker, flushes, books, exits
<1>10. ASSUME NEW f \in Flusher, Commit(f) PROVE ChargedIsCommitted'
  BY <1>10, LedgerConstants DEF TypeOK, ClientInv, ChargedIsCommitted, Commit, Finish, Goto, UserChunk, tracker, flushes, books, exits
<1>11. ASSUME NEW f \in Flusher, Fail(f) PROVE ChargedIsCommitted'
  BY <1>11, LedgerConstants DEF TypeOK, ClientInv, ChargedIsCommitted, Fail, KeepPending, Finish, Goto, UserChunk, tracker, flushes, books, exits
<1>12. ASSUME NEW f \in Flusher, FlushStats(f) PROVE ChargedIsCommitted'
  BY <1>12, LedgerConstants DEF TypeOK, ClientInv, ChargedIsCommitted, FlushStats, Goto, UserChunk, tracker, flushes, books, exits
<1>13. ASSUME NEW k \in UserKey, EditClients(k) PROVE ChargedIsCommitted'
  BY <1>13, LedgerConstants DEF TypeOK, ClientInv, ChargedIsCommitted, EditClients, UserChunk, tracker, flushes, books, exits
<1>14. CASE StopPanel
  BY <1>14, LedgerConstants DEF TypeOK, ClientInv, ChargedIsCommitted, StopPanel, Pending, UserChunk, tracker, flushes, books, exits
<1>15. CASE Flushed
  BY <1>15, LedgerConstants DEF TypeOK, ClientInv, ChargedIsCommitted, Flushed, UserChunk, tracker, flushes, books, exits
<1>16. CASE Retired
  BY <1>16, LedgerConstants DEF TypeOK, ClientInv, ChargedIsCommitted, Retired, UserChunk, tracker, flushes, books, exits
<1>17. CASE RestartPanel
  BY <1>17, LedgerConstants DEF TypeOK, ClientInv, ChargedIsCommitted, RestartPanel, UserChunk, tracker, flushes, books, exits
<1>18. CASE Exit
  BY <1>18, LedgerConstants DEF TypeOK, ClientInv, ChargedIsCommitted, Exit, EndProcess, InMemory, Pending, UserChunk, tracker, flushes, books, exits
<1>19. CASE Crash
  BY <1>19, LedgerConstants DEF TypeOK, ClientInv, ChargedIsCommitted, Crash, EndProcess, InMemory, Pending, UserChunk, tracker, flushes, books, exits
<1>20. CASE UNCHANGED vars
  BY <1>20 DEF TypeOK, ClientInv, ChargedIsCommitted, UserChunk, vars, tracker, flushes, books, exits
<1> QED
  BY <1>1, <1>2, <1>3, <1>4, <1>5, <1>6, <1>7, <1>8, <1>9, <1>10, <1>11, <1>12, <1>13, <1>14, <1>15, <1>16, <1>17, <1>18, <1>19, <1>20 DEF Next

\* Once a stop has drained the counters, what is in them came late.
LEMMA LateInvStep ==
  ASSUME TypeOK, LateInv, [Next]_vars
  PROVE  LateInv'
<1>1. ASSUME NEW c \in Chunk, Move(c) PROVE LateInv'
  BY <1>1 DEF TypeOK, LateInv, Move, tracker, flushes, books, exits
<1>2. CASE StartCore
  BY <1>2 DEF TypeOK, LateInv, StartCore, tracker, flushes, books, exits
<1>3. CASE CarryDrain
  BY <1>3 DEF TypeOK, LateInv, CarryDrain, tracker, flushes, books, exits
<1>4. CASE CarryHold
  BY <1>4 DEF TypeOK, LateInv, CarryHold, KeepPending, tracker, flushes, books, exits
<1>5. CASE CloseCore
  BY <1>5 DEF TypeOK, LateInv, CloseCore, tracker, flushes, books, exits
<1>6. ASSUME NEW f \in Flusher, StartFlush(f) PROVE LateInv'
  BY <1>6 DEF TypeOK, LateInv, StartFlush, Goto, tracker, flushes, books, exits
<1>7. ASSUME NEW f \in Flusher, Look(f) PROVE LateInv'
  BY <1>7 DEF TypeOK, LateInv, Look, Goto, tracker, flushes, books, exits
<1>8. ASSUME NEW f \in Flusher, Drain(f) PROVE LateInv'
  BY <1>8 DEF TypeOK, LateInv, Drain, Goto, tracker, flushes, books, exits
<1>9. ASSUME NEW f \in Flusher, TakePending(f) PROVE LateInv'
  BY <1>9 DEF TypeOK, LateInv, TakePending, Finish, Goto, Pending, tracker, flushes, books, exits
<1>10. ASSUME NEW f \in Flusher, Commit(f) PROVE LateInv'
  BY <1>10 DEF TypeOK, LateInv, Commit, Finish, Goto, tracker, flushes, books, exits
<1>11. ASSUME NEW f \in Flusher, Fail(f) PROVE LateInv'
  BY <1>11 DEF TypeOK, LateInv, Fail, KeepPending, Finish, Goto, tracker, flushes, books, exits
<1>12. ASSUME NEW f \in Flusher, FlushStats(f) PROVE LateInv'
  BY <1>12 DEF TypeOK, LateInv, FlushStats, Goto, tracker, flushes, books, exits
<1>13. ASSUME NEW k \in UserKey, EditClients(k) PROVE LateInv'
  BY <1>13 DEF TypeOK, LateInv, EditClients, tracker, flushes, books, exits
<1>14. CASE StopPanel
  BY <1>14 DEF TypeOK, LateInv, StopPanel, Pending, tracker, flushes, books, exits
<1>15. CASE Flushed
  BY <1>15 DEF TypeOK, LateInv, Flushed, tracker, flushes, books, exits
<1>16. CASE Retired
  BY <1>16 DEF TypeOK, LateInv, Retired, tracker, flushes, books, exits
<1>17. CASE RestartPanel
  BY <1>17 DEF TypeOK, LateInv, RestartPanel, tracker, flushes, books, exits
<1>18. CASE Exit
  BY <1>18 DEF TypeOK, LateInv, Exit, EndProcess, InMemory, Pending, tracker, flushes, books, exits
<1>19. CASE Crash
  BY <1>19 DEF TypeOK, LateInv, Crash, EndProcess, InMemory, Pending, tracker, flushes, books, exits
<1>20. CASE UNCHANGED vars
  BY <1>20 DEF TypeOK, LateInv, vars, tracker, flushes, books, exits
<1> QED
  BY <1>1, <1>2, <1>3, <1>4, <1>5, <1>6, <1>7, <1>8, <1>9, <1>10, <1>11, <1>12, <1>13, <1>14, <1>15, <1>16, <1>17, <1>18, <1>19, <1>20 DEF Next

\* A loss is late traffic, or was dropped.
LEMMA StopLosesOnlyLateStep ==
  ASSUME TypeOK, LateInv, StopLosesOnlyLate, [Next]_vars
  PROVE  StopLosesOnlyLate'
<1>1. ASSUME NEW c \in Chunk, Move(c) PROVE StopLosesOnlyLate'
  BY <1>1 DEF TypeOK, LateInv, StopLosesOnlyLate, Move, tracker, flushes, books, exits
<1>2. CASE StartCore
  BY <1>2 DEF TypeOK, LateInv, StopLosesOnlyLate, StartCore, tracker, flushes, books, exits
<1>3. CASE CarryDrain
  BY <1>3 DEF TypeOK, LateInv, StopLosesOnlyLate, CarryDrain, tracker, flushes, books, exits
<1>4. CASE CarryHold
  BY <1>4 DEF TypeOK, LateInv, StopLosesOnlyLate, CarryHold, KeepPending, tracker, flushes, books, exits
<1>5. CASE CloseCore
  BY <1>5 DEF TypeOK, LateInv, StopLosesOnlyLate, CloseCore, tracker, flushes, books, exits
<1>6. ASSUME NEW f \in Flusher, StartFlush(f) PROVE StopLosesOnlyLate'
  BY <1>6 DEF TypeOK, LateInv, StopLosesOnlyLate, StartFlush, Goto, tracker, flushes, books, exits
<1>7. ASSUME NEW f \in Flusher, Look(f) PROVE StopLosesOnlyLate'
  BY <1>7 DEF TypeOK, LateInv, StopLosesOnlyLate, Look, Goto, tracker, flushes, books, exits
<1>8. ASSUME NEW f \in Flusher, Drain(f) PROVE StopLosesOnlyLate'
  BY <1>8 DEF TypeOK, LateInv, StopLosesOnlyLate, Drain, Goto, tracker, flushes, books, exits
<1>9. ASSUME NEW f \in Flusher, TakePending(f) PROVE StopLosesOnlyLate'
  BY <1>9 DEF TypeOK, LateInv, StopLosesOnlyLate, TakePending, Finish, Goto, Pending, tracker, flushes, books, exits
<1>10. ASSUME NEW f \in Flusher, Commit(f) PROVE StopLosesOnlyLate'
  BY <1>10 DEF TypeOK, LateInv, StopLosesOnlyLate, Commit, Finish, Goto, tracker, flushes, books, exits
<1>11. ASSUME NEW f \in Flusher, Fail(f) PROVE StopLosesOnlyLate'
  BY <1>11 DEF TypeOK, LateInv, StopLosesOnlyLate, Fail, KeepPending, Finish, Goto, tracker, flushes, books, exits
<1>12. ASSUME NEW f \in Flusher, FlushStats(f) PROVE StopLosesOnlyLate'
  BY <1>12 DEF TypeOK, LateInv, StopLosesOnlyLate, FlushStats, Goto, tracker, flushes, books, exits
<1>13. ASSUME NEW k \in UserKey, EditClients(k) PROVE StopLosesOnlyLate'
  BY <1>13 DEF TypeOK, LateInv, StopLosesOnlyLate, EditClients, tracker, flushes, books, exits
<1>14. CASE StopPanel
  BY <1>14 DEF TypeOK, LateInv, StopLosesOnlyLate, StopPanel, Pending, tracker, flushes, books, exits
<1>15. CASE Flushed
  BY <1>15 DEF TypeOK, LateInv, StopLosesOnlyLate, Flushed, tracker, flushes, books, exits
<1>16. CASE Retired
  BY <1>16 DEF TypeOK, LateInv, StopLosesOnlyLate, Retired, tracker, flushes, books, exits
<1>17. CASE RestartPanel
  BY <1>17 DEF TypeOK, LateInv, StopLosesOnlyLate, RestartPanel, tracker, flushes, books, exits
<1>18. CASE Exit
  BY <1>18 DEF TypeOK, LateInv, StopLosesOnlyLate, Exit, EndProcess, InMemory, Pending, tracker, flushes, books, exits
<1>19. CASE Crash
  BY <1>19 DEF TypeOK, LateInv, StopLosesOnlyLate, Crash, EndProcess, InMemory, Pending, tracker, flushes, books, exits
<1>20. CASE UNCHANGED vars
  BY <1>20 DEF TypeOK, LateInv, StopLosesOnlyLate, vars, tracker, flushes, books, exits
<1> QED
  BY <1>1, <1>2, <1>3, <1>4, <1>5, <1>6, <1>7, <1>8, <1>9, <1>10, <1>11, <1>12, <1>13, <1>14, <1>15, <1>16, <1>17, <1>18, <1>19, <1>20 DEF Next

-----------------------------------------------------------------------------
(* The theorems.                                                            *)

LEMMA InitIInv == Init => IInv
  BY LedgerConstants DEF Init, IInv, TypeOK, Conservation, ClientInv, ChargedIsCommitted,
     PlaceInv, LateInv, StopLosesOnlyLate, Pending, UserChunk

\* The inductive invariant of the ledger (SaveStats, carryOverStats, Box.Close
\* and the end of the process).
THEOREM LedgerInvariance == Spec => []IInv
<1>1. IInv /\ [Next]_vars => IInv'
  BY TypeOKStep, PlaceInvStep, ConservationStep, ClientInvStep, ChargedIsCommittedStep, LateInvStep,
     StopLosesOnlyLateStep DEF IInv
<1> QED
  BY InitIInv, <1>1, PTL DEF Spec

\* The ledger's variables keep their types.
THEOREM LedgerTypes == Spec => []TypeOK
<1>1. IInv => TypeOK
  BY DEF IInv
<1> QED
  BY LedgerInvariance, <1>1, PTL

\* No byte is forgotten or counted twice, however drains, failed commits, core
\* stops, panel restarts and kills of the process interleave.
THEOREM NoByteTwice == Spec => []Conservation
<1>1. IInv => Conservation
  BY DEF IInv
<1> QED
  BY LedgerInvariance, <1>1, PTL

\* The clients' counters are those of the committed traffic.
THEOREM ClientsAreCharged == Spec => []ChargedIsCommitted
<1>1. IInv => ChargedIsCommitted
  BY DEF IInv
<1> QED
  BY LedgerInvariance, <1>1, PTL

\* Stopping the core loses only what was counted after the drain of that stop.
THEOREM StopIsCheap == Spec => []StopLosesOnlyLate
<1>1. IInv => StopLosesOnlyLate
  BY DEF IInv
<1> QED
  BY LedgerInvariance, <1>1, PTL

-----------------------------------------------------------------------------
(* The ledger implements the bill.  Only Move opens traffic, only Commit      *)
(* settles it; the cap of the buffer, the close of a box and the end of the   *)
(* process give it up, and every other step moves it from one place in memory *)
(* to another, or nothing.                                                    *)

\* A step that leaves the traffic in memory and the books alone is a stutter.
LEMMA Stutters ==
  ASSUME InMemory' = InMemory, UNCHANGED <<clients, committed, charged, lost>>
  PROVE  UNCHANGED Bill!billVars
  BY DEF Bill!billVars

\* What keepPendingLocked does with a batch beside the buffer: each of their chunks
\* is kept or given up.
LEMMA KeepGivesUp ==
  ASSUME NEW S, Conservation, S \cap Pending = {}, KeepPending(RowsOf(S) \cup pending)
  PROVE  \E G : lost' = lost \cup G /\ Pending' \cup G = S \cup Pending /\ Pending' \cap G = {}
<1> DEFINE rows == RowsOf(S) \cup pending
<1>1. PICK kept \in SUBSET rows : pending' = kept /\ lost' = lost \cup (UNION (rows \ kept))
  BY DEF KeepPending
<1>2. /\ S \cap (UNION pending) = {}
      /\ \A r, s \in pending : r # s => r \cap s = {}
  BY DEF Conservation, Pending
<1>3. /\ (UNION rows) = S \cup (UNION pending)
      /\ \A r, s \in rows : r # s => r \cap s = {}
  BY <1>2, JoinRows
<1> HIDE DEF rows
<1>4. /\ (UNION kept) \cup (UNION (rows \ kept)) = (UNION rows)
      /\ (UNION kept) \cap (UNION (rows \ kept)) = {}
  BY <1>3, KeepSplits
<1> WITNESS (UNION (rows \ kept))
<1> QED
  BY <1>1, <1>3, <1>4 DEF Pending

\* Every step of the ledger is a step of the bill, or changes nothing in it.
LEMMA BillStep ==
  ASSUME TypeOK, TypeOK', PlaceInv, Conservation, [Next]_vars
  PROVE  [Bill!Next]_(Bill!billVars)
<1>1. ASSUME NEW c \in Chunk, Move(c) PROVE Bill!Next
  <2>1. c \notin InMemory \cup committed \cup lost
    BY <1>1 DEF Move, Conservation, InMemory
  <2>2. InMemory' = InMemory \cup {c}
    BY <1>1 DEF Move, InMemory, Pending, flushes
  <2>3. Bill!Count(c)
    BY <1>1, <2>1, <2>2 DEF Bill!Count, Move, books
  <2> QED
    BY <2>3 DEF Bill!Next
<1>2. CASE StartCore
  BY <1>2, Stutters DEF StartCore, InMemory, Pending, tracker, flushes, books
<1>3. CASE CarryDrain
  BY <1>3, Stutters DEF CarryDrain, PlaceInv, InMemory, Pending, flushes, books
<1>4. CASE CarryHold
  <2>1. carried \cap Pending = {} /\ KeepPending(RowsOf(carried) \cup pending)
    <3>1. pending \cup RowsOf(carried) = RowsOf(carried) \cup pending
      OBVIOUS
    <3> QED
      BY <1>4, <3>1 DEF CarryHold, Conservation
  <2>2. PICK G : lost' = lost \cup G /\ Pending' \cup G = carried \cup Pending /\ Pending' \cap G = {}
    BY <2>1, KeepGivesUp
  <2>3. G \cap (counter \cup {c \in Chunk : \E f \in Flusher : c \in hand[f]}) = {}
    BY <2>2 DEF Conservation
  <2>4. InMemory' = InMemory \ G /\ G \in SUBSET InMemory
    BY <1>4, <2>2, <2>3 DEF CarryHold, InMemory, tracker, flushes
  <2>5. Bill!GiveUp(G)
    BY <1>4, <2>2, <2>4 DEF Bill!GiveUp, CarryHold, books
  <2> QED
    BY <2>4, <2>5 DEF Bill!Next
<1>5. CASE CloseCore
  <2>1. counter \cap (carried \cup Pending \cup {c \in Chunk : \E f \in Flusher : c \in hand[f]}) = {}
    BY DEF Conservation
  <2>2. InMemory' = InMemory \ counter /\ counter \in SUBSET InMemory
    BY <1>5, <2>1 DEF CloseCore, InMemory, Pending
  <2>3. Bill!GiveUp(counter)
    BY <1>5, <2>2 DEF Bill!GiveUp, CloseCore, books
  <2> QED
    BY <2>2, <2>3 DEF Bill!Next
<1>6. ASSUME NEW f \in Flusher, StartFlush(f) PROVE UNCHANGED Bill!billVars
  BY <1>6, Stutters DEF StartFlush, InMemory, Pending, tracker, books
<1>7. ASSUME NEW f \in Flusher, Look(f) PROVE UNCHANGED Bill!billVars
  BY <1>7, Stutters DEF Look, InMemory, Pending, tracker, books
<1>8. ASSUME NEW f \in Flusher, Drain(f) PROVE UNCHANGED Bill!billVars
  <2>1. hand[f] = {} /\ hand'[f] = counter /\ \A g \in Flusher \ {f} : hand'[g] = hand[g]
    BY <1>8 DEF Drain, PlaceInv, TypeOK
  <2>2. InMemory' = InMemory
    BY <1>8, <2>1 DEF Drain, InMemory, Pending, TypeOK
  <2> QED
    BY <1>8, <2>2, Stutters DEF Drain, books
<1>9. ASSUME NEW f \in Flusher, TakePending(f) PROVE UNCHANGED Bill!billVars
  <2>1. Pending \subseteq Chunk
    BY DEF TypeOK, Pending
  <2>2. hand'[f] = hand[f] \cup Pending /\ \A g \in Flusher \ {f} : hand'[g] = hand[g]
    BY <1>9, <2>1 DEF TakePending, TypeOK
  <2>3. InMemory' = InMemory
    BY <1>9, <2>1, <2>2 DEF TakePending, InMemory, Pending, tracker
  <2> QED
    BY <1>9, <2>3, Stutters DEF TakePending, books
<1>10. ASSUME NEW f \in Flusher, Commit(f) PROVE Bill!Next
  <2>1. hand'[f] = {} /\ \A g \in Flusher \ {f} : hand'[g] = hand[g]
    BY <1>10 DEF Commit, TypeOK
  <2>2. hand[f] \subseteq Chunk
    BY DEF TypeOK
  <2>3. InMemory' = InMemory \ hand[f] /\ hand[f] \in SUBSET InMemory
    BY <1>10, <2>1, <2>2 DEF Commit, InMemory, Pending, Conservation, tracker
  <2>4. Bill!Settle(hand[f])
    BY <1>10, <2>3 DEF Bill!Settle, Commit
  <2> QED
    BY <2>3, <2>4 DEF Bill!Next
<1>11. ASSUME NEW f \in Flusher, Fail(f) PROVE Bill!Next
  <2>1. hand[f] \cap Pending = {} /\ KeepPending(RowsOf(hand[f]) \cup pending)
    BY <1>11 DEF Fail, Conservation
  <2>2. PICK G : lost' = lost \cup G /\ Pending' \cup G = hand[f] \cup Pending /\ Pending' \cap G = {}
    BY <2>1, KeepGivesUp
  <2>3. hand'[f] = {} /\ \A g \in Flusher \ {f} : hand'[g] = hand[g]
    BY <1>11 DEF Fail, TypeOK
  <2>4. G \cap (counter \cup carried) = {} /\ \A g \in Flusher \ {f} : G \cap hand[g] = {}
    BY <2>2 DEF Conservation
  <2>5. hand[f] \subseteq Chunk
    BY DEF TypeOK
  <2>6. InMemory' = InMemory \ G /\ G \in SUBSET InMemory
    BY <1>11, <2>2, <2>3, <2>4, <2>5 DEF Fail, InMemory, tracker
  <2>7. Bill!GiveUp(G)
    BY <1>11, <2>2, <2>6 DEF Bill!GiveUp, Fail, books
  <2> QED
    BY <2>6, <2>7 DEF Bill!Next
<1>12. ASSUME NEW f \in Flusher, FlushStats(f) PROVE UNCHANGED Bill!billVars
  BY <1>12, Stutters DEF FlushStats, InMemory, Pending, tracker, books
<1>13. ASSUME NEW k \in UserKey, EditClients(k) PROVE Bill!Next
  <2>1. InMemory' = InMemory
    BY <1>13 DEF EditClients, InMemory, Pending, tracker, flushes
  <2>2. Bill!Edit(k)
    BY <1>13, <2>1 DEF EditClients, Bill!Edit
  <2> QED
    BY <2>2 DEF Bill!Next
<1>14. CASE StopPanel
  BY <1>14, Stutters DEF StopPanel, InMemory, Pending, tracker, flushes, books
<1>15. CASE Flushed
  BY <1>15, Stutters DEF Flushed, InMemory, Pending, tracker, flushes, books
<1>16. CASE Retired
  BY <1>16, Stutters DEF Retired, InMemory, Pending, tracker, flushes, books
<1>17. CASE RestartPanel
  BY <1>17, Stutters DEF RestartPanel, InMemory, Pending, tracker, books
<1>18. ASSUME EndProcess PROVE Bill!Next
  <2>1. InMemory' = InMemory \ InMemory
    BY <1>18 DEF EndProcess, InMemory, Pending
  <2>2. Bill!GiveUp(InMemory)
    BY <1>18, <2>1 DEF EndProcess, Bill!GiveUp, books
  <2> QED
    BY <2>2 DEF Bill!Next
<1>19. CASE Exit
  BY <1>18, <1>19 DEF Exit
<1>20. CASE Crash
  BY <1>18, <1>20 DEF Crash
<1>21. CASE UNCHANGED vars
  BY <1>21, Stutters DEF vars, InMemory, Pending, tracker, flushes, books
<1> QED
  BY <1>1, <1>2, <1>3, <1>4, <1>5, <1>6, <1>7, <1>8, <1>9, <1>10, <1>11, <1>12, <1>13, <1>14,
     <1>15, <1>16, <1>17, <1>19, <1>20, <1>21 DEF Next

\* However drains, failed commits, stops, restarts and kills interleave, what the
\* ledger does to the traffic is what TrafficBill allows: SaveStats and
\* carryOverStats bill every byte at most once and in one transaction.
THEOREM LedgerKeepsBill == Spec => BillKept
<1>1. Init => Bill!Init
  BY DEF Init, Bill!Init, InMemory, Pending
<1>2. IInv /\ IInv' /\ [Next]_vars => [Bill!Next]_(Bill!billVars)
  BY BillStep DEF IInv
<1> QED
  BY LedgerInvariance, <1>1, <1>2, PTL DEF Spec, BillKept, Bill!Spec

=============================================================================
