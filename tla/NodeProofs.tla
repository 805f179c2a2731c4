----------------------------- MODULE NodeProofs -----------------------------
(***************************************************************************)
(* Proofs about a master and its nodes: traffic of a node is charged at    *)
(* most once (NodeTraffic), a node that is behind is marked and never      *)
(* taken back by a run (NodeSync), and the slots of a limit over all       *)
(* panels are filled by seniority (ClusterIpLimit).                        *)
(***************************************************************************)
EXTENDS NodeSync, NodeTraffic, ClusterIpLimit, FiniteSetTheorems, TLAPS

-----------------------------------------------------------------------------
(* Traffic of a node's clients.                                             *)

\* What a collection that reads "next" over the readings "row" adds to a client.
Owing(row, next, a) == Delta(Baseline(next, a), Baseline(row, a))

\* Every number is a natural number.  A client a row does not have counts as zero.
Readings ==
  /\ \A a \in Account : {Baseline(counter, a), Baseline(baselines, a), moved[a], folded[a]} \subseteq Nat
  /\ folded \in [Account -> Nat] /\ moved \in [Account -> Nat]
  /\ pulling.step # "idle" => \A a \in Account : Baseline(pulling.base, a) \in Nat
  /\ pulling.step = "read" => \A a \in Account : Baseline(pulling.current, a) \in Nat

\* What is charged and what the next collection would add is covered by what was moved, and so
\* is what a collection under way adds with what the one after it would; the row a
\* collection has read still says what the database does.
Covered ==
  \A a \in Account :
    /\ folded[a] + Owing(baselines, counter, a) <= moved[a]
    /\ pulling.step = "read" =>
         folded[a] + Owing(pulling.base, pulling.current, a) + Owing(pulling.current, counter, a) <= moved[a]
    /\ pulling.step # "idle" => Baseline(pulling.base, a) = Baseline(baselines, a)

TrafficInv == Readings /\ (wiped \/ Covered)

\* A difference of readings is a natural number, and none is made of nothing.
LEMMA DeltaFacts ==
  ASSUME NEW cur \in Nat, NEW base \in Nat
  PROVE  /\ Delta(cur, base) \in Nat /\ Delta(cur + 1, base) <= Delta(cur, base) + 1
         /\ Delta(0, base) = 0 /\ Delta(cur, cur) = 0 /\ Delta(cur, 0) = cur
BY DEF Delta

\* What the node does to a counter: it grows with what was moved, or falls to zero, and
\* nothing else of the counters changes.
LEMMA NodeEffects ==
  ASSUME NEW a \in Account, Readings,
         NodeMoves(a) \/ NodeClears(a) \/ NodeLoses(a) \/ NodeGains(a)
  PROVE  /\ UNCHANGED <<baselines, pulling, folded, wiped>>
         /\ \A b \in Account : \/ Baseline(counter', b) = Baseline(counter, b) /\ moved'[b] = moved[b]
                               \/ Baseline(counter', b) = 0 /\ moved'[b] = moved[b]
                               \/ Baseline(counter', b) = Baseline(counter, b) + 1 /\ moved'[b] = moved[b] + 1
         /\ moved' \in [Account -> Nat]
<1>0. moved \in [Account -> Nat] /\ Baseline(counter, a) \in Nat
  BY DEF Readings
<1>1. CASE NodeMoves(a)
  <2>1. /\ a \in DOMAIN counter /\ counter' = [counter EXCEPT ![a] = counter[a] + 1]
        /\ moved' = [moved EXCEPT ![a] = moved[a] + 1]
        /\ UNCHANGED <<baselines, pulling, folded, wiped>>
    BY <1>1 DEF NodeMoves
  <2>2. moved' \in [Account -> Nat] /\ \A b \in Account : moved'[b] = IF b = a THEN moved[a] + 1 ELSE moved[b]
    BY <1>0, <2>1
  <2>3. \A b \in Account : Baseline(counter', b) = IF b = a THEN Baseline(counter, a) + 1 ELSE Baseline(counter, b)
    BY <2>1 DEF Baseline
  <2> QED BY <2>1, <2>2, <2>3
<1>2. CASE NodeClears(a)
  <2>1. \A b \in Account : Baseline(counter', b) = IF b = a THEN 0 ELSE Baseline(counter, b)
    BY <1>2 DEF NodeClears, Baseline
  <2> QED BY <1>0, <1>2, <2>1 DEF NodeClears
<1>3. CASE NodeLoses(a)
  <2>1. \A b \in Account : Baseline(counter', b) = IF b = a THEN 0 ELSE Baseline(counter, b)
    BY <1>3 DEF NodeLoses, Baseline
  <2> QED BY <1>0, <1>3, <2>1 DEF NodeLoses
<1>4. CASE NodeGains(a)
  <2>1. \A b \in Account : Baseline(counter', b) = IF b = a THEN 0 ELSE Baseline(counter, b)
    BY <1>4 DEF NodeGains, Baseline
  <2> QED BY <1>0, <1>4, <2>1 DEF NodeGains
<1> QED
  BY <1>1, <1>2, <1>3, <1>4

\* A step of the node keeps the charges covered.
LEMMA NodeKeeps ==
  ASSUME TrafficInv, NEW a \in Account, NodeMoves(a) \/ NodeClears(a) \/ NodeLoses(a) \/ NodeGains(a)
  PROVE  TrafficInv'
<1>1. Readings
  BY DEF TrafficInv
<1>2. /\ UNCHANGED <<baselines, pulling, folded, wiped>>
      /\ moved' \in [Account -> Nat]
  BY <1>1, NodeEffects
<1>3. ASSUME NEW b \in Account
      PROVE  \/ Baseline(counter', b) = Baseline(counter, b) /\ moved'[b] = moved[b]
             \/ Baseline(counter', b) = 0 /\ moved'[b] = moved[b]
             \/ Baseline(counter', b) = Baseline(counter, b) + 1 /\ moved'[b] = moved[b] + 1
  BY <1>1, NodeEffects
<1>4. ASSUME NEW b \in Account
      PROVE  Baseline(counter', b) \in Nat /\ Baseline(baselines', b) \in Nat /\ moved'[b] \in Nat /\ folded'[b] \in Nat
  BY <1>1, <1>2, <1>3 DEF Readings, Baseline
<1>5. Readings'
  BY <1>1, <1>2, <1>4 DEF Readings, Baseline
<1>6. ASSUME NEW b \in Account, NEW base \in Nat
      PROVE  /\ Delta(Baseline(counter, b), base) \in Nat /\ Delta(Baseline(counter', b), base) \in Nat
             /\ Delta(Baseline(counter', b), base) + moved[b] <= Delta(Baseline(counter, b), base) + moved'[b]
  <2>1. Baseline(counter, b) \in Nat /\ moved[b] \in Nat /\ moved'[b] \in Nat
    BY <1>1, <1>4 DEF Readings
  <2> DEFINE old == Baseline(counter, b)
             new == Baseline(counter', b)
  <2>2. Delta(old, base) \in Nat /\ Delta(old + 1, base) <= Delta(old, base) + 1 /\ Delta(0, base) = 0
        /\ Delta(old + 1, base) \in Nat
    BY <2>1, DeltaFacts DEF Delta
  <2>3. \/ new = old /\ moved'[b] = moved[b]
        \/ new = 0 /\ moved'[b] = moved[b]
        \/ new = old + 1 /\ moved'[b] = moved[b] + 1
    BY <1>3
  <2> HIDE DEF old, new
  <2>4. Delta(old, base) \in Nat /\ Delta(new, base) \in Nat /\ Delta(new, base) + moved[b] <= Delta(old, base) + moved'[b]
    <3>1. CASE new = old /\ moved'[b] = moved[b]
      BY <2>1, <2>2, <3>1
    <3>2. CASE new = 0 /\ moved'[b] = moved[b]
      BY <2>1, <2>2, <3>2
    <3>3. CASE new = old + 1 /\ moved'[b] = moved[b] + 1
      BY <2>1, <2>2, <3>3
    <3> QED BY <2>3, <3>1, <3>2, <3>3
  <2> QED BY <2>4 DEF old, new
<1>7. ASSUME Covered, NEW b \in Account
      PROVE  /\ folded[b] + Delta(Baseline(counter', b), Baseline(baselines, b)) <= moved'[b]
             /\ pulling.step = "read" =>
                  folded[b] + Owing(pulling.base, pulling.current, b) + Delta(Baseline(counter', b), Baseline(pulling.current, b)) <= moved'[b]
             /\ pulling.step # "idle" => Baseline(pulling.base, b) = Baseline(baselines, b)
  <2>1. Baseline(baselines, b) \in Nat /\ folded[b] \in Nat /\ moved[b] \in Nat /\ moved'[b] \in Nat
    BY <1>1, <1>4 DEF Readings
  <2>2. folded[b] + Delta(Baseline(counter', b), Baseline(baselines, b)) <= moved'[b]
    <3>1. folded[b] + Delta(Baseline(counter, b), Baseline(baselines, b)) <= moved[b]
      BY <1>7 DEF Covered, Owing
    <3> QED BY <1>6, <2>1, <3>1
  <2>3. ASSUME pulling.step = "read"
        PROVE  folded[b] + Owing(pulling.base, pulling.current, b) + Delta(Baseline(counter', b), Baseline(pulling.current, b)) <= moved'[b]
    <3>1. Baseline(pulling.base, b) \in Nat /\ Baseline(pulling.current, b) \in Nat
      BY <1>1, <2>3 DEF Readings
    <3>2. Owing(pulling.base, pulling.current, b) \in Nat
      BY <3>1, DeltaFacts DEF Owing
    <3>3. folded[b] + Owing(pulling.base, pulling.current, b) + Delta(Baseline(counter, b), Baseline(pulling.current, b)) <= moved[b]
      BY <1>7, <2>3 DEF Covered, Owing
    <3> QED BY <1>6, <2>1, <3>1, <3>2, <3>3
  <2> QED BY <1>7, <2>2, <2>3 DEF Covered
<1>8. wiped' \/ Covered'
  BY <1>2, <1>7 DEF TrafficInv, Covered, Owing
<1> QED
  BY <1>5, <1>8 DEF TrafficInv

\* A collection: nothing is charged twice, whether it is read, folded or given up.
LEMMA PullKeeps ==
  ASSUME TrafficInv, PullStarts \/ PullReads \/ PullFolds
  PROVE  TrafficInv'
<1>1. Readings /\ (wiped \/ Covered)
  BY DEF TrafficInv
<1>2. CASE PullStarts
  <2>1. /\ pulling'.step = "row" /\ pulling'.base = baselines
        /\ UNCHANGED <<counter, baselines, moved, folded, wiped>>
    BY <1>2 DEF PullStarts
  <2> QED BY <1>1, <2>1 DEF TrafficInv, Readings, Covered, Owing, Baseline
<1>3. CASE PullReads
  <2>1. pulling.step = "row" /\ UNCHANGED <<counter, baselines, moved, folded, wiped>>
    BY <1>3 DEF PullReads
  <2>2. CASE pulling' = NoPull
    <3>1. pulling'.step = "idle"
      BY <2>2 DEF NoPull
    <3> QED BY <1>1, <2>1, <3>1 DEF TrafficInv, Readings, Covered, Owing, Baseline
  <2>3. CASE pulling' = [step |-> "read", base |-> pulling.base, current |-> counter]
    <3>1. pulling'.step = "read" /\ pulling'.base = pulling.base /\ pulling'.current = counter
      BY <2>3
    <3>2. Readings'
      BY <1>1, <2>1, <3>1 DEF Readings, Baseline
    <3>3. ASSUME Covered, NEW b \in Account
          PROVE  /\ folded[b] + Owing(baselines, counter, b) <= moved[b]
                 /\ folded[b] + Owing(pulling.base, counter, b) + Owing(counter, counter, b) <= moved[b]
                 /\ Baseline(pulling.base, b) = Baseline(baselines, b)
      <4>1. /\ folded[b] + Owing(baselines, counter, b) <= moved[b] /\ Baseline(pulling.base, b) = Baseline(baselines, b)
        BY <2>1, <3>3 DEF Covered
      <4>2. Baseline(counter, b) \in Nat /\ Baseline(baselines, b) \in Nat /\ folded[b] \in Nat /\ moved[b] \in Nat
        BY <1>1 DEF Readings
      <4>3. Owing(pulling.base, counter, b) = Owing(baselines, counter, b) /\ Owing(counter, counter, b) = 0
            /\ Owing(baselines, counter, b) \in Nat
        BY <4>1, <4>2, DeltaFacts DEF Owing
      <4> QED BY <4>1, <4>2, <4>3
    <3>4. wiped' \/ Covered'
      BY <1>1, <2>1, <3>1, <3>3 DEF Covered, Owing, Baseline
    <3> QED BY <3>2, <3>4 DEF TrafficInv
  <2> QED BY <1>3, <2>2, <2>3 DEF PullReads
<1>4. CASE PullFolds
  <2>1. pulling.step = "read" /\ pulling'.step = "idle" /\ UNCHANGED <<counter, moved, wiped>>
    BY <1>4 DEF PullFolds, NoPull
  <2>2. CASE UNCHANGED <<folded, baselines>>
    BY <1>1, <2>1, <2>2 DEF TrafficInv, Readings, Covered, Owing, Baseline
  <2>3. CASE /\ folded' = [a \in Account |-> IF a \in onMaster \cap DOMAIN pulling.current
                                             THEN folded[a] + Delta(pulling.current[a], Baseline(pulling.base, a)) ELSE folded[a]]
             /\ baselines' = pulling.current
    <3>1. ASSUME NEW b \in Account
          PROVE  /\ {folded[b], moved[b], Baseline(counter, b), Baseline(pulling.base, b), Baseline(pulling.current, b)} \subseteq Nat
                 /\ Owing(pulling.base, pulling.current, b) \in Nat /\ Owing(pulling.current, counter, b) \in Nat
                 /\ folded'[b] = folded[b] \/ folded'[b] = folded[b] + Owing(pulling.base, pulling.current, b)
                 /\ folded'[b] \in Nat
      <4>1. {folded[b], moved[b], Baseline(counter, b), Baseline(pulling.base, b), Baseline(pulling.current, b)} \subseteq Nat
        BY <1>1, <2>1 DEF Readings
      <4>2. Owing(pulling.base, pulling.current, b) \in Nat /\ Owing(pulling.current, counter, b) \in Nat
        BY <4>1, DeltaFacts DEF Owing
      <4>3. folded'[b] = folded[b] \/ folded'[b] = folded[b] + Owing(pulling.base, pulling.current, b)
        BY <2>3 DEF Owing, Baseline
      <4> QED BY <4>1, <4>2, <4>3
    <3>2. folded' \in [Account -> Nat]
      BY <2>3, <3>1
    <3>3. Readings'
      <4>1. \A b \in Account : Baseline(baselines', b) \in Nat /\ Baseline(counter', b) \in Nat
        BY <2>1, <2>3, <3>1 DEF Baseline
      <4> QED BY <1>1, <2>1, <3>1, <3>2, <4>1 DEF Readings
    <3>4. ASSUME Covered, NEW b \in Account
          PROVE  folded'[b] + Owing(pulling.current, counter, b) <= moved[b]
      <4>1. folded[b] + Owing(pulling.base, pulling.current, b) + Owing(pulling.current, counter, b) <= moved[b]
        BY <2>1, <3>4 DEF Covered
      <4> QED BY <3>1, <4>1
    <3>5. wiped' \/ Covered'
      BY <1>1, <2>1, <2>3, <3>4 DEF Covered, Owing, Baseline
    <3> QED BY <3>3, <3>5 DEF TrafficInv
  <2> QED BY <1>4, <2>2, <2>3 DEF PullFolds
<1> QED
  BY <1>2, <1>3, <1>4

\* An edit of the node that drops no reading above zero changes no difference.
LEMMA EditKeeps ==
  ASSUME TrafficInv, EditNode
  PROVE  TrafficInv'
<1>1. Readings /\ (wiped \/ Covered)
  BY DEF TrafficInv
<1>2. /\ baselines' = <<>> /\ wiped' = (wiped \/ \E a \in DOMAIN baselines : baselines[a] > 0)
      /\ UNCHANGED <<counter, pulling, moved, folded>>
  BY DEF EditNode
<1>3. \A b \in Account : Baseline(baselines', b) = 0
  BY <1>2 DEF Baseline
<1>4. Readings'
  BY <1>1, <1>2, <1>3 DEF Readings, Baseline
<1>5. ASSUME ~wiped', NEW b \in Account
      PROVE  Baseline(baselines, b) = 0
  <2>1. Baseline(baselines, b) \in Nat
    BY <1>1 DEF Readings
  <2>2. ~ \E a \in DOMAIN baselines : baselines[a] > 0
    BY <1>2, <1>5, Zenon
  <2> QED BY <2>1, <2>2 DEF Baseline
<1>6. wiped' \/ Covered'
  BY <1>1, <1>2, <1>3, <1>5 DEF Covered, Owing, Baseline
<1> QED
  BY <1>4, <1>6 DEF TrafficInv

\* The master never charges a client more than it moved on the node, through failed readings,
\* failed transactions, counters that are cleared and clients that come and go (collectNodeTraffic of
\* service/nodeSync.go), until an edit of the node drops its readings: for any number of clients and bytes.
THEOREM NodeTrafficCountedOnce == TrafficSpec => []CountedOnceUntilEdit
<1>1. TrafficInit => TrafficInv
  <2> SUFFICES ASSUME TrafficInit
               PROVE  TrafficInv
    OBVIOUS
  <2>1. \A a \in Account : Baseline(counter, a) = 0 /\ Baseline(baselines, a) = 0 /\ moved[a] = 0 /\ folded[a] = 0
    BY DEF TrafficInit, Baseline
  <2>2. pulling.step = "idle" /\ folded \in [Account -> Nat] /\ moved \in [Account -> Nat]
    BY DEF TrafficInit, NoPull
  <2>3. Delta(0, 0) = 0
    BY DEF Delta
  <2> QED BY <2>1, <2>2, <2>3 DEF TrafficInv, Readings, Covered, Owing
<1>2. TrafficInv /\ [TrafficNext]_nodeTrafficVars => TrafficInv'
  <2> SUFFICES ASSUME TrafficInv, [TrafficNext]_nodeTrafficVars
               PROVE  TrafficInv'
    OBVIOUS
  <2>1. CASE UNCHANGED nodeTrafficVars
    BY <2>1 DEF nodeTrafficVars, TrafficInv, Readings, Covered, Owing, Baseline
  <2>2. CASE \E a \in Account : MasterHas(a)
    BY <2>2 DEF MasterHas, TrafficInv, Readings, Covered, Owing, Baseline
  <2> QED BY <2>1, <2>2, NodeKeeps, PullKeeps, EditKeeps DEF TrafficNext
<1>3. TrafficInv => CountedOnceUntilEdit
  <2> SUFFICES ASSUME TrafficInv, ~wiped, NEW a \in Account
               PROVE  folded[a] <= moved[a]
    BY DEF CountedOnceUntilEdit
  <2>1. {folded[a], moved[a], Baseline(counter, a), Baseline(baselines, a)} \subseteq Nat
    BY DEF TrafficInv, Readings
  <2>2. folded[a] + Owing(baselines, counter, a) <= moved[a] /\ Owing(baselines, counter, a) \in Nat
    BY <2>1, DeltaFacts DEF TrafficInv, Covered, Owing
  <2> QED BY <2>1, <2>2
<1> QED
  BY <1>1, <1>2, <1>3, PTL DEF TrafficSpec

-----------------------------------------------------------------------------
(* The push of clients to a node.                                           *)

\* Single flight: the node is claimed while a run is under way, by that run alone.
OneRun ==
  /\ \A r \in Runner : pc[r] # "idle" => busy
  /\ \A r, s \in Runner : pc[r] # "idle" /\ pc[s] # "idle" => r = s

\* Edits are numbered upwards, and the run under way claimed no later generation.
Numbered ==
  /\ gone \subseteq 1 .. edits /\ \A c \in Client : master[c] <= edits /\ node[c] <= edits
  /\ \A m \in flight : m[2] <= edits
  /\ \A r \in Runner : claimed[r] <= gen
  /\ \A r \in Runner : \A c \in Client : want[r][c] <= edits /\ have[r][c] <= edits

HasRead(r) == pc[r] \in {"actual", "push", "clear"}

\* Neither the node nor a push on its way to it is ahead of the master, or of what the run under way wants.
NotAhead ==
  /\ \A c \in Client : node[c] <= master[c]
  /\ \A m \in flight : m[2] <= master[m[1]]
  /\ \A r \in Runner : HasRead(r) =>
       /\ \A c \in Client : node[c] <= want[r][c] /\ want[r][c] <= master[c]
       /\ \A m \in flight : m[2] <= want[r][m[1]]

\* With no save under way, a node that is behind is marked, and so it is when the run under
\* way read the master before the last edit.
Marked ==
  /\ editor \in {"idle", "tx"} /\ ~Synced => dirty \/ raced
  /\ \A r \in Runner : HasRead(r) /\ want[r] # master /\ editor \in {"idle", "tx"} => dirty

\* While the generation is the one it claimed outside of an adoption, a run knows of every
\* edit but one that is committed and has not bumped it.
Knows ==
  \A r \in Runner : pc[r] # "idle" /\ gen = claimed[r] /\ ~under[r] =>
    /\ editor # "tx"
    /\ HasRead(r) /\ editor # "bump" => want[r] = master

\* A run knows what the node has, unless the node changed on its own, and clears the mark
\* only when nothing is owed.
Seen ==
  /\ ~raced => \A r \in Runner : pc[r] \in {"push", "clear"} => have[r] = node
  /\ \A r \in Runner : pc[r] = "clear" => Owed(r) = {}

SyncInv == TypeOK /\ OneRun /\ Numbered /\ NotAhead /\ Marked /\ Knows /\ Seen

\* A commit that changes what the node is expected to have: the client gets a new number, and
\* no two of the old ones differ more or less than before.
LEMMA ExpectFacts ==
  ASSUME SyncInv, NEW c \in Client, Expect(c)
  PROVE  /\ edits' = edits + 1 /\ edits \in Nat /\ edits' \in Version
         /\ master' = [master EXCEPT ![c] = edits + 1] /\ master' \in [Client -> Version]
         /\ \A b \in Client : master[b] <= master'[b] /\ master'[b] <= edits'
         /\ gone' \subseteq 1 .. edits' /\ gone' \subseteq Version
         /\ \A v \in Version : v <= edits => (v \in gone' <=> v \in gone)
<1>1. /\ edits < MaxEdits /\ edits' = edits + 1 /\ master' = [master EXCEPT ![c] = edits + 1]
      /\ gone' = gone \/ gone' = gone \cup {edits + 1}
  BY DEF Expect
<1>2. /\ MaxEdits \in Nat /\ edits \in Version /\ master \in [Client -> Version] /\ gone \subseteq 1 .. edits
      /\ \A b \in Client : master[b] <= edits
  BY SyncConstants DEF SyncInv, TypeOK, Numbered
<1>3. edits' \in Version /\ edits \in Nat
  BY <1>1, <1>2 DEF Version
<1>4. master' \in [Client -> Version]
  BY <1>1, <1>2, <1>3
<1>5. \A b \in Client : master[b] <= master'[b] /\ master'[b] <= edits'
  BY <1>1, <1>2, <1>3 DEF Version
<1>6. gone' \subseteq 1 .. edits' /\ gone' \subseteq Version
  <2>1. \A v \in gone' : v \in 1 .. edits \/ v = edits + 1
    BY <1>1, <1>2
  <2>2. \A v \in 1 .. edits : v \in 1 .. edits + 1 /\ v \in Version
    BY <1>2 DEF Version
  <2>3. edits + 1 \in 1 .. edits + 1 /\ edits + 1 \in Version
    BY <1>1, <1>3
  <2> QED BY <1>1, <2>1, <2>2, <2>3
<1>7. \A v \in Version : v <= edits => (v \in gone' <=> v \in gone)
  BY <1>1, <1>3 DEF Version
<1> QED
  BY <1>1, <1>3, <1>4, <1>5, <1>6, <1>7

\* What a commit leaves of the invariant.
LEMMA ExpectKeeps ==
  ASSUME SyncInv, NEW c \in Client, Expect(c), UNCHANGED <<run, wire, online, busy, raced>>, gen' = gen
  PROVE  OneRun' /\ Numbered' /\ NotAhead' /\ Seen'
<1> DEFINE Same == UNCHANGED <<pc, claimed, want, have, under, node, flight, busy, raced, gen>>
<1>1. Same
  BY DEF run, wire
<1>2. TypeOK /\ OneRun /\ Numbered /\ NotAhead /\ Seen
  BY DEF SyncInv
<1>3. OneRun'
  BY <1>1, <1>2 DEF OneRun
<1>4. /\ edits' = edits + 1 /\ edits \in Nat
      /\ \A b \in Client : master[b] <= master'[b] /\ master'[b] <= edits'
      /\ gone' \subseteq 1 .. edits'
      /\ \A v \in Version : v <= edits => (v \in gone' <=> v \in gone)
      /\ master' \in [Client -> Version]
  BY ExpectFacts
<1>5. /\ master \in [Client -> Version] /\ node \in [Client -> Version] /\ flight \subseteq Client \X Version
      /\ want \in [Runner -> [Client -> Version]] /\ have \in [Runner -> [Client -> Version]]
      /\ Version \subseteq Nat
  BY <1>2 DEF TypeOK, Version
<1>6. Numbered'
  <2>1. \A b \in Client : node[b] \in Nat /\ node[b] <= edits
    BY <1>2, <1>5 DEF Numbered
  <2>2. \A m \in flight : m[2] \in Nat /\ m[2] <= edits
    BY <1>2, <1>5 DEF Numbered
  <2>3. \A r \in Runner : \A b \in Client : /\ want[r][b] \in Nat /\ have[r][b] \in Nat
                                           /\ want[r][b] <= edits /\ have[r][b] <= edits
    BY <1>2, <1>5 DEF Numbered
  <2>4. \A r \in Runner : claimed[r] <= gen
    BY <1>2 DEF Numbered
  <2> QED BY <1>1, <1>4, <2>1, <2>2, <2>3, <2>4 DEF Numbered
<1>7. NotAhead'
  <2>2. ASSUME NEW v \in Nat, NEW b \in Client, v <= master[b]
        PROVE  v <= master'[b]
    <3>1. master[b] \in Nat /\ master'[b] \in Nat /\ master[b] <= master'[b]
      BY <1>4, <1>5
    <3> QED BY <2>2, <3>1
  <2>3. \A b \in Client : node[b] <= master'[b]
    BY <1>2, <1>5, <2>2 DEF NotAhead
  <2>4. \A m \in flight : m[2] <= master'[m[1]]
    BY <1>2, <1>5, <2>2 DEF NotAhead
  <2>5. \A r \in Runner : HasRead(r) => \A b \in Client : want[r][b] <= master'[b]
    BY <1>2, <1>5, <2>2 DEF NotAhead
  <2> QED BY <1>1, <1>2, <2>3, <2>4, <2>5 DEF NotAhead, HasRead
<1>8. Seen'
  <2>1. ASSUME NEW r \in Runner, NEW b \in Client
        PROVE  want[r][b] \in Version /\ have[r][b] \in Version /\ want[r][b] <= edits /\ have[r][b] <= edits
    BY <1>2, <1>5 DEF Numbered
  <2>2. \A r \in Runner : Owed(r)' = Owed(r)
    BY <1>1, <1>4, <2>1 DEF Owed, Differs, Absent
  <2> QED BY <1>1, <1>2, <2>2 DEF Seen
<1> QED
  BY <1>3, <1>6, <1>7, <1>8

\* The edits: the mark follows the commit, and the generation goes before the mark.
LEMMA EditKeepsSync ==
  ASSUME SyncInv, NEW c \in Client,
         SaveClient(c) \/ Adopt(c) \/ Bump \/ MarkAllDirty \/ CommitAdopt
  PROVE  SyncInv'
<1>0. TypeOK /\ OneRun /\ Numbered /\ NotAhead /\ Marked /\ Knows /\ Seen
  BY DEF SyncInv
<1>a. gen \in Nat /\ \A r \in Runner : claimed[r] \in Nat /\ claimed[r] <= gen
  BY <1>0 DEF TypeOK, Numbered
<1>1. CASE SaveClient(c)
  <2>1. /\ editor = "idle" /\ editor' = "bump" /\ Expect(c)
        /\ UNCHANGED <<draft, dirty, gen, pc, claimed, want, have, under, node, flight, online, busy, raced>>
    BY <1>1 DEF SaveClient, mark, run, wire
  <2>2. OneRun' /\ Numbered' /\ NotAhead' /\ Seen'
    BY <2>1, ExpectKeeps DEF run, wire
  <2>3. TypeOK'
    BY <1>0, <2>1, ExpectFacts DEF TypeOK
  <2>4. Marked' /\ Knows'
    BY <1>0, <2>1 DEF Marked, Knows, HasRead
  <2> QED BY <2>2, <2>3, <2>4 DEF SyncInv
<1>2. CASE Bump
  <2>1. /\ editor = "bump" /\ editor' = "mark" /\ gen' = gen + 1
        /\ UNCHANGED <<master, gone, edits, draft, dirty, pc, claimed, want, have, under, node, flight, online, busy, raced>>
    BY <1>2 DEF Bump, run, wire
  <2>2. gen' \in Nat /\ \A r \in Runner : claimed[r] <= gen' /\ gen' # claimed[r]
    BY <1>a, <2>1
  <2>3. TypeOK' /\ OneRun' /\ NotAhead' /\ Marked' /\ Knows'
    BY <1>0, <2>1, <2>2 DEF TypeOK, OneRun, NotAhead, Marked, Knows, HasRead, Synced, Differs, Absent
  <2>4. Numbered'
    BY <1>0, <2>1, <2>2 DEF Numbered
  <2>5. Seen'
    BY <1>0, <2>1 DEF Seen, Owed, Differs, Absent
  <2> QED BY <2>3, <2>4, <2>5 DEF SyncInv
<1>3. CASE MarkAllDirty
  <2>1. /\ editor = "mark" /\ editor' = "idle" /\ dirty' = TRUE
        /\ UNCHANGED <<master, gone, edits, draft, gen, pc, claimed, want, have, under, node, flight, online, busy, raced>>
    BY <1>3 DEF MarkAllDirty, run, wire
  <2>2. TypeOK' /\ OneRun' /\ Numbered' /\ NotAhead' /\ Marked' /\ Knows'
    BY <1>0, <2>1 DEF TypeOK, OneRun, Numbered, NotAhead, Marked, Knows, HasRead
  <2>3. Seen'
    BY <1>0, <2>1 DEF Seen, Owed, Differs, Absent
  <2> QED BY <2>2, <2>3 DEF SyncInv
<1>4. CASE Adopt(c)
  <2>1. /\ editor = "idle" /\ editor' = "tx" /\ gen' = gen + 1 /\ draft' = c
        /\ UNCHANGED <<master, gone, edits, dirty, pc, claimed, want, have, under, node, flight, online, busy, raced>>
    BY <1>4 DEF Adopt, run, wire
  <2>2. gen' \in Nat /\ \A r \in Runner : claimed[r] <= gen' /\ gen' # claimed[r]
    BY <1>a, <2>1
  <2>3. TypeOK' /\ OneRun' /\ NotAhead' /\ Knows'
    BY <1>0, <2>1, <2>2 DEF TypeOK, OneRun, NotAhead, Knows, HasRead
  <2>4. Numbered'
    BY <1>0, <2>1, <2>2 DEF Numbered
  <2>5. Marked'
    BY <1>0, <2>1 DEF Marked, HasRead, Synced, Differs, Absent
  <2>6. Seen'
    BY <1>0, <2>1 DEF Seen, Owed, Differs, Absent
  <2> QED BY <2>3, <2>4, <2>5, <2>6 DEF SyncInv
<1>5. CASE CommitAdopt
  <2>1. /\ editor = "tx" /\ editor' = "idle"
        /\ UNCHANGED <<draft, gen, pc, claimed, want, have, under, node, flight, online, busy, raced>>
        /\ (Expect(draft) /\ dirty' = TRUE) \/ UNCHANGED <<master, gone, edits, dirty>>
    BY <1>5 DEF CommitAdopt, run, wire
  <2>2. Knows'
    BY <1>0, <2>1 DEF Knows
  <2>3. CASE Expect(draft) /\ dirty' = TRUE
    <3>0. draft \in Client
      BY <1>0 DEF TypeOK
    <3>1. OneRun' /\ Numbered' /\ NotAhead' /\ Seen'
      BY <2>1, <2>3, <3>0, ExpectKeeps DEF run, wire
    <3>2. TypeOK'
      BY <1>0, <2>1, <2>3, <3>0, ExpectFacts DEF TypeOK
    <3>3. Marked'
      BY <2>3 DEF Marked
    <3> QED BY <2>2, <3>1, <3>2, <3>3 DEF SyncInv
  <2>4. CASE UNCHANGED <<master, gone, edits, dirty>>
    <3>1. TypeOK' /\ OneRun' /\ Numbered' /\ NotAhead'
      BY <1>0, <2>1, <2>4 DEF TypeOK, OneRun, Numbered, NotAhead, HasRead
    <3>2. Marked'
      BY <1>0, <2>1, <2>4 DEF Marked, HasRead, Synced, Differs, Absent
    <3>3. Seen'
      BY <1>0, <2>1, <2>4 DEF Seen, Owed, Differs, Absent
    <3> QED BY <2>2, <3>1, <3>2, <3>3 DEF SyncInv
  <2> QED BY <2>1, <2>3, <2>4
<1> QED
  BY <1>1, <1>2, <1>3, <1>4, <1>5

\* A run ends: whatever it did not clear stays marked.
LEMMA ReleaseKeeps ==
  ASSUME SyncInv, NEW r \in Runner, pc[r] # "idle", Release(r),
         UNCHANGED <<edit, gen, node, online>>
  PROVE  OneRun' /\ Knows' /\ Seen' /\ (flight' = flight => Numbered' /\ NotAhead')
         /\ (\A s \in Runner : pc'[s] = "idle")
         /\ (dirty' \in BOOLEAN /\ raced' \in BOOLEAN /\ flight' \subseteq Client \X Version => TypeOK')
         /\ (dirty' = dirty /\ raced' = raced => Marked')
<1>0. TypeOK /\ OneRun /\ Numbered /\ NotAhead /\ Marked
  BY DEF SyncInv
<1>1. /\ pc' = [pc EXCEPT ![r] = "idle"] /\ busy' = FALSE /\ claimed' = [claimed EXCEPT ![r] = 0]
      /\ want' = [want EXCEPT ![r] = Blank] /\ have' = [have EXCEPT ![r] = Blank]
      /\ under' = [under EXCEPT ![r] = FALSE]
      /\ UNCHANGED <<master, gone, edits, editor, draft, gen, node, online>>
  BY DEF Release, Goto, edit
<1>2. \A s \in Runner : pc'[s] = "idle"
  BY <1>0, <1>1 DEF OneRun, TypeOK
<1>3. OneRun' /\ Knows' /\ Seen'
  BY <1>2 DEF OneRun, Knows, Seen
<1>4. 0 \in Version /\ Blank \in [Client -> Version]
  BY SyncConstants DEF Version, Blank
<1>5. TypeOK /\ dirty' \in BOOLEAN /\ raced' \in BOOLEAN /\ flight' \subseteq Client \X Version => TypeOK'
  BY <1>1, <1>4 DEF TypeOK
<1>6. ASSUME flight' = flight
      PROVE  Numbered'
  <2>1. edits \in Nat /\ gen \in Nat /\ 0 <= edits /\ 0 <= gen
    BY <1>0 DEF TypeOK, Version
  <2>2. \A s \in Runner : claimed'[s] <= gen
    BY <1>0, <1>1, <2>1 DEF TypeOK, Numbered
  <2>3. \A s \in Runner : \A c \in Client : want'[s][c] <= edits /\ have'[s][c] <= edits
    BY <1>0, <1>1, <2>1 DEF TypeOK, Numbered, Blank
  <2> QED BY <1>0, <1>1, <1>6, <2>2, <2>3 DEF Numbered
<1>7. ASSUME flight' = flight
      PROVE  NotAhead'
  BY <1>0, <1>1, <1>2, <1>7 DEF NotAhead, HasRead
<1>8. dirty' = dirty /\ raced' = raced => Marked'
  BY <1>0, <1>1, <1>2 DEF Marked, HasRead, Synced, Differs, Absent
<1> QED
  BY <1>0, <1>2, <1>3, <1>5, <1>6, <1>7, <1>8

\* A run starts, and reads what the master expects and what the node has.
LEMMA ReadKeeps ==
  ASSUME SyncInv, NEW r \in Runner, Claim(r) \/ ReadExpected(r) \/ ReadActual(r)
  PROVE  SyncInv'
<1>0. TypeOK /\ OneRun /\ Numbered /\ NotAhead /\ Marked /\ Knows /\ Seen
  BY DEF SyncInv
<1>a. gen \in Nat /\ edits \in Nat /\ Version \subseteq Nat
  BY <1>0 DEF TypeOK, Version
<1>1. CASE Claim(r)
  <2>1. /\ pc[r] = "idle" /\ ~busy /\ busy' = TRUE /\ pc' = [pc EXCEPT ![r] = "expect"]
        /\ claimed' = [claimed EXCEPT ![r] = gen] /\ under' = [under EXCEPT ![r] = editor = "tx"]
        /\ UNCHANGED <<master, gone, edits, editor, draft, dirty, gen, want, have, node, flight, online, raced>>
    BY <1>1 DEF Claim, Goto, edit, mark, wire
  <2>2. \A s \in Runner : pc[s] = "idle"
    BY <1>0, <2>1 DEF OneRun
  <2>3. pc'[r] = "expect" /\ \A s \in Runner \ {r} : pc'[s] = "idle"
    BY <1>0, <2>1, <2>2 DEF TypeOK
  <2>4. TypeOK'
    BY <1>0, <2>1 DEF TypeOK
  <2>5. OneRun' /\ Seen' /\ NotAhead'
    BY <1>0, <2>1, <2>3 DEF OneRun, Seen, NotAhead, HasRead
  <2>6. Numbered'
    <3>1. \A s \in Runner : claimed'[s] <= gen
      BY <1>0, <1>a, <2>1 DEF TypeOK, Numbered
    <3> QED BY <1>0, <2>1, <3>1 DEF Numbered
  <2>7. Marked'
    BY <1>0, <2>1, <2>3 DEF Marked, HasRead, Synced, Differs, Absent
  <2>8. under'[r] = (editor = "tx")
    BY <1>0, <2>1 DEF TypeOK
  <2>9. Knows'
    BY <2>1, <2>3, <2>8 DEF Knows, HasRead
  <2> QED BY <2>4, <2>5, <2>6, <2>7, <2>9 DEF SyncInv
<1>2. CASE ReadExpected(r)
  <2>1. /\ pc[r] = "expect" /\ want' = [want EXCEPT ![r] = master] /\ pc' = [pc EXCEPT ![r] = "actual"]
        /\ UNCHANGED <<master, gone, edits, editor, draft, dirty, gen, claimed, have, under, node, flight, online, busy, raced>>
    BY <1>2 DEF ReadExpected, Goto, edit, mark, wire
  <2>2. pc'[r] = "actual" /\ want'[r] = master /\ \A s \in Runner \ {r} : pc'[s] = pc[s] /\ want'[s] = want[s]
    BY <1>0, <2>1 DEF TypeOK
  <2>3. \A s \in Runner \ {r} : pc'[s] = "idle"
    BY <1>0, <2>1, <2>2 DEF OneRun
  <2>4. TypeOK'
    BY <1>0, <2>1 DEF TypeOK
  <2>5. OneRun' /\ Seen'
    BY <1>0, <2>1, <2>2, <2>3 DEF OneRun, Seen
  <2>6. Numbered'
    BY <1>0, <2>1, <2>2 DEF Numbered
  <2>7. NotAhead'
    <3>1. \A c \in Client : master[c] <= master[c]
      <4> TAKE c \in Client
      <4>1. master[c] \in Nat
        BY <1>0, <1>a DEF TypeOK
      <4> QED BY <4>1
    <3> QED BY <1>0, <2>1, <2>2, <2>3, <3>1 DEF NotAhead, HasRead
  <2>8. Marked'
    BY <1>0, <2>1, <2>2, <2>3 DEF Marked, HasRead, Synced, Differs, Absent
  <2>9. Knows'
    BY <1>0, <2>1, <2>2, <2>3 DEF Knows, HasRead
  <2> QED BY <2>4, <2>5, <2>6, <2>7, <2>8, <2>9 DEF SyncInv
<1>3. CASE ReadActual(r)
  <2>1. /\ pc[r] = "actual" /\ have' = [have EXCEPT ![r] = node] /\ pc' = [pc EXCEPT ![r] = "push"]
        /\ UNCHANGED <<master, gone, edits, editor, draft, dirty, gen, claimed, want, under, node, flight, online, busy, raced>>
    BY <1>3 DEF ReadActual, Goto, edit, mark, wire
  <2>2. pc'[r] = "push" /\ have'[r] = node /\ \A s \in Runner \ {r} : pc'[s] = pc[s] /\ have'[s] = have[s]
    BY <1>0, <2>1 DEF TypeOK
  <2>3. \A s \in Runner \ {r} : pc'[s] = "idle"
    BY <1>0, <2>1, <2>2 DEF OneRun
  <2>4. TypeOK'
    BY <1>0, <2>1 DEF TypeOK
  <2>5. OneRun' /\ Seen'
    BY <1>0, <2>1, <2>2, <2>3 DEF OneRun, Seen
  <2>6. Numbered'
    BY <1>0, <2>1, <2>2 DEF Numbered
  <2>7. NotAhead'
    BY <1>0, <2>1, <2>2, <2>3 DEF NotAhead, HasRead
  <2>8. Marked'
    BY <1>0, <2>1, <2>2, <2>3 DEF Marked, HasRead, Synced, Differs, Absent
  <2>9. Knows'
    BY <1>0, <2>1, <2>2, <2>3 DEF Knows, HasRead
  <2> QED BY <2>4, <2>5, <2>6, <2>7, <2>8, <2>9 DEF SyncInv
<1> QED
  BY <1>1, <1>2, <1>3

\* A push puts one client of the node at what the run wants, which is no older.
LEMMA PushFacts ==
  ASSUME SyncInv, NEW r \in Runner, Push(r)
  PROVE  /\ pc[r] = "push" /\ UNCHANGED <<edit, mark, pc, claimed, want, under, flight, online, busy, raced>>
         /\ \E c \in Client : /\ node' = [node EXCEPT ![c] = want[r][c]]
                              /\ have' = [have EXCEPT ![r] = [have[r] EXCEPT ![c] = want[r][c]]]
         /\ \A c \in Client : node'[c] = node[c] \/ node'[c] = want[r][c]
         /\ \A c \in Client : node'[c] >= node[c] /\ node'[c] <= want[r][c]
         /\ node' \in [Client -> Version] /\ have' \in [Runner -> [Client -> Version]]
<1>0. /\ node \in [Client -> Version] /\ have \in [Runner -> [Client -> Version]]
      /\ want[r] \in [Client -> Version] /\ Version \subseteq Nat
  BY DEF SyncInv, TypeOK, Version
<1>1. pc[r] = "push" /\ UNCHANGED <<edit, mark, pc, claimed, want, under, flight, online, busy, raced>>
  BY DEF Push
<1>2. PICK c \in Turn(r) : node' = [node EXCEPT ![c] = want[r][c]] /\ have' = [have EXCEPT ![r][c] = want[r][c]]
  BY DEF Push
<1>3. c \in Client
  BY DEF Turn, Owed
<1>4. \A b \in Client : node[b] <= want[r][b]
  BY <1>1 DEF SyncInv, NotAhead, HasRead
<1>5. \A b \in Client : node'[b] = node[b] \/ node'[b] = want[r][b]
  BY <1>0, <1>2
<1>6. \A b \in Client : node'[b] >= node[b] /\ node'[b] <= want[r][b]
  <2> TAKE b \in Client
  <2>1. node[b] \in Nat /\ want[r][b] \in Nat /\ node[b] <= want[r][b]
    BY <1>0, <1>4
  <2> QED BY <1>5, <2>1
<1>7. have' = [have EXCEPT ![r] = [have[r] EXCEPT ![c] = want[r][c]]]
  BY <1>0, <1>2
<1>8. node' \in [Client -> Version] /\ have' \in [Runner -> [Client -> Version]]
  BY <1>0, <1>2, <1>3, <1>7
<1> QED
  BY <1>1, <1>2, <1>3, <1>5, <1>6, <1>7, <1>8

LEMMA PushKeeps ==
  ASSUME SyncInv, NEW r \in Runner, Push(r)
  PROVE  SyncInv'
<1>0. TypeOK /\ OneRun /\ Numbered /\ NotAhead /\ Marked /\ Knows /\ Seen
  BY DEF SyncInv
<1>1. /\ pc[r] = "push"
      /\ UNCHANGED <<master, gone, edits, editor, draft, dirty, gen, pc, claimed, want, under, flight, online, busy, raced>>
  BY PushFacts DEF edit, mark
<1>2. PICK c \in Client : /\ node' = [node EXCEPT ![c] = want[r][c]]
                          /\ have' = [have EXCEPT ![r] = [have[r] EXCEPT ![c] = want[r][c]]]
  BY PushFacts
<1>3. /\ \A b \in Client : node'[b] = node[b] \/ node'[b] = want[r][b]
      /\ \A b \in Client : node'[b] >= node[b] /\ node'[b] <= want[r][b]
      /\ node' \in [Client -> Version] /\ have' \in [Runner -> [Client -> Version]]
  BY PushFacts
<1>4. \A s \in Runner \ {r} : pc[s] = "idle"
  BY <1>0, <1>1 DEF OneRun
<1>5. /\ node \in [Client -> Version] /\ have \in [Runner -> [Client -> Version]] /\ master \in [Client -> Version]
      /\ want \in [Runner -> [Client -> Version]] /\ Version \subseteq Nat /\ edits \in Nat
  BY <1>0 DEF TypeOK, Version
<1>6. TypeOK' /\ OneRun' /\ Knows'
  BY <1>0, <1>1, <1>3 DEF TypeOK, OneRun, Knows, HasRead
<1>7. have'[r] = [have[r] EXCEPT ![c] = want[r][c]] /\ \A s \in Runner \ {r} : have'[s] = have[s]
  BY <1>2, <1>5
<1>8. Numbered'
  <2>1. \A b \in Client : node'[b] <= edits
    BY <1>0, <1>3 DEF Numbered
  <2>2. \A s \in Runner : \A b \in Client : have'[s][b] <= edits
    <3>1. \A b \in Client : have'[r][b] = have[r][b] \/ have'[r][b] = want[r][b]
      BY <1>5, <1>7
    <3> QED BY <1>0, <1>7, <3>1 DEF Numbered
  <2> QED BY <1>0, <1>1, <2>1, <2>2 DEF Numbered
<1>9. NotAhead'
  <2>1. \A b \in Client : node'[b] <= want[r][b] /\ want[r][b] <= master[b]
    BY <1>0, <1>1, <1>3 DEF NotAhead, HasRead
  <2>2. \A b \in Client : node'[b] <= master[b]
    <3> TAKE b \in Client
    <3>1. node'[b] \in Nat /\ want[r][b] \in Nat /\ master[b] \in Nat
      BY <1>3, <1>5
    <3> QED BY <2>1, <3>1
  <2> QED BY <1>0, <1>1, <1>4, <2>1, <2>2 DEF NotAhead, HasRead
<1>10. Marked'
  <2>1. \A s \in Runner : HasRead(s) /\ want[s] # master /\ editor \in {"idle", "tx"} => dirty
    BY <1>0 DEF Marked
  <2>2. ASSUME editor \in {"idle", "tx"}, ~dirty, ~raced
        PROVE  Synced'
    <3>1. Synced /\ want[r] = master
      BY <1>0, <1>1, <2>2 DEF Marked, HasRead
    <3> QED BY <1>1, <1>3, <3>1 DEF Synced, Differs, Absent
  <2> QED BY <1>1, <2>1, <2>2 DEF Marked, HasRead
<1>11. Seen'
  <2>1. ~raced => have'[r] = node'
    BY <1>0, <1>1, <1>2, <1>7 DEF Seen
  <2> QED BY <1>1, <1>4, <2>1 DEF Seen
<1> QED
  BY <1>6, <1>8, <1>9, <1>10, <1>11 DEF SyncInv

\* A run gives up, finds that the generation moved, or clears the mark.
LEMMA EndKeeps ==
  ASSUME SyncInv, NEW r \in Runner, Abort(r) \/ CheckGen(r) \/ Clear(r)
  PROVE  SyncInv'
<1>0. TypeOK /\ OneRun /\ Numbered /\ NotAhead /\ Marked /\ Knows /\ Seen
  BY DEF SyncInv
<1>1. CASE Abort(r)
  <2>1. /\ pc[r] # "idle" /\ Release(r) /\ UNCHANGED <<edit, gen, node, online>> /\ dirty' = dirty /\ raced' = raced
        /\ master' = master /\ edits' = edits
    BY <1>1 DEF Abort, Refused, edit, mark
  <2>2. OneRun' /\ Knows' /\ Seen' /\ Marked' /\ (\A s \in Runner : pc'[s] = "idle")
        /\ (flight' = flight => Numbered' /\ NotAhead')
        /\ (flight' \subseteq Client \X Version => TypeOK')
    BY <1>0, <2>1, ReleaseKeeps DEF TypeOK
  <2>3. CASE flight' = flight
    BY <1>0, <2>2, <2>3 DEF SyncInv, TypeOK
  <2>4. CASE \E c \in Turn(r) : flight' = flight \cup {<<c, want[r][c]>>}
    <3>1. PICK c \in Turn(r) : flight' = flight \cup {<<c, want[r][c]>>}
      BY <2>4
    <3>2. c \in Client /\ want[r][c] \in Version /\ Owed(r) # {}
      BY <1>0 DEF Turn, Owed, TypeOK
    <3>3. flight' \subseteq Client \X Version
      BY <1>0, <3>1, <3>2 DEF TypeOK
    <3>4. want[r][c] <= edits
      BY <1>0, <3>2 DEF Numbered
    <3>5. \A m \in flight' : m[2] <= edits
      BY <1>0, <3>1, <3>4 DEF Numbered
    <3>6. HasRead(r) \/ flight' = flight
      BY <1>1, <3>1 DEF Abort, HasRead
    <3>7. CASE flight' = flight
      BY <1>0, <2>2, <3>7 DEF SyncInv, TypeOK
    <3>8. CASE HasRead(r)
      <4>1. \A m \in flight' : m[2] <= master[m[1]]
        BY <1>0, <3>1, <3>2, <3>8 DEF NotAhead
      <4>2. NotAhead'
        BY <1>0, <2>1, <2>2, <4>1 DEF NotAhead, HasRead
      <4>3. /\ gone' = gone /\ claimed' = [claimed EXCEPT ![r] = 0] /\ gen' = gen /\ node' = node
            /\ want' = [want EXCEPT ![r] = Blank] /\ have' = [have EXCEPT ![r] = Blank]
        BY <2>1 DEF Release, edit
      <4>4. gen \in Nat /\ edits \in Nat /\ \A b \in Client : Blank[b] = 0
        BY <1>0 DEF TypeOK, Version, Blank
      <4>5. \A s \in Runner : claimed'[s] <= gen
        BY <1>0, <4>3, <4>4 DEF Numbered, TypeOK
      <4>6. \A s \in Runner : \A b \in Client : want'[s][b] <= edits /\ have'[s][b] <= edits
        BY <1>0, <4>3, <4>4 DEF Numbered, TypeOK
      <4>7. Numbered'
        BY <1>0, <2>1, <3>5, <4>3, <4>5, <4>6 DEF Numbered
      <4> QED BY <2>2, <3>3, <4>2, <4>7 DEF SyncInv
    <3> QED BY <3>6, <3>7, <3>8
  <2> QED BY <1>1, <2>3, <2>4 DEF Abort
<1>2. CASE CheckGen(r)
  <2>1. /\ pc[r] = "push" /\ Owed(r) = {}
        /\ UNCHANGED <<master, gone, edits, editor, draft, dirty, gen, node, flight, online, raced>>
    BY <1>2 DEF CheckGen, edit, mark, wire
  <2>2. CASE gen = claimed[r]
    <3>1. pc' = [pc EXCEPT ![r] = "clear"] /\ UNCHANGED <<busy, claimed, want, have, under>>
      BY <1>2, <2>2 DEF CheckGen, Goto
    <3>2. pc'[r] = "clear" /\ \A s \in Runner \ {r} : pc'[s] = pc[s]
      BY <1>0, <3>1 DEF TypeOK
    <3>3. TypeOK' /\ Numbered'
      BY <1>0, <2>1, <3>1 DEF TypeOK, Numbered
    <3>4. OneRun' /\ NotAhead' /\ Knows'
      BY <1>0, <2>1, <3>1, <3>2 DEF OneRun, NotAhead, Knows, HasRead
    <3>5. Marked'
      BY <1>0, <2>1, <3>1, <3>2 DEF Marked, HasRead, Synced, Differs, Absent
    <3>6. \A s \in Runner : Owed(s)' = Owed(s)
      BY <2>1, <3>1 DEF Owed, Differs, Absent
    <3>7. Seen'
      BY <1>0, <2>1, <3>1, <3>2, <3>6 DEF Seen
    <3> QED BY <3>3, <3>4, <3>5, <3>7 DEF SyncInv
  <2>3. CASE Release(r)
    <3>1. pc[r] # "idle" /\ UNCHANGED <<edit, gen, node, online>>
      BY <2>1 DEF edit
    <3>2. OneRun' /\ Knows' /\ Seen' /\ Marked' /\ Numbered' /\ NotAhead' /\ TypeOK'
      BY <1>0, <2>1, <2>3, <3>1, ReleaseKeeps DEF TypeOK
    <3> QED BY <3>2 DEF SyncInv
  <2> QED BY <1>2, <2>2, <2>3 DEF CheckGen
<1>3. CASE Clear(r)
  <2>1. /\ pc[r] = "clear" /\ Release(r) /\ dirty' = FALSE /\ raced' = (raced \/ gen # claimed[r] \/ under[r])
        /\ UNCHANGED <<master, gone, edits, editor, draft, gen, node, flight, online>>
    BY <1>3 DEF Clear, edit, wire
  <2>2. pc[r] # "idle" /\ UNCHANGED <<edit, gen, node, online>>
    BY <2>1 DEF edit
  <2>3. raced' \in BOOLEAN /\ dirty' \in BOOLEAN /\ flight' \subseteq Client \X Version
    BY <1>0, <2>1 DEF TypeOK
  <2>4. OneRun' /\ Knows' /\ Seen' /\ Numbered' /\ NotAhead' /\ TypeOK' /\ (\A s \in Runner : pc'[s] = "idle")
    BY <2>1, <2>2, <2>3, ReleaseKeeps
  <2>5. ASSUME editor \in {"idle", "tx"}, ~raced'
        PROVE  Synced
    <3>1. ~raced /\ gen = claimed[r] /\ ~under[r]
      BY <2>1, <2>5, Zenon
    <3>2. want[r] = master
      BY <1>0, <2>1, <2>5, <3>1 DEF Knows, HasRead
    <3>3. have[r] = node /\ Owed(r) = {}
      BY <1>0, <2>1, <3>1 DEF Seen
    <3> QED BY <3>2, <3>3 DEF Owed, Synced
  <2>6. Marked'
    BY <2>1, <2>4, <2>5 DEF Marked, HasRead, Synced, Differs, Absent
  <2> QED BY <2>4, <2>6 DEF SyncInv
<1> QED
  BY <1>1, <1>2, <1>3

\* What happens on the node and on the way to it.
LEMMA WireKeeps ==
  ASSUME SyncInv, Reach \/ Arrive \/ \E c \in Client : Drift(c)
  PROVE  SyncInv'
<1>0. TypeOK /\ OneRun /\ Numbered /\ NotAhead /\ Marked /\ Knows /\ Seen
  BY DEF SyncInv
<1>a. /\ node \in [Client -> Version] /\ master \in [Client -> Version] /\ Version \subseteq Nat /\ edits \in Nat
      /\ want \in [Runner -> [Client -> Version]] /\ have \in [Runner -> [Client -> Version]]
      /\ flight \subseteq Client \X Version /\ 0 \in Version
  BY <1>0, SyncConstants DEF TypeOK, Version
<1>1. CASE Reach
  <2>1. online' = ~online /\ UNCHANGED <<master, gone, edits, editor, draft, dirty, gen, pc, claimed, want, have, under,
                                         node, flight, busy, raced>>
    BY <1>1 DEF Reach, edit, mark, run, wire
  <2>2. TypeOK' /\ OneRun' /\ Numbered' /\ NotAhead' /\ Knows'
    BY <1>0, <2>1 DEF TypeOK, OneRun, Numbered, NotAhead, Knows, HasRead
  <2>3. Marked' /\ Seen'
    BY <1>0, <2>1 DEF Marked, Seen, HasRead, Owed, Synced, Differs, Absent
  <2> QED BY <2>2, <2>3 DEF SyncInv
<1>2. CASE Arrive
  <2>1. /\ raced' = (raced \/ node' # node)
        /\ UNCHANGED <<master, gone, edits, editor, draft, dirty, gen, pc, claimed, want, have, under, online, busy>>
    BY <1>2 DEF Arrive, edit, mark, run
  <2>2. PICK m \in flight : flight' = flight \ {m} /\ node' \in {node, [node EXCEPT ![m[1]] = m[2]]}
    BY <1>2 DEF Arrive
  <2>3. m[1] \in Client /\ m[2] \in Version
    BY <1>a
  <2>4. node' \in [Client -> Version] /\ \A c \in Client : node'[c] = node[c] \/ (c = m[1] /\ node'[c] = m[2])
    BY <1>a, <2>2, <2>3
  <2>5. TypeOK' /\ OneRun' /\ Knows'
    BY <1>0, <2>1, <2>2, <2>4 DEF TypeOK, OneRun, Knows, HasRead
  <2>6. Numbered'
    BY <1>0, <2>1, <2>2, <2>4 DEF Numbered
  <2>7. NotAhead'
    BY <1>0, <2>1, <2>2, <2>4 DEF NotAhead, HasRead
  <2>8. raced' \/ (raced' = raced /\ node' = node)
    BY <1>0, <2>1, Zenon DEF TypeOK
  <2>9. Marked'
    BY <1>0, <2>1, <2>8 DEF Marked, HasRead, Synced, Differs, Absent
  <2>10. Seen'
    BY <1>0, <2>1, <2>8 DEF Seen, Owed, Differs, Absent
  <2> QED BY <2>5, <2>6, <2>7, <2>9, <2>10 DEF SyncInv
<1>3. ASSUME NEW c \in Client, Drift(c)
      PROVE  SyncInv'
  <2>1. /\ edits < MaxEdits /\ edits' = edits + 1 /\ node' = [node EXCEPT ![c] = 0] /\ raced' = TRUE
        /\ UNCHANGED <<master, gone, editor, draft, dirty, gen, pc, claimed, want, have, under, flight, online, busy>>
    BY <1>3 DEF Drift, mark, run
  <2>2. edits' \in Version /\ node' \in [Client -> Version]
    BY <1>a, <2>1, SyncConstants DEF Version
  <2>3. TypeOK' /\ OneRun' /\ Knows'
    BY <1>0, <2>1, <2>2 DEF TypeOK, OneRun, Knows, HasRead
  <2>4. ASSUME NEW v \in Nat, v <= edits
        PROVE  v <= edits'
    BY <1>a, <2>1, <2>4
  <2>5. \A b \in Client : node'[b] = node[b] \/ node'[b] = 0
    BY <1>a, <2>1
  <2>6. Numbered'
    <3>1. gone \subseteq 1 .. edits'
      BY <1>0, <1>a, <2>1 DEF Numbered
    <3>2. \A b \in Client : master[b] <= edits' /\ node'[b] <= edits'
      <4> TAKE b \in Client
      <4>1. master[b] \in Nat /\ node[b] \in Nat /\ master[b] <= edits /\ node[b] <= edits /\ edits' \in Nat
        <5>1. master[b] \in Nat /\ node[b] \in Nat
          BY <1>a
        <5>2. edits' \in Nat
          BY <1>a, <2>1
        <5>3. master[b] <= edits /\ node[b] <= edits
          BY <1>0 DEF Numbered
        <5> QED BY <5>1, <5>2, <5>3
      <4> QED BY <2>4, <2>5, <4>1
    <3>3. \A m \in flight : m[2] <= edits'
      BY <1>0, <1>a, <2>4 DEF Numbered
    <3>4. \A s \in Runner : \A b \in Client : want[s][b] <= edits' /\ have[s][b] <= edits'
      BY <1>0, <1>a, <2>4 DEF Numbered
    <3> QED BY <1>0, <2>1, <3>1, <3>2, <3>3, <3>4 DEF Numbered
  <2>7. NotAhead'
    <3>1. ASSUME NEW b \in Client
          PROVE  node'[b] <= master[b] /\ \A s \in Runner : HasRead(s) => node'[b] <= want[s][b]
      <4>1. master[b] \in Nat /\ \A s \in Runner : want[s][b] \in Nat
        BY <1>a
      <4>2. node[b] <= master[b] /\ \A s \in Runner : HasRead(s) => node[b] <= want[s][b]
        BY <1>0 DEF NotAhead
      <4> QED BY <2>5, <4>1, <4>2
    <3> QED BY <1>0, <2>1, <3>1 DEF NotAhead, HasRead
  <2>8. Marked'
    BY <1>0, <2>1 DEF Marked, HasRead
  <2>9. Seen'
    BY <1>0, <2>1 DEF Seen, Owed, Differs, Absent
  <2> QED BY <2>3, <2>6, <2>7, <2>8, <2>9 DEF SyncInv
<1> QED
  BY <1>1, <1>2, <1>3

\* The nodes' rows begin unmarked, with a node that has what the master expects.
LEMMA SyncInitial == Init => SyncInv
<1> SUFFICES ASSUME Init
             PROVE  SyncInv
  OBVIOUS
<1>1. 0 \in Version /\ Blank \in [Client -> Version] /\ \A c \in Client : Blank[c] = 0
  BY SyncConstants DEF Version, Blank
<1>2. TypeOK
  BY <1>1 DEF Init, TypeOK
<1>3. OneRun /\ Knows /\ Seen
  BY DEF Init, OneRun, Knows, Seen
<1>4. Numbered /\ NotAhead
  BY <1>1 DEF Init, Numbered, NotAhead, HasRead
<1>5. Marked
  BY DEF Init, Marked, HasRead, Synced, Differs
<1> QED
  BY <1>2, <1>3, <1>4, <1>5 DEF SyncInv

LEMMA SyncInductive == SyncInv /\ [Next]_vars => SyncInv'
<1> SUFFICES ASSUME SyncInv, [Next]_vars
             PROVE  SyncInv'
  OBVIOUS
<1>1. CASE UNCHANGED vars
  <2>1. UNCHANGED <<master, gone, edits, editor, draft, dirty, gen, pc, claimed, want, have, under, node, flight,
                    online, busy, raced>>
    BY <1>1 DEF vars, edit, mark, run, wire
  <2> QED BY <2>1 DEF SyncInv, TypeOK, OneRun, Numbered, NotAhead, Marked, Knows, Seen, HasRead, Owed, Synced, Differs, Absent
<1>2. CASE \E c \in Client : SaveClient(c) \/ Adopt(c)
  BY <1>2, EditKeepsSync
<1>3. CASE Bump \/ MarkAllDirty \/ CommitAdopt
  <2>1. draft \in Client
    BY DEF SyncInv, TypeOK
  <2> QED BY <1>3, <2>1, EditKeepsSync
<1>4. CASE \E r \in Runner : RunStep(r)
  BY <1>4, ReadKeeps, PushKeeps, EndKeeps DEF RunStep
<1>5. CASE Reach \/ Arrive \/ \E c \in Client : Drift(c)
  BY <1>5, WireKeeps
<1> QED
  BY <1>1, <1>2, <1>3, <1>4, <1>5 DEF Next

\* A run never takes a client on the node back to an older edit.
LEMMA PushesForwards ==
  ASSUME SyncInv, Next, edits' = edits, flight' = flight
  PROVE  \A c \in Client : node'[c] >= node[c]
<1>1. edits \in Nat /\ \A c \in Client : node[c] \in Nat
  BY DEF SyncInv, TypeOK, Version
<1>2. ASSUME node' = node
      PROVE  \A c \in Client : node'[c] >= node[c]
  BY <1>1, <1>2
<1>3. CASE \E c \in Client : SaveClient(c) \/ Adopt(c) \/ Drift(c)
  BY <1>1, <1>2, <1>3 DEF SaveClient, Expect, Adopt, Drift, wire
<1>4. CASE Bump \/ MarkAllDirty \/ CommitAdopt \/ Reach
  BY <1>2, <1>4 DEF Bump, MarkAllDirty, CommitAdopt, Reach, wire
<1>5. ASSUME NEW r \in Runner, RunStep(r)
      PROVE  \A c \in Client : node'[c] >= node[c]
  <2>1. CASE Push(r)
    BY <2>1, PushFacts
  <2>2. CASE ~Push(r)
    BY <1>2, <1>5, <2>2 DEF RunStep, Claim, ReadExpected, ReadActual, Abort, CheckGen, Clear, wire
  <2> QED BY <2>1, <2>2
<1>6. CASE Arrive
  BY <1>6 DEF Arrive
<1> QED
  BY <1>3, <1>4, <1>5, <1>6 DEF Next

\* For any clients, runs and edits: a node that is behind is marked whenever no edit and no run is under
\* way, but for the windows the code leaves (the generation read before the mark is cleared, an
\* adoption's bump before its commit, changes on the node itself), and single flight keeps every run
\* from taking a client back (claimReconcile, dirtyUnchangedSince and pushClient of service/nodeSync.go).
THEOREM SyncIsSafe == Spec => SyncSafety
<1>1. SyncInv => TypeOK /\ BehindIsDirtyOrRaced
  BY DEF SyncInv, Marked, BehindIsDirtyOrRaced
<1>2. SyncInv /\ [Next]_vars => [edits' = edits /\ flight' = flight => \A c \in Client : node'[c] >= node[c]]_vars
  BY PushesForwards
<1> QED
  BY <1>1, <1>2, SyncInitial, SyncInductive, PTL DEF Spec, SyncSafety, NeverBackwards

-----------------------------------------------------------------------------
(* One IP limit over all panels.                                            *)

\* A holder is not banned, a count that is shown and was not enforced everywhere is about to
\* be withdrawn, and a request the master gave up on is one of its own.
ClusterInv ==
  /\ ClusterTypeOK /\ failed \in BOOLEAN /\ whole \in BOOLEAN
  /\ away \in [ClusterAddr -> Nat] /\ late \subseteq Node \X SUBSET ClusterAddr
  /\ \A a \in ClusterAddr : place[a] > 0 => left[a] = 0
  /\ shown > 0 /\ ~ whole => job = "post" /\ failed

Places ==
  /\ place \in [ClusterAddr -> Nat]
  /\ \A a, b \in ClusterAddr : place[a] = place[b] /\ place[a] > 0 => a = b

\* Of any two addresses one is senior.
LEMMA SeniorOrder ==
  ASSUME Places
  PROVE  /\ \A a \in ClusterAddr : ~ Senior(a, a)
         /\ \A a, b, c \in ClusterAddr : Senior(a, b) /\ Senior(b, c) => Senior(a, c)
         /\ \A a, b \in ClusterAddr : a # b => Senior(a, b) \/ Senior(b, a)
<1>1. ClusterAddr \subseteq Nat
  BY ClusterConstants
<1>2. \A a \in ClusterAddr : place[a] \in Nat /\ a \in Nat
  BY <1>1 DEF Places
<1>3. \A a \in ClusterAddr : ~ Senior(a, a)
  BY <1>2 DEF Senior
<1>4. ASSUME NEW a \in ClusterAddr, NEW b \in ClusterAddr, NEW c \in ClusterAddr, Senior(a, b), Senior(b, c)
      PROVE  Senior(a, c)
  BY <1>2, <1>4 DEF Senior
<1>5. ASSUME NEW a \in ClusterAddr, NEW b \in ClusterAddr, a # b
      PROVE  Senior(a, b) \/ Senior(b, a)
  BY <1>2, <1>5 DEF Senior, Places
<1> QED
  BY <1>3, <1>4, <1>5

\* The members of a set of addresses have as many ranks as there are members, by seniority, and
\* the first n of them are n, or all.
LEMMA Ranking ==
  ASSUME Places, NEW C \in SUBSET ClusterAddr, NEW n \in Nat
  PROVE  /\ \A a \in C : Cardinality(Seniors(a, C)) \in 0 .. Cardinality(C) - 1
         /\ \A a, b \in C : Senior(a, b) => Cardinality(Seniors(a, C)) < Cardinality(Seniors(b, C))
         /\ \A a, b \in C : a # b => Cardinality(Seniors(a, C)) # Cardinality(Seniors(b, C))
         /\ Cardinality({a \in C : Cardinality(Seniors(a, C)) < n}) =
              IF Cardinality(C) < n THEN Cardinality(C) ELSE n
<1>1. IsFiniteSet(C) /\ Cardinality(C) \in Nat
  BY ClusterConstants, FS_Subset, FS_CardinalityType
<1>2. \A a \in C : Seniors(a, C) \in SUBSET C /\ a \notin Seniors(a, C)
  BY SeniorOrder DEF Seniors
<1> DEFINE rank(a) == Cardinality(Seniors(a, C))
<1>3. ASSUME NEW a \in C PROVE IsFiniteSet(Seniors(a, C)) /\ rank(a) \in 0 .. Cardinality(C) - 1
  <2>1. IsFiniteSet(Seniors(a, C)) /\ rank(a) <= Cardinality(C) /\ (Cardinality(C) = rank(a) => C = Seniors(a, C))
    BY <1>1, <1>2, FS_Subset
  <2>2. rank(a) \in Nat
    BY <2>1, FS_CardinalityType
  <2>3. C # Seniors(a, C)
    BY <1>2
  <2> QED
    BY <1>1, <2>1, <2>2, <2>3
<1>4. ASSUME NEW a \in C, NEW b \in C, Senior(a, b) PROVE rank(a) < rank(b)
  <2>1. Seniors(a, C) \in SUBSET Seniors(b, C) /\ a \in Seniors(b, C) /\ a \notin Seniors(a, C)
    BY <1>2, <1>4, SeniorOrder DEF Seniors
  <2>2. rank(a) <= rank(b) /\ (rank(b) = rank(a) => Seniors(b, C) = Seniors(a, C))
    BY <1>3, <2>1, FS_Subset
  <2>3. rank(a) \in Nat /\ rank(b) \in Nat
    BY <1>1, <1>3
  <2> QED
    BY <2>1, <2>2, <2>3
<1>5. ASSUME NEW a \in C, NEW b \in C, a # b PROVE rank(a) # rank(b)
  <2>1. Senior(a, b) \/ Senior(b, a)
    BY <1>5, SeniorOrder
  <2>2. rank(a) \in Nat /\ rank(b) \in Nat
    BY <1>1, <1>3
  <2> QED
    BY <1>4, <2>1, <2>2
<1> HIDE DEF rank
<1> DEFINE N == Cardinality(C)
           m == IF N < n THEN N ELSE n
           first == {a \in C : rank(a) < n}
           f == [a \in C |-> rank(a)]
           g == [a \in first |-> rank(a)]
<1>6. IsFiniteSet(0 .. N - 1) /\ Cardinality(0 .. N - 1) = N
  BY <1>1, FS_Interval
<1>7. f \in Injection(C, 0 .. N - 1)
  BY <1>3, <1>5 DEF Injection, IsInjective
<1>8. f \in Surjection(C, 0 .. N - 1)
  <2> HIDE DEF f, N
  <2> QED
    BY <1>6, <1>7, FS_Injection DEF N
<1>9. \A k \in 0 .. N - 1 : \E a \in C : rank(a) = k
  BY <1>8 DEF Surjection
<1>10. m \in Nat /\ m <= N /\ m <= n /\ (m = N \/ m = n)
  BY <1>1
<1>11. \A a \in first : rank(a) \in 0 .. m - 1
  BY <1>1, <1>3
<1>12. \A k \in 0 .. m - 1 : \E a \in first : rank(a) = k
  BY <1>1, <1>9
<1>13. g \in Injection(first, 0 .. m - 1) /\ g \in Surjection(first, 0 .. m - 1)
  <2>1. \A a, b \in first : a # b => rank(a) # rank(b)
    BY <1>5
  <2> HIDE DEF first, m
  <2>2. g \in [first -> 0 .. m - 1]
    BY <1>11
  <2>3. IsInjective(g)
    BY <2>1 DEF IsInjective
  <2>4. \A k \in 0 .. m - 1 : \E a \in first : g[a] = k
    BY <1>12
  <2> QED
    BY <2>2, <2>3, <2>4 DEF Injection, Surjection
<1>14. Cardinality(first) = m
  <2> HIDE DEF g, first, m
  <2>1. IsFiniteSet(0 .. m - 1) /\ Cardinality(0 .. m - 1) = m
    BY <1>10, FS_Interval
  <2>2. Cardinality(first) = Cardinality(0 .. m - 1)
    BY <1>13, <2>1, FS_Injection
  <2> QED
    BY <2>1, <2>2
<1> QED
  BY <1>3, <1>4, <1>5, <1>14 DEF rank

\* The bans a plan starts from and those it keeps: no slot is empty, and none is given twice.
LEMMA KeptFacts ==
  ASSUME Places, seen \subseteq ClusterAddr, NEW kept, kept = Kept(seen)
  PROVE  /\ kept \subseteq seen \ StandingBans(seen)
         /\ Cardinality(kept) = IF Cardinality(seen) < ClusterLimit THEN Cardinality(seen) ELSE ClusterLimit
         /\ \A a \in (seen \ StandingBans(seen)) \ kept : \A b \in kept : Senior(b, a)
<1>1. PICK old : old = StandingBans(seen)
  OBVIOUS
<1>2. PICK free : free = seen \ old
  OBVIOUS
<1>3. kept = {a \in free : Cardinality(Seniors(a, free)) < ClusterLimit}
  BY <1>1, <1>2 DEF Kept
<1>4. free \in SUBSET ClusterAddr /\ ClusterLimit \in Nat
  BY <1>2, ClusterConstants
<1>5. /\ \A a \in free : Cardinality(Seniors(a, free)) \in 0 .. Cardinality(free) - 1
      /\ \A a, b \in free : Senior(a, b) => Cardinality(Seniors(a, free)) < Cardinality(Seniors(b, free))
      /\ Cardinality({a \in free : Cardinality(Seniors(a, free)) < ClusterLimit}) =
           IF Cardinality(free) < ClusterLimit THEN Cardinality(free) ELSE ClusterLimit
  BY <1>4, Ranking
<1>6. /\ IsFiniteSet(seen) /\ Cardinality(seen) \in Nat /\ Cardinality(free) \in Nat
      /\ Cardinality(free) <= Cardinality(seen)
  <2>1. IsFiniteSet(seen) /\ free \in SUBSET seen
    BY <1>2, ClusterConstants, FS_Subset
  <2>2. IsFiniteSet(free) /\ Cardinality(free) <= Cardinality(seen)
    BY <2>1, FS_Subset
  <2> QED
    BY <2>1, <2>2, FS_CardinalityType
<1>7. old = {} \/ ~ (Cardinality(free) < ClusterLimit)
  BY <1>1, <1>2 DEF StandingBans
<1>8. Cardinality(kept) = IF Cardinality(seen) < ClusterLimit THEN Cardinality(seen) ELSE ClusterLimit
  <2>1. CASE old = {}
    <3>1. free = seen
      BY <1>2, <2>1
    <3> QED
      BY <1>3, <1>5, <3>1
  <2>2. CASE ~ (Cardinality(free) < ClusterLimit)
    BY <1>3, <1>4, <1>5, <1>6, <2>2
  <2> QED
    BY <1>7, <2>1, <2>2
<1>9. ASSUME NEW a \in free \ kept, NEW b \in kept PROVE Senior(b, a)
  <2>1. b \in free /\ a # b
    BY <1>3
  <2>2. Senior(a, b) \/ Senior(b, a)
    BY <1>4, <2>1, SeniorOrder
  <2>3. /\ Cardinality(Seniors(b, free)) < ClusterLimit /\ ~ (Cardinality(Seniors(a, free)) < ClusterLimit)
        /\ Cardinality(Seniors(a, free)) \in Int /\ Cardinality(Seniors(b, free)) \in Int
    BY <1>3, <1>5, <1>6, <2>1
  <2>4. ~ Senior(a, b)
    BY <1>4, <1>5, <2>1, <2>3
  <2> QED
    BY <2>2, <2>4
<1> QED
  BY <1>1, <1>2, <1>3, <1>8, <1>9

\* Bans over the cap are dropped, no other changes.
LEMMA CappedFacts ==
  ASSUME NEW t \in [ClusterAddr -> 0 .. ClusterTTL]
  PROVE  Capped(t) \in [ClusterAddr -> 0 .. ClusterTTL] /\ \A a \in ClusterAddr : t[a] = 0 => Capped(t)[a] = 0
<1>1. ClusterTTL \in Nat
  BY ClusterConstants
<1> DEFINE bans == {a \in ClusterAddr : t[a] > 0}
           excess == IF Cardinality(bans) > ClusterBanMax THEN Cardinality(bans) - ClusterBanMax ELSE 0
           earlier(a) == {b \in bans : t[b] < t[a] \/ (t[b] = t[a] /\ b < a)}
<1>2. Capped(t) = [a \in ClusterAddr |-> IF a \in bans /\ Cardinality(earlier(a)) < excess THEN 0 ELSE t[a]]
  BY DEF Capped
<1> HIDE DEF excess, earlier, bans
<1> QED
  BY <1>1, <1>2

-----------------------------------------------------------------------------
(* The steps of the round and of the panels. *)

\* The plan as a whole.
PlannedStep ==
  /\ Cardinality({a \in seen : place'[a] > 0}) =
       (IF Cardinality(seen) < ClusterLimit THEN Cardinality(seen) ELSE ClusterLimit)
  /\ \A a, b \in seen : place[a] > 0 /\ place'[a] = 0 /\ place'[b] > 0 => place[b] \in 1 .. place[a] - 1

\* A plan keeps the invariant, fills the slots and gives them by seniority.
LEMMA PlanKeepsCluster ==
  ASSUME ClusterInv, PlanCluster
  PROVE  ClusterInv' /\ PlannedStep
<1>1. /\ live \in [Panel -> SUBSET ClusterAddr] /\ denied \in [Panel -> SUBSET ClusterAddr]
      /\ leased \in [Panel -> 0 .. ClusterLease] /\ left \in [ClusterAddr -> 0 .. ClusterTTL]
      /\ seen \subseteq ClusterAddr /\ failed \in BOOLEAN /\ away \in [ClusterAddr -> Nat]
      /\ late \subseteq Node \X SUBSET ClusterAddr
      /\ \A a \in ClusterAddr : place[a] > 0 => left[a] = 0
      /\ Master \in Panel /\ ClusterLease \in Nat \ {0} /\ ClusterTTL \in Nat
  BY ClusterConstants DEF ClusterInv, ClusterTypeOK, Panel
<1>2. IsFiniteSet(ClusterAddr) /\ Cardinality(ClusterAddr) \in Nat
  BY ClusterConstants, FS_CardinalityType
<1>3. Places
  BY <1>2 DEF ClusterInv, ClusterTypeOK, Places
<1>4. PICK kept : kept = Kept(seen)
  OBVIOUS
<1>5. PICK old : old = StandingBans(seen)
  OBVIOUS
<1>6. PICK held : held = kept \cup Remembered(seen)
  OBVIOUS
<1>7. PICK t0 : t0 = [a \in ClusterAddr |->
                   IF a \in old THEN left[a] ELSE IF a \in seen \ kept THEN ClusterTTL ELSE 0]
  OBVIOUS
<1>8. PICK t : t = Capped(t0)
  OBVIOUS
<1>9. /\ left' = t
      /\ place' = [a \in ClusterAddr |-> IF a \in held THEN Cardinality(Seniors(a, held)) + 1 ELSE 0]
      /\ away' = [a \in ClusterAddr |-> IF a \in held \ seen THEN away[a] ELSE 0]
      /\ Apply(Master, {a \in ClusterAddr : t[a] > 0})
      /\ shown' = ClusterLease /\ whole' = TRUE /\ job' = "post" /\ asked' = Node /\ seen' = {}
      /\ UNCHANGED <<failed, late>>
  BY <1>4, <1>5, <1>6, <1>7, <1>8 DEF PlanCluster
<1>10. /\ kept \subseteq seen \ old
       /\ Cardinality(kept) = IF Cardinality(seen) < ClusterLimit THEN Cardinality(seen) ELSE ClusterLimit
       /\ \A a \in (seen \ old) \ kept : \A b \in kept : Senior(b, a)
  BY <1>1, <1>3, <1>4, <1>5, KeptFacts
<1>11. old \subseteq {a \in ClusterAddr : left[a] > 0}
  BY <1>5 DEF StandingBans
<1>12. held \in SUBSET ClusterAddr /\ \A a \in held : a \notin old /\ a \notin seen \ kept
  <2>1. \A a \in Remembered(seen) : a \in ClusterAddr /\ a \notin seen /\ place[a] > 0
    BY DEF Remembered
  <2>2. \A a \in Remembered(seen) : a \notin old
    BY <1>1, <1>11, <2>1
  <2> QED
    BY <1>1, <1>6, <1>10, <2>1, <2>2
<1>13. held \cap seen = kept
  BY <1>6, <1>10 DEF Remembered
<1>14. /\ \A a \in held : Cardinality(Seniors(a, held)) \in 0 .. Cardinality(held) - 1
       /\ \A a, b \in held : a # b => Cardinality(Seniors(a, held)) # Cardinality(Seniors(b, held))
  <2>1. 0 \in Nat
    OBVIOUS
  <2> QED
    BY <1>3, <1>12, <2>1, Ranking
<1>15. Cardinality(held) \in Nat /\ Cardinality(held) <= Cardinality(ClusterAddr)
  BY <1>2, <1>12, FS_Subset, FS_CardinalityType
<1>16. /\ place' \in [ClusterAddr -> 0 .. Cardinality(ClusterAddr)]
       /\ \A a \in ClusterAddr : place'[a] > 0 <=> a \in held
       /\ \A a, b \in ClusterAddr : place'[a] = place'[b] /\ place'[a] > 0 => a = b
  <2>1. \A a \in held : Cardinality(Seniors(a, held)) \in Nat
                        /\ Cardinality(Seniors(a, held)) + 1 \in 0 .. Cardinality(ClusterAddr)
    BY <1>2, <1>14, <1>15
  <2>2. place' \in [ClusterAddr -> 0 .. Cardinality(ClusterAddr)]
    BY <1>2, <1>9, <2>1
  <2>3. \A a \in ClusterAddr : place'[a] > 0 <=> a \in held
    BY <1>9, <2>1
  <2> QED
    BY <1>9, <1>12, <1>14, <2>1, <2>2, <2>3
<1>17. t0 \in [ClusterAddr -> 0 .. ClusterTTL] /\ \A a \in held : t0[a] = 0
  BY <1>1, <1>7, <1>12
<1>18. t \in [ClusterAddr -> 0 .. ClusterTTL] /\ \A a \in held : t[a] = 0
  BY <1>8, <1>12, <1>17, CappedFacts
<1>19. /\ denied' \in [Panel -> SUBSET ClusterAddr] /\ leased' \in [Panel -> 0 .. ClusterLease]
       /\ live' \in [Panel -> SUBSET ClusterAddr]
  <2>1. PICK bans \in SUBSET ClusterAddr : bans = {a \in ClusterAddr : t[a] > 0}
    OBVIOUS
  <2>2. Apply(Master, bans)
    BY <1>9, <2>1
  <2> QED
    BY <1>1, <2>2 DEF Apply
<1>20. away' \in [ClusterAddr -> Nat]
  BY <1>1, <1>9
<1>21. ClusterTypeOK'
  BY <1>1, <1>9, <1>16, <1>18, <1>19 DEF ClusterTypeOK
<1>22. ClusterInv'
  BY <1>1, <1>9, <1>16, <1>18, <1>20, <1>21 DEF ClusterInv
<1>23. {a \in seen : place'[a] > 0} = kept
  BY <1>1, <1>13, <1>16
<1>24. ASSUME NEW a \in seen, NEW b \in seen, place[a] > 0, place'[a] = 0, place'[b] > 0
       PROVE  place[b] \in 1 .. place[a] - 1
  <2>1. b \in kept /\ a \notin held /\ a \notin kept
    BY <1>1, <1>13, <1>16, <1>24
  <2>2. a \notin old
    BY <1>1, <1>11, <1>24
  <2>3. Senior(b, a)
    BY <1>10, <2>1, <2>2
  <2>4. place[a] \in Nat /\ place[b] \in Nat
    BY <1>1, <1>3 DEF Places
  <2> QED
    BY <1>24, <2>3, <2>4 DEF Senior
<1>25. PlannedStep
  BY <1>10, <1>23, <1>24 DEF PlannedStep
<1> QED
  BY <1>22, <1>25

\* What an application of bans leaves.
LEMMA AppliedTypes ==
  ASSUME ClusterInv, NEW p \in Panel, NEW bans \in SUBSET ClusterAddr, Apply(p, bans)
  PROVE  /\ denied' \in [Panel -> SUBSET ClusterAddr] /\ leased' \in [Panel -> 0 .. ClusterLease]
         /\ live' \in [Panel -> SUBSET ClusterAddr]
<1>1. /\ live \in [Panel -> SUBSET ClusterAddr] /\ denied \in [Panel -> SUBSET ClusterAddr]
      /\ leased \in [Panel -> 0 .. ClusterLease] /\ ClusterLease \in Nat
  BY ClusterConstants DEF ClusterInv, ClusterTypeOK
<1> QED
  BY <1>1 DEF Apply

\* A run that ends, with counts that may be shown or with none.
LEMMA RunEnds ==
  ASSUME ClusterInv, EndJob, shown' \in 0 .. ClusterLease, shown' > 0 => whole,
         UNCHANGED <<live, denied, leased, place, away, left, late, whole>>
  PROVE  ClusterInv' /\ ~ (job = "ask" /\ job' = "post")
<1>1. job' = "idle" /\ asked' = {} /\ seen' = {}
  BY DEF EndJob
<1>2. failed' \in BOOLEAN
  BY DEF EndJob
<1>3. ClusterTypeOK'
  BY <1>1 DEF ClusterInv, ClusterTypeOK
<1>4. shown' > 0 /\ ~ whole' => job' = "post" /\ failed'
  OBVIOUS
<1> QED
  BY <1>1, <1>2, <1>3, <1>4 DEF ClusterInv

\* Every other step.
LEMMA OthersKeepCluster ==
  ASSUME ClusterInv, [ClusterNext]_cluVars, ~ PlanCluster
  PROVE  ClusterInv' /\ ~ (job = "ask" /\ job' = "post")
<1> USE DEF cluMaster, cluJob
<1>0. /\ ClusterTypeOK /\ failed \in BOOLEAN /\ whole \in BOOLEAN
      /\ away \in [ClusterAddr -> Nat] /\ late \subseteq Node \X SUBSET ClusterAddr
      /\ \A a \in ClusterAddr : place[a] > 0 => left[a] = 0
      /\ shown > 0 /\ ~ whole => job = "post" /\ failed
  BY DEF ClusterInv
<1>00. /\ ClusterLease \in Nat /\ ClusterTTL \in Nat /\ Node \subseteq Panel /\ Master \in Panel
  BY ClusterConstants DEF Panel
<1>1. CASE UNCHANGED cluVars
  BY <1>0, <1>1 DEF ClusterInv, ClusterTypeOK, cluVars
<1>2. ASSUME NEW p \in Panel, NEW a \in ClusterAddr, Connect(p, a) \/ Leave(p, a)
      PROVE  ClusterInv' /\ ~ (job = "ask" /\ job' = "post")
  <2>1. live' \in [Panel -> SUBSET ClusterAddr] /\ UNCHANGED <<denied, leased, cluMaster, cluJob, late, whole>>
    BY <1>0, <1>2 DEF Connect, Leave, ClusterTypeOK
  <2> QED
    BY <1>0, <2>1 DEF ClusterInv, ClusterTypeOK
<1>3. ASSUME NEW n \in Node, Ask(n) PROVE ClusterInv' /\ ~ (job = "ask" /\ job' = "post")
  <2>1. seen' \subseteq ClusterAddr /\ asked' \subseteq Node /\ job' = job
        /\ UNCHANGED <<live, denied, leased, cluMaster, failed, late, whole>>
    BY <1>0, <1>00, <1>3 DEF Ask, ClusterTypeOK
  <2> QED
    BY <1>0, <1>3, <2>1 DEF ClusterInv, ClusterTypeOK
<1>4. ASSUME NEW n \in Node, Post(n) PROVE ClusterInv' /\ ~ (job = "ask" /\ job' = "post")
  <2>1. denied[Master] \in SUBSET ClusterAddr
    BY <1>0, <1>00 DEF ClusterTypeOK
  <2>2. /\ denied' \in [Panel -> SUBSET ClusterAddr] /\ leased' \in [Panel -> 0 .. ClusterLease]
        /\ live' \in [Panel -> SUBSET ClusterAddr]
    BY <1>00, <1>4, <2>1, AppliedTypes DEF Post
  <2> QED
    BY <1>0, <1>4, <2>2 DEF Post, ClusterInv, ClusterTypeOK
<1>5. ASSUME NEW n \in Node, PostFails(n) PROVE ClusterInv' /\ ~ (job = "ask" /\ job' = "post")
  <2>1. late' \subseteq Node \X SUBSET ClusterAddr
    <3>1. denied[Master] \in SUBSET ClusterAddr
      BY <1>0, <1>00 DEF ClusterTypeOK
    <3> QED
      BY <1>0, <1>5, <3>1 DEF PostFails
  <2> QED
    BY <1>0, <1>5, <2>1 DEF PostFails, ClusterInv, ClusterTypeOK
<1>6. CASE ClusterTick
  <2>1. /\ leased' \in [Panel -> 0 .. ClusterLease] /\ left' \in [ClusterAddr -> 0 .. ClusterTTL]
        /\ shown' \in 0 .. ClusterLease /\ (shown' > 0 => shown > 0)
        /\ \A a \in ClusterAddr : left[a] = 0 => left'[a] = 0
    BY <1>0, <1>00, <1>6 DEF ClusterTick, Down, ClusterTypeOK
  <2>2. away' \in [ClusterAddr -> Nat] /\ denied' \in [Panel -> SUBSET ClusterAddr]
    BY <1>0, <1>6 DEF ClusterTick, ClusterTypeOK
  <2> QED
    BY <1>0, <1>6, <2>1, <2>2 DEF ClusterTick, ClusterInv, ClusterTypeOK
<1>7. CASE BeginCluster
  <2>1. live[Master] \subseteq ClusterAddr
    BY <1>0, <1>00 DEF ClusterTypeOK
  <2>2. CASE job' = "ask" /\ asked' = Node /\ seen' = live[Master] /\ failed' = FALSE /\ shown' = shown
    <3>1. failed' \in BOOLEAN
      BY <2>2
    <3>2. job = "idle" /\ UNCHANGED <<live, denied, leased, place, away, left, late, whole>>
      BY <1>7 DEF BeginCluster
    <3>3. ClusterTypeOK'
      BY <1>0, <2>1, <2>2, <3>2 DEF ClusterTypeOK
    <3>4. shown' > 0 => whole
      BY <1>0, <2>2, <3>2
    <3>5. shown' > 0 /\ ~ whole' => job' = "post" /\ failed'
      BY <3>2, <3>4
    <3> QED
      BY <1>0, <2>2, <3>1, <3>2, <3>3, <3>5 DEF ClusterInv
  <2>3. CASE shown' = 0 /\ EndJob
    BY <1>7, <1>00, <2>3, RunEnds DEF BeginCluster
  <2> QED
    BY <1>7, <2>2, <2>3 DEF BeginCluster
<1>8. CASE AskFails
  BY <1>8, <1>00, RunEnds DEF AskFails
<1>9. CASE EndCluster
  <2>1. CASE failed
    BY <1>9, <1>00, <2>1, RunEnds DEF EndCluster
  <2>2. CASE ~ failed
    <3>1. shown' = shown
      BY <1>9, <2>2 DEF EndCluster
    <3>2. shown' \in 0 .. ClusterLease
      BY <1>0, <3>1 DEF ClusterTypeOK
    <3>3. shown' > 0 => whole
      BY <1>0, <2>2, <3>1
    <3> QED
      BY <1>9, <3>2, <3>3, RunEnds DEF EndCluster
  <2> QED
    BY <2>1, <2>2
<1>10. CASE Arrives
  <2>1. PICK m \in late : Apply(m[1], m[2])
    BY <1>10 DEF Arrives
  <2>2. m[1] \in Panel /\ m[2] \in SUBSET ClusterAddr
    BY <1>0, <1>00
  <2>3. /\ denied' \in [Panel -> SUBSET ClusterAddr] /\ leased' \in [Panel -> 0 .. ClusterLease]
        /\ live' \in [Panel -> SUBSET ClusterAddr]
    BY <2>1, <2>2, AppliedTypes
  <2> QED
    BY <1>0, <1>10, <2>3 DEF Arrives, ClusterInv, ClusterTypeOK
<1> QED
  BY <1>1, <1>2, <1>3, <1>4, <1>5, <1>6, <1>7, <1>8, <1>9, <1>10 DEF ClusterNext

\* The invariant holds when the master starts.
LEMMA ClusterInitial == ClusterInit => ClusterInv
<1> SUFFICES ASSUME ClusterInit PROVE ClusterInv
  OBVIOUS
<1>1. Cardinality(ClusterAddr) \in Nat /\ ClusterLease \in Nat /\ ClusterTTL \in Nat
  BY ClusterConstants, FS_CardinalityType
<1>2. /\ live \in [Panel -> SUBSET ClusterAddr] /\ denied \in [Panel -> SUBSET ClusterAddr]
      /\ leased \in [Panel -> 0 .. ClusterLease]
  BY <1>1 DEF ClusterInit
<1>3. /\ place \in [ClusterAddr -> 0 .. Cardinality(ClusterAddr)] /\ \A a \in ClusterAddr : place[a] = 0
      /\ left \in [ClusterAddr -> 0 .. ClusterTTL]
  BY <1>1 DEF ClusterInit
<1>4. away \in [ClusterAddr -> Nat] /\ late \subseteq Node \X SUBSET ClusterAddr
  BY DEF ClusterInit
<1>5. failed \in BOOLEAN /\ whole \in BOOLEAN
  BY DEF ClusterInit
<1>6. shown = 0 /\ job = "idle" /\ asked = {} /\ seen = {}
  BY DEF ClusterInit
<1>7. ClusterTypeOK
  BY <1>1, <1>2, <1>3, <1>6 DEF ClusterTypeOK
<1> QED
  BY <1>3, <1>4, <1>5, <1>6, <1>7 DEF ClusterInv

\* For every number of nodes and addresses and every limit: a plan (planClusterIPLimits) fills
\* the slots and gives away no more than there are, takes one only for an address that has held
\* one longer, and EnforceClusterIPLimits leaves no count to be shown that was not enforced on
\* every panel, whatever was asked in vain, posted in vain or handled late.
THEOREM ClusterIsSafe == ClusterSpec => ClusterSafety
<1>1. ClusterInv /\ [ClusterNext]_cluVars => ClusterInv' /\ (job = "ask" /\ job' = "post" => PlannedStep)
  BY PlanKeepsCluster, OthersKeepCluster
<1>2. ClusterSpec => []ClusterInv
  BY <1>1, ClusterInitial, PTL DEF ClusterSpec
<1>3. ClusterInv => ClusterTypeOK /\ ShownIsWhole
  BY DEF ClusterInv, ShownIsWhole
<1> DEFINE Slots ==
             job = "ask" /\ job' = "post" =>
               Cardinality({a \in seen : place'[a] > 0}) =
                 IF Cardinality(seen) < ClusterLimit THEN Cardinality(seen) ELSE ClusterLimit
           Order ==
             job = "ask" /\ job' = "post" =>
               \A a, b \in seen : place[a] > 0 /\ place'[a] = 0 /\ place'[b] > 0 => place[b] \in 1 .. place[a] - 1
<1>4. ClusterInv /\ [ClusterNext]_cluVars => [Slots]_cluVars /\ [Order]_cluVars
  BY <1>1 DEF PlannedStep
<1>5. ClusterSpec => [](ClusterTypeOK /\ ShownIsWhole)
  BY <1>2, <1>3, PTL
<1>6. ClusterSpec => [][Slots]_cluVars /\ [][Order]_cluVars
  <2> HIDE DEF Slots, Order
  <2> QED
    BY <1>2, <1>4, PTL DEF ClusterSpec
<1> QED
  BY <1>5, <1>6, PTL DEF ClusterSafety, SlotsFilled, ClusterSeniority
=============================================================================
