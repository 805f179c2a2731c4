---------------------------- MODULE ManagerProofs ----------------------------
(***************************************************************************)
(* Proofs about the managers of the running box (ObjectManagers) and about *)
(* the links and detours that follow the rows (ObjectGraph).               *)
(*                                                                         *)
(* For the managers the inductive invariant says, beside the types: the    *)
(* rows are well formed; every list holds components of its kind, one per  *)
(* tag, each with a recipe or the fallback; which components have a scope  *)
(* entry and a cleanup at every step of a start and of a save; what a save *)
(* under way may rely on; what the running components resolved; how the    *)
(* tables and the rows agree; and where the default is.  For the links it  *)
(* says, beside the properties: no two inbounds share a tag, nobody is on  *)
(* an id not handed out yet, and the replicas a pass of refreshNodeLinks   *)
(* has read are replicas of the same tag wherever they are still there.    *)
(***************************************************************************)
EXTENDS ObjectManagers, ObjectGraph, FiniteSetTheorems, WellFoundedInduction, TLAPS

SaveStep == {"entry", "run", "started", "failed", "undo", "table", "removeOld"}
StartOp == [pc : {"initialize", "startOne"}, started : SUBSET ObjId]
SaveOp == [do : {"new", "edit", "del"}, kind : ObjKind, row : ObjSpec, spec : ObjSpec, pc : SaveStep,
           old : ObjId \cup {0}, new : ObjId \cup {0}, why : {"put", "restore", "standIn"}]

AnyTag == {s.tag : s \in ObjSpec \cup {Direct}}
Ids(k) == ToSet(mList[k])
DialerIds == Ids("out") \cup Ids("end")
Saving == mOp \in SaveOp
Opened == mBox = "running" \/ (mBox = "starting" /\ mOp.pc = "startOne")

Types ==
  /\ mRows \in [ObjKind -> Seq(ObjSpec)]
  /\ mObj \in [ObjId -> ObjSpec \cup {Direct}]
  /\ mList \in [ObjKind -> Seq(ObjId)]
  /\ mRecipe \in [ObjKind -> SUBSET AnyTag]
  /\ mOpen \subseteq ObjId /\ mHeld \subseteq ObjId /\ mOver \subseteq ObjId
  /\ mRes \in [ObjId -> SUBSET ObjId]
  /\ mDefault \in ObjId \cup {0}
  /\ mBox \in {"new", "starting", "running", "closed"}
  /\ mPending \in BOOLEAN /\ mLost \in BOOLEAN /\ mMoved \in BOOLEAN /\ mStale \in BOOLEAN

\* The rows: each in its table, the tags unique as tagFreeAcross keeps them.
RowsOK ==
  /\ \A k \in ObjKind : \A n \in DOMAIN mRows[k] : mRows[k][n].kind = k
  /\ \A k, j \in ObjKind : \A n \in DOMAIN mRows[k], m \in DOMAIN mRows[j] :
       (mRows[k][n].tag = mRows[j][m].tag /\ j \in Shares(k)) => (k = j /\ n = m)
  /\ RowCount(mRows) <= MaxObj

\* The lists: each of its kind, a tag once, a recipe for all but the fallback.
ListsOK ==
  \A k \in ObjKind :
    /\ \A i \in Ids(k) : mObj[i].kind = k
    /\ \A n, m \in DOMAIN mList[k] : mObj[mList[k][n]].tag = mObj[mList[k][m]].tag => n = m
    /\ mRecipe[k] \subseteq {TagOf(i) : i \in Ids(k)}
    /\ \A i \in Ids(k) : TagOf(i) \in mRecipe[k] \/ mObj[i] = Direct

\* What is under way in each state of the box.
PhaseOK ==
  /\ mBox = "new" => mOp = NoOp
  /\ mBox = "starting" => mOp \in StartOp
  /\ mBox \in {"running", "closed"} => mOp = NoOp \/ Saving
  /\ mBox \in {"new", "starting"} => mLost = FALSE /\ mPending = FALSE /\ mOver = {}

\* The scope entries and the cleanups.
Gone == IF Saving /\ mOp.pc # "removeOld" /\ mOp.why # "standIn" THEN {mOp.old} ELSE {}
Entered == IF Saving /\ mOp.pc \in {"run", "started", "failed", "table"} THEN {mOp.new} ELSE {}
Unheld == IF Saving /\ mOp.pc \in {"run", "failed"} THEN {mOp.new} ELSE {}
Late == IF Saving /\ mOp.pc \in {"started", "failed"} THEN {mOp.new} ELSE {}
ScopesOK ==
  /\ mBox = "new" => mOpen = {} /\ mHeld = {} /\ \A k \in ObjKind : mList[k] = <<>>
  /\ mBox = "starting" /\ mOp.pc = "initialize" => mOpen = {} /\ mHeld = {}
  /\ mBox = "starting" /\ mOp.pc = "startOne" => mOpen = InTable /\ mHeld = mOp.started /\ mHeld \subseteq mOpen
  /\ mBox = "running" => mOpen = (InTable \ Gone) \cup Entered /\ mHeld \subseteq mOpen /\ mOpen \ mHeld \subseteq Unheld
  /\ mBox = "closed" => mOpen = {} /\ mHeld \subseteq Late

\* A save under way: the row it is about, and the tag that is free for it.
OpRow(op) ==
  /\ op.spec.kind = op.kind /\ op.row.kind = op.kind
  /\ op.do = "new" => op.row = op.spec /\ op.spec \notin RowsOf(op.kind) /\ RowCount(mRows) < MaxObj
  /\ op.do # "new" => op.row \in RowsOf(op.kind)
  /\ op.do # "del" => tagFreeAcross(op.kind, op.spec.tag, op.row)
\* What a component is built for: to be put in, brought back, or to stand in for
\* the last outbound.
WhyOK(op, built, old, why) ==
  /\ old = 0 \/ old \in Ids(op.kind)
  /\ why = "standIn" <=> op.do = "del"
  /\ why = "put" => built = op.spec
  /\ why = "restore" => old # 0 /\ built = mObj[old] /\ TagOf(old) \in mRecipe[op.kind]
  /\ why = "standIn" => /\ built = Direct /\ op.kind = "out" /\ mFinal = ""
                        /\ old # 0 /\ mList["out"] = <<old>> /\ TagOf(old) = op.row.tag
\* The component it replaces: it has the tag, or the one that is given up, and
\* nothing depends on it.
OldOK(op, old, why) ==
  /\ old = 0 => Holding(op.kind, op.spec.tag) = {} /\ (op.kind # "out" /\ op.do = "edit" => Holding(op.kind, op.row.tag) = {})
  /\ old # 0 /\ why # "standIn" =>
       \/ TagOf(old) = op.spec.tag
       \/ /\ op.kind # "out" /\ op.do = "edit" /\ TagOf(old) = op.row.tag /\ Holding(op.kind, op.spec.tag) = {}
          /\ op.kind = "end" => TagOf(old) # mFinal
  /\ old # 0 /\ op.kind # "in" => dependents(TagOf(old)) = {}
OpNew(op) ==
  /\ op.new \in ObjId /\ op.new \notin InTable /\ op.new # op.old
  /\ WhyOK(op, mObj[op.new], op.old, op.why)
OpOld(op) == OldOK(op, op.old, op.why)
\* What it resolved once it has started.
OpRes(op) ==
  /\ \A d \in mObj[op.new].deps : Lookup(d) # {}
  /\ \A r \in mRes[op.new] : r \in DialerIds /\ TagOf(r) \in mObj[op.new].deps
  /\ op.new \notin mOver => op.old \notin mRes[op.new]
\* An outbound that was renamed is in, and the old one still too.
OpIn(op) ==
  /\ op.why = "put" /\ RenamesOutbound(op) /\ op.new \in Ids("out") /\ mObj[op.new] = op.spec
  /\ \A d \in op.spec.deps : Lookup(d) # {}
\* An outbound under a new tag.
Retags(op) == op.do = "edit" /\ op.kind = "out" /\ op.row.tag # op.spec.tag
OpOK ==
  Saving =>
    /\ OpRow(mOp) /\ (Retags(mOp) => mMoved)
    /\ mOp.pc # "removeOld" => OpNew(mOp) /\ OpOld(mOp)
    /\ mOp.pc \in {"started", "table"} => OpRes(mOp)
    /\ mOp.pc = "removeOld" => OpIn(mOp)

\* What a running component resolved is in the tables, under a tag it depends on.
ResolvedOK ==
  /\ mBox = "running" =>
       \A i \in InTable \ mOver : \A r \in mRes[i] : r \in DialerIds /\ TagOf(r) \in mObj[i].deps
  /\ mBox = "starting" => \A i \in mHeld : \A r \in mRes[i] : r \in DialerIds /\ r \in mHeld /\ TagOf(r) \in mObj[i].deps

\* While a box starts: no tag is both an outbound's and an endpoint's, and the
\* inbounds come last.
StartOK ==
  mBox = "starting" =>
    /\ \A i \in Ids("out"), j \in Ids("end") : TagOf(i) # TagOf(j)
    /\ (\E i \in Ids("in") : i \in mOp.started) => DialerIds \subseteq mOp.started

\* The tables and the rows.
Recorded(k) == {mObj[i] : i \in {j \in Ids(k) : TagOf(j) \in mRecipe[k]}}
Ahead(k) == IF Saving /\ mOp.pc = "removeOld" /\ k = "out" THEN {mOp.spec} ELSE {}
AgreeOK ==
  mBox \in {"starting", "running"} /\ ~ mLost /\ ~ mPending =>
    \A k \in ObjKind : Recorded(k) = RowsOf(k) \cup Ahead(k)
SameOrder ==
  /\ Len(mList["out"]) = Len(mRows["out"])
  /\ \A n \in DOMAIN mList["out"] : TagOf(mList["out"][n]) = mRows["out"][n].tag
OrderOK == mBox \in {"starting", "running"} /\ ~ mLost /\ ~ mMoved => SameOrder

\* The default.
DefaultOK ==
  /\ mBox = "starting" /\ mOp.pc = "initialize" =>
       /\ mFinal = "" => mDefault = IF mList["out"] = <<>> THEN 0 ELSE mList["out"][1]
       /\ mFinal # "" /\ mDefault # 0 => Holding("out", mFinal) # {}
       /\ mMoved = FALSE
  /\ mBox = "new" => mMoved = FALSE
  /\ Opened /\ mFinal = "" =>
       /\ mDefault \in Ids("out") \cup {0}
       /\ mList["out"] # <<>> => mDefault # 0
       /\ ~ mLost => mList["out"] # <<>>
       /\ ~ mLost /\ ~ mMoved => mDefault = mList["out"][1]
  /\ Opened /\ mFinal # "" /\ ~ mLost => Lookup(mFinal) # {}

StaleOK == ~ mStale => Startable(DialerRows)

IInv ==
  /\ Types /\ RowsOK /\ ListsOK /\ PhaseOK /\ ScopesOK /\ OpOK /\ ResolvedOK
  /\ StartOK /\ AgreeOK /\ OrderOK /\ DefaultOK /\ StaleOK

-----------------------------------------------------------------------------
(* Sequences: one element replaced, one appended, one taken out.             *)

\* The members of a sequence are its values.
LEMMA MemberOf ==
  ASSUME NEW s, NEW x
  PROVE  x \in ToSet(s) <=> \E n \in DOMAIN s : s[n] = x
BY DEF ToSet

\* A sequence with one position taken out.
LEMMA WithoutAtIs ==
  ASSUME NEW S, NEW s \in Seq(S), NEW n \in DOMAIN s
  PROVE  /\ WithoutAt(s, n) \in Seq(S)
         /\ Len(WithoutAt(s, n)) = Len(s) - 1
         /\ DOMAIN WithoutAt(s, n) = 1 .. Len(s) - 1
         /\ \A m \in 1 .. Len(s) - 1 : WithoutAt(s, n)[m] = IF m < n THEN s[m] ELSE s[m + 1]
<1>1. Len(s) \in Nat /\ DOMAIN s = 1 .. Len(s) /\ n \in 1 .. Len(s)
  OBVIOUS
<1>2. \A m \in 1 .. Len(s) - 1 : (IF m < n THEN s[m] ELSE s[m + 1]) \in S
  BY <1>1
<1>3. WithoutAt(s, n) \in [1 .. Len(s) - 1 -> S]
  BY <1>2 DEF WithoutAt
<1>4. Len(s) - 1 \in Nat
  BY <1>1
<1> QED
  BY <1>3, <1>4 DEF WithoutAt

\* Without takes the one position out at which the element is.
LEMMA WithoutIs ==
  ASSUME NEW S, NEW s \in Seq(S), \A a, b \in DOMAIN s : s[a] = s[b] => a = b,
         NEW n \in DOMAIN s
  PROVE  /\ At(s, s[n]) = n /\ Without(s, s[n]) = WithoutAt(s, n)
         /\ ToSet(Without(s, s[n])) = ToSet(s) \ {s[n]}
<1>1. At(s, s[n]) = n
  BY DEF At
<1>2. s[n] \in ToSet(s)
  BY DEF ToSet
<1>3. Without(s, s[n]) = WithoutAt(s, n)
  BY <1>1, <1>2 DEF Without
<1> DEFINE w == WithoutAt(s, n)
<1>4. /\ DOMAIN w = 1 .. Len(s) - 1
      /\ \A m \in 1 .. Len(s) - 1 : w[m] = IF m < n THEN s[m] ELSE s[m + 1]
  BY WithoutAtIs
<1>5. Len(s) \in Nat /\ DOMAIN s = 1 .. Len(s) /\ n \in 1 .. Len(s)
  OBVIOUS
<1> HIDE DEF w
<1>6. ASSUME NEW x \in ToSet(w) PROVE x \in ToSet(s) \ {s[n]}
  <2>1. PICK m \in 1 .. Len(s) - 1 : w[m] = x
    BY <1>4, <1>6 DEF ToSet
  <2>2. CASE m < n
    <3>1. m \in DOMAIN s /\ x = s[m] /\ m # n
      BY <1>4, <1>5, <2>1, <2>2
    <3> QED
      BY <3>1 DEF ToSet
  <2>3. CASE ~ (m < n)
    <3>1. m + 1 \in DOMAIN s /\ x = s[m + 1] /\ m + 1 # n
      BY <1>4, <1>5, <2>1, <2>3
    <3> QED
      BY <3>1 DEF ToSet
  <2> QED
    BY <2>2, <2>3
<1>7. ASSUME NEW x \in ToSet(s) \ {s[n]} PROVE x \in ToSet(w)
  <2>1. PICK m \in DOMAIN s : s[m] = x
    BY <1>7 DEF ToSet
  <2>2. CASE m < n
    <3>1. m \in 1 .. Len(s) - 1 /\ w[m] = x
      BY <1>4, <1>5, <2>1, <2>2
    <3> QED
      BY <1>4, <3>1 DEF ToSet
  <2>3. CASE ~ (m < n)
    <3>1. m - 1 \in 1 .. Len(s) - 1 /\ ~ (m - 1 < n) /\ (m - 1) + 1 = m
      BY <1>5, <1>7, <2>1, <2>3
    <3>2. w[m - 1] = x
      BY <1>4, <3>1, <2>1
    <3> QED
      BY <1>4, <3>1, <3>2 DEF ToSet
  <2> QED
    BY <2>2, <2>3
<1> QED
  BY <1>1, <1>3, <1>6, <1>7 DEF w

\* What is not there is not taken out.
LEMMA WithoutNothing ==
  ASSUME NEW s, NEW x, x \notin ToSet(s)
  PROVE  Without(s, x) = s
BY DEF Without

\* A sequence in which one value stands for another.
LEMMA SwapSeq ==
  ASSUME NEW S, NEW s \in Seq(S), NEW new \in S, NEW old \in ToSet(s)
  PROVE  LET w == [n \in DOMAIN s |-> IF s[n] = old THEN new ELSE s[n]] IN
         /\ w \in Seq(S) /\ Len(w) = Len(s) /\ DOMAIN w = DOMAIN s
         /\ ToSet(w) = (ToSet(s) \ {old}) \cup {new}
<1> DEFINE w == [n \in DOMAIN s |-> IF s[n] = old THEN new ELSE s[n]]
<1>1. Len(s) \in Nat /\ DOMAIN s = 1 .. Len(s) /\ \A n \in DOMAIN s : s[n] \in S
  OBVIOUS
<1>2. w \in [1 .. Len(s) -> S]
  BY <1>1
<1>3. w \in Seq(S) /\ Len(w) = Len(s) /\ DOMAIN w = DOMAIN s
  BY <1>1, <1>2
<1>4. \A n \in DOMAIN s : w[n] = IF s[n] = old THEN new ELSE s[n]
  OBVIOUS
<1>5. PICK o \in DOMAIN s : s[o] = old
  BY DEF ToSet
<1> HIDE DEF w
<1>6. \A x : x \in ToSet(w) <=> x \in (ToSet(s) \ {old}) \cup {new}
  BY <1>3, <1>4, <1>5 DEF ToSet
<1> QED
  BY <1>3, <1>6 DEF w

\* A sequence with one more at its end.
LEMMA AppendSeq ==
  ASSUME NEW S, NEW s \in Seq(S), NEW new \in S
  PROVE  /\ Append(s, new) \in Seq(S) /\ Len(Append(s, new)) = Len(s) + 1
         /\ DOMAIN Append(s, new) = 1 .. Len(s) + 1
         /\ \A n \in 1 .. Len(s) : Append(s, new)[n] = s[n]
         /\ Append(s, new)[Len(s) + 1] = new
         /\ ToSet(Append(s, new)) = ToSet(s) \cup {new}
<1>1. /\ Append(s, new) \in Seq(S) /\ Len(Append(s, new)) = Len(s) + 1
      /\ DOMAIN Append(s, new) = 1 .. Len(s) + 1
      /\ \A n \in 1 .. Len(s) : Append(s, new)[n] = s[n]
      /\ Append(s, new)[Len(s) + 1] = new
      /\ Len(s) \in Nat /\ DOMAIN s = 1 .. Len(s)
  OBVIOUS
<1> DEFINE w == Append(s, new)
<1> HIDE DEF w
<1>2. /\ DOMAIN w = 1 .. Len(s) + 1 /\ \A n \in 1 .. Len(s) : w[n] = s[n]
      /\ w[Len(s) + 1] = new
  BY <1>1 DEF w
<1>3. \A x : x \in ToSet(w) <=> x \in ToSet(s) \cup {new}
  BY <1>1, <1>2 DEF ToSet
<1> QED
  BY <1>1, <1>3 DEF w

-----------------------------------------------------------------------------
(* The constants.                                                            *)

\* What an object is.
LEMMA SpecIs ==
  ASSUME NEW s \in ObjSpec \cup {Direct}
  PROVE  /\ s.kind \in ObjKind /\ s.tag # "" /\ s.tag \in AnyTag
         /\ s.kind = "in" => s.deps = {}
         /\ s.kind = "end" => s.tag # "direct"
         /\ s = Direct => s.kind = "out" /\ s.tag = "direct" /\ s.deps = {}
<1>1. Direct.kind = "out" /\ Direct.tag = "direct" /\ Direct.deps = {}
  BY DEF Direct
<1>2. CASE s \in ObjSpec
  BY <1>1, <1>2, ManagerConstants DEF ObjKind, AnyTag
<1>3. CASE s = Direct
  BY <1>1, <1>3 DEF ObjKind, AnyTag
<1> QED
  BY <1>2, <1>3

-----------------------------------------------------------------------------
(* The tables: nothing changes, or one component is swapped, added, dropped. *)

\* Two components of a list with one tag are one.
LEMMA OnePerTag ==
  ASSUME Types, ListsOK, NEW k \in ObjKind, NEW i \in Ids(k), NEW j \in Ids(k), TagOf(i) = TagOf(j)
  PROVE  i = j
<1>1. PICK n \in DOMAIN mList[k] : mList[k][n] = i
  BY MemberOf DEF Ids
<1>2. PICK m \in DOMAIN mList[k] : mList[k][m] = j
  BY MemberOf DEF Ids
<1>3. n = m
  BY <1>1, <1>2, Zenon DEF ListsOK, TagOf
<1> QED
  BY <1>1, <1>2, <1>3

\* A list holds no component twice.
LEMMA OnceInList ==
  ASSUME ListsOK, NEW k \in ObjKind
  PROVE  \A a, b \in DOMAIN mList[k] : mList[k][a] = mList[k][b] => a = b
BY DEF ListsOK

\* The lists hold components, each in one list.
LEMMA IdsAre ==
  ASSUME Types
  PROVE  /\ \A k \in ObjKind : Ids(k) \subseteq ObjId /\ Ids(k) \subseteq InTable
         /\ InTable \subseteq ObjId /\ InTable = Ids("out") \cup Ids("end") \cup Ids("in")
         /\ DialerIds \subseteq InTable
<1>1. \A k \in ObjKind : mList[k] \in Seq(ObjId)
  BY DEF Types
<1>2. \A k \in ObjKind : Ids(k) \subseteq ObjId
  BY <1>1 DEF Ids, ToSet
<1>3. InTable = Ids("out") \cup Ids("end") \cup Ids("in")
  BY DEF InTable, Ids, ObjKind
<1> QED
  BY <1>2, <1>3 DEF DialerIds, ObjKind

LEMMA ListsApart ==
  ASSUME Types, ListsOK, NEW k \in ObjKind, NEW j \in ObjKind, k # j
  PROVE  Ids(k) \cap Ids(j) = {}
BY DEF ListsOK

TableKept == UNCHANGED <<mList, mRecipe>> /\ \A i \in InTable : mObj'[i] = mObj[i]

\* The tables are as they were: so is every question asked of them.
LEMMA Kept ==
  ASSUME Types, TableKept
  PROVE  /\ \A k : Ids(k)' = Ids(k)
         /\ InTable' = InTable /\ DialerIds' = DialerIds
         /\ \A k \in ObjKind : \A t : Holding(k, t)' = Holding(k, t)
         /\ \A t : Lookup(t)' = Lookup(t)
         /\ \A t : dependents(t)' = dependents(t)
         /\ \A k \in ObjKind : Recorded(k)' = Recorded(k)
         /\ ListsOK => ListsOK'
<1>1. mList' = mList /\ mRecipe' = mRecipe /\ \A i \in InTable : mObj'[i] = mObj[i]
  BY DEF TableKept
<1>2. \A k : Ids(k)' = Ids(k)
  BY <1>1 DEF Ids
<1>3. InTable' = InTable /\ DialerIds' = DialerIds
  BY <1>1 DEF InTable, DialerIds, Ids
<1>4. \A k \in ObjKind : Ids(k) \subseteq InTable
  BY IdsAre
<1>5. \A k \in ObjKind : \A t : Holding(k, t)' = Holding(k, t)
  <2> SUFFICES ASSUME NEW k \in ObjKind, NEW t PROVE Holding(k, t)' = Holding(k, t)
    OBVIOUS
  <2>1. \A i \in Ids(k) : mObj'[i] = mObj[i]
    BY <1>1, <1>4
  <2> QED
    BY <1>1, <2>1 DEF Holding, TagOf, Ids
<1>6. \A t : Lookup(t)' = Lookup(t)
  BY <1>5 DEF Lookup, ObjKind
<1>7. \A t : dependents(t)' = dependents(t)
  <2> SUFFICES ASSUME NEW t PROVE dependents(t)' = dependents(t)
    OBVIOUS
  <2>1. \A i \in ToSet(mList["out"]) \cup ToSet(mList["end"]) : mObj'[i] = mObj[i]
    BY <1>1, <1>4 DEF ObjKind, Ids
  <2> QED
    BY <1>1, <2>1 DEF dependents
<1>8. \A k \in ObjKind : Recorded(k)' = Recorded(k)
  <2> SUFFICES ASSUME NEW k \in ObjKind PROVE Recorded(k)' = Recorded(k)
    OBVIOUS
  <2>1. \A i \in Ids(k) : mObj'[i] = mObj[i]
    BY <1>1, <1>4
  <2>2. \A x : x \in Recorded(k)' <=> x \in Recorded(k)
    BY <1>1, <1>2, <2>1 DEF Recorded, TagOf
  <2> QED
    BY <2>2
<1>9. ASSUME ListsOK PROVE ListsOK'
  <2> SUFFICES ASSUME NEW k \in ObjKind
               PROVE  /\ \A i \in Ids(k)' : mObj'[i].kind = k
                      /\ \A n, m \in DOMAIN mList'[k] : mObj'[mList'[k][n]].tag = mObj'[mList'[k][m]].tag => n = m
                      /\ mRecipe'[k] \subseteq {TagOf(i)' : i \in Ids(k)'}
                      /\ \A i \in Ids(k)' : TagOf(i)' \in mRecipe'[k] \/ mObj'[i] = Direct
    BY DEF ListsOK
  <2>1. \A i \in Ids(k) : mObj'[i] = mObj[i]
    BY <1>1, <1>4
  <2>2. \A n \in DOMAIN mList[k] : mList[k][n] \in Ids(k)
    BY DEF Ids, ToSet
  <2>3. /\ \A i \in Ids(k) : mObj[i].kind = k
        /\ \A n, m \in DOMAIN mList[k] : mObj[mList[k][n]].tag = mObj[mList[k][m]].tag => n = m
        /\ mRecipe[k] \subseteq {TagOf(i) : i \in Ids(k)}
        /\ \A i \in Ids(k) : TagOf(i) \in mRecipe[k] \/ mObj[i] = Direct
    BY <1>9 DEF ListsOK
  <2> QED
    BY <1>1, <1>2, <2>1, <2>2, <2>3 DEF TagOf
<1> QED
  BY <1>2, <1>3, <1>5, <1>6, <1>7, <1>8, <1>9

\* What a change of one list does to the tables: gone is out of it, came is in.
MovedTo(k, gone, came) ==
  /\ UNCHANGED mObj
  /\ mList' \in [ObjKind -> Seq(ObjId)] /\ mRecipe' \in [ObjKind -> SUBSET AnyTag]
  /\ Ids(k)' = (Ids(k) \ gone) \cup came
  /\ \A j \in ObjKind \ {k} : Ids(j)' = Ids(j) /\ mList'[j] = mList[j] /\ mRecipe'[j] = mRecipe[j]

\* The new component may stand in the old one's place: no other has its tag.
Fits(k, old, new) == mObj[new].kind = k /\ \A i \in Ids(k) : TagOf(i) = TagOf(new) => i = old

\* Where a list changed: in the place of the component.
SwappedAt(k, old, new) ==
  /\ Len(mList'[k]) = Len(mList[k])
  /\ \A n \in DOMAIN mList[k] : mList'[k][n] = IF mList[k][n] = old THEN new ELSE mList[k][n]

\* swap: the new component is in the old one's place and no tag is there twice.
LEMMA SwapEffect ==
  ASSUME Types, ListsOK, NEW k \in ObjKind, NEW old \in Ids(k), NEW new \in ObjId, new \notin InTable,
         Fits(k, old, new),
         NEW recipe, recipe = {TagOf(new)} \/ (recipe = {} /\ mObj[new] = Direct),
         UNCHANGED mObj, swap(k, old, new, recipe)
  PROVE  /\ MovedTo(k, {old}, {new}) /\ ListsOK'
         /\ mRecipe'[k] = (mRecipe[k] \ {TagOf(old)}) \cup recipe
         /\ SwappedAt(k, old, new)
<1> DEFINE s == mList[k]
           w == [n \in DOMAIN s |-> IF s[n] = old THEN new ELSE s[n]]
<1>1. mList \in [ObjKind -> Seq(ObjId)] /\ mRecipe \in [ObjKind -> SUBSET AnyTag]
  BY DEF Types
<1>2. mList' = [mList EXCEPT ![k] = w]
  BY DEF swap, Swapped
<1>3. s \in Seq(ObjId) /\ old \in ToSet(s)
  BY <1>1 DEF Ids
<1>4. /\ w \in Seq(ObjId) /\ Len(w) = Len(s) /\ DOMAIN w = DOMAIN s
      /\ ToSet(w) = (ToSet(s) \ {old}) \cup {new}
  BY <1>3, SwapSeq
<1>5. \A n \in DOMAIN s : w[n] = IF s[n] = old THEN new ELSE s[n]
  OBVIOUS
<1> HIDE DEF w
<1>6. mList' \in [ObjKind -> Seq(ObjId)] /\ mList'[k] = w /\ \A j \in ObjKind \ {k} : mList'[j] = mList[j]
  BY <1>1, <1>2, <1>4
<1>7. Ids(k)' = (Ids(k) \ {old}) \cup {new} /\ \A j \in ObjKind \ {k} : Ids(j)' = Ids(j)
  BY <1>4, <1>6 DEF Ids
<1>8. TagOf(new) \in AnyTag
  BY DEF Types, AnyTag, TagOf
<1>9. recipe \in SUBSET AnyTag
  BY <1>8
<1>10. mRecipe' = [mRecipe EXCEPT ![k] = (mRecipe[k] \ {TagOf(old)}) \cup recipe]
  BY DEF swap
<1>13. /\ mRecipe' \in [ObjKind -> SUBSET AnyTag]
       /\ mRecipe'[k] = (mRecipe[k] \ {TagOf(old)}) \cup recipe
       /\ \A j \in ObjKind \ {k} : mRecipe'[j] = mRecipe[j]
  BY <1>1, <1>9, <1>10
<1>14. ListsOK'
  <2> SUFFICES ASSUME NEW j \in ObjKind
               PROVE  /\ \A i \in Ids(j)' : mObj[i].kind = j
                      /\ \A n, m \in DOMAIN mList'[j] : mObj[mList'[j][n]].tag = mObj[mList'[j][m]].tag => n = m
                      /\ mRecipe'[j] \subseteq {mObj[i].tag : i \in Ids(j)'}
                      /\ \A i \in Ids(j)' : mObj[i].tag \in mRecipe'[j] \/ mObj[i] = Direct
    BY DEF ListsOK, TagOf
  <2>1. /\ \A i \in Ids(j) : mObj[i].kind = j
        /\ \A n, m \in DOMAIN mList[j] : mObj[mList[j][n]].tag = mObj[mList[j][m]].tag => n = m
        /\ mRecipe[j] \subseteq {mObj[i].tag : i \in Ids(j)}
        /\ \A i \in Ids(j) : mObj[i].tag \in mRecipe[j] \/ mObj[i] = Direct
    BY DEF ListsOK, TagOf
  <2>2. CASE j # k
    BY <1>6, <1>7, <1>13, <2>1, <2>2
  <2>3. CASE j = k
    <3>1. \A i \in Ids(k)' : mObj[i].kind = k
      BY <1>7, <2>1, <2>3 DEF Fits
    <3>2. \A n, m \in DOMAIN w : mObj[w[n]].tag = mObj[w[m]].tag => n = m
      <4> SUFFICES ASSUME NEW n \in DOMAIN w, NEW m \in DOMAIN w, mObj[w[n]].tag = mObj[w[m]].tag PROVE n = m
        OBVIOUS
      <4>1. n \in DOMAIN s /\ m \in DOMAIN s /\ s[n] \in Ids(k) /\ s[m] \in Ids(k)
        BY <1>4 DEF Ids, ToSet
      <4>2. s[n] = old <=> s[m] = old
        BY <1>5, <4>1 DEF TagOf, Fits
      <4>3. mObj[s[n]].tag = mObj[s[m]].tag
        BY <1>5, <4>1, <4>2
      <4> QED
        BY <2>1, <2>3, <4>1, <4>3
    <3>3. mRecipe'[k] \subseteq {mObj[i].tag : i \in Ids(k)'}
      <4> SUFFICES ASSUME NEW t \in mRecipe'[k] PROVE \E i \in Ids(k)' : mObj[i].tag = t
        OBVIOUS
      <4>1. CASE t \in mRecipe[k] /\ t # TagOf(old)
        <5>1. PICK i \in Ids(k) : mObj[i].tag = t
          BY <2>1, <2>3, <4>1
        <5>2. i \in Ids(k)'
          BY <1>7, <4>1, <5>1 DEF TagOf
        <5> QED
          BY <5>1, <5>2
      <4>2. CASE t \in recipe
        BY <1>7, <4>2 DEF TagOf
      <4> QED
        BY <1>13, <4>1, <4>2
    <3>4. ASSUME NEW i \in Ids(k)' PROVE mObj[i].tag \in mRecipe'[k] \/ mObj[i] = Direct
      <4>1. CASE i = new
        BY <1>13, <4>1 DEF TagOf
      <4>2. CASE i # new
        <5>1. i \in Ids(k) /\ i # old
          BY <1>7, <4>2
        <5>2. mObj[i].tag # TagOf(old)
          BY <5>1, OnePerTag DEF TagOf
        <5> QED
          BY <1>13, <2>1, <2>3, <5>1, <5>2
      <4> QED
        BY <4>1, <4>2
    <3> QED
      BY <1>6, <2>3, <3>1, <3>2, <3>3, <3>4
  <2> QED
    BY <2>2, <2>3
<1>15. MovedTo(k, {old}, {new})
  BY <1>6, <1>7, <1>13 DEF MovedTo
<1> QED
  BY <1>4, <1>5, <1>6, <1>13, <1>14, <1>15 DEF SwappedAt

\* add: the new component is the last one and no tag is there twice.
LEMMA AddEffect ==
  ASSUME Types, ListsOK, NEW k \in ObjKind, NEW new \in ObjId, new \notin InTable,
         mObj[new].kind = k, \A i \in Ids(k) : TagOf(i) # TagOf(new),
         NEW tag, tag = TagOf(new), UNCHANGED mObj, add(k, new, tag)
  PROVE  /\ MovedTo(k, {}, {new}) /\ ListsOK'
         /\ mRecipe'[k] = mRecipe[k] \cup {tag}
         /\ mList'[k] = Append(mList[k], new)
<1> DEFINE s == mList[k]
           w == Append(s, new)
<1>1. mList \in [ObjKind -> Seq(ObjId)] /\ mRecipe \in [ObjKind -> SUBSET AnyTag]
  BY DEF Types
<1>2. mList' = [mList EXCEPT ![k] = w]
  BY DEF add
<1>3. s \in Seq(ObjId) /\ Len(s) \in Nat /\ DOMAIN s = 1 .. Len(s)
  BY <1>1
<1>4. /\ w \in Seq(ObjId) /\ DOMAIN w = 1 .. Len(s) + 1
      /\ \A n \in 1 .. Len(s) : w[n] = s[n]
      /\ w[Len(s) + 1] = new
      /\ ToSet(w) = ToSet(s) \cup {new}
  BY <1>3, AppendSeq
<1> HIDE DEF w
<1>6. mList' \in [ObjKind -> Seq(ObjId)] /\ mList'[k] = w /\ \A j \in ObjKind \ {k} : mList'[j] = mList[j]
  BY <1>1, <1>2, <1>4
<1>7. Ids(k)' = Ids(k) \cup {new} /\ \A j \in ObjKind \ {k} : Ids(j)' = Ids(j)
  BY <1>4, <1>6 DEF Ids
<1>8. tag \in AnyTag
  BY DEF Types, AnyTag, TagOf
<1>10. mRecipe' = [mRecipe EXCEPT ![k] = mRecipe[k] \cup {tag}]
  BY DEF add
<1>13. /\ mRecipe' \in [ObjKind -> SUBSET AnyTag]
       /\ mRecipe'[k] = mRecipe[k] \cup {tag}
       /\ \A j \in ObjKind \ {k} : mRecipe'[j] = mRecipe[j]
  BY <1>1, <1>8, <1>10
<1>14. ListsOK'
  <2> SUFFICES ASSUME NEW j \in ObjKind
               PROVE  /\ \A i \in Ids(j)' : mObj[i].kind = j
                      /\ \A n, m \in DOMAIN mList'[j] : mObj[mList'[j][n]].tag = mObj[mList'[j][m]].tag => n = m
                      /\ mRecipe'[j] \subseteq {mObj[i].tag : i \in Ids(j)'}
                      /\ \A i \in Ids(j)' : mObj[i].tag \in mRecipe'[j] \/ mObj[i] = Direct
    BY DEF ListsOK, TagOf
  <2>1. /\ \A i \in Ids(j) : mObj[i].kind = j
        /\ \A n, m \in DOMAIN mList[j] : mObj[mList[j][n]].tag = mObj[mList[j][m]].tag => n = m
        /\ mRecipe[j] \subseteq {mObj[i].tag : i \in Ids(j)}
        /\ \A i \in Ids(j) : mObj[i].tag \in mRecipe[j] \/ mObj[i] = Direct
    BY DEF ListsOK, TagOf
  <2>2. CASE j # k
    BY <1>6, <1>7, <1>13, <2>1, <2>2
  <2>3. CASE j = k
    <3>1. \A i \in Ids(k)' : mObj[i].kind = k
      BY <1>7, <2>1, <2>3
    <3>2. \A n, m \in DOMAIN w : mObj[w[n]].tag = mObj[w[m]].tag => n = m
      <4> SUFFICES ASSUME NEW n \in DOMAIN w, NEW m \in DOMAIN w, mObj[w[n]].tag = mObj[w[m]].tag PROVE n = m
        OBVIOUS
      <4>0. \A a \in DOMAIN s : s[a] \in Ids(k) /\ w[a] = s[a] /\ mObj[w[a]].tag # mObj[new].tag
        BY <1>3, <1>4 DEF Ids, ToSet, TagOf
      <4>1. \A a \in DOMAIN w : a \in DOMAIN s \/ a = Len(s) + 1
        BY <1>3, <1>4
      <4>2. CASE n \in DOMAIN s /\ m \in DOMAIN s
        BY <2>1, <2>3, <4>0, <4>2
      <4>3. CASE n = Len(s) + 1 /\ m \in DOMAIN s
        BY <1>4, <4>0, <4>3
      <4>4. CASE n \in DOMAIN s /\ m = Len(s) + 1
        BY <1>4, <4>0, <4>4
      <4> QED
        BY <4>1, <4>2, <4>3, <4>4
    <3>3. mRecipe'[k] \subseteq {mObj[i].tag : i \in Ids(k)'}
      BY <1>7, <1>13, <2>1, <2>3 DEF TagOf
    <3>4. \A i \in Ids(k)' : mObj[i].tag \in mRecipe'[k] \/ mObj[i] = Direct
      BY <1>7, <1>13, <2>1, <2>3 DEF TagOf
    <3> QED
      BY <1>6, <2>3, <3>1, <3>2, <3>3, <3>4
  <2> QED
    BY <2>2, <2>3
<1>15. MovedTo(k, {}, {new})
  BY <1>6, <1>7, <1>13 DEF MovedTo
<1> QED
  BY <1>6, <1>13, <1>14, <1>15 DEF w

\* drop: the component is out of its list, its recipe out of the table.
LEMMA DropEffect ==
  ASSUME Types, ListsOK, NEW k \in ObjKind, NEW it \in Ids(k), UNCHANGED mObj, drop(k, it)
  PROVE  /\ MovedTo(k, {it}, {}) /\ ListsOK'
         /\ mRecipe'[k] = mRecipe[k] \ {TagOf(it)}
         /\ \E p \in DOMAIN mList[k] : /\ mList[k][p] = it
                                       /\ mList'[k] = WithoutAt(mList[k], p)
                                       /\ Without(mList[k], it) = WithoutAt(mList[k], p)
<1> DEFINE s == mList[k]
           w == Without(s, it)
<1>1. mList \in [ObjKind -> Seq(ObjId)] /\ mRecipe \in [ObjKind -> SUBSET AnyTag]
  BY DEF Types
<1>2. mList' = [mList EXCEPT ![k] = w]
  BY DEF drop
<1>3. s \in Seq(ObjId) /\ Len(s) \in Nat /\ DOMAIN s = 1 .. Len(s)
  BY <1>1
<1>4. PICK p \in DOMAIN s : s[p] = it
  BY MemberOf DEF Ids
<1>5. \A a, b \in DOMAIN s : s[a] = s[b] => a = b
  BY OnceInList
<1>6. w = WithoutAt(s, p) /\ ToSet(w) = ToSet(s) \ {it}
  BY <1>3, <1>4, <1>5, WithoutIs
<1>7. /\ w \in Seq(ObjId) /\ DOMAIN w = 1 .. Len(s) - 1
      /\ \A m \in 1 .. Len(s) - 1 : w[m] = IF m < p THEN s[m] ELSE s[m + 1]
  BY <1>3, <1>6, WithoutAtIs
<1> HIDE DEF w
<1>8. mList' \in [ObjKind -> Seq(ObjId)] /\ mList'[k] = w /\ \A j \in ObjKind \ {k} : mList'[j] = mList[j]
  BY <1>1, <1>2, <1>7
<1>9. Ids(k)' = Ids(k) \ {it} /\ \A j \in ObjKind \ {k} : Ids(j)' = Ids(j)
  BY <1>6, <1>8 DEF Ids
<1>10. mRecipe' = [mRecipe EXCEPT ![k] = mRecipe[k] \ {TagOf(it)}]
  BY DEF drop, recipesLeft
<1>13. /\ mRecipe' \in [ObjKind -> SUBSET AnyTag]
       /\ mRecipe'[k] = mRecipe[k] \ {TagOf(it)}
       /\ \A j \in ObjKind \ {k} : mRecipe'[j] = mRecipe[j]
  BY <1>1, <1>10
<1>14. ListsOK'
  <2> SUFFICES ASSUME NEW j \in ObjKind
               PROVE  /\ \A i \in Ids(j)' : mObj[i].kind = j
                      /\ \A n, m \in DOMAIN mList'[j] : mObj[mList'[j][n]].tag = mObj[mList'[j][m]].tag => n = m
                      /\ mRecipe'[j] \subseteq {mObj[i].tag : i \in Ids(j)'}
                      /\ \A i \in Ids(j)' : mObj[i].tag \in mRecipe'[j] \/ mObj[i] = Direct
    BY DEF ListsOK, TagOf
  <2>1. /\ \A i \in Ids(j) : mObj[i].kind = j
        /\ \A n, m \in DOMAIN mList[j] : mObj[mList[j][n]].tag = mObj[mList[j][m]].tag => n = m
        /\ mRecipe[j] \subseteq {mObj[i].tag : i \in Ids(j)}
        /\ \A i \in Ids(j) : mObj[i].tag \in mRecipe[j] \/ mObj[i] = Direct
    BY DEF ListsOK, TagOf
  <2>2. CASE j # k
    BY <1>8, <1>9, <1>13, <2>1, <2>2
  <2>3. CASE j = k
    <3>1. \A i \in Ids(k)' : mObj[i].kind = k
      BY <1>9, <2>1, <2>3
    <3>2. \A n, m \in DOMAIN w : mObj[w[n]].tag = mObj[w[m]].tag => n = m
      <4> SUFFICES ASSUME NEW n \in DOMAIN w, NEW m \in DOMAIN w, mObj[w[n]].tag = mObj[w[m]].tag PROVE n = m
        OBVIOUS
      <4> DEFINE b(x) == IF x < p THEN x ELSE x + 1
      <4>1. \A x \in DOMAIN w : b(x) \in DOMAIN s /\ w[x] = s[b(x)]
        BY <1>3, <1>7
      <4>2. b(n) = b(m)
        <5> HIDE DEF b
        <5> QED
          BY <2>1, <2>3, <4>1
      <4> QED
        BY <1>3, <1>4, <1>7, <4>2
    <3>3. mRecipe'[k] \subseteq {mObj[i].tag : i \in Ids(k)'}
      BY <1>9, <1>13, <2>1, <2>3 DEF TagOf
    <3>4. \A i \in Ids(k)' : mObj[i].tag \in mRecipe'[k] \/ mObj[i] = Direct
      <4> SUFFICES ASSUME NEW i \in Ids(k)' PROVE mObj[i].tag \in mRecipe'[k] \/ mObj[i] = Direct
        OBVIOUS
      <4>1. i \in Ids(k) /\ i # it
        BY <1>9
      <4>2. mObj[i].tag # TagOf(it)
        BY <4>1, OnePerTag DEF TagOf
      <4> QED
        BY <1>13, <2>1, <2>3, <4>1, <4>2
    <3> QED
      BY <1>8, <2>3, <3>1, <3>2, <3>3, <3>4
  <2> QED
    BY <2>2, <2>3
<1>15. MovedTo(k, {it}, {})
  BY <1>8, <1>9, <1>13 DEF MovedTo
<1> QED
  BY <1>4, <1>6, <1>8, <1>13, <1>14, <1>15 DEF w

\* What a change of one list means for the tables as a whole.
LEMMA MovedMeans ==
  ASSUME Types, NEW k \in ObjKind, NEW gone, NEW came, MovedTo(k, gone, came)
  PROVE  /\ \A j \in ObjKind : Ids(j) \ gone \subseteq Ids(j)' /\ Ids(j)' \subseteq Ids(j) \cup came
         /\ InTable' \subseteq InTable \cup came /\ InTable \ gone \subseteq InTable' /\ came \subseteq InTable'
         /\ DialerIds' \subseteq DialerIds \cup came /\ DialerIds \ gone \subseteq DialerIds'
<1>1. /\ Ids(k)' = (Ids(k) \ gone) \cup came
      /\ \A j \in ObjKind \ {k} : Ids(j)' = Ids(j)
  BY DEF MovedTo
<1>2. \A j \in ObjKind : Ids(j) \ gone \subseteq Ids(j)' /\ Ids(j)' \subseteq Ids(j) \cup came
  BY <1>1
<1>3. InTable = Ids("out") \cup Ids("end") \cup Ids("in")
  BY DEF InTable, Ids, ObjKind
<1>4. InTable' = Ids("out")' \cup Ids("end")' \cup Ids("in")'
  BY DEF InTable, Ids, ObjKind
<1>5. came \subseteq InTable'
  BY <1>1, <1>4 DEF ObjKind
<1> QED
  BY <1>2, <1>3, <1>4, <1>5 DEF DialerIds, ObjKind

\* Seen as a whole, when the component that goes was in that list.
LEMMA MovedExactly ==
  ASSUME Types, ListsOK, NEW k \in ObjKind, NEW gone, gone \subseteq Ids(k), NEW came, MovedTo(k, gone, came)
  PROVE  /\ InTable' = (InTable \ gone) \cup came
         /\ k # "in" => DialerIds' = (DialerIds \ gone) \cup came
         /\ k = "in" => DialerIds' = DialerIds
<1>1. /\ Ids(k)' = (Ids(k) \ gone) \cup came
      /\ \A j \in ObjKind \ {k} : Ids(j)' = Ids(j)
  BY DEF MovedTo
<1>2. \A j \in ObjKind \ {k} : Ids(j) \cap gone = {}
  BY ListsApart
<1>3. InTable = Ids("out") \cup Ids("end") \cup Ids("in")
  BY DEF InTable, Ids, ObjKind
<1>4. InTable' = Ids("out")' \cup Ids("end")' \cup Ids("in")'
  BY DEF InTable, Ids, ObjKind
<1>5. k \in {"out", "end", "in"}
  BY DEF ObjKind
<1>6. CASE k = "out"
  BY <1>1, <1>2, <1>3, <1>4, <1>6 DEF DialerIds, ObjKind
<1>7. CASE k = "end"
  BY <1>1, <1>2, <1>3, <1>4, <1>7 DEF DialerIds, ObjKind
<1>8. CASE k = "in"
  BY <1>1, <1>2, <1>3, <1>4, <1>8 DEF DialerIds, ObjKind
<1> QED
  BY <1>5, <1>6, <1>7, <1>8

-----------------------------------------------------------------------------
(* The rows a save writes.                                                   *)

\* Two rows with one tag in tables that share their tags are one row.
LEMMA OneRowPerTag ==
  ASSUME RowsOK, NEW k \in ObjKind, NEW j \in ObjKind, NEW r \in RowsOf(k), NEW s \in RowsOf(j),
         r.tag = s.tag, j \in Shares(k)
  PROVE  k = j /\ r = s
<1>1. PICK n \in DOMAIN mRows[k] : mRows[k][n] = r
  BY MemberOf DEF RowsOf
<1>2. PICK m \in DOMAIN mRows[j] : mRows[j][m] = s
  BY MemberOf DEF RowsOf
<1>3. k = j /\ n = m
  BY <1>1, <1>2 DEF RowsOK
<1> QED
  BY <1>1, <1>2, <1>3

LEMMA SharesOwn ==
  ASSUME NEW k \in ObjKind
  PROVE  k \in Shares(k)
BY DEF Shares, ObjKind

LEMMA SharesBack ==
  ASSUME NEW k \in ObjKind, NEW j \in ObjKind, j \in Shares(k)
  PROVE  k \in Shares(j)
<1>1. k \in {"out", "end", "in"} /\ j \in {"out", "end", "in"}
  BY DEF ObjKind
<1>2. CASE k = "end"
  BY <1>1, <1>2 DEF Shares
<1>3. CASE k # "end"
  <2>1. j \in {k, "end"}
    BY <1>3 DEF Shares
  <2> QED
    BY <1>1, <2>1 DEF Shares, ObjKind
<1> QED
  BY <1>2, <1>3

LEMMA RowLens ==
  ASSUME Types
  PROVE  Len(mRows["out"]) \in Nat /\ Len(mRows["end"]) \in Nat /\ Len(mRows["in"]) \in Nat /\ MaxObj \in Nat
<1>1. mRows["out"] \in Seq(ObjSpec) /\ mRows["end"] \in Seq(ObjSpec) /\ mRows["in"] \in Seq(ObjSpec)
  BY DEF Types, ObjKind
<1>2. MaxObj \in Nat
  BY ManagerConstants
<1> QED
  BY <1>1, <1>2

LEMMA RowCountIs ==
  ASSUME NEW f, Len(f["out"]) \in Nat, Len(f["end"]) \in Nat, Len(f["in"]) \in Nat
  PROVE  RowCount(f) \in Nat
<1> DEFINE a == Len(f["out"])
           b == Len(f["end"])
           c == Len(f["in"])
<1>1. RowCount(f) = a + b + c
  BY DEF RowCount
<1>2. a \in Nat /\ b \in Nat /\ c \in Nat
  OBVIOUS
<1> HIDE DEF a, b, c
<1> QED
  BY <1>1, <1>2

LEMMA RowCountMoves ==
  ASSUME NEW f, NEW g, Len(f["out"]) \in Nat, Len(f["end"]) \in Nat, Len(f["in"]) \in Nat,
         NEW k \in {"out", "end", "in"}, NEW x \in {-1, 1}, Len(g[k]) = Len(f[k]) + x,
         \A j \in {"out", "end", "in"} \ {k} : Len(g[j]) = Len(f[j])
  PROVE  RowCount(g) = RowCount(f) + x
<1> DEFINE a == Len(f["out"])
           b == Len(f["end"])
           c == Len(f["in"])
           d == Len(g["out"])
           e == Len(g["end"])
           h == Len(g["in"])
<1>1. RowCount(f) = a + b + c /\ RowCount(g) = d + e + h
  BY DEF RowCount
<1>2. a \in Nat /\ b \in Nat /\ c \in Nat
  OBVIOUS
<1>3. \/ d = a + x /\ e = b /\ h = c
      \/ d = a /\ e = b + x /\ h = c
      \/ d = a /\ e = b /\ h = c + x
  OBVIOUS
<1> HIDE DEF a, b, c, d, e, h
<1> QED
  BY <1>1, <1>2, <1>3

LEMMA RowOnce ==
  ASSUME RowsOK, NEW k \in ObjKind
  PROVE  \A a, b \in DOMAIN mRows[k] : mRows[k][a] = mRows[k][b] => a = b
BY SharesOwn DEF RowsOK

\* Rows are objects of their table.
LEMMA RowIs ==
  ASSUME Types, RowsOK, NEW k \in ObjKind, NEW r \in RowsOf(k)
  PROVE  r \in ObjSpec /\ r.kind = k
<1>1. PICK n \in DOMAIN mRows[k] : mRows[k][n] = r
  BY MemberOf DEF RowsOf
<1>2. mRows[k] \in Seq(ObjSpec)
  BY DEF Types
<1> QED
  BY <1>1, <1>2 DEF RowsOK

\* How the rows may change: one table, in one place.
Written(k, lost, put) ==
  /\ mRows' \in [ObjKind -> Seq(ObjSpec)]
  /\ RowsOf(k)' = (RowsOf(k) \ lost) \cup put
  /\ \A j \in ObjKind \ {k} : mRows'[j] = mRows[j]

\* Where it changed: in the place of the row, or with that place taken out.
EditedAt(k, row, new) ==
  \E p \in DOMAIN mRows[k] :
    /\ mRows[k][p] = row
    /\ Len(mRows'[k]) = Len(mRows[k])
    /\ \A n \in DOMAIN mRows[k] : mRows'[k][n] = IF n = p THEN new ELSE mRows[k][n]
TakenAt(k, row) == \E p \in DOMAIN mRows[k] : mRows[k][p] = row /\ mRows'[k] = WithoutAt(mRows[k], p)

\* A new row: the last one.
LEMMA RowsNew ==
  ASSUME Types, RowsOK, NEW k \in ObjKind, NEW new \in ObjSpec, new.kind = k,
         \A j \in Shares(k) \cap ObjKind : \A s \in RowsOf(j) : s.tag # new.tag,
         RowCount(mRows) < MaxObj, mRows' = [mRows EXCEPT ![k] = Append(mRows[k], new)]
  PROVE  Written(k, {}, {new}) /\ RowsOK' /\ mRows'[k] = Append(mRows[k], new)
<1> DEFINE s == mRows[k]
           w == Append(s, new)
<1>1. mRows \in [ObjKind -> Seq(ObjSpec)]
  BY DEF Types
<1>2. s \in Seq(ObjSpec) /\ Len(s) \in Nat /\ DOMAIN s = 1 .. Len(s)
  BY <1>1
<1>3. /\ w \in Seq(ObjSpec) /\ Len(w) = Len(s) + 1 /\ DOMAIN w = 1 .. Len(s) + 1
      /\ \A n \in 1 .. Len(s) : w[n] = s[n]
      /\ w[Len(s) + 1] = new
      /\ ToSet(w) = ToSet(s) \cup {new}
  BY <1>2, AppendSeq
<1>4. mRows' = [mRows EXCEPT ![k] = w]
  OBVIOUS
<1> HIDE DEF w
<1>5. mRows' \in [ObjKind -> Seq(ObjSpec)] /\ mRows'[k] = w /\ \A j \in ObjKind \ {k} : mRows'[j] = mRows[j]
  BY <1>1, <1>3, <1>4
<1>6. RowsOf(k)' = RowsOf(k) \cup {new}
  BY <1>3, <1>5 DEF RowsOf
<1>7. Written(k, {}, {new})
  BY <1>5, <1>6 DEF Written
<1>8. \A a \in ObjKind : \A n \in DOMAIN mRows'[a] : mRows'[a][n].kind = a
  BY <1>2, <1>3, <1>5 DEF RowsOK
<1>9. ASSUME NEW a \in ObjKind, NEW b \in ObjKind, NEW n \in DOMAIN mRows'[a], NEW m \in DOMAIN mRows'[b],
             mRows'[a][n].tag = mRows'[b][m].tag, b \in Shares(a)
      PROVE  a = b /\ n = m
  <2>1. \A j \in ObjKind : \A x \in DOMAIN mRows'[j] :
          \/ x \in DOMAIN mRows[j] /\ mRows'[j][x] = mRows[j][x] /\ mRows[j][x] \in RowsOf(j)
          \/ j = k /\ x = Len(s) + 1 /\ mRows'[j][x] = new
    BY <1>2, <1>3, <1>5 DEF RowsOf, ToSet
  <2>2. a \in Shares(b)
    BY <1>9, SharesBack
  <2>3. \A j \in ObjKind : \A x \in DOMAIN mRows[j] :
          j \in Shares(k) /\ mRows[j][x] \in RowsOf(j) => mRows[j][x].tag # new.tag
    OBVIOUS
  <2>4. CASE n \in DOMAIN mRows[a] /\ mRows'[a][n] = mRows[a][n] /\ m \in DOMAIN mRows[b] /\ mRows'[b][m] = mRows[b][m]
    BY <1>9, <2>4 DEF RowsOK
  <2>5. CASE a = k /\ n = Len(s) + 1 /\ mRows'[a][n] = new
    BY <1>9, <2>1, <2>3, <2>5
  <2>6. CASE b = k /\ m = Len(s) + 1 /\ mRows'[b][m] = new
    BY <1>9, <2>1, <2>2, <2>3, <2>6
  <2> QED
    BY <2>1, <2>4, <2>5, <2>6
<1>10. RowCount(mRows') <= MaxObj
  <2>1. Len(mRows["out"]) \in Nat /\ Len(mRows["end"]) \in Nat /\ Len(mRows["in"]) \in Nat /\ MaxObj \in Nat
    BY RowLens
  <2>2. k \in {"out", "end", "in"}
    BY DEF ObjKind
  <2>3. Len(mRows'[k]) = Len(mRows[k]) + 1 /\ \A j \in {"out", "end", "in"} \ {k} : Len(mRows'[j]) = Len(mRows[j])
    BY <1>3, <1>5 DEF ObjKind
  <2>4. RowCount(mRows') = RowCount(mRows) + 1
    BY <2>1, <2>2, <2>3, RowCountMoves
  <2>5. RowCount(mRows) \in Nat
    BY <2>1, RowCountIs
  <2> QED
    BY <2>1, <2>4, <2>5
<1>11. RowsOK'
  BY <1>8, <1>9, <1>10 DEF RowsOK
<1> QED
  BY <1>5, <1>7, <1>11 DEF w

\* A row written over.
LEMMA RowsEdit ==
  ASSUME Types, RowsOK, NEW k \in ObjKind, NEW row \in RowsOf(k), NEW new \in ObjSpec, new.kind = k,
         \A j \in Shares(k) \cap ObjKind : \A s \in RowsOf(j) : s.tag = new.tag => j = k /\ s = row,
         mRows' = [mRows EXCEPT ![k] = [mRows[k] EXCEPT ![At(mRows[k], row)] = new]]
  PROVE  Written(k, {row}, {new}) /\ RowsOK' /\ EditedAt(k, row, new)
<1> DEFINE s == mRows[k]
<1>1. mRows \in [ObjKind -> Seq(ObjSpec)]
  BY DEF Types
<1>2. s \in Seq(ObjSpec) /\ Len(s) \in Nat /\ DOMAIN s = 1 .. Len(s)
  BY <1>1
<1>3. PICK p \in DOMAIN s : s[p] = row
  BY MemberOf DEF RowsOf
<1>4. \A x, y \in DOMAIN s : s[x] = s[y] => x = y
  BY RowOnce
<1>5. At(s, row) = p
  BY <1>3, <1>4 DEF At
<1> DEFINE w == [s EXCEPT ![p] = new]
<1>6. w \in Seq(ObjSpec) /\ Len(w) = Len(s) /\ DOMAIN w = DOMAIN s /\ \A n \in DOMAIN s : w[n] = IF n = p THEN new ELSE s[n]
  BY <1>2
<1>7. mRows' = [mRows EXCEPT ![k] = w]
  BY <1>5
<1> HIDE DEF w
<1>8. mRows' \in [ObjKind -> Seq(ObjSpec)] /\ mRows'[k] = w /\ \A j \in ObjKind \ {k} : mRows'[j] = mRows[j]
  BY <1>1, <1>6, <1>7
<1>9. \A x : x \in ToSet(w) <=> x \in (ToSet(s) \ {row}) \cup {new}
  BY <1>3, <1>4, <1>6 DEF ToSet
<1>10. RowsOf(k)' = (RowsOf(k) \ {row}) \cup {new}
  BY <1>8, <1>9 DEF RowsOf
<1>11. Written(k, {row}, {new})
  BY <1>8, <1>10 DEF Written
<1>12. \A a \in ObjKind : \A n \in DOMAIN mRows'[a] : mRows'[a][n].kind = a
  BY <1>6, <1>8 DEF RowsOK
<1>13. ASSUME NEW a \in ObjKind, NEW b \in ObjKind, NEW n \in DOMAIN mRows'[a], NEW m \in DOMAIN mRows'[b],
             mRows'[a][n].tag = mRows'[b][m].tag, b \in Shares(a)
      PROVE  a = b /\ n = m
  <2>1. \A j \in ObjKind : \A x \in DOMAIN mRows'[j] :
          \/ x \in DOMAIN mRows[j] /\ mRows'[j][x] = mRows[j][x] /\ mRows[j][x] \in RowsOf(j) /\ (j = k => x # p)
          \/ j = k /\ x = p /\ mRows'[j][x] = new
    BY <1>6, <1>8 DEF RowsOf, ToSet
  <2>2. a \in Shares(b)
    BY <1>13, SharesBack
  <2>3. \A j \in ObjKind : \A x \in DOMAIN mRows[j] :
          j \in Shares(k) /\ mRows[j][x] \in RowsOf(j) /\ mRows[j][x].tag = new.tag => j = k /\ x = p
    BY <1>3, <1>4
  <2>4. CASE n \in DOMAIN mRows[a] /\ mRows'[a][n] = mRows[a][n] /\ m \in DOMAIN mRows[b] /\ mRows'[b][m] = mRows[b][m]
    BY <1>13, <2>4 DEF RowsOK
  <2>5. CASE a = k /\ n = p /\ mRows'[a][n] = new
    BY <1>13, <2>1, <2>3, <2>5
  <2>6. CASE b = k /\ m = p /\ mRows'[b][m] = new
    BY <1>13, <2>1, <2>2, <2>3, <2>6
  <2> QED
    BY <2>1, <2>4, <2>5, <2>6
<1>14. RowCount(mRows') <= MaxObj
  <2>2. k \in {"out", "end", "in"}
    BY DEF ObjKind
  <2>3. Len(mRows'[k]) = Len(mRows[k]) /\ \A j \in {"out", "end", "in"} \ {k} : Len(mRows'[j]) = Len(mRows[j])
    BY <1>6, <1>8 DEF ObjKind
  <2>4. RowCount(mRows') = RowCount(mRows)
    BY <2>2, <2>3 DEF RowCount
  <2> QED
    BY <2>4 DEF RowsOK
<1>15. RowsOK'
  BY <1>12, <1>13, <1>14 DEF RowsOK
<1> QED
  BY <1>3, <1>6, <1>8, <1>11, <1>15 DEF EditedAt

\* A row taken out.
LEMMA RowsDel ==
  ASSUME Types, RowsOK, NEW k \in ObjKind, NEW row \in RowsOf(k),
         mRows' = [mRows EXCEPT ![k] = Without(mRows[k], row)]
  PROVE  Written(k, {row}, {}) /\ RowsOK' /\ TakenAt(k, row)
<1> DEFINE s == mRows[k]
<1>1. mRows \in [ObjKind -> Seq(ObjSpec)]
  BY DEF Types
<1>2. s \in Seq(ObjSpec) /\ Len(s) \in Nat /\ DOMAIN s = 1 .. Len(s)
  BY <1>1
<1>3. PICK p \in DOMAIN s : s[p] = row
  BY MemberOf DEF RowsOf
<1>4. \A x, y \in DOMAIN s : s[x] = s[y] => x = y
  BY RowOnce
<1> DEFINE w == WithoutAt(s, p)
<1>5. Without(s, row) = w /\ ToSet(w) = ToSet(s) \ {row}
  BY <1>2, <1>3, <1>4, WithoutIs
<1>6. /\ w \in Seq(ObjSpec) /\ Len(w) = Len(s) - 1 /\ DOMAIN w = 1 .. Len(s) - 1
      /\ \A m \in 1 .. Len(s) - 1 : w[m] = IF m < p THEN s[m] ELSE s[m + 1]
  BY <1>2, <1>3, WithoutAtIs
<1>7. mRows' = [mRows EXCEPT ![k] = w]
  BY <1>5
<1> HIDE DEF w
<1>8. mRows' \in [ObjKind -> Seq(ObjSpec)] /\ mRows'[k] = w /\ \A j \in ObjKind \ {k} : mRows'[j] = mRows[j]
  BY <1>1, <1>6, <1>7
<1>10. RowsOf(k)' = RowsOf(k) \ {row}
  BY <1>5, <1>8 DEF RowsOf
<1>11. Written(k, {row}, {})
  BY <1>8, <1>10 DEF Written
<1> DEFINE b(j, x) == IF j = k /\ ~ (x < p) THEN x + 1 ELSE x
<1>12. \A j \in ObjKind : \A x \in DOMAIN mRows'[j] : b(j, x) \in DOMAIN mRows[j] /\ mRows'[j][x] = mRows[j][b(j, x)]
  BY <1>2, <1>6, <1>8
<1>13. \A a \in ObjKind : \A n \in DOMAIN mRows'[a] : mRows'[a][n].kind = a
  <2> HIDE DEF b
  <2> QED
    BY <1>12 DEF RowsOK
<1>14. ASSUME NEW a \in ObjKind, NEW c \in ObjKind, NEW n \in DOMAIN mRows'[a], NEW m \in DOMAIN mRows'[c],
             mRows'[a][n].tag = mRows'[c][m].tag, c \in Shares(a)
      PROVE  a = c /\ n = m
  <2>1. a = c /\ b(a, n) = b(c, m)
    <3> HIDE DEF b
    <3> QED
      BY <1>12, <1>14 DEF RowsOK
  <2>2. CASE a = k
    <3>1. n \in 1 .. Len(s) - 1 /\ m \in 1 .. Len(s) - 1
      BY <1>6, <1>8, <2>1, <2>2
    <3> QED
      BY <1>2, <1>3, <2>1, <2>2, <3>1
  <2>3. CASE a # k
    BY <2>1, <2>3
  <2> QED
    BY <2>2, <2>3
<1>15. RowCount(mRows') <= MaxObj
  <2>1. Len(mRows["out"]) \in Nat /\ Len(mRows["end"]) \in Nat /\ Len(mRows["in"]) \in Nat /\ MaxObj \in Nat
    BY RowLens
  <2>2. k \in {"out", "end", "in"}
    BY DEF ObjKind
  <2>3. Len(mRows'[k]) = Len(mRows[k]) + (-1) /\ \A j \in {"out", "end", "in"} \ {k} : Len(mRows'[j]) = Len(mRows[j])
    BY <1>6, <1>8 DEF ObjKind
  <2>4. RowCount(mRows) <= MaxObj
    BY DEF RowsOK
  <2>5. RowCount(mRows') = RowCount(mRows) + (-1)
    BY <2>1, <2>2, <2>3, RowCountMoves
  <2>6. RowCount(mRows) \in Nat
    BY <2>1, RowCountIs
  <2> QED
    BY <2>1, <2>4, <2>5, <2>6
<1>16. RowsOK'
  BY <1>13, <1>14, <1>15 DEF RowsOK
<1> QED
  BY <1>3, <1>8, <1>11, <1>16 DEF w, TakenAt

\* What the end of a save writes.
LEMMA CommitRows ==
  ASSUME Types, RowsOK, NEW op \in SaveOp, OpRow(op), mRows' = RowsAfter(op.do, op.kind, op.row, op.spec)
  PROVE  /\ RowsOK' /\ mRows' \in [ObjKind -> Seq(ObjSpec)]
         /\ op.do = "new" => Written(op.kind, {}, {op.spec}) /\ mRows'[op.kind] = Append(mRows[op.kind], op.spec)
         /\ op.do = "edit" => Written(op.kind, {op.row}, {op.spec}) /\ EditedAt(op.kind, op.row, op.spec)
         /\ op.do = "del" => Written(op.kind, {op.row}, {}) /\ TakenAt(op.kind, op.row)
<1>1. op.kind \in ObjKind /\ op.spec \in ObjSpec /\ op.do \in {"new", "edit", "del"} /\ op.spec.kind = op.kind
  BY DEF SaveOp, OpRow
<1>2. CASE op.do = "new"
  <2>1. mRows' = [mRows EXCEPT ![op.kind] = Append(mRows[op.kind], op.spec)]
    BY <1>2 DEF RowsAfter
  <2>2. \A j \in Shares(op.kind) \cap ObjKind : \A s \in RowsOf(j) : s.tag # op.spec.tag
    BY <1>2 DEF OpRow, tagFreeAcross
  <2>3. RowCount(mRows) < MaxObj
    BY <1>2 DEF OpRow
  <2>4. Written(op.kind, {}, {op.spec}) /\ RowsOK' /\ mRows'[op.kind] = Append(mRows[op.kind], op.spec)
    BY <1>1, <2>1, <2>2, <2>3, RowsNew
  <2> QED
    BY <1>2, <2>4 DEF Written
<1>3. CASE op.do = "edit"
  <2>1. mRows' = [mRows EXCEPT ![op.kind] = [mRows[op.kind] EXCEPT ![At(mRows[op.kind], op.row)] = op.spec]]
    BY <1>3 DEF RowsAfter
  <2>2. op.row \in RowsOf(op.kind)
    BY <1>3 DEF OpRow
  <2>3. \A j \in Shares(op.kind) \cap ObjKind : \A s \in RowsOf(j) : s.tag = op.spec.tag => j = op.kind /\ s = op.row
    BY <1>3 DEF OpRow, tagFreeAcross
  <2>4. Written(op.kind, {op.row}, {op.spec}) /\ RowsOK' /\ EditedAt(op.kind, op.row, op.spec)
    BY <1>1, <2>1, <2>2, <2>3, RowsEdit
  <2> QED
    BY <1>3, <2>4 DEF Written
<1>4. CASE op.do = "del"
  <2>1. mRows' = [mRows EXCEPT ![op.kind] = Without(mRows[op.kind], op.row)]
    BY <1>4 DEF RowsAfter
  <2>2. op.row \in RowsOf(op.kind)
    BY <1>4 DEF OpRow
  <2>3. Written(op.kind, {op.row}, {}) /\ RowsOK' /\ TakenAt(op.kind, op.row)
    BY <1>1, <2>1, <2>2, RowsDel
  <2> QED
    BY <1>4, <2>3 DEF Written
<1> QED
  BY <1>1, <1>2, <1>3, <1>4

-----------------------------------------------------------------------------
(* Steps that leave the tables and the rows alone.                           *)

\* Nothing is asked of the tables of a closed box but that they are well formed.
LEMMA ClosedStep ==
  ASSUME mBox' = "closed"
  PROVE  ResolvedOK' /\ StartOK' /\ AgreeOK' /\ OrderOK' /\ DefaultOK'
BY DEF ResolvedOK, StartOK, AgreeOK, OrderOK, DefaultOK, Opened

\* A step of a save that touches neither a table nor a row, or the close of the
\* box under it.
LEMMA QuietStep ==
  ASSUME IInv, TableKept, UNCHANGED <<mRows, mDefault, mFinal, mPending, mStale>>,
         mBox \in {"running", "closed"}, mBox' \in {mBox, "closed"}, mLost => mLost', mMoved => mMoved',
         ~ mLost' => \A k \in ObjKind : Ahead(k)' = Ahead(k),
         \A i \in InTable : mRes'[i] = mRes[i] /\ (i \in mOver => i \in mOver')
  PROVE  RowsOK' /\ ListsOK' /\ ResolvedOK' /\ StartOK' /\ AgreeOK' /\ OrderOK' /\ DefaultOK' /\ StaleOK'
<1>1. Types /\ ListsOK /\ RowsOK /\ StaleOK
  BY DEF IInv
<1>2. /\ \A k : Ids(k)' = Ids(k)
      /\ InTable' = InTable /\ DialerIds' = DialerIds
      /\ \A t : Lookup(t)' = Lookup(t)
      /\ \A k \in ObjKind : Recorded(k)' = Recorded(k)
      /\ ListsOK'
  BY <1>1, Kept
<1>3. mList' = mList /\ mRows' = mRows
  BY DEF TableKept
<1>4. RowsOK' /\ \A k : RowsOf(k)' = RowsOf(k)
  BY <1>1, <1>3 DEF RowsOK, RowsOf
<1>5. StaleOK'
  BY <1>1, <1>4 DEF StaleOK, DialerRows
<1>6. CASE mBox' = "closed"
  BY <1>2, <1>4, <1>5, <1>6, ClosedStep
<1>7. CASE mBox = "running" /\ mBox' = "running"
  <2>1. \A i \in InTable : mObj'[i] = mObj[i]
    BY DEF TableKept
  <2>2. DialerIds \subseteq InTable /\ Ids("out") \subseteq InTable
    BY <1>1, IdsAre DEF ObjKind
  <2>3. ResolvedOK'
    <3> SUFFICES ASSUME NEW i \in InTable, i \notin mOver', NEW r \in mRes'[i]
                 PROVE  r \in DialerIds' /\ mObj'[r].tag \in mObj'[i].deps
      BY <1>2, <1>7 DEF ResolvedOK, TagOf
    <3>1. r \in DialerIds /\ TagOf(r) \in mObj[i].deps
      BY <1>7 DEF IInv, ResolvedOK
    <3> QED
      BY <1>2, <2>1, <2>2, <3>1 DEF TagOf
  <2>4. StartOK'
    BY <1>7 DEF StartOK
  <2>5. AgreeOK'
    <3> SUFFICES ASSUME ~ mLost', ~ mPending, NEW k \in ObjKind
                 PROVE  Recorded(k)' = RowsOf(k)' \cup Ahead(k)'
      BY DEF AgreeOK
    <3>2. Recorded(k) = RowsOf(k) \cup Ahead(k)
      BY <1>7 DEF IInv, AgreeOK
    <3> QED
      BY <1>2, <1>4, <3>2
  <2>6. OrderOK'
    <3> SUFFICES ASSUME ~ mLost, ~ mMoved PROVE SameOrder'
      BY <1>7 DEF OrderOK
    <3>1. SameOrder
      BY <1>7 DEF IInv, OrderOK
    <3>2. \A n \in DOMAIN mList["out"] : mObj'[mList["out"][n]] = mObj[mList["out"][n]]
      BY <2>1, <2>2 DEF Ids, ToSet
    <3> QED
      BY <1>3, <3>1, <3>2 DEF SameOrder, TagOf
  <2>7. DefaultOK'
    <3>1. /\ mFinal = "" =>
               /\ mDefault \in Ids("out") \cup {0}
               /\ mList["out"] # <<>> => mDefault # 0
               /\ ~ mLost => mList["out"] # <<>>
               /\ ~ mLost /\ ~ mMoved => mDefault = mList["out"][1]
          /\ mFinal # "" /\ ~ mLost => Lookup(mFinal) # {}
      BY <1>7 DEF IInv, DefaultOK, Opened
    <3> QED
      BY <1>2, <1>3, <1>7, <3>1 DEF DefaultOK, Opened
  <2> QED
    BY <1>2, <1>4, <1>5, <2>3, <2>4, <2>5, <2>6, <2>7
<1> QED
  BY <1>6, <1>7

-----------------------------------------------------------------------------
(* The record of the save under way.                                         *)

\* No record of one kind is one of another.
LEMMA OpKinds ==
  /\ NoOp.pc = "idle" /\ NoOp \notin SaveOp /\ NoOp \notin StartOp
  /\ \A op \in StartOp : op \notin SaveOp /\ op.pc \in {"initialize", "startOne"} /\ op.started \in SUBSET ObjId
  /\ \A op \in SaveOp : op \notin StartOp /\ op # NoOp /\ op.pc \in SaveStep
<1>1. NoOp.pc = "idle"
  BY DEF NoOp
<1>2. \A op \in StartOp : op.pc \in {"initialize", "startOne"} /\ op.started \in SUBSET ObjId
  BY DEF StartOp
<1>3. \A op \in SaveOp : op.pc \in SaveStep
  BY DEF SaveOp
<1>4. {"initialize", "startOne", "idle"} \cap SaveStep = {} /\ "idle" \notin {"initialize", "startOne"}
  BY DEF SaveStep
<1> QED
  BY <1>1, <1>2, <1>3, <1>4

\* The fields of such a record.
LEMMA OpFields ==
  ASSUME NEW op \in SaveOp
  PROVE  /\ op.do \in {"new", "edit", "del"} /\ op.kind \in ObjKind /\ op.row \in ObjSpec /\ op.spec \in ObjSpec
         /\ op.pc \in SaveStep /\ op.old \in ObjId \cup {0} /\ op.new \in ObjId \cup {0}
         /\ op.why \in {"put", "restore", "standIn"}
BY DEF SaveOp

SameOp ==
  /\ mOp' \in SaveOp /\ mOp'.do = mOp.do /\ mOp'.kind = mOp.kind /\ mOp'.row = mOp.row /\ mOp'.spec = mOp.spec
  /\ mOp'.old = mOp.old /\ mOp'.new = mOp.new /\ mOp'.why = mOp.why

\* A step that only moves on.
LEMMA PcStep ==
  ASSUME Saving, NEW pc \in SaveStep, mOp' = [mOp EXCEPT !.pc = pc]
  PROVE  SameOp /\ mOp'.pc = pc
<1>1. mOp \in SaveOp
  BY DEF Saving
<1>2. mOp' \in SaveOp
  BY <1>1 DEF SaveOp
<1> QED
  BY <1>1, <1>2 DEF SameOp, SaveOp

\* What is known of a save stays known while the tables and the rows stand.
LEMMA OpFrame ==
  ASSUME Types, Saving, TableKept, UNCHANGED <<mRows, mFinal, mMoved>>, SameOp, mObj'[mOp.new] = mObj[mOp.new]
  PROVE  /\ OpRow(mOp) => OpRow(mOp)'
         /\ (Retags(mOp) => mMoved) => (Retags(mOp) => mMoved)'
         /\ OpNew(mOp) => OpNew(mOp)'
         /\ OpOld(mOp) /\ (mOp.old = 0 \/ mOp.old \in Ids(mOp.kind)) => OpOld(mOp)'
         /\ OpRes(mOp) /\ mRes'[mOp.new] = mRes[mOp.new] /\ (mOp.new \in mOver => mOp.new \in mOver') => OpRes(mOp)'
         /\ OpIn(mOp) => OpIn(mOp)'
<1>1. /\ \A k : Ids(k)' = Ids(k)
      /\ InTable' = InTable /\ DialerIds' = DialerIds
      /\ \A k \in ObjKind : \A t : Holding(k, t)' = Holding(k, t)
      /\ \A t : Lookup(t)' = Lookup(t)
      /\ \A t : dependents(t)' = dependents(t)
  BY Kept
<1>2. \A i \in InTable : mObj'[i] = mObj[i]
  BY DEF TableKept
<1>3. mList' = mList /\ mRows' = mRows /\ mFinal' = mFinal
  BY DEF TableKept
<1>4. mOp.kind \in ObjKind /\ Ids(mOp.kind) \subseteq InTable /\ DialerIds \subseteq InTable
  BY OpFields, IdsAre DEF Saving
<1>5. /\ mOp'.do = mOp.do /\ mOp'.kind = mOp.kind /\ mOp'.row = mOp.row /\ mOp'.spec = mOp.spec
      /\ mOp'.old = mOp.old /\ mOp'.new = mOp.new /\ mOp'.why = mOp.why
  BY DEF SameOp
<1>6. ASSUME OpRow(mOp) PROVE OpRow(mOp)'
  BY <1>3, <1>5, <1>6 DEF OpRow, tagFreeAcross, RowsOf
<1>7. ASSUME OpNew(mOp) PROVE OpNew(mOp)'
  <2>1. mOp.old # 0 => mObj'[mOp.old] = mObj[mOp.old]
    BY <1>2, <1>4, <1>7 DEF OpNew, WhyOK
  <2>2. mRecipe' = mRecipe
    BY DEF TableKept
  <2> QED
    BY <1>1, <1>3, <1>5, <1>7, <2>1, <2>2 DEF OpNew, WhyOK, TagOf
<1>8. ASSUME OpOld(mOp), mOp.old = 0 \/ mOp.old \in Ids(mOp.kind) PROVE OpOld(mOp)'
  <2>1. mOp.old # 0 => mObj'[mOp.old] = mObj[mOp.old]
    BY <1>2, <1>4, <1>8
  <2>2. mOp.old # 0 => TagOf(mOp.old)' = TagOf(mOp.old)
    BY <1>5, <2>1 DEF TagOf
  <2> QED
    BY <1>1, <1>3, <1>4, <1>5, <1>8, <2>2 DEF OpOld, OldOK
<1>9. ASSUME OpRes(mOp), mRes'[mOp.new] = mRes[mOp.new], mOp.new \in mOver => mOp.new \in mOver' PROVE OpRes(mOp)'
  BY <1>1, <1>2, <1>4, <1>5, <1>9 DEF OpRes, TagOf
<1>10. ASSUME OpIn(mOp) PROVE OpIn(mOp)'
  BY <1>1, <1>5, <1>10 DEF OpIn, RenamesOutbound
<1>11. (Retags(mOp) => mMoved) => (Retags(mOp) => mMoved)'
  BY <1>5 DEF Retags
<1> QED
  BY <1>6, <1>7, <1>8, <1>9, <1>10, <1>11

-----------------------------------------------------------------------------
(* A component starts: nothing changes but its own entry and cleanup.        *)

\* The parts of the invariant, for a save that is under way.
LEMMA SavingFacts ==
  ASSUME IInv, mOp.pc \in SaveStep
  PROVE  /\ Saving /\ mOp \in SaveOp /\ mBox \in {"running", "closed"}
         /\ Types /\ RowsOK /\ ListsOK /\ OpRow(mOp) /\ (Retags(mOp) => mMoved)
         /\ mOp.pc # "removeOld" => OpNew(mOp) /\ OpOld(mOp)
         /\ mOp.pc \in {"started", "table"} => OpRes(mOp)
         /\ mOp.pc = "removeOld" => OpIn(mOp)
<1>1. Types /\ RowsOK /\ ListsOK /\ PhaseOK /\ OpOK
  BY DEF IInv
<1>2. mBox \in {"new", "starting", "running", "closed"}
  BY <1>1 DEF Types
<1>3. mOp # NoOp /\ mOp \notin StartOp
  BY OpKinds DEF SaveStep
<1>4. mBox \in {"running", "closed"} /\ Saving
  BY <1>1, <1>2, <1>3 DEF PhaseOK
<1> QED
  BY <1>1, <1>4 DEF OpOK, Saving

\* A step that only moves on has nothing to do with a rename that is half done.
LEMMA AheadKept ==
  ASSUME Saving, Saving', mOp.pc # "removeOld", mOp'.pc # "removeOld"
  PROVE  \A k \in ObjKind : Ahead(k)' = Ahead(k)
BY DEF Ahead

\* The start of a component enters it.
LEMMA EntryStep ==
  ASSUME IInv, mOp.pc = "entry", mBox = "running",
         mOpen' = mOpen \cup {mOp.new}, mOp' = [mOp EXCEPT !.pc = "run"],
         UNCHANGED <<mObj, mList, mRecipe, mHeld, mRes, mOver, mDefault, mLost, mRows, mPending, mStale, mFinal, mBox, mMoved>>
  PROVE  IInv'
<1>1. /\ Saving /\ mOp \in SaveOp /\ Types /\ RowsOK /\ ListsOK /\ OpRow(mOp) /\ OpNew(mOp) /\ OpOld(mOp)
      /\ (Retags(mOp) => mMoved)
  BY SavingFacts DEF SaveStep
<1>2. SameOp /\ mOp'.pc = "run" /\ Saving'
  BY <1>1, PcStep DEF SaveStep, SameOp, Saving
<1>3. TableKept
  BY DEF TableKept
<1>4. RowsOK' /\ ListsOK' /\ ResolvedOK' /\ StartOK' /\ AgreeOK' /\ OrderOK' /\ DefaultOK' /\ StaleOK'
  BY <1>1, <1>2, <1>3, AheadKept, QuietStep
<1>5. mOp.new \in ObjId
  BY <1>1 DEF OpNew
<1>6. Types'
  BY <1>1, <1>5 DEF Types
<1>7. PhaseOK'
  BY <1>2 DEF PhaseOK
<1>8. ScopesOK'
  <2>1. mOpen = InTable \ Gone /\ mHeld = mOpen
    BY <1>1 DEF IInv, ScopesOK, Entered, Unheld
  <2>2. Gone' = Gone /\ Entered' = {mOp.new} /\ Unheld' = {mOp.new} /\ InTable' = InTable
    BY <1>1, <1>2, <1>3, Kept DEF Gone, Entered, Unheld, SameOp
  <2> QED
    BY <2>1, <2>2 DEF ScopesOK
<1>9. OpOK'
  <2>1. OpRow(mOp)' /\ OpNew(mOp)' /\ OpOld(mOp)' /\ (Retags(mOp) => mMoved)'
    BY <1>1, <1>2, <1>3, OpFrame DEF OpNew, WhyOK
  <2> QED
    BY <1>2, <2>1 DEF OpOK
<1> QED
  BY <1>4, <1>6, <1>7, <1>8, <1>9 DEF IInv

\* component.Start: it succeeds, having resolved what it depends on, or fails.
LEMMA ComponentStartStep ==
  ASSUME IInv, ComponentStart
  PROVE  IInv'
<1>0. mOp.pc = "run" /\ UNCHANGED <<mRows, mObj, mList, mRecipe, mOpen, mDefault, mFinal, mBox, mPending, mLost, mMoved, mStale>>
  BY DEF ComponentStart
<1>1. /\ Saving /\ mOp \in SaveOp /\ Types /\ RowsOK /\ ListsOK /\ OpRow(mOp) /\ OpNew(mOp) /\ OpOld(mOp)
      /\ (Retags(mOp) => mMoved)
      /\ mBox \in {"running", "closed"}
  BY <1>0, SavingFacts DEF SaveStep
<1> DEFINE i == mOp.new
<1>2. TableKept
  BY <1>0 DEF TableKept
<1>3. i \in ObjId /\ i \notin InTable
  BY <1>1 DEF OpNew
<1> DEFINE found == UNION {Lookup(d) : d \in mObj[i].deps}
<1>4. \/ /\ PortFree(i) /\ Present(i)
         /\ mHeld' = mHeld \cup {i} /\ mOp' = [mOp EXCEPT !.pc = "started"]
         /\ mRes' = [mRes EXCEPT ![i] = found]
         /\ mOver' = mOver \cup {j \in {i} : mOp.old \in found}
      \/ /\ mHeld' \in {mHeld, mHeld \cup {i}}
         /\ mOp' = [mOp EXCEPT !.pc = "failed"] /\ UNCHANGED <<mRes, mOver>>
  BY DEF ComponentStart
<1>5. found \in SUBSET DialerIds /\ \A r \in found : TagOf(r) \in mObj[i].deps
  BY DEF Lookup, Holding, DialerIds, Ids
<1>6. DialerIds \subseteq ObjId
  BY <1>1, IdsAre
<1> HIDE DEF found
<1>7. PICK pc \in {"started", "failed"} : mOp' = [mOp EXCEPT !.pc = pc]
  BY <1>4
<1>8. SameOp /\ mOp'.pc = pc /\ Saving'
  BY <1>1, <1>7, PcStep DEF SaveStep, SameOp, Saving
<1>9. \A j \in InTable : mRes'[j] = mRes[j] /\ (j \in mOver => j \in mOver')
  <2> SUFFICES ASSUME NEW j \in InTable PROVE mRes'[j] = mRes[j] /\ (j \in mOver => j \in mOver')
    OBVIOUS
  <2>1. j # i /\ j \in ObjId /\ mRes \in [ObjId -> SUBSET ObjId]
    BY <1>1, <1>3, IdsAre DEF Types
  <2> QED
    BY <1>4, <2>1
<1>10. RowsOK' /\ ListsOK' /\ ResolvedOK' /\ StartOK' /\ AgreeOK' /\ OrderOK' /\ DefaultOK' /\ StaleOK'
  <2>1. \A k \in ObjKind : Ahead(k)' = Ahead(k)
    BY <1>0, <1>1, <1>8, AheadKept
  <2> QED
    BY <1>0, <1>1, <1>2, <1>9, <2>1, QuietStep
<1>11. mHeld' \in {mHeld, mHeld \cup {i}}
  BY <1>4
<1>12. Types'
  <2>1. mRes' \in [ObjId -> SUBSET ObjId] /\ mOver' \subseteq ObjId
    BY <1>1, <1>3, <1>4, <1>5, <1>6 DEF Types
  <2>2. mHeld' \subseteq ObjId
    BY <1>1, <1>3, <1>11 DEF Types
  <2> QED
    BY <1>0, <1>1, <2>1, <2>2 DEF Types
<1>13. PhaseOK'
  BY <1>0, <1>1, <1>8 DEF PhaseOK
<1>14. ScopesOK'
  <2>1. InTable' = InTable
    BY <1>1, <1>2, Kept
  <2>2. CASE mBox = "running"
    <3>1. mOpen = (InTable \ Gone) \cup {i} /\ mHeld \subseteq mOpen /\ mOpen \ mHeld \subseteq {i}
      BY <1>0, <1>1, <2>2 DEF IInv, ScopesOK, Entered, Unheld
    <3>2. Gone' = Gone /\ Entered' = {i}
      BY <1>0, <1>1, <1>8 DEF Gone, Entered, SameOp
    <3>3. pc = "failed" => Unheld' = {i}
      BY <1>8 DEF Unheld, SameOp
    <3>4. pc = "started" => mHeld' = mHeld \cup {i}
      <4>1. pc = "started" => mOp' # [mOp EXCEPT !.pc = "failed"]
        BY <1>8, <1>1, PcStep DEF SaveStep
      <4> QED
        BY <1>4, <4>1
    <3>5. mHeld' \subseteq mOpen' /\ mOpen' \ mHeld' \subseteq Unheld'
      BY <1>0, <1>11, <3>1, <3>3, <3>4
    <3> QED
      BY <1>0, <2>1, <2>2, <3>1, <3>2, <3>5 DEF ScopesOK
  <2>3. CASE mBox = "closed"
    <3>1. mOpen = {} /\ mHeld = {}
      BY <1>0, <2>3 DEF IInv, ScopesOK, Late
    <3>2. Late' = {i}
      BY <1>8 DEF Late, SameOp
    <3> QED
      BY <1>0, <1>11, <2>3, <3>1, <3>2 DEF ScopesOK
  <2> QED
    BY <1>1, <2>2, <2>3
<1>15. OpOK'
  <2>1. OpRow(mOp)' /\ OpNew(mOp)' /\ OpOld(mOp)' /\ (Retags(mOp) => mMoved)'
    <3>1. mObj'[mOp.new] = mObj[mOp.new] /\ (mOp.old = 0 \/ mOp.old \in Ids(mOp.kind))
      BY <1>0, <1>1 DEF OpNew, WhyOK
    <3> QED
      BY <1>0, <1>1, <1>2, <1>8, <3>1, OpFrame
  <2>2. CASE pc = "started"
    <3>0. mOp' # [mOp EXCEPT !.pc = "failed"]
      BY <1>8, <1>1, <2>2, PcStep DEF SaveStep
    <3>1. /\ Present(i) /\ mRes' = [mRes EXCEPT ![i] = found]
          /\ mOver' = mOver \cup {j \in {i} : mOp.old \in found}
      BY <1>4, <3>0
    <3>2. mRes'[i] = found /\ (i \notin mOver' => mOp.old \notin found)
      BY <1>1, <1>3, <3>1 DEF Types
    <3>3. \A d \in mObj[i].deps : Lookup(d) # {}
      BY <3>1 DEF Present
    <3>4. mOp'.new = i /\ mOp'.old = mOp.old /\ mObj' = mObj /\ DialerIds' = DialerIds
          /\ \A t : Lookup(t)' = Lookup(t)
      BY <1>0, <1>1, <1>2, <1>8, Kept DEF SameOp
    <3>5. OpRes(mOp)'
      BY <1>5, <3>2, <3>3, <3>4 DEF OpRes, TagOf
    <3> QED
      BY <1>8, <2>1, <2>2, <3>5 DEF OpOK
  <2>3. CASE pc = "failed"
    BY <1>8, <2>1, <2>3 DEF OpOK
  <2> QED
    BY <2>2, <2>3
<1> QED
  BY <1>10, <1>12, <1>13, <1>14, <1>15 DEF IInv

\* The end of a start: what a closed box left behind is closed, a failed start is
\* taken out of the scopes, and a component that runs may be put in the table.
LEMMA StartEndedStep ==
  ASSUME IInv, StartEnded
  PROVE  IInv'
<1>0. /\ mOp.pc \in {"started", "failed"}
      /\ UNCHANGED <<mRows, mObj, mList, mRecipe, mRes, mOver, mDefault, mFinal, mBox, mPending, mLost, mMoved, mStale>>
  BY DEF StartEnded
<1>1. /\ Saving /\ mOp \in SaveOp /\ Types /\ RowsOK /\ ListsOK /\ OpRow(mOp) /\ OpNew(mOp) /\ OpOld(mOp)
      /\ (Retags(mOp) => mMoved)
      /\ mBox \in {"running", "closed"}
  BY <1>0, SavingFacts DEF SaveStep
<1>2. mOp.pc = "started" => OpRes(mOp)
  BY <1>0, SavingFacts DEF SaveStep
<1> DEFINE i == mOp.new
<1>3. \/ /\ i \notin mOpen
         /\ mOp' = [mOp EXCEPT !.pc = "undo"] /\ mHeld' = mHeld \ {i} /\ mOpen' = mOpen
      \/ /\ i \in mOpen /\ mOp.pc = "failed" /\ mOp' = [mOp EXCEPT !.pc = "undo"]
         /\ mOpen' = mOpen \ {i} /\ mHeld' = mHeld \ ({i} \cap mOpen)
      \/ /\ i \in mOpen /\ mOp.pc = "started" /\ mOp' = [mOp EXCEPT !.pc = "table"]
         /\ mOpen' = mOpen /\ mHeld' = mHeld
  BY DEF StartEnded, detached
<1>4. TableKept
  BY <1>0 DEF TableKept
<1>5. PICK pc \in {"undo", "table"} : mOp' = [mOp EXCEPT !.pc = pc]
  BY <1>3
<1>6. SameOp /\ mOp'.pc = pc /\ Saving'
  BY <1>1, <1>5, PcStep DEF SaveStep, SameOp, Saving
<1>7. \/ pc = "undo" /\ i \notin mOpen /\ mHeld' = mHeld \ {i} /\ mOpen' = mOpen
      \/ pc = "undo" /\ i \in mOpen /\ mOpen' = mOpen \ {i} /\ mHeld' = mHeld \ {i}
      \/ pc = "table" /\ i \in mOpen /\ mOp.pc = "started" /\ mOpen' = mOpen /\ mHeld' = mHeld
  <2>1. ASSUME mOp' = [mOp EXCEPT !.pc = "undo"] PROVE pc = "undo"
    BY <1>1, <1>6, <2>1, PcStep DEF SaveStep
  <2>2. ASSUME mOp' = [mOp EXCEPT !.pc = "table"] PROVE pc = "table"
    BY <1>1, <1>6, <2>2, PcStep DEF SaveStep
  <2> QED
    BY <1>3, <2>1, <2>2
<1>8. RowsOK' /\ ListsOK' /\ ResolvedOK' /\ StartOK' /\ AgreeOK' /\ OrderOK' /\ DefaultOK' /\ StaleOK'
  <2>1. \A k \in ObjKind : Ahead(k)' = Ahead(k)
    BY <1>0, <1>1, <1>6, AheadKept
  <2> QED
    BY <1>0, <1>1, <1>4, <2>1, QuietStep
<1>9. Types'
  <2>1. mOpen' \subseteq ObjId /\ mHeld' \subseteq ObjId
    BY <1>1, <1>7 DEF Types
  <2> QED
    BY <1>0, <1>1, <2>1 DEF Types
<1>10. PhaseOK'
  BY <1>0, <1>1, <1>6 DEF PhaseOK
<1>11. ScopesOK'
  <2>1. InTable' = InTable
    BY <1>1, <1>4, Kept
  <2>2. CASE mBox = "running"
    <3>1. mOpen = (InTable \ Gone) \cup {i} /\ mHeld \subseteq mOpen /\ mOpen \ mHeld \subseteq Unheld
      BY <1>0, <1>1, <2>2 DEF IInv, ScopesOK, Entered
    <3>2. Gone' = Gone /\ (pc = "undo" => Entered' = {}) /\ (pc = "table" => Entered' = {i}) /\ Unheld' = {}
      BY <1>0, <1>1, <1>6 DEF Gone, Entered, Unheld, SameOp
    <3>3. Unheld \subseteq {i} /\ (mOp.pc = "started" => Unheld = {})
      BY <1>1 DEF Unheld
    <3>4. i \notin InTable
      BY <1>1 DEF OpNew
    <3>5. mHeld' \subseteq mOpen' /\ mOpen' \ mHeld' \subseteq Unheld' /\ mOpen' = (InTable \ Gone') \cup Entered'
      BY <1>7, <3>1, <3>2, <3>3, <3>4
    <3> QED
      BY <1>0, <2>1, <2>2, <3>5 DEF ScopesOK
  <2>3. CASE mBox = "closed"
    <3>1. mOpen = {} /\ mHeld \subseteq {i}
      BY <1>0, <1>1, <2>3 DEF IInv, ScopesOK, Late
    <3>2. mOpen' = {} /\ mHeld' = {}
      BY <1>7, <3>1
    <3> QED
      BY <1>0, <2>3, <3>2 DEF ScopesOK
  <2> QED
    BY <1>1, <2>2, <2>3
<1>12. OpOK'
  <2>1. /\ OpRow(mOp)' /\ OpNew(mOp)' /\ OpOld(mOp)' /\ (Retags(mOp) => mMoved)'
        /\ mOp.pc = "started" => OpRes(mOp)'
    BY <1>0, <1>1, <1>2, <1>4, <1>6, OpFrame DEF OpNew, WhyOK
  <2> QED
    BY <1>6, <1>7, <2>1 DEF OpOK
<1> QED
  BY <1>8, <1>9, <1>10, <1>11, <1>12 DEF IInv

\* The box is closed under whatever runs.
LEMMA CloseStep ==
  ASSUME IInv, Close
  PROVE  IInv'
<1>0. /\ mBox = "running" /\ mBox' = "closed" /\ mOpen' = {} /\ mHeld' = mHeld \ mOpen
      /\ UNCHANGED <<mRows, mObj, mList, mRecipe, mRes, mOver, mDefault, mFinal, mPending, mOp, mLost, mMoved, mStale>>
  BY DEF Close, BoxClose
<1>1. Types /\ ListsOK /\ PhaseOK /\ OpOK /\ ScopesOK
  BY DEF IInv
<1>2. TableKept
  BY <1>0 DEF TableKept
<1>3. RowsOK' /\ ListsOK' /\ ResolvedOK' /\ StartOK' /\ AgreeOK' /\ OrderOK' /\ DefaultOK' /\ StaleOK'
  <2>1. \A k \in ObjKind : Ahead(k)' = Ahead(k)
    BY <1>0 DEF Ahead, Saving
  <2> QED
    BY <1>0, <1>1, <1>2, <2>1, QuietStep
<1>4. Types'
  BY <1>0, <1>1 DEF Types
<1>5. PhaseOK'
  BY <1>0, <1>1 DEF PhaseOK, Saving
<1>6. ScopesOK'
  <2>1. mHeld' = {}
    BY <1>0, <1>1 DEF ScopesOK
  <2> QED
    BY <1>0, <2>1 DEF ScopesOK
<1>7. OpOK'
  <2> SUFFICES ASSUME Saving' PROVE OpOK'
    BY DEF OpOK
  <2>1. Saving /\ SameOp /\ mOp'.pc = mOp.pc
    BY <1>0 DEF Saving, SameOp
  <2>2. /\ OpRow(mOp) /\ (Retags(mOp) => mMoved)
        /\ mOp.pc # "removeOld" => OpNew(mOp) /\ OpOld(mOp)
        /\ mOp.pc \in {"started", "table"} => OpRes(mOp)
        /\ mOp.pc = "removeOld" => OpIn(mOp)
    BY <1>1, <2>1 DEF OpOK
  <2>3. /\ OpRow(mOp)' /\ (Retags(mOp) => mMoved)'
        /\ mOp.pc # "removeOld" => OpNew(mOp)' /\ OpOld(mOp)'
        /\ mOp.pc \in {"started", "table"} => OpRes(mOp)'
        /\ mOp.pc = "removeOld" => OpIn(mOp)'
    BY <1>0, <1>1, <1>2, <2>1, <2>2, OpFrame DEF OpNew, WhyOK
  <2> QED
    BY <2>1, <2>3 DEF OpOK
<1> QED
  BY <1>3, <1>4, <1>5, <1>6, <1>7 DEF IInv

-----------------------------------------------------------------------------
(* A component is built.                                                     *)

\* A set of numbers that is not empty has a least one.
LEMMA LeastNumber ==
  ASSUME NEW S, S \subseteq Nat, S # {}
  PROVE  \E n \in S : \A m \in S : n <= m
<1>1. IsWellFoundedOn(OpToRel(<, Nat), Nat)
  BY NatLessThanWellFounded
<1>2. PICK n \in S : \A m \in S : ~ (<<m, n>> \in OpToRel(<, Nat))
  BY <1>1, WFMin
<1>3. \A m \in S : ~ (m < n)
  BY <1>2 DEF OpToRel
<1> QED
  BY <1>3

\* What is built is nothing that is in use.
LEMMA FreshIs ==
  ASSUME HasRoom
  PROVE  FreshId \in ObjId /\ FreshId \notin Used /\ FreshId # 0
<1> DEFINE S == ObjId \ Used
<1>1. S # {} /\ S \subseteq Nat
  BY DEF HasRoom, ObjId
<1>2. \E n \in S : \A m \in S : n <= m
  BY <1>1, LeastNumber
<1>3. FreshId \in S
  BY <1>2 DEF FreshId
<1> QED
  BY <1>3 DEF ObjId

\* A component is built for a save that begins, or to bring one back.
LEMMA BuildStep ==
  ASSUME IInv, NEW op \in SaveOp, NEW spec \in ObjSpec \cup {Direct}, NEW old, NEW why \in {"put", "restore", "standIn"},
         \/ mBox = "running" /\ mOp = NoOp /\ why # "restore"
         \/ mOp.pc \in {"entry", "undo"} /\ mOp.old = old /\ mOp.why = "put" /\ why = "restore" /\ (mOp.pc = "entry" => mBox = "closed"),
         OpRow(op), WhyOK(op, spec, old, why), OldOK(op, old, why), Retags(op) => mMoved',
         Build(op, spec, old, why), mMoved => mMoved', mMoved' \in BOOLEAN,
         UNCHANGED <<mList, mRecipe, mDefault, mLost, mRows, mPending, mStale, mFinal, mBox>>
  PROVE  IInv'
<1>1. Types /\ RowsOK /\ ListsOK /\ PhaseOK /\ ScopesOK /\ mBox \in {"running", "closed"}
  BY SavingFacts DEF IInv, SaveStep
<1> DEFINE id == FreshId
<1>2. id \in ObjId /\ id \notin InTable /\ id # 0 /\ id \notin Used
  BY FreshIs DEF Build, Used, InTable
<1>3. old \in ObjId \cup {0} /\ old # id
  <2>1. op.kind \in ObjKind
    BY OpFields
  <2>2. Ids(op.kind) \subseteq ObjId /\ Ids(op.kind) \subseteq InTable
    BY <1>1, <2>1, IdsAre
  <2>3. old = 0 \/ old \in Ids(op.kind)
    BY DEF WhyOK
  <2> HIDE DEF id
  <2> QED
    BY <1>2, <2>2, <2>3
<1>4. /\ mObj' = [mObj EXCEPT ![id] = spec]
      /\ mRes' = [mRes EXCEPT ![id] = {}] /\ mOver' = mOver \ {id}
      /\ mOp' = [op EXCEPT !.pc = "entry", !.old = old, !.new = id, !.why = why]
      /\ mOpen' = IF why = "put" THEN mOpen \ {old} ELSE mOpen
      /\ mHeld' = IF why = "put" THEN mHeld \ ({old} \cap mOpen) ELSE mHeld
  BY DEF Build
<1> HIDE DEF id
<1>5. /\ mOp' \in SaveOp /\ mOp'.pc = "entry" /\ mOp'.old = old /\ mOp'.new = id /\ mOp'.why = why
      /\ mOp'.do = op.do /\ mOp'.kind = op.kind /\ mOp'.row = op.row /\ mOp'.spec = op.spec
  <2>1. id \in ObjId /\ old \in ObjId \cup {0}
    BY <1>2, <1>3
  <2> DEFINE b == [op EXCEPT !.pc = "entry", !.old = old, !.new = id, !.why = why]
  <2>2. /\ b \in SaveOp /\ b.pc = "entry" /\ b.old = old /\ b.new = id /\ b.why = why
        /\ b.do = op.do /\ b.kind = op.kind /\ b.row = op.row /\ b.spec = op.spec
    BY <2>1 DEF SaveOp, SaveStep
  <2>3. mOp' = b
    BY <1>4
  <2> HIDE DEF b
  <2> QED
    BY <2>2, <2>3
<1>6. InTable \subseteq ObjId
  BY <1>1, IdsAre
<1>7. TableKept
  BY <1>1, <1>2, <1>4, <1>6 DEF TableKept, Types
<1>8. RowsOK' /\ ListsOK' /\ ResolvedOK' /\ StartOK' /\ AgreeOK' /\ OrderOK' /\ DefaultOK' /\ StaleOK'
  <2>1. \A k \in ObjKind : Ahead(k)' = {}
    BY <1>5 DEF Ahead
  <2>2. \A k \in ObjKind : Ahead(k) = {}
    BY OpKinds DEF Ahead, Saving
  <2>3. \A i \in InTable : mRes'[i] = mRes[i] /\ (i \in mOver => i \in mOver')
    BY <1>1, <1>2, <1>4, <1>6 DEF Types
  <2> QED
    BY <1>1, <1>7, <2>1, <2>2, <2>3, QuietStep
<1>9. Types'
  <2>1. mObj' \in [ObjId -> ObjSpec \cup {Direct}] /\ mRes' \in [ObjId -> SUBSET ObjId] /\ mOver' \subseteq ObjId
    BY <1>1, <1>2, <1>4 DEF Types
  <2>2. mOpen' \subseteq ObjId /\ mHeld' \subseteq ObjId
    BY <1>1, <1>4 DEF Types
  <2>3. mMoved' \in BOOLEAN
    OBVIOUS
  <2> QED
    BY <1>1, <2>1, <2>2, <2>3 DEF Types
<1>10. PhaseOK'
  BY <1>1, <1>5 DEF PhaseOK, Saving
<1>11. ScopesOK'
  <2>1. InTable' = InTable
    BY <1>1, <1>7, Kept
  <2>2. Gone' = (IF why = "standIn" THEN {} ELSE {old}) /\ Entered' = {} /\ Unheld' = {} /\ Late' = {}
    BY <1>5 DEF Gone, Entered, Unheld, Late, Saving
  <2>3. CASE mBox = "running" /\ mOp = NoOp
    <3>1. mOpen = InTable /\ mHeld = InTable
      BY <1>1, <2>3, OpKinds DEF ScopesOK, Gone, Entered, Unheld, Saving
    <3>2. mOpen' = InTable \ Gone' /\ mHeld' = mOpen'
      BY <1>4, <2>2, <2>3, <3>1, OpKinds
    <3> QED
      BY <2>1, <2>2, <2>3, <3>2 DEF ScopesOK
  <2>4. CASE mBox = "running" /\ mOp # NoOp
    <3>1. mOp.pc = "undo" /\ mOp.old = old /\ mOp.why = "put" /\ why = "restore" /\ Saving
      BY <2>4, SavingFacts DEF SaveStep
    <3>2. mOpen = InTable \ {old} /\ mHeld = mOpen
      BY <1>1, <2>4, <3>1 DEF ScopesOK, Gone, Entered, Unheld
    <3> QED
      BY <1>4, <2>1, <2>2, <2>4, <3>1, <3>2 DEF ScopesOK
  <2>5. CASE mBox = "closed"
    <3>1. mOp.pc \in {"entry", "undo"} /\ why = "restore"
      BY <2>5
    <3>2. mOpen = {} /\ mHeld = {}
      BY <1>1, <2>5, <3>1 DEF ScopesOK, Late
    <3> QED
      BY <1>4, <2>5, <3>1, <3>2 DEF ScopesOK
  <2> QED
    BY <1>1, <2>3, <2>4, <2>5
<1>12. OpOK'
  <2>1. OpRow(mOp)' /\ (Retags(mOp) => mMoved)'
    BY <1>5 DEF OpRow, tagFreeAcross, RowsOf, Retags
  <2>2. /\ \A k : Ids(k)' = Ids(k)
        /\ InTable' = InTable
        /\ \A k \in ObjKind : \A t : Holding(k, t)' = Holding(k, t)
        /\ \A t : dependents(t)' = dependents(t)
    BY <1>1, <1>7, Kept
  <2>3. op.kind \in ObjKind
    BY OpFields
  <2>4. old # 0 => mObj'[old] = mObj[old]
    <3>1. old # 0 => old \in InTable
      BY <1>1, <2>3, IdsAre DEF WhyOK
    <3> QED
      BY <1>7, <3>1 DEF TableKept
  <2>5. mObj'[id] = spec
    BY <1>1, <1>2, <1>4 DEF Types
  <2>6. OpNew(mOp)'
    BY <1>2, <1>3, <1>5, <2>2, <2>4, <2>5 DEF OpNew, WhyOK, TagOf
  <2>7. old # 0 => mObj'[old].tag = mObj[old].tag
    BY <2>4
  <2>8. OpOld(mOp)'
    BY <1>5, <2>2, <2>3, <2>7 DEF OpOld, OldOK, TagOf
  <2> QED
    BY <1>5, <2>1, <2>6, <2>8 DEF OpOK
<1> QED
  BY <1>8, <1>9, <1>10, <1>11, <1>12 DEF IInv

-----------------------------------------------------------------------------
(* One list changes: what is recorded, resolved, found and the default.      *)

\* The recipes that go and come with a change of a list: what is put in has one.
RecipesMove(k, gone, came, put) ==
  /\ gone \subseteq Ids(k) /\ put \subseteq came /\ MovedTo(k, gone, came)
  /\ mRecipe'[k] = (mRecipe[k] \ {TagOf(g) : g \in gone}) \cup {TagOf(c) : c \in put}
  /\ \A i \in Ids(k) \ gone : \A c \in put : TagOf(i) # TagOf(c)
  /\ \A c \in came \ put : TagOf(c) \notin mRecipe'[k]

\* What is recorded of a list follows the recipes.
LEMMA RecordedMoves ==
  ASSUME Types, ListsOK, NEW k \in ObjKind, NEW gone, NEW came, NEW put, RecipesMove(k, gone, came, put)
  PROVE  /\ Recorded(k)' = (Recorded(k) \ {mObj[g] : g \in gone}) \cup {mObj[c] : c \in put}
         /\ \A j \in ObjKind \ {k} : Recorded(j)' = Recorded(j)
<1>0. /\ gone \subseteq Ids(k) /\ put \subseteq came /\ MovedTo(k, gone, came)
      /\ mRecipe'[k] = (mRecipe[k] \ {TagOf(g) : g \in gone}) \cup {TagOf(c) : c \in put}
      /\ \A i \in Ids(k) \ gone : \A c \in put : TagOf(i) # TagOf(c)
      /\ \A c \in came \ put : TagOf(c) \notin mRecipe'[k]
  BY DEF RecipesMove
<1>1. /\ mObj' = mObj /\ Ids(k)' = (Ids(k) \ gone) \cup came
      /\ \A j \in ObjKind \ {k} : Ids(j)' = Ids(j) /\ mRecipe'[j] = mRecipe[j]
  BY <1>0 DEF MovedTo
<1>2. \A i \in Ids(k), g \in gone : TagOf(i) = TagOf(g) => i = g
  BY <1>0, OnePerTag
<1>3. \A x : x \in Recorded(k)' <=> \E i \in Ids(k)' : TagOf(i) \in mRecipe'[k] /\ x = mObj[i]
  BY <1>1 DEF Recorded, TagOf
<1>4. \A x : x \in Recorded(k) <=> \E i \in Ids(k) : TagOf(i) \in mRecipe[k] /\ x = mObj[i]
  BY DEF Recorded
<1>5. ASSUME NEW x \in Recorded(k)' PROVE x \in (Recorded(k) \ {mObj[g] : g \in gone}) \cup {mObj[c] : c \in put}
  <2>1. PICK i \in Ids(k)' : TagOf(i) \in mRecipe'[k] /\ x = mObj[i]
    BY <1>3, <1>5
  <2>2. CASE i \in put
    BY <2>1, <2>2
  <2>3. CASE i \notin put
    <3>1. i \in Ids(k) \ gone
      BY <1>0, <1>1, <2>1, <2>3
    <3>2. TagOf(i) \in mRecipe[k]
      BY <1>0, <2>1, <3>1
    <3>3. x \in Recorded(k)
      BY <1>4, <2>1, <3>1, <3>2
    <3>4. \A g \in gone : x # mObj[g]
      BY <1>2, <2>1, <3>1 DEF TagOf
    <3> QED
      BY <3>3, <3>4
  <2> QED
    BY <2>2, <2>3
<1>6. ASSUME NEW x \in Recorded(k) \ {mObj[g] : g \in gone} PROVE x \in Recorded(k)'
  <2>1. PICK i \in Ids(k) : TagOf(i) \in mRecipe[k] /\ x = mObj[i]
    BY <1>4, <1>6
  <2>2. i \notin gone
    BY <1>6, <2>1
  <2>3. TagOf(i) \notin {TagOf(g) : g \in gone}
    BY <1>2, <2>2
  <2> QED
    BY <1>0, <1>1, <1>3, <2>1, <2>2, <2>3
<1>7. ASSUME NEW c \in put PROVE mObj[c] \in Recorded(k)'
  BY <1>0, <1>1, <1>3
<1>8. \A j \in ObjKind \ {k} : Recorded(j)' = Recorded(j)
  BY <1>1 DEF Recorded, TagOf
<1> QED
  BY <1>5, <1>6, <1>7, <1>8

\* What the running components resolved stays, when nothing depends on what goes.
LEMMA ResolvedMoves ==
  ASSUME Types, ListsOK, ResolvedOK, mBox = "running", UNCHANGED <<mBox, mRes, mOver>>,
         NEW k \in ObjKind, NEW gone, gone \subseteq Ids(k), NEW came, MovedTo(k, gone, came),
         k = "in" \/ \A g \in gone : dependents(TagOf(g)) = {},
         \A c \in came \ mOver : \A r \in mRes[c] : r \in DialerIds \ gone /\ TagOf(r) \in mObj[c].deps
  PROVE  ResolvedOK'
<1>1. mObj' = mObj
  BY DEF MovedTo
<1>2. InTable' = (InTable \ gone) \cup came /\ DialerIds \ gone \subseteq DialerIds'
  BY MovedExactly, MovedMeans
<1> SUFFICES ASSUME NEW i \in InTable' \ mOver, NEW r \in mRes[i]
             PROVE  r \in DialerIds' /\ TagOf(r) \in mObj[i].deps
  BY <1>1 DEF ResolvedOK, TagOf
<1>3. CASE i \in came
  BY <1>2, <1>3
<1>4. CASE i \notin came
  <2>1. i \in InTable \ gone
    BY <1>2, <1>4
  <2>2. r \in DialerIds /\ TagOf(r) \in mObj[i].deps
    BY <2>1 DEF ResolvedOK
  <2>3. r \notin gone
    <3> SUFFICES ASSUME r \in gone PROVE FALSE
      OBVIOUS
    <3>1. k # "in"
      BY <2>2, ListsApart DEF DialerIds, ObjKind
    <3>2. i \notin Ids("in")
      <4>1. i \in Ids("in") => mObj[i].kind = "in"
        BY DEF ListsOK, ObjKind
      <4>2. mObj[i] \in ObjSpec \cup {Direct}
        BY <2>1, IdsAre DEF Types
      <4>3. mObj[i].kind = "in" => mObj[i].deps = {}
        BY <4>2, SpecIs
      <4> QED
        BY <2>2, <4>1, <4>3
    <3>3. i \in DialerIds
      BY <2>1, <3>2, IdsAre DEF DialerIds
    <3>4. i \in dependents(TagOf(r))
      BY <2>2, <3>3 DEF dependents, DialerIds, Ids
    <3> QED
      BY <3>1, <3>4
  <2> QED
    BY <1>2, <2>2, <2>3
<1> QED
  BY <1>3, <1>4

\* Something is found under a tag when an outbound or an endpoint has it.
LEMMA LookupIs ==
  /\ \A t : Lookup(t) # {} <=> \E i \in DialerIds : TagOf(i) = t
  /\ \A t : \A i \in Lookup(t) : i \in DialerIds /\ TagOf(i) = t
BY DEF Lookup, Holding, DialerIds, Ids

LEMMA LookupIsNext ==
  \A t : Lookup(t)' # {} <=> \E i \in DialerIds' : mObj'[i].tag = t
BY DEF Lookup, Holding, DialerIds, Ids, TagOf

\* What was found under a tag still is, or something else is.
Covered(k, gone, came, t) == k # "in" => \A g \in gone : TagOf(g) = t => \E c \in came : TagOf(c) = t
LEMMA LookupMoves ==
  ASSUME Types, ListsOK, NEW k \in ObjKind, NEW gone, gone \subseteq Ids(k), NEW came, MovedTo(k, gone, came),
         NEW t, Lookup(t) # {}, Covered(k, gone, came, t)
  PROVE  Lookup(t)' # {}
<1>1. mObj' = mObj
  BY DEF MovedTo
<1>2. PICK i \in DialerIds : TagOf(i) = t
  BY LookupIs
<1>3. CASE k = "in"
  <2>1. DialerIds' = DialerIds
    BY <1>3, MovedExactly
  <2> QED
    BY <1>1, <1>2, <2>1, LookupIsNext DEF TagOf
<1>4. CASE k # "in"
  <2>1. DialerIds' = (DialerIds \ gone) \cup came
    BY <1>4, MovedExactly
  <2>2. \E j \in DialerIds' : TagOf(j) = t
    BY <1>2, <1>4, <2>1 DEF Covered
  <2> QED
    BY <1>1, <2>2, LookupIsNext DEF TagOf
<1> QED
  BY <1>3, <1>4

\* What DefaultOK says of a box that runs.
LEMMA DefaultIs ==
  ASSUME mBox = "running"
  PROVE  DefaultOK <=>
           /\ mFinal = "" =>
                /\ mDefault \in Ids("out") \cup {0}
                /\ mList["out"] # <<>> => mDefault # 0
                /\ ~ mLost => mList["out"] # <<>>
                /\ ~ mLost /\ ~ mMoved => mDefault = mList["out"][1]
           /\ mFinal # "" /\ ~ mLost => Lookup(mFinal) # {}
BY DEF DefaultOK, Opened

LEMMA DefaultIsNext ==
  ASSUME mBox' = "running",
         mFinal' = "" =>
                /\ mDefault' \in Ids("out")' \cup {0}
                /\ mList'["out"] # <<>> => mDefault' # 0
                /\ ~ mLost' => mList'["out"] # <<>>
                /\ ~ mLost' /\ ~ mMoved' => mDefault' = mList'["out"][1],
         mFinal' # "" /\ ~ mLost' => Lookup(mFinal)' # {}
  PROVE  DefaultOK'
BY DEF DefaultOK, Opened

\* A list is empty when it has no first position.
LEMMA NoneInSeq ==
  ASSUME NEW S, NEW s \in Seq(S)
  PROVE  /\ Len(s) \in Nat /\ DOMAIN s = 1 .. Len(s)
         /\ s = <<>> <=> Len(s) = 0
         /\ s # <<>> => 1 \in DOMAIN s /\ s[1] \in ToSet(s) /\ s[1] \in S
         /\ s = <<>> => ToSet(s) = {}
<1>1. Len(s) \in Nat /\ DOMAIN s = 1 .. Len(s) /\ (s = <<>> <=> Len(s) = 0)
  OBVIOUS
<1>2. s # <<>> => 1 \in DOMAIN s /\ s[1] \in S
  BY <1>1
<1>3. s # <<>> => s[1] \in ToSet(s)
  BY <1>2 DEF ToSet
<1>4. s = <<>> => ToSet(s) = {}
  BY <1>1 DEF ToSet
<1> QED
  BY <1>1, <1>2, <1>3, <1>4

LEMMA NotZero == 0 \notin ObjId
BY DEF ObjId

\* The first of a list with one more, and with one taken out.
LEMMA FirstAppended ==
  ASSUME NEW S, NEW s \in Seq(S), NEW new \in S
  PROVE  /\ Append(s, new) # <<>>
         /\ s # <<>> => Append(s, new)[1] = s[1]
         /\ s = <<>> => Append(s, new)[1] = new
<1> DEFINE w == Append(s, new)
<1>1. Len(w) = Len(s) + 1 /\ (\A n \in 1 .. Len(s) : w[n] = s[n]) /\ w[Len(s) + 1] = new /\ w \in Seq(S)
  BY AppendSeq
<1>2. Len(s) \in Nat /\ (s = <<>> <=> Len(s) = 0)
  BY NoneInSeq
<1>3. w = <<>> <=> Len(w) = 0
  BY <1>1, NoneInSeq
<1> HIDE DEF w
<1>4. w # <<>>
  BY <1>1, <1>2, <1>3
<1>5. s # <<>> => w[1] = s[1]
  BY <1>1, <1>2
<1>6. s = <<>> => w[1] = new
  BY <1>1, <1>2
<1> QED
  BY <1>4, <1>5, <1>6 DEF w

LEMMA FirstTaken ==
  ASSUME NEW S, NEW s \in Seq(S), NEW p \in DOMAIN s
  PROVE  /\ WithoutAt(s, p) = <<>> => s = <<s[p]>>
         /\ WithoutAt(s, p) # <<>> /\ s[1] # s[p] => WithoutAt(s, p)[1] = s[1]
<1> DEFINE w == WithoutAt(s, p)
<1>1. w \in Seq(S) /\ Len(w) = Len(s) - 1 /\ \A m \in 1 .. Len(s) - 1 : w[m] = IF m < p THEN s[m] ELSE s[m + 1]
  BY WithoutAtIs
<1>2. Len(s) \in Nat /\ p \in 1 .. Len(s)
  BY NoneInSeq
<1> HIDE DEF w
<1>3. w = <<>> <=> Len(w) = 0
  BY <1>1, NoneInSeq
<1>4. w = <<>> => Len(s) = 1 /\ p = 1
  BY <1>1, <1>2, <1>3
<1>5. w = <<>> => s = <<s[p]>>
  BY <1>4
<1>6. w # <<>> => 1 \in 1 .. Len(s) - 1
  BY <1>1, <1>2, <1>3
<1>7. w # <<>> /\ s[1] # s[p] => w[1] = s[1]
  BY <1>1, <1>2, <1>6
<1> QED
  BY <1>5, <1>7 DEF w

\* The default follows a replacement.
LEMMA DefaultSwap ==
  ASSUME Types, ListsOK, DefaultOK, mBox = "running", UNCHANGED <<mBox, mFinal, mLost>>, mMoved => mMoved',
         NEW k \in ObjKind, NEW old \in Ids(k), NEW new \in ObjId, MovedTo(k, {old}, {new}), SwappedAt(k, old, new),
         mDefault' = IF k = "out" THEN DefaultReplaced(old, new) ELSE mDefault,
         mFinal # "" /\ k # "in" /\ TagOf(old) = mFinal => TagOf(new) = mFinal
  PROVE  DefaultOK' /\ mDefault' \in ObjId \cup {0}
<1>1. /\ mFinal = "" =>
           /\ mDefault \in Ids("out") \cup {0}
           /\ mList["out"] # <<>> => mDefault # 0
           /\ ~ mLost => mList["out"] # <<>>
           /\ ~ mLost /\ ~ mMoved => mDefault = mList["out"][1]
      /\ mFinal # "" /\ ~ mLost => Lookup(mFinal) # {}
  BY DefaultIs
<1>2. mFinal' # "" /\ ~ mLost' => Lookup(mFinal)' # {}
  <2> SUFFICES ASSUME mFinal # "", ~ mLost PROVE Lookup(mFinal)' # {}
    OBVIOUS
  <2>1. Lookup(mFinal) # {} /\ {old} \subseteq Ids(k)
    BY <1>1
  <2>2. Covered(k, {old}, {new}, mFinal)
    BY DEF Covered
  <2>3. \A t : Lookup(t) # {} /\ Covered(k, {old}, {new}, t) => Lookup(t)' # {}
    BY <2>1, LookupMoves
  <2>4. mFinal' = mFinal
    OBVIOUS
  <2> QED
    BY <2>1, <2>2, <2>3, <2>4, LookupIsNext
<1>3. mDefault' \in ObjId \cup {0}
  BY DEF Types, DefaultReplaced
<1>4. CASE k # "out"
  <2>1. mList'["out"] = mList["out"] /\ Ids("out")' = Ids("out") /\ mDefault' = mDefault
    BY <1>4 DEF MovedTo, ObjKind
  <2> QED
    BY <1>1, <1>2, <1>3, <2>1, DefaultIsNext
<1>5. CASE k = "out"
  <2>1. Ids("out")' = (Ids("out") \ {old}) \cup {new} /\ mList' \in [ObjKind -> Seq(ObjId)]
    BY <1>5 DEF MovedTo
  <2>2. mDefault' = (IF mDefault = old THEN new ELSE mDefault) /\ new # 0
    BY <1>5, NotZero DEF DefaultReplaced
  <2> DEFINE s == mList["out"]
             w == mList'["out"]
  <2>3. s \in Seq(ObjId) /\ w \in Seq(ObjId)
    BY <2>1 DEF Types, ObjKind
  <2>4. w = <<>> <=> s = <<>>
    <3>1. Len(w) = Len(s)
      BY <1>5 DEF SwappedAt
    <3> QED
      BY <2>3, <3>1, NoneInSeq
  <2>5. s # <<>> => w[1] = IF s[1] = old THEN new ELSE s[1]
    <3>1. s # <<>> => 1 \in DOMAIN s
      BY <2>3, NoneInSeq
    <3> QED
      BY <1>5, <3>1 DEF SwappedAt
  <2> HIDE DEF s, w
  <2>6. mFinal' = "" =>
          /\ mDefault' \in Ids("out")' \cup {0}
          /\ w # <<>> => mDefault' # 0
          /\ ~ mLost' => w # <<>>
          /\ ~ mLost' /\ ~ mMoved' => mDefault' = w[1]
    <3> SUFFICES ASSUME mFinal = ""
                 PROVE /\ mDefault' \in Ids("out")' \cup {0}
                       /\ w # <<>> => mDefault' # 0
                       /\ ~ mLost' => w # <<>>
                       /\ ~ mLost' /\ ~ mMoved' => mDefault' = w[1]
      OBVIOUS
    <3>1. /\ mDefault \in Ids("out") \cup {0} /\ (s # <<>> => mDefault # 0) /\ (~ mLost => s # <<>>)
          /\ ~ mLost /\ ~ mMoved => mDefault = s[1]
      BY <1>1 DEF s
    <3>2. mDefault' \in Ids("out")' \cup {0} /\ (w # <<>> => mDefault' # 0)
      BY <2>1, <2>2, <2>4, <3>1
    <3>3. ~ mLost' => w # <<>>
      BY <2>4, <3>1
    <3>4. ~ mLost' /\ ~ mMoved' => mDefault' = w[1]
      <4> SUFFICES ASSUME ~ mLost, ~ mMoved PROVE mDefault' = w[1]
        OBVIOUS
      <4>1. mDefault = s[1] /\ w[1] = IF s[1] = old THEN new ELSE s[1]
        BY <2>5, <3>1
      <4>2. CASE mDefault = old
        BY <2>2, <4>1, <4>2
      <4>3. CASE mDefault # old
        BY <2>2, <4>1, <4>3
      <4> QED
        BY <4>2, <4>3
    <3> QED
      BY <3>2, <3>3, <3>4
  <2> QED
    BY <1>2, <1>3, <2>6, DefaultIsNext DEF w
<1> QED
  BY <1>4, <1>5

\* A new outbound becomes the default when there was none.
LEMMA DefaultAdd ==
  ASSUME Types, ListsOK, DefaultOK, mBox = "running", UNCHANGED <<mBox, mFinal, mLost>>, mMoved => mMoved',
         NEW k \in ObjKind, NEW new \in ObjId, MovedTo(k, {}, {new}), mList'[k] = Append(mList[k], new),
         mDefault' = IF k = "out" /\ (TagOf(new) = mFinal \/ (mFinal = "" /\ mDefault = 0)) THEN new ELSE mDefault
  PROVE  DefaultOK' /\ mDefault' \in ObjId \cup {0}
<1>1. /\ mFinal = "" =>
           /\ mDefault \in Ids("out") \cup {0}
           /\ mList["out"] # <<>> => mDefault # 0
           /\ ~ mLost => mList["out"] # <<>>
           /\ ~ mLost /\ ~ mMoved => mDefault = mList["out"][1]
      /\ mFinal # "" /\ ~ mLost => Lookup(mFinal) # {}
  BY DefaultIs
<1>2. mFinal' # "" /\ ~ mLost' => Lookup(mFinal)' # {}
  <2> SUFFICES ASSUME mFinal # "", ~ mLost PROVE Lookup(mFinal)' # {}
    OBVIOUS
  <2>1. Lookup(mFinal) # {} /\ {} \subseteq Ids(k)
    BY <1>1
  <2>2. \A t : Covered(k, {}, {new}, t)
    BY DEF Covered
  <2>3. \A t : Lookup(t) # {} => Lookup(t)' # {}
    BY <2>1, <2>2, LookupMoves
  <2>4. mFinal' = mFinal
    OBVIOUS
  <2> QED
    BY <2>1, <2>3, <2>4, LookupIsNext
<1>3. mDefault' \in ObjId \cup {0}
  BY DEF Types
<1>4. CASE k # "out"
  <2>1. mList'["out"] = mList["out"] /\ Ids("out")' = Ids("out") /\ mDefault' = mDefault
    BY <1>4 DEF MovedTo, ObjKind
  <2> QED
    BY <1>1, <1>2, <1>3, <2>1, DefaultIsNext
<1>5. CASE k = "out"
  <2>1. Ids("out")' = Ids("out") \cup {new} /\ mList' \in [ObjKind -> Seq(ObjId)]
    BY <1>5 DEF MovedTo
  <2>2. mFinal = "" => mDefault' = IF mDefault = 0 THEN new ELSE mDefault
    <3>1. mObj[new] \in ObjSpec \cup {Direct}
      BY DEF Types
    <3>2. TagOf(new) # ""
      BY <3>1, SpecIs DEF TagOf
    <3> QED
      BY <1>5, <3>2
  <2>3. new # 0
    BY NotZero
  <2> DEFINE s == mList["out"]
             w == mList'["out"]
  <2>4. s \in Seq(ObjId) /\ w = Append(s, new)
    BY <1>5 DEF Types, ObjKind
  <2>5. w # <<>> /\ (s # <<>> => w[1] = s[1]) /\ (s = <<>> => w[1] = new)
    <3> HIDE DEF s, w
    <3> QED
      BY <2>4, FirstAppended
  <2>6. mDefault \in Ids("out") => s # <<>>
    BY <2>4, NoneInSeq DEF Ids
  <2> HIDE DEF s, w
  <2>7. mFinal' = "" =>
          /\ mDefault' \in Ids("out")' \cup {0}
          /\ w # <<>> => mDefault' # 0
          /\ ~ mLost' => w # <<>>
          /\ ~ mLost' /\ ~ mMoved' => mDefault' = w[1]
    <3> SUFFICES ASSUME mFinal = ""
                 PROVE /\ mDefault' \in Ids("out")' \cup {0}
                       /\ w # <<>> => mDefault' # 0
                       /\ ~ mLost' => w # <<>>
                       /\ ~ mLost' /\ ~ mMoved' => mDefault' = w[1]
      OBVIOUS
    <3>1. /\ mDefault \in Ids("out") \cup {0} /\ (s # <<>> => mDefault # 0) /\ (~ mLost => s # <<>>)
          /\ ~ mLost /\ ~ mMoved => mDefault = s[1]
      BY <1>1 DEF s
    <3>2. mDefault' \in Ids("out")' \cup {0} /\ (w # <<>> => mDefault' # 0)
      BY <2>1, <2>2, <2>3, <3>1
    <3>4. ~ mLost' /\ ~ mMoved' => mDefault' = w[1]
      BY <2>2, <2>5, <2>6, <3>1
    <3> QED
      BY <2>5, <3>2, <3>4
  <2> QED
    BY <1>2, <1>3, <2>7, DefaultIsNext DEF w
<1> QED
  BY <1>4, <1>5

\* A default that is dropped falls to the first outbound left.
LEMMA DefaultDrop ==
  ASSUME Types, ListsOK, DefaultOK, mBox = "running", UNCHANGED <<mBox, mFinal>>, mLost => mLost', mMoved => mMoved',
         NEW k \in ObjKind, NEW it \in Ids(k), MovedTo(k, {it}, {}), mList'[k] = Without(mList[k], it),
         mDefault' = IF k = "out" THEN DefaultDropped(it, Without(mList["out"], it)) ELSE mDefault,
         ~ mLost' /\ k # "in" => TagOf(it) # mFinal,
         ~ mLost' /\ mFinal = "" /\ k = "out" => mList["out"] # <<it>>
  PROVE  DefaultOK' /\ mDefault' \in ObjId \cup {0}
<1>1. /\ mFinal = "" =>
           /\ mDefault \in Ids("out") \cup {0}
           /\ mList["out"] # <<>> => mDefault # 0
           /\ ~ mLost => mList["out"] # <<>>
           /\ ~ mLost /\ ~ mMoved => mDefault = mList["out"][1]
      /\ mFinal # "" /\ ~ mLost => Lookup(mFinal) # {}
  BY DefaultIs
<1>2. mFinal' # "" /\ ~ mLost' => Lookup(mFinal)' # {}
  <2> SUFFICES ASSUME mFinal # "", ~ mLost' PROVE Lookup(mFinal)' # {}
    OBVIOUS
  <2>1. Lookup(mFinal) # {} /\ {it} \subseteq Ids(k)
    BY <1>1
  <2>2. Covered(k, {it}, {}, mFinal)
    BY DEF Covered
  <2>3. \A t : Lookup(t) # {} /\ Covered(k, {it}, {}, t) => Lookup(t)' # {}
    BY <2>1, LookupMoves
  <2>4. mFinal' = mFinal
    OBVIOUS
  <2> QED
    BY <2>1, <2>2, <2>3, <2>4, LookupIsNext
<1>4. CASE k # "out"
  <2>1. mList'["out"] = mList["out"] /\ Ids("out")' = Ids("out") /\ mDefault' = mDefault
    BY <1>4 DEF MovedTo, ObjKind
  <2> QED
    BY <1>1, <1>2, <2>1, DefaultIsNext DEF Types
<1>5. CASE k = "out"
  <2> DEFINE s == mList["out"]
             w == mList'["out"]
  <2>1. Ids("out")' = Ids("out") \ {it} /\ s \in Seq(ObjId) /\ w \in Seq(ObjId)
    BY <1>5 DEF MovedTo, Types, ObjKind
  <2>2. mDefault' = IF mDefault # it THEN mDefault ELSE IF w # <<>> THEN w[1] ELSE 0
    BY <1>5 DEF DefaultDropped
  <2>3. w # <<>> => w[1] \in Ids("out")' /\ w[1] \in ObjId /\ w[1] # 0
    <3>1. w # <<>> => w[1] \in ToSet(w) /\ w[1] \in ObjId
      BY <2>1, NoneInSeq
    <3>2. Ids("out")' = ToSet(w)
      BY DEF Ids
    <3> QED
      BY <3>1, <3>2, NotZero
  <2>4. PICK p \in DOMAIN s : s[p] = it
    BY <1>5, MemberOf DEF Ids
  <2>5. w = WithoutAt(s, p)
    BY <1>5, <2>1, <2>4, OnceInList, WithoutIs
  <2> HIDE DEF s, w
  <2>8. w = <<>> => s = <<it>>
    BY <2>1, <2>4, <2>5, FirstTaken
  <2>9. w # <<>> /\ s[1] # it => w[1] = s[1]
    BY <2>1, <2>4, <2>5, FirstTaken
  <2>10. mDefault \in ObjId \cup {0} /\ it \in ObjId /\ it # 0
    BY <1>5, IdsAre, NotZero DEF Types
  <2>11. mFinal' = "" =>
          /\ mDefault' \in Ids("out")' \cup {0}
          /\ w # <<>> => mDefault' # 0
          /\ ~ mLost' => w # <<>>
          /\ ~ mLost' /\ ~ mMoved' => mDefault' = w[1]
    <3> SUFFICES ASSUME mFinal = ""
                 PROVE /\ mDefault' \in Ids("out")' \cup {0}
                       /\ w # <<>> => mDefault' # 0
                       /\ ~ mLost' => w # <<>>
                       /\ ~ mLost' /\ ~ mMoved' => mDefault' = w[1]
      OBVIOUS
    <3>1. s # <<>> => mDefault # 0
      BY <1>1 DEF s
    <3>2. s = <<>> => it \notin Ids("out")
      BY <2>1, NoneInSeq DEF Ids, s
    <3>3. ~ mLost' => w # <<>>
      BY <1>5, <2>8 DEF s
    <3>4. ~ mLost' /\ ~ mMoved' => mDefault = s[1]
      BY <1>1 DEF s
    <3> QED
      BY <1>1, <1>5, <2>1, <2>2, <2>3, <2>9, <3>1, <3>2, <3>3, <3>4
  <2>12. mDefault' \in ObjId \cup {0}
    BY <2>2, <2>3, <2>10
  <2> QED
    BY <1>2, <2>11, <2>12, DefaultIsNext DEF w
<1> QED
  BY <1>4, <1>5

-----------------------------------------------------------------------------
(* What can start still can, with a row more, a row less, or a row changed.  *)

TagsIn(S) == {s.tag : s \in S}

LEMMA StartableIs ==
  ASSUME NEW S
  PROVE  Startable(S) <=>
           /\ \A s \in S : s.deps \subseteq TagsIn(S)
           /\ \A T \in SUBSET TagsIn(S) : T # {} => \E t \in T : \A s \in S : s.tag = t => s.deps \cap T = {}
BY DEF Startable, TagsIn

\* A row that others do not depend on is taken out.
LEMMA StartableLess ==
  ASSUME NEW S, Startable(S), NEW r, \A s \in S \ {r} : s.tag # r.tag /\ r.tag \notin s.deps
  PROVE  Startable(S \ {r})
<1> DEFINE W == S \ {r}
<1>1. /\ \A s \in S : s.deps \subseteq TagsIn(S)
      /\ \A T \in SUBSET TagsIn(S) : T # {} => \E t \in T : \A s \in S : s.tag = t => s.deps \cap T = {}
  BY StartableIs
<1>2. TagsIn(W) \subseteq TagsIn(S) /\ \A t \in TagsIn(S) : t # r.tag => t \in TagsIn(W)
  BY DEF TagsIn
<1>3. \A s \in W : s.deps \subseteq TagsIn(W)
  <2> SUFFICES ASSUME NEW s \in W, NEW d \in s.deps PROVE d \in TagsIn(W)
    OBVIOUS
  <2>1. d \in TagsIn(S) /\ d # r.tag
    BY <1>1
  <2> QED
    BY <1>2, <2>1
<1>4. ASSUME NEW T \in SUBSET TagsIn(W), T # {} PROVE \E t \in T : \A s \in W : s.tag = t => s.deps \cap T = {}
  <2>1. T \in SUBSET TagsIn(S)
    BY <1>2
  <2> QED
    BY <1>1, <1>4, <2>1
<1> HIDE DEF W
<1>5. Startable(W)
  BY <1>3, <1>4, StartableIs
<1> QED
  BY <1>5 DEF W

\* A row under a tag of its own that depends on what is there.
LEMMA StartableMore ==
  ASSUME NEW S, Startable(S), NEW n, n.tag \notin TagsIn(S), n.deps \subseteq TagsIn(S)
  PROVE  Startable(S \cup {n})
<1> DEFINE W == S \cup {n}
<1>1. /\ \A s \in S : s.deps \subseteq TagsIn(S)
      /\ \A T \in SUBSET TagsIn(S) : T # {} => \E t \in T : \A s \in S : s.tag = t => s.deps \cap T = {}
  BY StartableIs
<1>2. TagsIn(W) = TagsIn(S) \cup {n.tag}
  BY DEF TagsIn
<1>3. \A s \in W : s.deps \subseteq TagsIn(W)
  BY <1>1, <1>2
<1>4. ASSUME NEW T \in SUBSET TagsIn(W), T # {} PROVE \E t \in T : \A s \in W : s.tag = t => s.deps \cap T = {}
  <2>1. \A s \in S : s.tag # n.tag
    BY DEF TagsIn
  <2>2. CASE T \cap TagsIn(S) = {}
    <3>1. n.tag \in T /\ n.deps \cap T = {}
      BY <1>2, <1>4, <2>2
    <3> QED
      BY <2>1, <3>1
  <2>3. CASE T \cap TagsIn(S) # {}
    <3> DEFINE U == T \cap TagsIn(S)
    <3>1. PICK t \in U : \A s \in S : s.tag = t => s.deps \cap U = {}
      BY <1>1, <2>3
    <3>2. \A s \in W : s.tag = t => s \in S
      BY <2>1, <3>1
    <3>3. \A s \in S : s.deps \cap T = s.deps \cap U
      BY <1>1
    <3> QED
      BY <3>1, <3>2, <3>3
  <2> QED
    BY <2>2, <2>3
<1> HIDE DEF W
<1>5. Startable(W)
  BY <1>3, <1>4, StartableIs
<1> QED
  BY <1>5 DEF W

\* A row changed under its tag, the tags that lead from its dependencies not
\* holding that tag.
LEMMA StartableVia ==
  ASSUME NEW S, Startable(S), NEW r \in S, NEW n, n.tag = r.tag, \A s \in S \ {r} : s.tag # r.tag,
         NEW R, R \subseteq TagsIn(S), n.deps \subseteq R, n.tag \notin R, \A s \in S : s.tag \in R => s.deps \subseteq R
  PROVE  Startable((S \ {r}) \cup {n})
<1> DEFINE W == (S \ {r}) \cup {n}
<1>1. /\ \A s \in S : s.deps \subseteq TagsIn(S)
      /\ \A T \in SUBSET TagsIn(S) : T # {} => \E t \in T : \A s \in S : s.tag = t => s.deps \cap T = {}
  BY StartableIs
<1>2. TagsIn(W) = TagsIn(S)
  BY DEF TagsIn
<1>3. \A s \in W : s.deps \subseteq TagsIn(W)
  BY <1>1, <1>2
<1>4. ASSUME NEW T \in SUBSET TagsIn(W), T # {} PROVE \E t \in T : \A s \in W : s.tag = t => s.deps \cap T = {}
  <2>1. CASE T \cap R # {}
    <3> DEFINE U == T \cap R
    <3>1. PICK t \in U : \A s \in S : s.tag = t => s.deps \cap U = {}
      BY <1>1, <2>1
    <3>2. \A s \in W : s.tag = t => s \in S
      BY <3>1
    <3>3. \A s \in S : s.tag = t => s.deps \cap T = s.deps \cap U
      BY <3>1
    <3> QED
      BY <3>1, <3>2, <3>3
  <2>2. CASE T \cap R = {} /\ n.tag \in T
    <3>1. \A s \in W : s.tag = n.tag => s = n
      OBVIOUS
    <3> QED
      BY <2>2, <3>1
  <2>3. CASE T \cap R = {} /\ n.tag \notin T
    <3>1. T \in SUBSET TagsIn(S)
      BY <1>2
    <3>2. PICK t \in T : \A s \in S : s.tag = t => s.deps \cap T = {}
      BY <1>1, <1>4, <3>1
    <3>3. \A s \in W : s.tag = t => s \in S
      BY <2>3
    <3> QED
      BY <3>2, <3>3
  <2> QED
    BY <2>1, <2>2, <2>3
<1> HIDE DEF W
<1>5. Startable(W)
  BY <1>3, <1>4, StartableIs
<1> QED
  BY <1>5 DEF W

\* The component of a row, where the rows are recorded.
LEMMA RowHeld ==
  ASSUME Types, ListsOK, NEW k \in ObjKind, NEW r \in RowsOf(k), RowsOf(k) \subseteq Recorded(k)
  PROVE  /\ \E i \in Ids(k) : mObj[i] = r /\ TagOf(i) = r.tag /\ TagOf(i) \in mRecipe[k]
         /\ \A i \in Ids(k) : TagOf(i) = r.tag => mObj[i] = r
<1>1. PICK i \in Ids(k) : mObj[i] = r /\ TagOf(i) \in mRecipe[k]
  BY DEF Recorded
<1>2. TagOf(i) = r.tag
  BY <1>1 DEF TagOf
<1>3. \A j \in Ids(k) : TagOf(j) = r.tag => j = i
  BY <1>2, OnePerTag
<1> QED
  BY <1>1, <1>2, <1>3

\* What nothing depends on in the core, no row depends on.
LEMMA NobodyDepends ==
  ASSUME Types, ListsOK, \A k \in ObjKind : RowsOf(k) \subseteq Recorded(k), NEW t, dependents(t) = {}
  PROVE  \A s \in DialerRows : t \notin s.deps
<1> SUFFICES ASSUME NEW k \in {"out", "end"}, NEW s \in RowsOf(k) PROVE t \notin s.deps
  BY DEF DialerRows
<1>1. k \in ObjKind
  BY DEF ObjKind
<1>2. PICK i \in Ids(k) : mObj[i] = s
  BY <1>1, RowHeld
<1> QED
  BY <1>2 DEF dependents, Ids

\* What is found in the core under a tag is a row, but for the fallback and what
\* is being put in.
LEMMA FoundInRows ==
  ASSUME Types, ListsOK, NEW x, Recorded("out") \subseteq RowsOf("out") \cup {x}, Recorded("end") \subseteq RowsOf("end"),
         NEW d, Lookup(d) # {}, d # x.tag, d # "direct" \/ "direct" \in mRecipe["out"]
  PROVE  d \in TagsIn(DialerRows)
<1>1. PICK i \in DialerIds : TagOf(i) = d
  BY LookupIs
<1>2. PICK k \in {"out", "end"} : i \in Ids(k)
  BY DEF DialerIds
<1>3. k \in ObjKind /\ mObj[i].kind = k
  BY <1>2 DEF ObjKind, ListsOK
<1>4. TagOf(i) \in mRecipe[k]
  <2> SUFFICES ASSUME TagOf(i) \notin mRecipe[k] PROVE FALSE
    OBVIOUS
  <2>1. mObj[i] = Direct
    BY <1>2, <1>3 DEF ListsOK
  <2>2. k = "out" /\ d = "direct"
    BY <1>1, <1>3, <2>1 DEF Direct, TagOf
  <2> QED
    BY <1>1, <2>2
<1>5. mObj[i] \in Recorded(k)
  BY <1>2, <1>4 DEF Recorded
<1>6. mObj[i] \in DialerRows
  BY <1>1, <1>2, <1>5 DEF DialerRows, TagOf
<1> QED
  BY <1>1, <1>6 DEF TagsIn, TagOf

\* Two outbounds or endpoints of the database with one tag are one.
LEMMA OneDialerPerTag ==
  ASSUME RowsOK, NEW r \in DialerRows, NEW s \in DialerRows, r.tag = s.tag
  PROVE  r = s
<1>1. PICK k \in {"out", "end"} : r \in RowsOf(k)
  BY DEF DialerRows
<1>2. PICK j \in {"out", "end"} : s \in RowsOf(j)
  BY DEF DialerRows
<1>3. k \in ObjKind /\ j \in ObjKind /\ j \in Shares(k)
  BY DEF ObjKind, Shares
<1> QED
  BY <1>1, <1>2, <1>3, OneRowPerTag

\* The outbounds and endpoints of the database after a save.
LEMMA DialersWritten ==
  ASSUME Types, RowsOK, NEW k \in ObjKind, NEW lost, lost \subseteq RowsOf(k), NEW put, Written(k, lost, put)
  PROVE  /\ k = "in" => DialerRows' = DialerRows
         /\ k # "in" => DialerRows' = (DialerRows \ lost) \cup put
<1>1. RowsOf(k)' = (RowsOf(k) \ lost) \cup put /\ \A j \in ObjKind \ {k} : RowsOf(j)' = RowsOf(j)
  BY DEF Written, RowsOf
<1>2. \A j \in ObjKind \ {k} : RowsOf(j) \cap lost = {}
  BY RowIs
<1>3. DialerRows = RowsOf("out") \cup RowsOf("end") /\ DialerRows' = RowsOf("out")' \cup RowsOf("end")'
  BY DEF DialerRows
<1>4. k \in {"out", "end", "in"}
  BY DEF ObjKind
<1>5. CASE k = "in"
  BY <1>1, <1>3, <1>5 DEF ObjKind
<1>6. CASE k = "out"
  BY <1>1, <1>2, <1>3, <1>6 DEF ObjKind
<1>7. CASE k = "end"
  BY <1>1, <1>2, <1>3, <1>7 DEF ObjKind
<1> QED
  BY <1>4, <1>5, <1>6, <1>7

\* A save that is written leaves rows that can start: the core judged it.
LEMMA StaleCommit ==
  ASSUME Types, RowsOK, ListsOK, StaleOK, NEW op \in SaveOp, OpRow(op),
         mRows' = RowsAfter(op.do, op.kind, op.row, op.spec),
         mStale' = (mStale \/ mPending \/ mLost \/ mBox # "running" \/ op.spec.deps \cap Passing(op) # {}),
         mBox = "running" /\ ~ mLost /\ ~ mPending =>
           /\ \A k \in ObjKind : RowsOf(k) \subseteq Recorded(k)
           /\ Recorded("end") \subseteq RowsOf("end") /\ Recorded("out") \subseteq RowsOf("out") \cup {op.spec}
           /\ op.do # "new" /\ op.kind # "in" => dependents(op.row.tag) = {}
           /\ op.do # "del" /\ op.kind # "in" => \A d \in op.spec.deps : Lookup(d) # {}
  PROVE  StaleOK'
<1> SUFFICES ASSUME ~ mStale, ~ mPending, ~ mLost, mBox = "running", op.spec.deps \cap Passing(op) = {}
             PROVE  Startable(DialerRows')
  BY DEF StaleOK
<1>1. /\ \A k \in ObjKind : RowsOf(k) \subseteq Recorded(k)
      /\ Recorded("end") \subseteq RowsOf("end") /\ Recorded("out") \subseteq RowsOf("out") \cup {op.spec}
      /\ op.do # "new" /\ op.kind # "in" => dependents(op.row.tag) = {}
      /\ op.do # "del" /\ op.kind # "in" => \A d \in op.spec.deps : Lookup(d) # {}
  OBVIOUS
<1>2. op.kind \in ObjKind /\ op.do \in {"new", "edit", "del"}
  BY OpFields
<1>3. Startable(DialerRows)
  BY DEF StaleOK
<1>4. /\ op.do = "new" => Written(op.kind, {}, {op.spec})
      /\ op.do = "edit" => Written(op.kind, {op.row}, {op.spec})
      /\ op.do = "del" => Written(op.kind, {op.row}, {})
      /\ op.do # "new" => op.row \in RowsOf(op.kind)
  BY CommitRows DEF OpRow
<1>5. CASE op.kind = "in"
  <2>1. DialerRows' = DialerRows
    BY <1>2, <1>4, <1>5, DialersWritten
  <2> QED
    BY <1>3, <2>1
<1>6. CASE op.kind # "in"
  <2>0. op.kind \in {"out", "end"} /\ RowsOf(op.kind) \subseteq DialerRows
    BY <1>2, <1>6 DEF ObjKind, DialerRows
  <2>1. /\ op.do = "new" => DialerRows' = DialerRows \cup {op.spec}
        /\ op.do = "edit" => DialerRows' = (DialerRows \ {op.row}) \cup {op.spec}
        /\ op.do = "del" => DialerRows' = DialerRows \ {op.row}
    <3>0. \A lost, put : lost \subseteq RowsOf(op.kind) /\ Written(op.kind, lost, put)
            => DialerRows' = (DialerRows \ lost) \cup put
      BY <1>2, <1>6, DialersWritten
    <3>1. CASE op.do = "new"
      <4>1. Written(op.kind, {}, {op.spec}) /\ {} \subseteq RowsOf(op.kind)
        BY <1>4, <3>1
      <4>2. DialerRows' = (DialerRows \ {}) \cup {op.spec}
        BY <3>0, <4>1, Zenon
      <4> QED
        BY <3>1, <4>2
    <3>2. CASE op.do = "edit"
      <4>1. {op.row} \subseteq RowsOf(op.kind) /\ Written(op.kind, {op.row}, {op.spec})
        BY <1>4, <3>2
      <4>3. DialerRows' = (DialerRows \ {op.row}) \cup {op.spec}
        BY <3>0, <4>1, Zenon
      <4> QED
        BY <3>2, <4>3
    <3>3. CASE op.do = "del"
      <4>1. {op.row} \subseteq RowsOf(op.kind) /\ Written(op.kind, {op.row}, {})
        BY <1>4, <3>3
      <4>3. DialerRows' = (DialerRows \ {op.row}) \cup {}
        BY <3>0, <4>1, Zenon
      <4> QED
        BY <3>3, <4>3
    <3> QED
      BY <1>2, <3>1, <3>2, <3>3
  <2>2. op.do # "new" => \A s \in DialerRows \ {op.row} : s.tag # op.row.tag /\ op.row.tag \notin s.deps
    <3> SUFFICES ASSUME op.do # "new", NEW s \in DialerRows, s # op.row PROVE s.tag # op.row.tag /\ op.row.tag \notin s.deps
      OBVIOUS
    <3>1. op.row \in DialerRows
      BY <1>4, <2>0
    <3>2. s.tag # op.row.tag
      BY <3>1, OneDialerPerTag
    <3>3. dependents(op.row.tag) = {}
      BY <1>1, <1>6
    <3> QED
      BY <1>1, <3>2, <3>3, NobodyDepends
  <2>3. op.do # "new" => Startable(DialerRows \ {op.row})
    BY <1>3, <2>2, StartableLess
  <2>4. op.do # "del" => \A d \in op.spec.deps : d \in TagsIn(DialerRows) /\ d # op.row.tag
    <3> SUFFICES ASSUME op.do # "del", NEW d \in op.spec.deps PROVE d \in TagsIn(DialerRows) /\ d # op.row.tag
      OBVIOUS
    <3>1. d # op.row.tag /\ d # op.spec.tag /\ (d # "direct" \/ "direct" \in mRecipe["out"])
      BY DEF Passing
    <3>2. Lookup(d) # {}
      BY <1>1, <1>6
    <3> QED
      BY <1>1, <3>1, <3>2, FoundInRows
  <2>5. op.do # "del" => \A s \in DialerRows : s.tag = op.spec.tag => op.do = "edit" /\ s = op.row
    <3> SUFFICES ASSUME op.do # "del", NEW k \in {"out", "end"}, NEW s \in RowsOf(k), s.tag = op.spec.tag
                 PROVE  op.do = "edit" /\ s = op.row
      BY DEF DialerRows
    <3>1. k \in Shares(op.kind)
      BY <2>0 DEF Shares, ObjKind
    <3>2. k = op.kind /\ s = op.row
      BY <3>1 DEF OpRow, tagFreeAcross
    <3>3. op.do # "new"
      BY <3>2 DEF OpRow
    <3> QED
      BY <1>2, <3>2, <3>3
  <2>6. CASE op.do = "new"
    <3>1. op.spec.tag \notin TagsIn(DialerRows) /\ op.spec.deps \subseteq TagsIn(DialerRows)
      BY <2>4, <2>5, <2>6 DEF TagsIn
    <3> QED
      BY <1>3, <2>1, <2>6, <3>1, StartableMore
  <2>7. CASE op.do = "edit"
    <3> DEFINE W == DialerRows \ {op.row}
    <3>1. op.spec.tag \notin TagsIn(W)
      BY <2>5, <2>7 DEF TagsIn
    <3>2. op.spec.deps \subseteq TagsIn(W)
      BY <2>4, <2>7 DEF TagsIn
    <3>3. Startable(W)
      BY <2>3, <2>7
    <3> HIDE DEF W
    <3>4. Startable(W \cup {op.spec})
      BY <3>1, <3>2, <3>3, StartableMore
    <3> QED
      BY <2>1, <2>7, <3>4 DEF W
  <2>8. CASE op.do = "del"
    BY <2>1, <2>3, <2>8
  <2> QED
    BY <1>2, <2>6, <2>7, <2>8
<1> QED
  BY <1>5, <1>6

\* The component of a row is what is found under its tag.
LEMMA RowFound ==
  ASSUME Types, RowsOK, ListsOK, \A k \in ObjKind : Recorded(k) = RowsOf(k), NEW s \in DialerRows
  PROVE  \E i \in DialerIds : mObj[i] = s /\ i \in Lookup(s.tag)
<1>1. PICK k \in {"out", "end"} : s \in RowsOf(k)
  BY DEF DialerRows
<1>2. k \in ObjKind
  BY DEF ObjKind
<1>3. PICK i \in Ids(k) : mObj[i] = s /\ TagOf(i) = s.tag
  BY <1>1, <1>2, RowHeld
<1>4. i \in DialerIds
  BY <1>3 DEF DialerIds
<1>5. i \in Holding(k, s.tag)
  BY <1>3 DEF Holding, Ids
<1>6. CASE k = "out"
  <2>1. i \in Lookup(s.tag)
    BY <1>5, <1>6 DEF Lookup
  <2> QED
    BY <1>3, <1>4, <2>1
<1>7. CASE k = "end"
  <2>1. Holding("out", s.tag) = {}
    <3> SUFFICES ASSUME NEW j \in Ids("out"), TagOf(j) = s.tag PROVE FALSE
      BY DEF Holding, Ids
    <3>1. s \in ObjSpec /\ s.kind = "end"
      BY <1>1, <1>2, <1>7, RowIs
    <3>2. CASE TagOf(j) \in mRecipe["out"]
      <4>1. mObj[j] \in RowsOf("out")
        BY <3>2 DEF Recorded, ObjKind
      <4>2. mObj[j].kind = "out"
        BY <4>1, RowIs DEF ObjKind
      <4>3. mObj[j] = s
        BY <4>1, OneDialerPerTag DEF DialerRows, TagOf
      <4> QED
        BY <3>1, <4>2, <4>3
    <3>3. CASE TagOf(j) \notin mRecipe["out"]
      <4>1. mObj[j] = Direct
        BY <3>3 DEF ListsOK, ObjKind
      <4>2. s.tag = "direct"
        BY <4>1 DEF TagOf, Direct
      <4> QED
        BY <3>1, <4>2, SpecIs
    <3> QED
      BY <3>2, <3>3
  <2>2. i \in Lookup(s.tag)
    BY <1>5, <1>7, <2>1 DEF Lookup
  <2> QED
    BY <1>3, <1>4, <2>2
<1> QED
  BY <1>6, <1>7

\* What leads from some tags holds them and, with a component, what it depends on.
LEMMA ReachedIs ==
  ASSUME NEW from
  PROVE  /\ from \subseteq Reached(from)
         /\ \A t \in Reached(from) : \A i \in Lookup(t) : mObj[i].deps \subseteq Reached(from)
<1> DEFINE Onwards(C) == UNION {mObj[i].deps : i \in UNION {Lookup(t) : t \in C}}
           Around == from \cup UNION {mObj[i].deps : i \in ToSet(mList["out"]) \cup ToSet(mList["end"])}
<1>1. \A t : t \in Reached(from) <=> t \in Around /\ \A C \in SUBSET Around : from \subseteq C /\ Onwards(C) \subseteq C => t \in C
  BY DEF Reached
<1>2. \A C : \A t \in C : \A i \in Lookup(t) : mObj[i].deps \subseteq Onwards(C)
  OBVIOUS
<1>3. \A t : \A i \in Lookup(t) : mObj[i].deps \subseteq Around
  BY LookupIs DEF DialerIds, Ids
<1>4. from \subseteq Around
  OBVIOUS
<1> HIDE DEF Onwards, Around
<1>5. from \subseteq Reached(from)
  BY <1>1, <1>4
<1>6. ASSUME NEW t \in Reached(from), NEW i \in Lookup(t), NEW d \in mObj[i].deps PROVE d \in Reached(from)
  <2>1. d \in Around
    BY <1>3
  <2>2. ASSUME NEW C \in SUBSET Around, from \subseteq C, Onwards(C) \subseteq C PROVE d \in C
    <3>1. t \in C
      BY <1>1, <2>2
    <3>2. mObj[i].deps \subseteq Onwards(C)
      BY <1>2, <3>1
    <3> QED
      BY <2>2, <3>2
  <2> QED
    BY <1>1, <2>1, <2>2
<1> QED
  BY <1>5, <1>6

\* An edit that waits for a restart leaves rows that can start: checkDependencies.
LEMMA StaleRestart ==
  ASSUME Types, RowsOK, ListsOK, StaleOK, NEW op \in SaveOp, OpRow(op), op.do = "edit", op.kind # "in",
         op.spec.tag = op.row.tag, checkDependencies(op.spec.tag, op.spec.deps),
         mRows' = RowsAfter(op.do, op.kind, op.row, op.spec),
         mStale' = (mStale \/ mPending \/ mLost \/ mBox # "running" \/ op.spec.deps \cap Passing(op) # {}),
         mBox = "running" /\ ~ mLost /\ ~ mPending => \A k \in ObjKind : Recorded(k) = RowsOf(k)
  PROVE  StaleOK'
<1> SUFFICES ASSUME ~ mStale, ~ mPending, ~ mLost, mBox = "running", op.spec.deps \cap Passing(op) = {}
             PROVE  Startable(DialerRows')
  BY DEF StaleOK
<1>1. \A k \in ObjKind : Recorded(k) = RowsOf(k)
  OBVIOUS
<1>2. op.kind \in ObjKind /\ op.row \in RowsOf(op.kind)
  BY OpFields DEF OpRow
<1>3. Written(op.kind, {op.row}, {op.spec})
  BY CommitRows
<1>4. DialerRows' = (DialerRows \ {op.row}) \cup {op.spec}
  <2>1. \A lost, put : lost \subseteq RowsOf(op.kind) /\ Written(op.kind, lost, put)
          => DialerRows' = (DialerRows \ lost) \cup put
    BY <1>2, DialersWritten
  <2>2. {op.row} \subseteq RowsOf(op.kind)
    BY <1>2
  <2> QED
    BY <1>3, <2>1, <2>2, Zenon
<1>5. op.row \in DialerRows
  BY <1>2 DEF DialerRows, ObjKind
<1> DEFINE R0 == Reached(op.spec.deps)
           R == R0 \cap TagsIn(DialerRows)
<1>6. op.spec.deps \subseteq R0 /\ \A t \in R0 : \A i \in Lookup(t) : mObj[i].deps \subseteq R0
  BY ReachedIs
<1>7. op.spec.tag \notin R0 /\ \A d \in R0 : Lookup(d) # {}
  BY DEF checkDependencies
<1> HIDE DEF R0
<1>8. op.spec.deps \subseteq TagsIn(DialerRows)
  <2> SUFFICES ASSUME NEW d \in op.spec.deps PROVE d \in TagsIn(DialerRows)
    OBVIOUS
  <2>1. d # op.spec.tag /\ (d # "direct" \/ "direct" \in mRecipe["out"])
    BY DEF Passing
  <2>2. Lookup(d) # {}
    BY <1>6, <1>7
  <2>3. Recorded("out") \subseteq RowsOf("out") \cup {op.spec} /\ Recorded("end") \subseteq RowsOf("end")
    BY <1>1 DEF ObjKind
  <2> QED
    BY <2>1, <2>2, <2>3, FoundInRows
<1>9. Startable(DialerRows)
  BY DEF StaleOK
<1>10. \A s \in DialerRows : s.tag \in R => s.deps \subseteq R
  <2> SUFFICES ASSUME NEW s \in DialerRows, s.tag \in R0 PROVE s.deps \subseteq R0 /\ s.deps \subseteq TagsIn(DialerRows)
    OBVIOUS
  <2>1. PICK i \in DialerIds : mObj[i] = s /\ i \in Lookup(s.tag)
    BY <1>1, RowFound
  <2>2. s.deps \subseteq R0
    BY <1>6, <2>1
  <2> QED
    BY <1>9, <2>2, StartableIs
<1>11. \A s \in DialerRows \ {op.row} : s.tag # op.row.tag
  BY <1>5, OneDialerPerTag
<1>12. R \subseteq TagsIn(DialerRows) /\ op.spec.deps \subseteq R /\ op.spec.tag \notin R
  BY <1>6, <1>7, <1>8
<1> HIDE DEF R
<1>13. Startable((DialerRows \ {op.row}) \cup {op.spec})
  BY <1>5, <1>9, <1>10, <1>11, <1>12, StartableVia
<1> QED
  BY <1>4, <1>13

-----------------------------------------------------------------------------
(* The order of the outbounds.                                               *)

RowTagsKept ==
  /\ Len(mRows'["out"]) = Len(mRows["out"])
  /\ \A n \in DOMAIN mRows["out"] : mRows'["out"][n].tag = mRows["out"][n].tag
ListTagsKept ==
  /\ Len(mList'["out"]) = Len(mList["out"])
  /\ \A n \in DOMAIN mList["out"] : mObj'[mList'["out"][n]].tag = mObj[mList["out"][n]].tag

LEMMA OrderKept ==
  ASSUME Types, mList' \in [ObjKind -> Seq(ObjId)], SameOrder, RowTagsKept, ListTagsKept
  PROVE  SameOrder'
<1> DEFINE s == mList["out"]
           w == mList'["out"]
<1>1. s \in Seq(ObjId) /\ w \in Seq(ObjId) /\ mRows["out"] \in Seq(ObjSpec)
  BY DEF Types, ObjKind
<1>2. Len(w) = Len(s) /\ DOMAIN w = 1 .. Len(w) /\ DOMAIN s = 1 .. Len(s)
      /\ DOMAIN mRows["out"] = 1 .. Len(mRows["out"])
  BY <1>1, NoneInSeq DEF ListTagsKept
<1>3. DOMAIN w = DOMAIN s /\ DOMAIN mRows["out"] = DOMAIN s
  BY <1>2 DEF SameOrder
<1> HIDE DEF s, w
<1>4. Len(w) = Len(mRows'["out"])
  BY <1>2 DEF SameOrder, RowTagsKept, s
<1>5. ASSUME NEW n \in DOMAIN w PROVE mObj'[w[n]].tag = mRows'["out"][n].tag
  <2>1. n \in DOMAIN s /\ n \in DOMAIN mRows["out"]
    BY <1>3
  <2>2. mObj'[w[n]].tag = mObj[s[n]].tag
    BY <2>1 DEF ListTagsKept, s, w
  <2>3. mRows'["out"][n].tag = mRows["out"][n].tag
    BY <2>1 DEF RowTagsKept
  <2>4. mObj[s[n]].tag = mRows["out"][n].tag
    BY <2>1 DEF SameOrder, TagOf, s
  <2> QED
    BY <2>2, <2>3, <2>4
<1> QED
  BY <1>4, <1>5 DEF SameOrder, TagOf, w

\* One more at the end of both.
LEMMA OrderAppend ==
  ASSUME Types, SameOrder, UNCHANGED mObj, NEW new \in ObjId, mList'["out"] = Append(mList["out"], new),
         NEW row \in ObjSpec, mRows'["out"] = Append(mRows["out"], row), mObj[new].tag = row.tag
  PROVE  SameOrder'
<1> DEFINE s == mList["out"]
           w == mList'["out"]
           r == mRows["out"]
           q == mRows'["out"]
<1>1. s \in Seq(ObjId) /\ r \in Seq(ObjSpec)
  BY DEF Types, ObjKind
<1>2. w = Append(s, new) /\ q = Append(r, row)
  OBVIOUS
<1>3. Len(s) = Len(r) /\ \A n \in DOMAIN s : mObj[s[n]].tag = r[n].tag
  BY DEF SameOrder, TagOf
<1> HIDE DEF s, w, r, q
<1>4. /\ DOMAIN w = 1 .. Len(s) + 1 /\ Len(w) = Len(s) + 1 /\ w[Len(s) + 1] = new
      /\ \A n \in 1 .. Len(s) : w[n] = s[n]
  BY <1>1, <1>2, AppendSeq
<1>5. /\ Len(q) = Len(s) + 1 /\ q[Len(s) + 1] = row
      /\ \A n \in 1 .. Len(s) : q[n] = r[n]
  BY <1>1, <1>2, <1>3, AppendSeq
<1>6. Len(s) \in Nat /\ DOMAIN s = 1 .. Len(s)
  BY <1>1, NoneInSeq
<1>7. \A n \in DOMAIN w : n \in 1 .. Len(s) \/ n = Len(s) + 1
  BY <1>4, <1>6
<1>8. \A n \in DOMAIN w : mObj[w[n]].tag = q[n].tag
  BY <1>3, <1>4, <1>5, <1>6, <1>7
<1> QED
  BY <1>4, <1>5, <1>8 DEF SameOrder, TagOf, w, q

\* One place taken out of both.
LEMMA OrderTake ==
  ASSUME Types, SameOrder, UNCHANGED mObj, NEW p \in DOMAIN mList["out"], mList'["out"] = WithoutAt(mList["out"], p),
         mRows'["out"] = WithoutAt(mRows["out"], p)
  PROVE  SameOrder'
<1> DEFINE s == mList["out"]
           w == mList'["out"]
           r == mRows["out"]
           q == mRows'["out"]
<1>1. s \in Seq(ObjId) /\ r \in Seq(ObjSpec)
  BY DEF Types, ObjKind
<1>2. w = WithoutAt(s, p) /\ q = WithoutAt(r, p) /\ p \in DOMAIN s
  OBVIOUS
<1>3. Len(s) = Len(r) /\ \A n \in DOMAIN s : mObj[s[n]].tag = r[n].tag
  BY DEF SameOrder, TagOf
<1> HIDE DEF s, w, r, q
<1>4. Len(s) \in Nat /\ DOMAIN s = 1 .. Len(s) /\ DOMAIN r = 1 .. Len(s)
  BY <1>1, <1>3, NoneInSeq
<1>5. /\ DOMAIN w = 1 .. Len(s) - 1 /\ Len(w) = Len(s) - 1
      /\ \A n \in 1 .. Len(s) - 1 : w[n] = IF n < p THEN s[n] ELSE s[n + 1]
  BY <1>1, <1>2, WithoutAtIs
<1>6. p \in DOMAIN r
  BY <1>2, <1>4
<1>7. /\ Len(q) = Len(s) - 1
      /\ \A n \in 1 .. Len(s) - 1 : q[n] = IF n < p THEN r[n] ELSE r[n + 1]
  BY <1>1, <1>2, <1>3, <1>6, WithoutAtIs
<1>8. \A n \in 1 .. Len(s) - 1 : n \in DOMAIN s /\ n + 1 \in DOMAIN s
  BY <1>4
<1>9. \A n \in DOMAIN w : mObj[w[n]].tag = q[n].tag
  <2> SUFFICES ASSUME NEW n \in 1 .. Len(s) - 1 PROVE mObj[w[n]].tag = q[n].tag
    BY <1>5
  <2>1. CASE n < p
    <3>1. w[n] = s[n] /\ q[n] = r[n] /\ n \in DOMAIN s
      BY <1>5, <1>7, <1>8, <2>1
    <3> QED
      BY <1>3, <3>1
  <2>2. CASE ~ (n < p)
    <3>1. w[n] = s[n + 1] /\ q[n] = r[n + 1] /\ n + 1 \in DOMAIN s
      BY <1>5, <1>7, <1>8, <2>2
    <3> QED
      BY <1>3, <3>1
  <2> QED
    BY <2>1, <2>2
<1> QED
  BY <1>5, <1>7, <1>9 DEF SameOrder, TagOf, w, q

\* A row written over under its tag.
LEMMA EditKeepsTags ==
  ASSUME NEW row, NEW new, new.tag = row.tag, EditedAt("out", row, new)
  PROVE  RowTagsKept
BY DEF EditedAt, RowTagsKept

\* In that order, every row has its component, and every component its row.
LEMMA OrderFinds ==
  ASSUME Types, RowsOK, SameOrder
  PROVE  /\ \A r \in RowsOf("out") : Holding("out", r.tag) # {}
         /\ \A i \in Ids("out") : \E r \in RowsOf("out") : r.tag = TagOf(i)
         /\ \A p \in DOMAIN mList["out"], q \in DOMAIN mRows["out"] : TagOf(mList["out"][p]) = mRows["out"][q].tag => p = q
<1>1. DOMAIN mList["out"] = 1 .. Len(mList["out"]) /\ DOMAIN mRows["out"] = 1 .. Len(mRows["out"])
  BY NoneInSeq DEF Types, ObjKind
<1>2. DOMAIN mRows["out"] = DOMAIN mList["out"] /\ \A n \in DOMAIN mList["out"] : TagOf(mList["out"][n]) = mRows["out"][n].tag
  BY <1>1 DEF SameOrder
<1>3. \A r \in RowsOf("out") : Holding("out", r.tag) # {}
  <2> SUFFICES ASSUME NEW r \in RowsOf("out") PROVE Holding("out", r.tag) # {}
    OBVIOUS
  <2>1. PICK n \in DOMAIN mRows["out"] : mRows["out"][n] = r
    BY MemberOf DEF RowsOf
  <2>2. mList["out"][n] \in ToSet(mList["out"])
    BY <1>2, MemberOf
  <2>3. TagOf(mList["out"][n]) = r.tag
    BY <1>2, <2>1
  <2> QED
    BY <2>2, <2>3 DEF Holding
<1>4. \A i \in Ids("out") : \E r \in RowsOf("out") : r.tag = TagOf(i)
  <2> SUFFICES ASSUME NEW i \in Ids("out") PROVE \E r \in RowsOf("out") : r.tag = TagOf(i)
    OBVIOUS
  <2>1. PICK n \in DOMAIN mList["out"] : mList["out"][n] = i
    BY MemberOf DEF Ids
  <2>2. mRows["out"][n] \in RowsOf("out")
    BY <1>2, <2>1, MemberOf DEF RowsOf
  <2> QED
    BY <1>2, <2>1, <2>2
<1>5. \A p, q \in DOMAIN mRows["out"] : mRows["out"][p].tag = mRows["out"][q].tag => p = q
  BY SharesOwn DEF RowsOK, ObjKind
<1> QED
  BY <1>2, <1>3, <1>4, <1>5

-----------------------------------------------------------------------------
(* The three changes of a table, as a whole.                                 *)

\* A component is dropped that nothing depends on.
LEMMA DropStep ==
  ASSUME IInv, NEW k \in ObjKind, NEW it \in Ids(k), drop(k, it), UNCHANGED <<mObj, mRes, mOver, mFinal, mBox>>,
         mLost => mLost', mMoved => mMoved', k = "in" \/ dependents(TagOf(it)) = {},
         ~ mLost' /\ k # "in" => TagOf(it) # mFinal,
         ~ mLost' /\ mFinal = "" /\ k = "out" => mList["out"] # <<it>>
  PROVE  /\ ListsOK' /\ MovedTo(k, {it}, {}) /\ InTable' = InTable \ {it} /\ mDefault' \in ObjId \cup {0}
         /\ Recorded(k)' = Recorded(k) \ {mObj[it]}
         /\ \A j \in ObjKind \ {k} : Recorded(j)' = Recorded(j)
         /\ \E p \in DOMAIN mList[k] : mList[k][p] = it /\ mList'[k] = WithoutAt(mList[k], p)
         /\ mBox = "running" => ResolvedOK' /\ DefaultOK'
<1>1. Types /\ ListsOK /\ ResolvedOK /\ DefaultOK
  BY DEF IInv
<1>2. /\ MovedTo(k, {it}, {}) /\ ListsOK' /\ mRecipe'[k] = mRecipe[k] \ {TagOf(it)}
      /\ \E p \in DOMAIN mList[k] : /\ mList[k][p] = it
                                    /\ mList'[k] = WithoutAt(mList[k], p)
                                    /\ Without(mList[k], it) = WithoutAt(mList[k], p)
  BY <1>1, DropEffect
<1>3. mList'[k] = Without(mList[k], it)
  BY <1>2
<1>4. \E p \in DOMAIN mList[k] : mList[k][p] = it /\ mList'[k] = WithoutAt(mList[k], p)
  BY <1>2
<1>5. {it} \subseteq Ids(k)
  OBVIOUS
<1>6. InTable' = InTable \ {it}
  <2>1. InTable' = (InTable \ {it}) \cup {}
    BY <1>1, <1>2, <1>5, MovedExactly
  <2> QED
    BY <2>1
<1>7. /\ Recorded(k)' = Recorded(k) \ {mObj[it]}
      /\ \A j \in ObjKind \ {k} : Recorded(j)' = Recorded(j)
  <2> DEFINE none == {}
             gone == {it}
  <2>1. RecipesMove(k, gone, none, none)
    BY <1>2, <1>5 DEF RecipesMove
  <2> HIDE DEF none, gone
  <2>2. /\ Recorded(k)' = (Recorded(k) \ {mObj[g] : g \in gone}) \cup {mObj[c] : c \in none}
        /\ \A j \in ObjKind \ {k} : Recorded(j)' = Recorded(j)
    BY <1>1, <2>1, RecordedMoves
  <2> QED
    BY <2>2 DEF none, gone
<1>8. mDefault' = IF k = "out" THEN DefaultDropped(it, Without(mList["out"], it)) ELSE mDefault
  BY DEF drop
<1>9. mDefault' \in ObjId \cup {0}
  <2>1. mList'[k] \in Seq(ObjId) /\ mDefault \in ObjId \cup {0}
    BY <1>1, <1>2 DEF MovedTo, Types
  <2>2. mList'[k] # <<>> => mList'[k][1] \in ObjId
    BY <2>1, NoneInSeq
  <2> QED
    BY <1>3, <1>8, <2>1, <2>2 DEF DefaultDropped
<1>10. ASSUME mBox = "running" PROVE ResolvedOK' /\ DefaultOK'
  <2>1. ResolvedOK'
    <3>1. \A c \in {} \ mOver : \A r \in mRes[c] : r \in DialerIds \ {it} /\ TagOf(r) \in mObj[c].deps
      OBVIOUS
    <3>2. k = "in" \/ \A g \in {it} : dependents(TagOf(g)) = {}
      OBVIOUS
    <3> QED
      BY <1>1, <1>2, <1>5, <1>10, <3>1, <3>2, ResolvedMoves
  <2>2. DefaultOK'
    BY <1>1, <1>2, <1>3, <1>8, <1>10, DefaultDrop
  <2> QED
    BY <2>1, <2>2
<1> QED
  BY <1>2, <1>4, <1>6, <1>7, <1>9, <1>10

LEMMA OneInList ==
  ASSUME NEW x
  PROVE  ToSet(<<x>>) = {x}
BY DEF ToSet

\* What the new component resolved is there, and is not the one that goes.
Resolved(new, old) ==
  /\ \A r \in mRes[new] : r \in DialerIds /\ TagOf(r) \in mObj[new].deps
  /\ new \notin mOver => old \notin mRes[new]

\* A component is put in the place of another.
LEMMA SwapStep ==
  ASSUME IInv, NEW k \in ObjKind, NEW old \in Ids(k), NEW new \in ObjId, new \notin InTable,
         Fits(k, old, new),
         NEW recipe, recipe = {TagOf(new)} \/ (recipe = {} /\ mObj[new] = Direct /\ mList[k] = <<old>>),
         swap(k, old, new, recipe), UNCHANGED <<mObj, mRes, mOver, mFinal, mBox, mLost>>, mMoved => mMoved',
         k = "in" \/ dependents(TagOf(old)) = {},
         k # "in" /\ TagOf(old) = mFinal => TagOf(new) = mFinal,
         Resolved(new, old)
  PROVE  /\ ListsOK' /\ MovedTo(k, {old}, {new}) /\ InTable' = (InTable \ {old}) \cup {new} /\ mDefault' \in ObjId \cup {0}
         /\ recipe # {} => Recorded(k)' = (Recorded(k) \ {mObj[old]}) \cup {mObj[new]}
         /\ recipe = {} => Recorded(k)' = Recorded(k) \ {mObj[old]}
         /\ \A j \in ObjKind \ {k} : Recorded(j)' = Recorded(j)
         /\ SwappedAt(k, old, new)
         /\ mBox = "running" => ResolvedOK' /\ DefaultOK'
<1>1. Types /\ ListsOK /\ ResolvedOK /\ DefaultOK
  BY DEF IInv
<1>2. /\ MovedTo(k, {old}, {new}) /\ ListsOK' /\ SwappedAt(k, old, new)
      /\ mRecipe'[k] = (mRecipe[k] \ {TagOf(old)}) \cup recipe
  <2>1. recipe = {TagOf(new)} \/ (recipe = {} /\ mObj[new] = Direct)
    OBVIOUS
  <2>2. mObj' = mObj
    OBVIOUS
  <2> QED
    BY <1>1, <2>1, <2>2, SwapEffect
<1>3. {old} \subseteq Ids(k)
  OBVIOUS
<1>4. InTable' = (InTable \ {old}) \cup {new}
  <2>1. \A gone, came : gone \subseteq Ids(k) /\ MovedTo(k, gone, came) => InTable' = (InTable \ gone) \cup came
    BY <1>1, MovedExactly
  <2> QED
    BY <1>2, <1>3, <2>1, Zenon
<1> DEFINE put == IF recipe # {} THEN {new} ELSE {}
<1>5. /\ Recorded(k)' = (Recorded(k) \ {mObj[old]}) \cup {mObj[c] : c \in put}
      /\ \A j \in ObjKind \ {k} : Recorded(j)' = Recorded(j)
  <2>1. mRecipe'[k] = (mRecipe[k] \ {TagOf(g) : g \in {old}}) \cup {TagOf(c) : c \in put}
    BY <1>2
  <2>2. put \subseteq {new} /\ \A i \in Ids(k) \ {old} : \A c \in put : TagOf(i) # TagOf(c)
    BY DEF Fits
  <2>3. \A c \in {new} \ put : TagOf(c) \notin mRecipe'[k]
    <3> SUFFICES ASSUME recipe = {} PROVE TagOf(new) \notin mRecipe'[k]
      OBVIOUS
    <3>0. mList[k] = <<old>>
      OBVIOUS
    <3>1. Ids(k) = {old}
      BY <3>0, OneInList DEF Ids
    <3>2. mRecipe[k] \subseteq {TagOf(i) : i \in Ids(k)}
      BY <1>1 DEF ListsOK
    <3>3. mRecipe[k] \subseteq {TagOf(old)}
      BY <3>1, <3>2
    <3> QED
      BY <1>2, <3>3
  <2> DEFINE gone == {old}
             came == {new}
  <2>4. RecipesMove(k, gone, came, put)
    <3> HIDE DEF put
    <3> QED
      BY <1>2, <1>3, <2>1, <2>2, <2>3 DEF RecipesMove
  <2> HIDE DEF put, gone, came
  <2>5. /\ Recorded(k)' = (Recorded(k) \ {mObj[g] : g \in gone}) \cup {mObj[c] : c \in put}
        /\ \A j \in ObjKind \ {k} : Recorded(j)' = Recorded(j)
    BY <1>1, <2>4, RecordedMoves
  <2> QED
    BY <2>5 DEF gone
<1>6. /\ recipe # {} => Recorded(k)' = (Recorded(k) \ {mObj[old]}) \cup {mObj[new]}
      /\ recipe = {} => Recorded(k)' = Recorded(k) \ {mObj[old]}
  BY <1>5
<1>7. mDefault' = IF k = "out" THEN DefaultReplaced(old, new) ELSE mDefault
  BY DEF swap
<1>8. mDefault' \in ObjId \cup {0}
  BY <1>1, <1>7 DEF DefaultReplaced, Types
<1>9. ASSUME mBox = "running" PROVE ResolvedOK' /\ DefaultOK'
  <2>1. ResolvedOK'
    <3>1. \A c \in {new} \ mOver : \A r \in mRes[c] : r \in DialerIds \ {old} /\ TagOf(r) \in mObj[c].deps
      BY DEF Resolved
    <3>2. k = "in" \/ \A g \in {old} : dependents(TagOf(g)) = {}
      OBVIOUS
    <3> QED
      BY <1>1, <1>2, <1>3, <1>9, <3>1, <3>2, ResolvedMoves
  <2>2. DefaultOK'
    BY <1>1, <1>2, <1>7, <1>9, DefaultSwap
  <2> QED
    BY <2>1, <2>2
<1> QED
  BY <1>2, <1>4, <1>5, <1>6, <1>8, <1>9

\* A component is put at the end.
LEMMA AddStep ==
  ASSUME IInv, NEW k \in ObjKind, NEW new \in ObjId, new \notin InTable,
         mObj[new].kind = k, \A i \in Ids(k) : TagOf(i) # TagOf(new),
         NEW tag, tag = TagOf(new), add(k, new, tag), UNCHANGED <<mObj, mRes, mOver, mFinal, mBox, mLost>>, mMoved => mMoved',
         Resolved(new, 0)
  PROVE  /\ ListsOK' /\ MovedTo(k, {}, {new}) /\ InTable' = InTable \cup {new} /\ mDefault' \in ObjId \cup {0}
         /\ Recorded(k)' = Recorded(k) \cup {mObj[new]}
         /\ \A j \in ObjKind \ {k} : Recorded(j)' = Recorded(j)
         /\ mList'[k] = Append(mList[k], new)
         /\ mBox = "running" => ResolvedOK' /\ DefaultOK'
<1>1. Types /\ ListsOK /\ ResolvedOK /\ DefaultOK
  BY DEF IInv
<1>2. /\ MovedTo(k, {}, {new}) /\ ListsOK'
      /\ mRecipe'[k] = mRecipe[k] \cup {tag}
      /\ mList'[k] = Append(mList[k], new)
  BY <1>1, AddEffect
<1>3. {} \subseteq Ids(k)
  OBVIOUS
<1>4. InTable' = InTable \cup {new}
  <2>1. \A gone, came : gone \subseteq Ids(k) /\ MovedTo(k, gone, came) => InTable' = (InTable \ gone) \cup came
    BY <1>1, MovedExactly
  <2>2. InTable' = (InTable \ {}) \cup {new}
    BY <1>2, <1>3, <2>1, Zenon
  <2> QED
    BY <2>2
<1>5. /\ Recorded(k)' = Recorded(k) \cup {mObj[new]}
      /\ \A j \in ObjKind \ {k} : Recorded(j)' = Recorded(j)
  <2> DEFINE none == {}
             put == {new}
  <2>1. RecipesMove(k, none, put, put)
    BY <1>2, <1>3 DEF RecipesMove
  <2> HIDE DEF none, put
  <2>2. /\ Recorded(k)' = (Recorded(k) \ {mObj[g] : g \in none}) \cup {mObj[c] : c \in put}
        /\ \A j \in ObjKind \ {k} : Recorded(j)' = Recorded(j)
    BY <1>1, <2>1, RecordedMoves
  <2> QED
    BY <2>2 DEF none, put
<1>7. mDefault' = IF k = "out" /\ (TagOf(new) = mFinal \/ (mFinal = "" /\ mDefault = 0)) THEN new ELSE mDefault
  BY DEF add
<1>8. mDefault' \in ObjId \cup {0}
  BY <1>1, <1>7 DEF Types
<1>9. ASSUME mBox = "running" PROVE ResolvedOK' /\ DefaultOK'
  <2>1. ResolvedOK'
    <3>1. \A c \in {new} \ mOver : \A r \in mRes[c] : r \in DialerIds \ {} /\ TagOf(r) \in mObj[c].deps
      BY DEF Resolved
    <3>2. k = "in" \/ \A g \in {} : dependents(TagOf(g)) = {}
      OBVIOUS
    <3> QED
      BY <1>1, <1>2, <1>3, <1>9, <3>1, <3>2, ResolvedMoves
  <2>2. DefaultOK'
    BY <1>1, <1>2, <1>7, <1>9, DefaultAdd
  <2> QED
    BY <2>1, <2>2
<1> QED
  BY <1>2, <1>4, <1>5, <1>8, <1>9

-----------------------------------------------------------------------------
(* The end of a save.                                                        *)

\* What is left to show of a save that ends.
LEMMA EndOfSave ==
  ASSUME mOp' = NoOp, mBox' \in {"running", "closed"}, Types', RowsOK', ListsOK', StaleOK',
         mBox' = "running" => mOpen' = InTable' /\ mHeld' = InTable',
         mBox' = "closed" => mOpen' = {} /\ mHeld' = {},
         mBox' = "running" => ResolvedOK' /\ DefaultOK',
         mBox' = "running" /\ ~ mLost' /\ ~ mPending' => \A k \in ObjKind : Recorded(k)' = RowsOf(k)',
         mBox' = "running" /\ ~ mLost' /\ ~ mMoved' => SameOrder'
  PROVE  IInv'
<1>1. ~ Saving'
  BY OpKinds DEF Saving
<1>2. Gone' = {} /\ Entered' = {} /\ Unheld' = {} /\ Late' = {} /\ \A k : Ahead(k)' = {}
  BY <1>1 DEF Gone, Entered, Unheld, Late, Ahead
<1>3. PhaseOK' /\ OpOK' /\ StartOK'
  BY <1>1 DEF PhaseOK, OpOK, StartOK
<1>4. ScopesOK'
  BY <1>2 DEF ScopesOK
<1>5. ResolvedOK' /\ DefaultOK'
  BY ClosedStep
<1>6. AgreeOK' /\ OrderOK'
  BY <1>2 DEF AgreeOK, OrderOK
<1> QED
  BY <1>3, <1>4, <1>5, <1>6 DEF IInv

\* The scopes between saves, and at the steps at which a save may end.
LEMMA ScopesNow ==
  ASSUME IInv
  PROVE  /\ mOp = NoOp /\ mBox = "running" => mOpen = InTable /\ mHeld = InTable
         /\ mOp = NoOp \/ mOp.pc \in {"entry", "undo", "table", "removeOld"} => (mBox = "closed" => mOpen = {} /\ mHeld = {})
         /\ mOp.pc = "undo" /\ mBox = "running" =>
              mHeld = mOpen /\ (mOp.why = "standIn" => mOpen = InTable) /\ (mOp.why # "standIn" => mOpen = InTable \ {mOp.old})
         /\ mOp.pc = "table" /\ mBox = "running" =>
              /\ mHeld = mOpen /\ (mOp.why = "standIn" => mOpen = InTable \cup {mOp.new})
              /\ mOp.why # "standIn" => mOpen = (InTable \ {mOp.old}) \cup {mOp.new}
         /\ mOp.pc = "removeOld" /\ mBox = "running" => mOpen = InTable /\ mHeld = InTable
<1>1. ScopesOK /\ PhaseOK
  BY DEF IInv
<1>2. ASSUME mOp = NoOp PROVE Gone = {} /\ Entered = {} /\ Unheld = {} /\ Late = {}
  BY <1>2, OpKinds DEF Saving, Gone, Entered, Unheld, Late
<1>3. mOp.pc \in {"entry", "undo", "table", "removeOld"} => Saving
  BY SavingFacts DEF SaveStep
<1>4. ASSUME mOp.pc \in {"entry", "undo", "table", "removeOld"} PROVE Unheld = {} /\ Late = {}
  BY <1>4, <1>3 DEF Unheld, Late
<1>5. mOp = NoOp /\ mBox = "running" => mOpen = InTable /\ mHeld = InTable
  BY <1>1, <1>2 DEF ScopesOK
<1>6. mOp = NoOp \/ mOp.pc \in {"entry", "undo", "table", "removeOld"} => (mBox = "closed" => mOpen = {} /\ mHeld = {})
  BY <1>1, <1>2, <1>4 DEF ScopesOK
<1>7. ASSUME mOp.pc = "undo", mBox = "running"
      PROVE  mHeld = mOpen /\ (mOp.why = "standIn" => mOpen = InTable) /\ (mOp.why # "standIn" => mOpen = InTable \ {mOp.old})
  <2>1. Entered = {} /\ Unheld = {}
    BY <1>4, <1>7 DEF Entered
  <2>2. Gone = IF mOp.why # "standIn" THEN {mOp.old} ELSE {}
    BY <1>3, <1>7 DEF Gone
  <2>3. mOpen = (InTable \ Gone) \cup Entered /\ mHeld \subseteq mOpen /\ mOpen \ mHeld \subseteq Unheld
    BY <1>1, <1>7 DEF ScopesOK
  <2> QED
    BY <2>1, <2>2, <2>3
<1>8. ASSUME mOp.pc = "table", mBox = "running"
      PROVE  /\ mHeld = mOpen /\ (mOp.why = "standIn" => mOpen = InTable \cup {mOp.new})
             /\ mOp.why # "standIn" => mOpen = (InTable \ {mOp.old}) \cup {mOp.new}
  <2>1. Entered = {mOp.new} /\ Unheld = {}
    BY <1>3, <1>4, <1>8 DEF Entered
  <2>2. Gone = IF mOp.why # "standIn" THEN {mOp.old} ELSE {}
    BY <1>3, <1>8 DEF Gone
  <2>3. mOpen = (InTable \ Gone) \cup Entered /\ mHeld \subseteq mOpen /\ mOpen \ mHeld \subseteq Unheld
    BY <1>1, <1>8 DEF ScopesOK
  <2> QED
    BY <2>1, <2>2, <2>3
<1>9. ASSUME mOp.pc = "removeOld", mBox = "running" PROVE mOpen = InTable /\ mHeld = InTable
  <2>1. Entered = {} /\ Unheld = {} /\ Gone = {}
    BY <1>4, <1>9 DEF Entered, Gone
  <2>3. mOpen = (InTable \ Gone) \cup Entered /\ mHeld \subseteq mOpen /\ mOpen \ mHeld \subseteq Unheld
    BY <1>1, <1>9 DEF ScopesOK
  <2> QED
    BY <2>1, <2>3
<1> QED
  BY <1>5, <1>6, <1>7, <1>8, <1>9

\* The scopes are those of a box at rest.
Rested == /\ mBox = "running" => mOpen = InTable /\ mHeld = InTable
          /\ mBox = "closed" => mOpen = {} /\ mHeld = {}

\* A save is rolled back and the tables stand.
LEMMA RollbackStep ==
  ASSUME IInv, mBox \in {"running", "closed"}, Rested, Rollback, UNCHANGED <<tableVars, mFinal, mBox>>,
         mLost => mLost', mLost' \in BOOLEAN, mMoved => mMoved', mMoved' \in BOOLEAN,
         mOp = NoOp \/ mLost' \/ (mOp.pc \in SaveStep /\ mOp.pc # "removeOld")
  PROVE  IInv'
<1>1. Types /\ UNCHANGED <<mRows, mObj, mList, mRecipe, mOpen, mHeld, mRes, mOver, mDefault, mFinal, mBox, mPending, mStale>>
  BY DEF IInv, Rollback, tableVars
<1>2. TableKept
  BY <1>1 DEF TableKept
<1>3. mOp' = NoOp /\ NoOp \notin SaveOp
  BY OpKinds DEF Rollback
<1>4. \A k : Ahead(k)' = {}
  BY <1>3 DEF Ahead, Saving
<1>5. ~ mLost' => \A k \in ObjKind : Ahead(k)' = Ahead(k)
  <2> SUFFICES ASSUME ~ mLost', NEW k \in ObjKind PROVE Ahead(k) = {}
    BY <1>4
  <2>1. CASE mOp = NoOp
    BY <1>3, <2>1 DEF Ahead, Saving
  <2>2. CASE mOp.pc \in SaveStep /\ mOp.pc # "removeOld"
    BY <2>2 DEF Ahead
  <2> QED
    BY <2>1, <2>2
<1>6. \A i \in InTable : mRes'[i] = mRes[i] /\ (i \in mOver => i \in mOver')
  BY <1>1
<1>7. RowsOK' /\ ListsOK' /\ ResolvedOK' /\ StartOK' /\ AgreeOK' /\ OrderOK' /\ DefaultOK' /\ StaleOK'
  BY <1>1, <1>2, <1>5, <1>6, QuietStep
<1>8. Types'
  BY <1>1 DEF Types
<1>9. InTable' = InTable
  BY <1>1, <1>2, Kept
<1>10. mBox' = "running" /\ ~ mLost' /\ ~ mPending' => \A k \in ObjKind : Recorded(k)' = RowsOf(k)'
  BY <1>4, <1>7 DEF AgreeOK
<1>11. mBox' = "running" /\ ~ mLost' /\ ~ mMoved' => SameOrder'
  BY <1>7 DEF OrderOK
<1>12. /\ mBox' = "running" => mOpen' = InTable' /\ mHeld' = InTable'
       /\ mBox' = "closed" => mOpen' = {} /\ mHeld' = {}
  BY <1>1, <1>9 DEF Rested
<1> QED
  BY <1>1, <1>3, <1>7, <1>8, <1>10, <1>11, <1>12, EndOfSave

\* What the end of a save that is written changes beside the tables.
Committed(op) ==
  /\ mRows' = RowsAfter(op.do, op.kind, op.row, op.spec)
  /\ mPending' \in BOOLEAN /\ (mPending => mPending')
  /\ mStale' = (mStale \/ mPending \/ mLost \/ mBox # "running" \/ op.spec.deps \cap Passing(op) # {})
  /\ mStale' \in BOOLEAN
  /\ mOp' = NoOp

LEMMA CommitIs ==
  ASSUME NEW op
  PROVE  /\ Types /\ Commit(op, FALSE) => Committed(op) /\ mPending' = mPending
         /\ Commit(op, TRUE) => Committed(op) /\ mPending'
BY Zenon DEF Commit, Committed, Types

\* While the box is closed the rows are all there is to change.
LEMMA ClosedCommit ==
  ASSUME IInv, mBox = "closed", Rested, NEW op \in SaveOp, OpRow(op), Committed(op),
         UNCHANGED <<tableVars, mFinal, mBox, mLost, mMoved>>
  PROVE  IInv'
<1>1. Types /\ RowsOK /\ ListsOK /\ UNCHANGED <<mObj, mList, mRecipe, mOpen, mHeld, mRes, mOver, mDefault>>
  BY DEF IInv, tableVars
<1>2. RowsOK' /\ mRows' \in [ObjKind -> Seq(ObjSpec)]
  BY <1>1, CommitRows DEF Committed
<1>3. Types'
  BY <1>1, <1>2 DEF Types, Committed
<1>4. TableKept
  BY <1>1 DEF TableKept
<1>5. ListsOK'
  BY <1>1, <1>4, Kept
<1>6. mStale'
  BY DEF Committed
<1>7. StaleOK'
  BY <1>6 DEF StaleOK
<1>8. mBox' = "closed" /\ mOp' = NoOp /\ mOpen' = {} /\ mHeld' = {}
  BY <1>1 DEF Rested, Committed
<1> QED
  BY <1>2, <1>3, <1>5, <1>7, <1>8, EndOfSave

\* The rows of the other kinds stand.
LEMMA OthersWritten ==
  ASSUME NEW k \in ObjKind, NEW lost, NEW put, Written(k, lost, put), NEW j \in ObjKind, j # k
  PROVE  RowsOf(j)' = RowsOf(j) /\ mRows'[j] = mRows[j]
BY DEF Written, RowsOf

\* A save of another kind than an outbound leaves the order alone.
LEMMA OrderElsewhere ==
  ASSUME Types, SameOrder, mList'["out"] = mList["out"], \A i \in Ids("out") : mObj'[i] = mObj[i], mRows'["out"] = mRows["out"]
  PROVE  SameOrder'
<1>1. \A n \in DOMAIN mList["out"] : mList["out"][n] \in Ids("out")
  BY MemberOf DEF Ids
<1> QED
  BY <1>1 DEF SameOrder, TagOf

\* What the agreement of tables and rows says between saves, and during one.
LEMMA AgreeIs ==
  ASSUME IInv, mBox = "running", ~ mLost, ~ mPending
  PROVE  /\ mOp = NoOp \/ (mOp.pc \in SaveStep /\ mOp.pc # "removeOld") => \A k \in ObjKind : Recorded(k) = RowsOf(k)
         /\ mOp.pc = "removeOld" => /\ Recorded("out") = RowsOf("out") \cup {mOp.spec}
                                    /\ \A k \in ObjKind \ {"out"} : Recorded(k) = RowsOf(k)
         /\ \A k \in ObjKind : RowsOf(k) \subseteq Recorded(k)
<1>1. \A k \in ObjKind : Recorded(k) = RowsOf(k) \cup Ahead(k)
  BY DEF IInv, AgreeOK
<1>2. mOp = NoOp \/ (mOp.pc \in SaveStep /\ mOp.pc # "removeOld") => \A k \in ObjKind : Ahead(k) = {}
  BY OpKinds DEF Ahead, Saving
<1>3. ASSUME mOp.pc = "removeOld" PROVE Ahead("out") = {mOp.spec} /\ \A k \in ObjKind \ {"out"} : Ahead(k) = {}
  BY <1>3, SavingFacts DEF Ahead, SaveStep
<1>4. "out" \in ObjKind
  BY DEF ObjKind
<1> QED
  BY <1>1, <1>2, <1>3, <1>4

\* Something is held under a tag when a component of that list has it.
LEMMA HeldIs ==
  /\ \A k, t : Holding(k, t) # {} <=> \E i \in Ids(k) : TagOf(i) = t
  /\ \A k, t : \A i \in Holding(k, t) : i \in Ids(k) /\ TagOf(i) = t
BY DEF Holding, Ids

\* IdOf is the component, or nothing.
LEMMA IdIs ==
  ASSUME Types, NEW k \in ObjKind, NEW t
  PROVE  /\ IdOf(k, t) = 0 <=> Holding(k, t) = {}
         /\ IdOf(k, t) # 0 => IdOf(k, t) \in Ids(k) /\ IdOf(k, t) \in ObjId /\ TagOf(IdOf(k, t)) = t
<1>1. CASE Holding(k, t) = {}
  BY <1>1 DEF IdOf
<1>2. CASE Holding(k, t) # {}
  <2>1. IdOf(k, t) \in Holding(k, t)
    BY <1>2 DEF IdOf
  <2>2. IdOf(k, t) \in Ids(k) /\ TagOf(IdOf(k, t)) = t
    BY <2>1, HeldIs
  <2>3. IdOf(k, t) \in ObjId
    BY <2>2, IdsAre
  <2> QED
    BY <1>2, <2>2, <2>3, NotZero
<1> QED
  BY <1>1, <1>2

\* A row is written, or taken out, whose component is not there: then the tables
\* and the rows did not agree, nor did their order.
LEMMA MissingCommit ==
  ASSUME IInv, mBox = "running", Rested, NEW op \in SaveOp, OpRow(op), op.do # "new", Committed(op), mPending' = mPending,
         Holding(op.kind, op.row.tag) = {}, UNCHANGED <<tableVars, mFinal, mBox, mLost, mMoved>>
  PROVE  IInv'
<1>1. Types /\ RowsOK /\ ListsOK /\ StaleOK /\ UNCHANGED <<mObj, mList, mRecipe, mOpen, mHeld, mRes, mOver, mDefault>>
  BY DEF IInv, tableVars
<1>2. RowsOK' /\ mRows' \in [ObjKind -> Seq(ObjSpec)]
  BY <1>1, CommitRows DEF Committed
<1>3. Types'
  BY <1>1, <1>2 DEF Types, Committed
<1>4. TableKept
  BY <1>1 DEF TableKept
<1>5. ListsOK' /\ InTable' = InTable
  BY <1>1, <1>4, Kept
<1>6. op.kind \in ObjKind /\ op.row \in RowsOf(op.kind)
  BY OpFields DEF OpRow
<1>7. mLost \/ mPending
  <2> SUFFICES ASSUME ~ mLost, ~ mPending PROVE FALSE
    OBVIOUS
  <2>1. RowsOf(op.kind) \subseteq Recorded(op.kind)
    BY <1>6, AgreeIs
  <2>2. \E i \in Ids(op.kind) : TagOf(i) = op.row.tag
    BY <1>1, <1>6, <2>1, RowHeld
  <2> QED
    BY <2>2, HeldIs
<1>8. StaleOK'
  <2>1. mStale'
    BY <1>7 DEF Committed
  <2> QED
    BY <2>1 DEF StaleOK
<1>9. ResolvedOK' /\ DefaultOK'
  <2>1. ResolvedOK /\ DefaultOK
    BY DEF IInv
  <2>2. DialerIds' = DialerIds /\ (\A t : Lookup(t)' = Lookup(t)) /\ \A k : Ids(k)' = Ids(k)
    BY <1>1, <1>4, Kept
  <2>3. ResolvedOK'
    BY <1>1, <1>5, <2>1, <2>2 DEF ResolvedOK, TagOf
  <2>4. mFinal' = mFinal /\ Lookup(mFinal)' = Lookup(mFinal)
    BY <1>1 DEF Lookup, Holding, TagOf
  <2>5. DefaultOK'
    BY <1>1, <2>1, <2>2, <2>4, DefaultIs, DefaultIsNext
  <2> QED
    BY <2>3, <2>5
<1>10. ASSUME ~ mLost, ~ mMoved PROVE SameOrder'
  <2>1. SameOrder
    BY <1>10 DEF IInv, OrderOK
  <2>2. op.kind # "out"
    BY <1>1, <1>6, <2>1, OrderFinds
  <2>3. mRows'["out"] = mRows["out"]
    <3>1. \E lost, put : Written(op.kind, lost, put)
      BY <1>1, OpFields, CommitRows DEF Committed
    <3> QED
      BY <1>6, <2>2, <3>1 DEF Written, ObjKind
  <2> QED
    BY <1>1, <2>1, <2>3, OrderElsewhere
<1>11. mBox' = "running" /\ mOp' = NoOp /\ mOpen' = InTable' /\ mHeld' = InTable'
  BY <1>1, <1>5 DEF Rested, Committed
<1> QED
  BY <1>2, <1>3, <1>5, <1>7, <1>8, <1>9, <1>10, <1>11, EndOfSave

\* An edit is written and the tables stand: nothing changed, or a restart waits.
LEMMA EditCommit ==
  ASSUME IInv, mBox = "running", mOp = NoOp, NEW op \in SaveOp, OpRow(op), op.do = "edit", op.kind # "in",
         op.spec.tag = op.row.tag, Committed(op), UNCHANGED <<tableVars, mFinal, mBox, mLost, mMoved>>,
         op.spec = op.row \/ (checkDependencies(op.spec.tag, op.spec.deps) /\ mPending')
  PROVE  IInv'
<1>1. Types /\ RowsOK /\ ListsOK /\ StaleOK /\ UNCHANGED <<mObj, mList, mRecipe, mOpen, mHeld, mRes, mOver, mDefault>>
  BY DEF IInv, tableVars
<1>2. /\ RowsOK' /\ mRows' \in [ObjKind -> Seq(ObjSpec)]
      /\ Written(op.kind, {op.row}, {op.spec}) /\ EditedAt(op.kind, op.row, op.spec)
  BY <1>1, CommitRows DEF Committed
<1>3. Types'
  BY <1>1, <1>2 DEF Types, Committed
<1>4. TableKept
  BY <1>1 DEF TableKept
<1>5. ListsOK' /\ InTable' = InTable /\ \A k \in ObjKind : Recorded(k)' = Recorded(k)
  BY <1>1, <1>4, Kept
<1>6. op.kind \in ObjKind /\ op.row \in RowsOf(op.kind)
  BY OpFields DEF OpRow
<1>7. ASSUME op.spec = op.row PROVE \A k \in ObjKind : RowsOf(k)' = RowsOf(k)
  <2>1. RowsOf(op.kind)' = (RowsOf(op.kind) \ {op.row}) \cup {op.row}
    BY <1>2, <1>7 DEF Written
  <2>2. RowsOf(op.kind)' = RowsOf(op.kind)
    BY <1>6, <2>1
  <2> QED
    BY <1>2, <1>6, <2>2, OthersWritten
<1>8. StaleOK'
  <2>1. CASE op.spec = op.row
    <3>1. DialerRows' = DialerRows
      BY <1>7, <2>1 DEF DialerRows, ObjKind
    <3>2. ~ mStale' => ~ mStale
      BY Zenon DEF Committed
    <3> QED
      BY <1>1, <3>1, <3>2 DEF StaleOK
  <2>2. CASE checkDependencies(op.spec.tag, op.spec.deps) /\ mPending'
    <3>1. ~ mLost /\ ~ mPending => \A k \in ObjKind : Recorded(k) = RowsOf(k)
      BY AgreeIs
    <3> QED
      BY <1>1, <2>2, <3>1, StaleRestart DEF Committed
  <2> QED
    BY <2>1, <2>2
<1>9. ResolvedOK' /\ DefaultOK'
  <2>1. ResolvedOK /\ DefaultOK
    BY DEF IInv
  <2>2. DialerIds' = DialerIds /\ (\A t : Lookup(t)' = Lookup(t)) /\ \A k : Ids(k)' = Ids(k)
    BY <1>1, <1>4, Kept
  <2>3. ResolvedOK'
    BY <1>1, <1>5, <2>1, <2>2 DEF ResolvedOK, TagOf
  <2>4. mFinal' = mFinal /\ Lookup(mFinal)' = Lookup(mFinal)
    BY <1>1 DEF Lookup, Holding, TagOf
  <2>5. DefaultOK'
    BY <1>1, <2>1, <2>2, <2>4, DefaultIs, DefaultIsNext
  <2> QED
    BY <2>3, <2>5
<1>10. ASSUME ~ mLost, ~ mMoved PROVE SameOrder'
  <2>1. SameOrder
    BY <1>10 DEF IInv, OrderOK
  <2>2. CASE op.kind # "out"
    <3>1. mRows'["out"] = mRows["out"]
      BY <1>2, <2>2 DEF Written, ObjKind
    <3> QED
      BY <1>1, <2>1, <3>1, OrderElsewhere
  <2>3. CASE op.kind = "out"
    <3>1. RowTagsKept
      BY <1>2, <2>3, EditKeepsTags
    <3>2. ListTagsKept
      BY <1>1 DEF ListTagsKept
    <3>3. mList' \in [ObjKind -> Seq(ObjId)]
      BY <1>3 DEF Types
    <3> QED
      BY <1>1, <2>1, <3>1, <3>2, <3>3, OrderKept
  <2> QED
    BY <2>2, <2>3
<1>11. mBox' = "running" /\ mOp' = NoOp /\ mOpen' = InTable' /\ mHeld' = InTable'
  BY <1>1, <1>5, ScopesNow DEF Committed
<1>12. ASSUME ~ mLost, ~ mPending' PROVE \A k \in ObjKind : Recorded(k)' = RowsOf(k)'
  <2>1. ~ mPending /\ op.spec = op.row
    BY <1>12 DEF Committed
  <2>2. \A k \in ObjKind : Recorded(k) = RowsOf(k)
    BY <1>12, <2>1, AgreeIs
  <2> QED
    BY <1>5, <1>7, <2>1, <2>2
<1> QED
  BY <1>2, <1>3, <1>5, <1>8, <1>9, <1>10, <1>11, <1>12, EndOfSave

\* create: refused, or the new component is built and the old one closed.
LEMMA CreateStep ==
  ASSUME IInv, mBox = "running", mOp = NoOp, NEW op \in SaveOp, OpRow(op), op.do # "del",
         create(op, IdOf(op.kind, op.spec.tag)),
         op.kind # "out" /\ op.do = "edit" => op.spec.tag = op.row.tag \/ Holding(op.kind, op.row.tag) = {},
         Retags(op) => mMoved', mMoved => mMoved', mMoved' \in BOOLEAN, UNCHANGED <<mFinal, mBox, mLost>>
  PROVE  IInv'
<1>1. Types /\ Rested
  BY ScopesNow DEF IInv, Rested
<1> DEFINE old == IdOf(op.kind, op.spec.tag)
<1>2. op.kind \in ObjKind /\ op.spec \in ObjSpec /\ op.do \in {"new", "edit", "del"}
  BY OpFields
<1>3. /\ old = 0 <=> Holding(op.kind, op.spec.tag) = {}
      /\ old # 0 => old \in Ids(op.kind) /\ TagOf(old) = op.spec.tag
  BY <1>1, <1>2, IdIs
<1> HIDE DEF old
<1>4. CASE old # 0 /\ refuse(op.kind, op.spec.tag, FALSE) /\ Rollback /\ UNCHANGED tableVars
  BY <1>1, <1>4, RollbackStep DEF Types
<1>5. CASE /\ old = 0 \/ ~ refuse(op.kind, op.spec.tag, FALSE)
           /\ Build(op, op.spec, old, "put")
           /\ UNCHANGED <<mList, mRecipe, mDefault, mRows, mPending, mStale>>
  <2>1. WhyOK(op, op.spec, old, "put")
    BY <1>3 DEF WhyOK
  <2>2. old # 0 /\ op.kind # "in" => dependents(op.spec.tag) = {}
    BY <1>2, <1>5 DEF refuse, ObjKind
  <2>3. OldOK(op, old, "put")
    BY <1>3, <2>2 DEF OldOK
  <2> QED
    BY <1>2, <1>5, <2>1, <2>3, BuildStep
<1> QED
  BY <1>4, <1>5, Zenon DEF create, old

\* rename: refused, or the new component is built under the new tag.
LEMMA RenameStep ==
  ASSUME IInv, mBox = "running", mOp = NoOp, NEW op \in SaveOp, OpRow(op), op.do = "edit", op.kind # "out",
         rename(op), UNCHANGED <<mFinal, mBox, mLost, mMoved>>
  PROVE  IInv'
<1>1. Types /\ Rested
  BY ScopesNow DEF IInv, Rested
<1> DEFINE old == IdOf(op.kind, op.row.tag)
<1>2. op.kind \in ObjKind /\ op.spec \in ObjSpec /\ ~ Retags(op)
  BY OpFields DEF Retags
<1>3. /\ old = 0 <=> Holding(op.kind, op.row.tag) = {}
      /\ old # 0 => old \in Ids(op.kind) /\ TagOf(old) = op.row.tag
  BY <1>1, <1>2, IdIs
<1> HIDE DEF old
<1>4. CASE old = 0
  <2>1. create(op, IdOf(op.kind, op.spec.tag))
    BY <1>4 DEF rename, old
  <2> QED
    BY <1>1, <1>2, <1>3, <1>4, <2>1, CreateStep DEF Types
<1>5. CASE old # 0 /\ Rollback /\ UNCHANGED tableVars
  BY <1>1, <1>5, RollbackStep DEF Types
<1>6. CASE /\ old # 0 /\ Holding(op.kind, op.spec.tag) = {} /\ ~ refuse(op.kind, op.row.tag, TRUE)
           /\ Build(op, op.spec, old, "put")
           /\ UNCHANGED <<mList, mRecipe, mDefault, mRows, mPending, mStale>>
  <2>1. WhyOK(op, op.spec, old, "put")
    BY <1>3 DEF WhyOK
  <2>2. op.kind # "in" => dependents(op.row.tag) = {} /\ op.row.tag # mFinal
    BY <1>2, <1>6 DEF refuse, ObjKind
  <2>3. OldOK(op, old, "put")
    BY <1>3, <1>6, <2>2 DEF OldOK
  <2> QED
    BY <1>1, <1>2, <1>6, <2>1, <2>3, BuildStep DEF Types
<1> QED
  BY <1>4, <1>5, <1>6, Zenon DEF rename, old

\* A component is taken down at the end of a save.
LEMMA TakeDownEnd ==
  ASSUME IInv, mBox = "running", Rested, NEW k \in ObjKind, NEW it \in Ids(k), TakeDown(k, it),
         UNCHANGED <<mFinal, mBox, mLost, mMoved>>, mOp' = NoOp,
         mRows' \in [ObjKind -> Seq(ObjSpec)], RowsOK', StaleOK', mPending' \in BOOLEAN, mStale' \in BOOLEAN,
         k # "in" => dependents(TagOf(it)) = {} /\ TagOf(it) # mFinal, ~ standIn(k, it),
         ~ mLost /\ ~ mPending' =>
           Recorded(k) \ {mObj[it]} = RowsOf(k)' /\ \A j \in ObjKind \ {k} : Recorded(j) = RowsOf(j)',
         ~ mLost /\ ~ mMoved => SameOrder'
  PROVE  IInv'
<1>1. Types
  BY DEF IInv
<1>2. /\ drop(k, it) /\ UNCHANGED <<mObj, mRes, mOver>>
      /\ mOpen' = mOpen \ {it} /\ mHeld' = mHeld \ ({it} \cap mOpen)
  BY DEF TakeDown
<1>3. mFinal = "" /\ k = "out" => mList["out"] # <<it>>
  BY DEF standIn
<1>4. /\ ListsOK' /\ MovedTo(k, {it}, {}) /\ InTable' = InTable \ {it} /\ mDefault' \in ObjId \cup {0}
      /\ Recorded(k)' = Recorded(k) \ {mObj[it]}
      /\ \A j \in ObjKind \ {k} : Recorded(j)' = Recorded(j)
      /\ ResolvedOK' /\ DefaultOK'
  BY <1>2, <1>3, DropStep
<1>5. mOpen' = InTable' /\ mHeld' = InTable'
  BY <1>2, <1>4 DEF Rested
<1>6. Types'
  <2>1. mList' \in [ObjKind -> Seq(ObjId)] /\ mRecipe' \in [ObjKind -> SUBSET AnyTag]
    BY <1>4 DEF MovedTo
  <2> QED
    BY <1>1, <1>2, <1>4, <2>1 DEF Types
<1>7. ~ mLost' /\ ~ mPending' => \A j \in ObjKind : Recorded(j)' = RowsOf(j)'
  BY <1>4
<1>8. mBox' = "running"
  OBVIOUS
<1> QED
  BY <1>4, <1>5, <1>6, <1>7, <1>8, EndOfSave

\* remove: nothing there, refused, a stand-in is built, or the component goes.
LEMMA RemoveStep ==
  ASSUME IInv, mBox = "running", mOp = NoOp, NEW op \in SaveOp, OpRow(op), op.do = "del", op.spec = op.row,
         remove(op, op.row.tag), UNCHANGED <<mFinal, mBox, mLost, mMoved>>
  PROVE  IInv'
<1>1. Types /\ Rested /\ RowsOK /\ ListsOK /\ StaleOK
  BY ScopesNow DEF IInv, Rested
<1> DEFINE it == IdOf(op.kind, op.row.tag)
<1>2. op.kind \in ObjKind /\ op.row \in RowsOf(op.kind) /\ ~ Retags(op)
  BY OpFields DEF Retags, OpRow
<1>3. /\ it = 0 <=> Holding(op.kind, op.row.tag) = {}
      /\ it # 0 => it \in Ids(op.kind) /\ TagOf(it) = op.row.tag
  BY <1>1, <1>2, IdIs
<1> HIDE DEF it
<1>4. CASE it = 0 /\ Commit(op, FALSE) /\ UNCHANGED tableVars
  <2>1. Committed(op) /\ mPending' = mPending
    BY <1>1, <1>4, CommitIs
  <2> QED
    BY <1>1, <1>3, <1>4, <2>1, MissingCommit
<1>5. CASE it # 0 /\ Rollback /\ UNCHANGED tableVars
  BY <1>1, <1>5, RollbackStep DEF Types
<1>6. ASSUME it # 0, ~ refuse(op.kind, op.row.tag, TRUE)
      PROVE  op.kind # "in" => dependents(TagOf(it)) = {} /\ TagOf(it) # mFinal
  BY <1>2, <1>3, <1>6 DEF refuse, ObjKind
<1>7. CASE /\ it # 0 /\ ~ refuse(op.kind, op.row.tag, TRUE) /\ standIn(op.kind, it)
           /\ Build(op, Direct, it, "standIn")
           /\ UNCHANGED <<mList, mRecipe, mDefault, mRows, mPending, mStale>>
  <2>1. WhyOK(op, Direct, it, "standIn")
    BY <1>3, <1>7 DEF WhyOK, standIn
  <2>2. OldOK(op, it, "standIn")
    BY <1>6, <1>7 DEF OldOK
  <2> QED
    BY <1>1, <1>2, <1>7, <2>1, <2>2, BuildStep DEF Types
<1>8. CASE /\ it # 0 /\ ~ refuse(op.kind, op.row.tag, TRUE) /\ ~ standIn(op.kind, it)
           /\ TakeDown(op.kind, it) /\ Commit(op, FALSE)
  <2>1. Committed(op) /\ mPending' = mPending
    BY <1>1, <1>8, CommitIs
  <2>2. /\ RowsOK' /\ mRows' \in [ObjKind -> Seq(ObjSpec)]
        /\ Written(op.kind, {op.row}, {}) /\ TakenAt(op.kind, op.row)
    BY <1>1, <2>1, CommitRows DEF Committed
  <2>3. StaleOK'
    <3>1. ASSUME ~ mLost, ~ mPending
          PROVE  /\ \A k \in ObjKind : RowsOf(k) \subseteq Recorded(k)
                 /\ Recorded("end") \subseteq RowsOf("end") /\ Recorded("out") \subseteq RowsOf("out") \cup {op.spec}
                 /\ op.kind # "in" => dependents(op.row.tag) = {}
      <4>1. \A k \in ObjKind : Recorded(k) = RowsOf(k)
        BY <3>1, AgreeIs
      <4> QED
        BY <1>3, <1>6, <1>8, <4>1 DEF ObjKind
    <3> QED
      BY <1>1, <2>1, <3>1, StaleCommit DEF Committed
  <2>4. ASSUME ~ mLost, ~ mPending
        PROVE  Recorded(op.kind) \ {mObj[it]} = RowsOf(op.kind)' /\ \A j \in ObjKind \ {op.kind} : Recorded(j) = RowsOf(j)'
    <3>1. \A k \in ObjKind : Recorded(k) = RowsOf(k)
      BY <2>4, AgreeIs
    <3>2. mObj[it] = op.row
      BY <1>1, <1>2, <1>3, <1>8, <3>1, RowHeld
    <3>3. RowsOf(op.kind)' = RowsOf(op.kind) \ {op.row}
      BY <2>2 DEF Written
    <3>4. \A j \in ObjKind \ {op.kind} : RowsOf(j)' = RowsOf(j)
      BY <1>2, <2>2, OthersWritten
    <3> QED
      BY <1>2, <3>1, <3>2, <3>3, <3>4
  <2>5. ASSUME ~ mLost, ~ mMoved PROVE SameOrder'
    <3>1. SameOrder
      BY <2>5 DEF IInv, OrderOK
    <3>2. drop(op.kind, it) /\ UNCHANGED mObj
      BY <1>8 DEF TakeDown
    <3>3. /\ MovedTo(op.kind, {it}, {})
          /\ \E p \in DOMAIN mList[op.kind] : mList[op.kind][p] = it /\ mList'[op.kind] = WithoutAt(mList[op.kind], p)
      BY <1>1, <1>2, <1>3, <1>8, <3>2, DropEffect
    <3>4. CASE op.kind # "out"
      <4>1. mRows'["out"] = mRows["out"] /\ mList'["out"] = mList["out"]
        BY <2>2, <3>3, <3>4 DEF Written, MovedTo, ObjKind
      <4> QED
        BY <1>1, <3>1, <3>2, <4>1, OrderElsewhere
    <3>5. CASE op.kind = "out"
      <4>1. PICK p \in DOMAIN mList["out"] : mList["out"][p] = it /\ mList'["out"] = WithoutAt(mList["out"], p)
        BY <3>3, <3>5
      <4>2. PICK q \in DOMAIN mRows["out"] : mRows["out"][q] = op.row /\ mRows'["out"] = WithoutAt(mRows["out"], q)
        BY <2>2, <3>5 DEF TakenAt
      <4>3. p = q
        BY <1>1, <1>3, <1>8, <3>1, <4>1, <4>2, OrderFinds
      <4> QED
        BY <1>1, <3>1, <3>2, <4>1, <4>2, <4>3, OrderTake
    <3> QED
      BY <3>4, <3>5
  <2>6. mOp' = NoOp /\ mPending' \in BOOLEAN /\ mStale' \in BOOLEAN
    BY <2>1 DEF Committed
  <2> QED
    BY <1>1, <1>2, <1>3, <1>6, <1>8, <2>1, <2>2, <2>3, <2>4, <2>5, <2>6, TakeDownEnd
<1> QED
  BY <1>4, <1>5, <1>7, <1>8, Zenon DEF remove, it

-----------------------------------------------------------------------------
(* The saves.                                                                *)

LEMMA NewOpIs ==
  ASSUME NEW do \in {"new", "edit", "del"}, NEW k \in ObjKind, NEW row \in ObjSpec, NEW spec \in ObjSpec
  PROVE  LET op == NewOp(do, k, row, spec) IN
         /\ op \in SaveOp /\ op.do = do /\ op.kind = k /\ op.row = row /\ op.spec = spec
BY DEF NewOp, SaveOp, SaveStep

\* "new".
LEMMA SaveNewStep ==
  ASSUME IInv, NEW s \in ObjSpec, SaveNew(s)
  PROVE  IInv'
<1> DEFINE op == NewOp("new", s.kind, s, s)
<1>1. Types /\ RowsOK
  BY DEF IInv
<1>2. /\ mBox \in {"running", "closed"} /\ mOp = NoOp /\ RowCount(mRows) < MaxObj - 2
      /\ tagFreeAcross(s.kind, s.tag, s) /\ s \notin RowsOf(s.kind)
      /\ UNCHANGED <<mFinal, mBox, mLost, mMoved>>
  BY DEF SaveNew, CanSave, ghostVars
<1>3. \/ mBox = "running" /\ create(op, IdOf(s.kind, s.tag))
      \/ mBox = "closed" /\ Commit(op, FALSE) /\ UNCHANGED tableVars
  BY DEF SaveNew
<1>4. s.kind \in ObjKind
  BY SpecIs
<1>5. op \in SaveOp /\ op.do = "new" /\ op.kind = s.kind /\ op.row = s /\ op.spec = s
  BY <1>4, NewOpIs
<1> HIDE DEF op
<1>6. RowCount(mRows) < MaxObj
  <2>1. RowCount(mRows) \in Nat /\ MaxObj \in Nat
    BY <1>1, RowLens, RowCountIs
  <2> QED
    BY <1>2, <2>1
<1>7. OpRow(op)
  BY <1>2, <1>5, <1>6 DEF OpRow
<1>8. Rested
  BY <1>2, ScopesNow DEF Rested
<1>9. CASE mBox = "running" /\ create(op, IdOf(s.kind, s.tag))
  <2>1. ~ Retags(op)
    BY <1>5 DEF Retags
  <2> QED
    BY <1>1, <1>2, <1>5, <1>7, <1>9, <2>1, CreateStep DEF Types
<1>10. CASE mBox = "closed" /\ Commit(op, FALSE) /\ UNCHANGED tableVars
  <2>1. Committed(op)
    BY <1>1, <1>10, CommitIs
  <2> QED
    BY <1>2, <1>5, <1>7, <1>8, <1>10, <2>1, ClosedCommit
<1> QED
  BY <1>3, <1>9, <1>10

\* "del".
LEMMA SaveDelStep ==
  ASSUME IInv, NEW k \in ObjKind, NEW row \in RowsOf(k), SaveDel(k, row)
  PROVE  IInv'
<1> DEFINE op == NewOp("del", k, row, row)
<1>1. Types /\ RowsOK
  BY DEF IInv
<1>2. mBox \in {"running", "closed"} /\ mOp = NoOp /\ UNCHANGED <<mFinal, mBox, mLost, mMoved>>
  BY DEF SaveDel, CanSave, ghostVars
<1>3. \/ mBox = "running" /\ remove(op, row.tag)
      \/ mBox = "closed" /\ Commit(op, FALSE) /\ UNCHANGED tableVars
  BY DEF SaveDel
<1>4. row \in ObjSpec /\ row.kind = k
  BY <1>1, RowIs
<1>5. op \in SaveOp /\ op.do = "del" /\ op.kind = k /\ op.row = row /\ op.spec = row
  BY <1>4, NewOpIs
<1> HIDE DEF op
<1>6. OpRow(op)
  BY <1>4, <1>5 DEF OpRow
<1>7. Rested
  BY <1>2, ScopesNow DEF Rested
<1>8. CASE mBox = "running" /\ remove(op, row.tag)
  BY <1>2, <1>5, <1>6, <1>8, RemoveStep
<1>9. CASE mBox = "closed" /\ Commit(op, FALSE) /\ UNCHANGED tableVars
  <2>1. Committed(op)
    BY <1>1, <1>9, CommitIs
  <2> QED
    BY <1>2, <1>5, <1>6, <1>7, <1>9, <2>1, ClosedCommit
<1> QED
  BY <1>3, <1>8, <1>9

\* "edit".
LEMMA SaveEditStep ==
  ASSUME IInv, NEW k \in ObjKind, NEW row \in RowsOf(k), NEW s \in ObjSpec, SaveEdit(k, row, s)
  PROVE  IInv'
<1> DEFINE op == NewOp("edit", k, row, s)
           held == IdOf(k, row.tag)
<1>1. Types /\ RowsOK
  BY DEF IInv
<1>2. mBox \in {"running", "closed"} /\ mOp = NoOp /\ s.kind = k /\ tagFreeAcross(k, s.tag, row) /\ UNCHANGED <<mFinal, mBox, mLost>>
  BY DEF SaveEdit, CanSave
<1>3. \/ mBox = "closed" /\ Commit(op, FALSE) /\ UNCHANGED <<tableVars, mMoved>>
      \/ /\ mBox = "running" /\ k # "in" /\ s = row
         /\ Commit(op, FALSE) /\ UNCHANGED <<tableVars, mMoved>>
      \/ /\ mBox = "running" /\ k # "in" /\ s.tag = row.tag /\ checkDependencies(s.tag, s.deps) /\ Commit(op, TRUE)
         /\ UNCHANGED <<tableVars, mMoved>>
      \/ /\ mBox = "running" /\ Rollback /\ UNCHANGED <<tableVars, mMoved>>
      \/ /\ mBox = "running" /\ s.tag = row.tag /\ create(op, held) /\ UNCHANGED mMoved
      \/ /\ mBox = "running" /\ s.tag # row.tag /\ k # "out" /\ rename(op) /\ UNCHANGED mMoved
      \/ /\ mBox = "running" /\ s.tag # row.tag /\ k = "out" /\ create(op, IdOf(k, s.tag)) /\ mMoved' = TRUE
  BY Zenon DEF SaveEdit
<1>4. row \in ObjSpec /\ row.kind = k
  BY <1>1, RowIs
<1>5. op \in SaveOp /\ op.do = "edit" /\ op.kind = k /\ op.row = row /\ op.spec = s
  BY <1>4, NewOpIs
<1> HIDE DEF op
<1>6. OpRow(op)
  BY <1>2, <1>4, <1>5 DEF OpRow
<1>7. Rested
  BY <1>2, ScopesNow DEF Rested
<1>8. CASE mBox = "closed" /\ Commit(op, FALSE) /\ UNCHANGED <<tableVars, mMoved>>
  <2>1. Committed(op)
    BY <1>1, <1>8, CommitIs
  <2> QED
    BY <1>2, <1>5, <1>6, <1>7, <1>8, <2>1, ClosedCommit
<1>9. CASE mBox = "running" /\ k # "in" /\ s = row /\ Commit(op, FALSE) /\ UNCHANGED <<tableVars, mMoved>>
  <2>1. Committed(op)
    BY <1>1, <1>9, CommitIs
  <2> QED
    BY <1>2, <1>5, <1>6, <1>9, <2>1, EditCommit
<1>10. CASE /\ mBox = "running" /\ k # "in" /\ s.tag = row.tag /\ checkDependencies(s.tag, s.deps) /\ Commit(op, TRUE)
            /\ UNCHANGED <<tableVars, mMoved>>
  <2>1. Committed(op) /\ mPending'
    BY <1>10, CommitIs
  <2> QED
    BY <1>2, <1>5, <1>6, <1>10, <2>1, EditCommit
<1>11. CASE mBox = "running" /\ Rollback /\ UNCHANGED <<tableVars, mMoved>>
  BY <1>1, <1>2, <1>7, <1>11, RollbackStep DEF Types
<1>12. CASE mBox = "running" /\ s.tag = row.tag /\ create(op, held) /\ UNCHANGED mMoved
  <2>1. ~ Retags(op) /\ create(op, IdOf(op.kind, op.spec.tag))
    BY <1>5, <1>12 DEF Retags
  <2> QED
    BY <1>1, <1>2, <1>5, <1>6, <1>12, <2>1, CreateStep DEF Types
<1>13. CASE mBox = "running" /\ s.tag # row.tag /\ k # "out" /\ rename(op) /\ UNCHANGED mMoved
  BY <1>2, <1>5, <1>6, <1>13, RenameStep
<1>14. CASE mBox = "running" /\ s.tag # row.tag /\ k = "out" /\ create(op, IdOf(k, s.tag)) /\ mMoved' = TRUE
  <2>1. mMoved' \in BOOLEAN /\ mMoved'
    BY <1>14
  <2> QED
    BY <1>2, <1>5, <1>6, <1>14, <2>1, CreateStep
<1> QED
  BY <1>3, <1>8, <1>9, <1>10, <1>11, <1>12, <1>13, <1>14

\* A start that failed: what it replaced comes back, is dropped, or there was nothing.
LEMMA FailedStep ==
  ASSUME IInv, mOp.pc = "undo" \/ (mOp.pc = "entry" /\ mBox = "closed"), Failed(mOp), UNCHANGED <<mFinal, mBox, mMoved>>
  PROVE  IInv'
<1>1. /\ Saving /\ mOp \in SaveOp /\ mBox \in {"running", "closed"}
      /\ Types /\ RowsOK /\ ListsOK /\ OpRow(mOp) /\ (Retags(mOp) => mMoved)
      /\ OpNew(mOp) /\ OpOld(mOp)
  BY SavingFacts DEF SaveStep
<1>2. mOp.kind \in ObjKind /\ mOp.why \in {"put", "restore", "standIn"}
  BY <1>1, OpFields
<1>3. WhyOK(mOp, mObj[mOp.new], mOp.old, mOp.why) /\ OldOK(mOp, mOp.old, mOp.why)
  BY <1>1 DEF OpNew, OpOld
<1>4. CASE /\ mOp.why = "put" /\ mOp.old # 0 /\ TagOf(mOp.old) \in mRecipe[mOp.kind]
           /\ Build(mOp, mObj[mOp.old], mOp.old, "restore")
           /\ UNCHANGED <<mList, mRecipe, mDefault, mLost, mRows, mPending, mStale>>
  <2>1. mOp.old \in Ids(mOp.kind)
    BY <1>3, <1>4 DEF WhyOK
  <2>2. mObj[mOp.old] \in ObjSpec \cup {Direct}
    BY <1>1, <1>2, <2>1, IdsAre DEF Types
  <2>3. WhyOK(mOp, mObj[mOp.old], mOp.old, "restore")
    BY <1>3, <1>4, <2>1 DEF WhyOK
  <2>4. OldOK(mOp, mOp.old, "restore")
    BY <1>3, <1>4 DEF OldOK
  <2>5. mMoved' = mMoved /\ mMoved' \in BOOLEAN
    BY <1>1 DEF Types
  <2> QED
    BY <1>1, <1>4, <2>2, <2>3, <2>4, <2>5, BuildStep
<1>5. CASE /\ mOp.why = "restore" \/ (mOp.why = "put" /\ mOp.old # 0 /\ TagOf(mOp.old) \notin mRecipe[mOp.kind])
           /\ drop(mOp.kind, mOp.old) /\ mLost' = TRUE /\ Rollback
           /\ UNCHANGED <<mObj, mRes, mOver, mOpen, mHeld>>
  <2>1. mOp.old \in Ids(mOp.kind) /\ mOp.old # 0
    BY <1>3, <1>5 DEF WhyOK
  <2>2. mOp.kind = "in" \/ dependents(TagOf(mOp.old)) = {}
    BY <1>3, <2>1 DEF OldOK
  <2>3. mLost' /\ mLost' \in BOOLEAN
    BY <1>5
  <2>0. PICK k \in ObjKind, old \in ObjId : k = mOp.kind /\ old = mOp.old /\ old \in Ids(k)
    BY <1>1, <1>2, <2>1, IdsAre
  <2>4. /\ ListsOK' /\ MovedTo(k, {old}, {}) /\ InTable' = InTable \ {old} /\ mDefault' \in ObjId \cup {0}
        /\ mBox = "running" => ResolvedOK' /\ DefaultOK'
    BY <1>5, <2>0, <2>2, <2>3, DropStep
  <2>5. mOp' = NoOp /\ UNCHANGED <<mRows, mPending, mStale>>
    BY <1>5 DEF Rollback
  <2>6. Types'
    <3>1. mList' \in [ObjKind -> Seq(ObjId)] /\ mRecipe' \in [ObjKind -> SUBSET AnyTag]
      BY <2>4 DEF MovedTo
    <3> QED
      BY <1>1, <1>5, <2>3, <2>4, <2>5, <3>1 DEF Types
  <2>7. RowsOK' /\ StaleOK'
    <3>1. RowsOK /\ StaleOK
      BY DEF IInv
    <3> QED
      BY <2>5, <3>1 DEF RowsOK, StaleOK, DialerRows, RowsOf
  <2>8. /\ mBox' = "running" => mOpen' = InTable' /\ mHeld' = InTable'
        /\ mBox' = "closed" => mOpen' = {} /\ mHeld' = {}
    <3>1. mOp.pc \in {"entry", "undo", "table", "removeOld"}
      OBVIOUS
    <3>2. mBox = "closed" => mOpen = {} /\ mHeld = {}
      BY <3>1, ScopesNow
    <3>3. mBox = "running" => mHeld = mOpen /\ mOpen = InTable \ {mOp.old}
      BY <1>5, ScopesNow
    <3> QED
      BY <1>5, <2>0, <2>4, <3>2, <3>3
  <2> QED
    BY <1>1, <2>3, <2>4, <2>5, <2>6, <2>7, <2>8, EndOfSave
<1>6. CASE /\ mOp.why = "standIn" \/ mOp.old = 0
           /\ Rollback /\ UNCHANGED <<tableVars, mLost>>
  <2>1. Rested
    <3>1. mOp.pc \in {"entry", "undo", "table", "removeOld"}
      OBVIOUS
    <3>2. mBox = "closed" => mOpen = {} /\ mHeld = {}
      BY <3>1, ScopesNow
    <3>3. 0 \notin InTable
      BY <1>1, IdsAre, NotZero
    <3>4. mBox = "running" => mHeld = mOpen /\ mOpen = InTable
      BY <1>6, <3>3, ScopesNow
    <3> QED
      BY <3>2, <3>4 DEF Rested
  <2>2. mOp.pc \in SaveStep /\ mOp.pc # "removeOld"
    BY DEF SaveStep
  <2> QED
    BY <1>1, <1>6, <2>1, <2>2, RollbackStep DEF Types
<1> QED
  BY <1>4, <1>5, <1>6, Zenon DEF Failed

LEMMA EntryUndoStep ==
  ASSUME IInv, Entry \/ Undo
  PROVE  IInv'
<1>1. CASE Undo
  BY <1>1, FailedStep DEF Undo
<1>2. CASE Entry /\ mBox = "closed" /\ Failed(mOp)
  BY <1>2, FailedStep DEF Entry
<1>3. CASE /\ Entry /\ mBox = "running" /\ mOpen' = mOpen \cup {mOp.new} /\ mOp' = [mOp EXCEPT !.pc = "run"]
           /\ UNCHANGED <<mObj, mList, mRecipe, mHeld, mRes, mOver, mDefault, mLost, mRows, mPending, mStale>>
  BY <1>3, EntryStep DEF Entry
<1> QED
  BY <1>1, <1>2, <1>3 DEF Entry

-----------------------------------------------------------------------------
(* The component that runs is put in the table.                              *)

LEMMA TableFacts ==
  ASSUME IInv, mOp.pc = "table"
  PROVE  /\ Saving /\ mOp \in SaveOp /\ mBox \in {"running", "closed"}
         /\ Types /\ RowsOK /\ ListsOK /\ StaleOK /\ OpRow(mOp) /\ (Retags(mOp) => mMoved)
         /\ mOp.new \in ObjId /\ mOp.new \notin InTable /\ mOp.new # mOp.old
         /\ WhyOK(mOp, mObj[mOp.new], mOp.old, mOp.why) /\ OldOK(mOp, mOp.old, mOp.why)
         /\ Resolved(mOp.new, mOp.old) /\ \A d \in mObj[mOp.new].deps : Lookup(d) # {}
         /\ mOp.kind \in ObjKind /\ mOp.spec \in ObjSpec /\ mOp.row \in ObjSpec /\ mOp.do \in {"new", "edit", "del"}
<1>1. /\ Saving /\ mOp \in SaveOp /\ mBox \in {"running", "closed"}
      /\ Types /\ RowsOK /\ ListsOK /\ OpRow(mOp) /\ (Retags(mOp) => mMoved)
      /\ OpNew(mOp) /\ OpOld(mOp) /\ OpRes(mOp)
  BY SavingFacts DEF SaveStep
<1>2. StaleOK
  BY DEF IInv
<1>3. Resolved(mOp.new, mOp.old) /\ \A d \in mObj[mOp.new].deps : Lookup(d) # {}
  BY <1>1 DEF OpRes, Resolved
<1>4. mOp.kind \in ObjKind /\ mOp.spec \in ObjSpec /\ mOp.row \in ObjSpec /\ mOp.do \in {"new", "edit", "del"}
  BY <1>1, OpFields
<1> QED
  BY <1>1, <1>2, <1>3, <1>4 DEF OpNew, OpOld

\* A row whose tag the save takes is the row it writes over.
LEMMA TagIsFree ==
  ASSUME NEW op \in SaveOp, OpRow(op), op.do # "del", NEW r \in RowsOf(op.kind), r.tag = op.spec.tag
  PROVE  op.do = "edit" /\ r = op.row /\ op.row.tag = op.spec.tag
<1>1. op.kind \in ObjKind /\ op.do \in {"new", "edit", "del"}
  BY OpFields
<1>2. op.kind \in Shares(op.kind)
  BY <1>1, SharesOwn
<1>3. r = op.row
  BY <1>2 DEF OpRow, tagFreeAcross
<1> QED
  BY <1>1, <1>3 DEF OpRow

\* What a component is put in the place of, where the tables and the rows agree.
LEMMA PutAgrees ==
  ASSUME IInv, mOp.pc = "table", mOp.why = "put", mBox = "running", ~ mLost, ~ mPending
  PROVE  /\ \A k \in ObjKind : Recorded(k) = RowsOf(k)
         /\ (mOp.do = "new" \/ Retags(mOp)) /\ mOp.old # 0 => mObj[mOp.old] \notin Recorded(mOp.kind)
         /\ mOp.do = "edit" /\ ~ Retags(mOp) => mOp.old # 0 /\ mObj[mOp.old] = mOp.row /\ TagOf(mOp.old) = mOp.row.tag
<1>1. \A k \in ObjKind : Recorded(k) = RowsOf(k)
  BY AgreeIs DEF SaveStep
<1>2. mOp \in SaveOp /\ Types /\ ListsOK /\ OpRow(mOp) /\ mOp.kind \in ObjKind /\ mOp.do # "del"
  BY TableFacts DEF WhyOK
<1>3. WhyOK(mOp, mObj[mOp.new], mOp.old, "put") /\ OldOK(mOp, mOp.old, "put")
  BY TableFacts
<1>4. ASSUME mOp.do = "new" \/ Retags(mOp), mOp.old # 0, mObj[mOp.old] \in Recorded(mOp.kind) PROVE FALSE
  <2>1. TagOf(mOp.old) = mOp.spec.tag
    BY <1>3, <1>4 DEF OldOK, Retags
  <2>2. mObj[mOp.old] \in RowsOf(mOp.kind) /\ mObj[mOp.old].tag = mOp.spec.tag
    BY <1>1, <1>2, <1>4, <2>1 DEF TagOf
  <2> QED
    BY <1>2, <1>4, <2>2, TagIsFree DEF Retags
<1>5. ASSUME mOp.do = "edit", ~ Retags(mOp) PROVE mOp.old # 0 /\ mObj[mOp.old] = mOp.row /\ TagOf(mOp.old) = mOp.row.tag
  <2>1. mOp.row \in RowsOf(mOp.kind)
    BY <1>2, <1>5 DEF OpRow
  <2>2. /\ Holding(mOp.kind, mOp.row.tag) # {}
        /\ \A i \in Ids(mOp.kind) : TagOf(i) = mOp.row.tag => mObj[i] = mOp.row
    BY <1>1, <1>2, <2>1, RowHeld, HeldIs
  <2>3. mOp.old # 0 /\ mOp.old \in Ids(mOp.kind)
    BY <1>3, <1>5, <2>2 DEF OldOK, Retags, WhyOK
  <2>4. CASE TagOf(mOp.old) = mOp.row.tag
    BY <2>2, <2>3, <2>4
  <2>5. CASE TagOf(mOp.old) # mOp.row.tag
    <3>1. TagOf(mOp.old) = mOp.spec.tag /\ mOp.kind # "out"
      BY <1>3, <1>5, <2>3, <2>5 DEF OldOK, Retags
    <3>2. mObj[mOp.old].kind = mOp.kind /\ (TagOf(mOp.old) \in mRecipe[mOp.kind] \/ mObj[mOp.old] = Direct)
      BY <1>2, <2>3 DEF ListsOK
    <3>3. TagOf(mOp.old) \in mRecipe[mOp.kind]
      BY <3>1, <3>2 DEF Direct
    <3>4. mObj[mOp.old] \in Recorded(mOp.kind)
      BY <2>3, <3>3 DEF Recorded
    <3>5. mObj[mOp.old] \in RowsOf(mOp.kind) /\ mObj[mOp.old].tag = mOp.spec.tag
      BY <1>1, <1>2, <3>1, <3>4 DEF TagOf
    <3> QED
      BY <1>2, <2>5, <3>5, TagIsFree DEF TagOf
  <2> QED
    BY <2>4, <2>5
<1> QED
  BY <1>1, <1>4, <1>5

\* And where the outbounds are in the order of the rows.
LEMMA PutOrder ==
  ASSUME IInv, mOp.pc = "table", mOp.why = "put", mBox = "running", ~ mLost, ~ mMoved
  PROVE  /\ SameOrder
         /\ mOp.kind = "out" /\ mOp.do = "new" => mOp.old = 0
         /\ mOp.kind = "out" /\ mOp.do = "edit" => mOp.old # 0 /\ TagOf(mOp.old) = mOp.spec.tag /\ mOp.spec.tag = mOp.row.tag
<1>1. SameOrder
  BY DEF IInv, OrderOK
<1>2. mOp \in SaveOp /\ Types /\ RowsOK /\ ListsOK /\ OpRow(mOp) /\ ~ Retags(mOp) /\ mOp.do # "del"
  BY TableFacts DEF WhyOK
<1>3. WhyOK(mOp, mObj[mOp.new], mOp.old, "put") /\ OldOK(mOp, mOp.old, "put")
  BY TableFacts
<1>4. ASSUME mOp.kind = "out", mOp.do = "new", mOp.old # 0 PROVE FALSE
  <2>1. TagOf(mOp.old) = mOp.spec.tag /\ mOp.old \in Ids("out")
    BY <1>3, <1>4 DEF OldOK, WhyOK
  <2>2. PICK r \in RowsOf("out") : r.tag = mOp.spec.tag
    BY <1>1, <1>2, <2>1, OrderFinds
  <2> QED
    BY <1>2, <1>4, <2>2, TagIsFree
<1>5. ASSUME mOp.kind = "out", mOp.do = "edit"
      PROVE  mOp.old # 0 /\ TagOf(mOp.old) = mOp.spec.tag /\ mOp.spec.tag = mOp.row.tag
  <2>1. mOp.spec.tag = mOp.row.tag /\ mOp.row \in RowsOf("out")
    BY <1>2, <1>5 DEF Retags, OpRow
  <2>2. Holding("out", mOp.spec.tag) # {}
    BY <1>1, <1>2, <2>1, OrderFinds
  <2> QED
    BY <1>3, <1>5, <2>1, <2>2 DEF OldOK
<1> QED
  BY <1>1, <1>4, <1>5

\* The tables once the new component is in.
PutIn(op) ==
  /\ ListsOK' /\ mList' \in [ObjKind -> Seq(ObjId)] /\ mRecipe' \in [ObjKind -> SUBSET AnyTag] /\ mDefault' \in ObjId \cup {0}
  /\ InTable' = (InTable \ {op.old}) \cup {op.new} /\ op.new \in Ids(op.kind)'
  /\ op.old # 0 => Recorded(op.kind)' = (Recorded(op.kind) \ {mObj[op.old]}) \cup {op.spec}
  /\ op.old = 0 => Recorded(op.kind)' = Recorded(op.kind) \cup {op.spec}
  /\ \A j \in ObjKind \ {op.kind} : Recorded(j)' = Recorded(j) /\ mList'[j] = mList[j]
  /\ op.old # 0 => SwappedAt(op.kind, op.old, op.new)
  /\ op.old = 0 => mList'[op.kind] = Append(mList[op.kind], op.new)
  /\ Retags(op) => \A t : Lookup(t) # {} => Lookup(t)' # {}
  /\ mBox = "running" => ResolvedOK' /\ DefaultOK'

LEMMA PutEffect ==
  ASSUME IInv, mOp.pc = "table", mOp.why = "put", NEW op, op = mOp,
         IF mOp.old # 0 THEN swap(mOp.kind, mOp.old, mOp.new, {mOp.spec.tag}) ELSE add(mOp.kind, mOp.new, mOp.spec.tag),
         UNCHANGED <<mObj, mRes, mOver, mFinal, mBox, mLost>>, mMoved => mMoved'
  PROVE  PutIn(op)
<1> DEFINE k == op.kind
           old == op.old
           new == op.new
<1>1. /\ Types /\ ListsOK /\ new \in ObjId /\ new \notin InTable /\ k \in ObjKind /\ op.spec \in ObjSpec
      /\ WhyOK(op, mObj[new], old, "put") /\ OldOK(op, old, "put") /\ Resolved(new, old) /\ op.spec.kind = k
  BY TableFacts DEF OpRow
<1>2. mObj[new] = op.spec /\ TagOf(new) = op.spec.tag /\ mObj[new].kind = k
  BY <1>1 DEF WhyOK, TagOf
<1>3. CASE old # 0
  <2>1. old \in Ids(k) /\ swap(k, old, new, {TagOf(new)})
    BY <1>1, <1>2, <1>3 DEF WhyOK
  <2>2. Fits(k, old, new)
    <3> SUFFICES ASSUME NEW i \in Ids(k), TagOf(i) = op.spec.tag PROVE i = old
      BY <1>2 DEF Fits
    <3>1. TagOf(old) = op.spec.tag
      BY <1>1, <1>3, HeldIs DEF OldOK
    <3> QED
      BY <1>1, <2>1, <3>1, OnePerTag
  <2>3. k = "in" \/ dependents(TagOf(old)) = {}
    BY <1>1, <1>3 DEF OldOK
  <2>31. UNCHANGED <<mObj, mRes, mOver, mFinal, mBox, mLost>> /\ (mMoved => mMoved')
    OBVIOUS
  <2>4. k # "in" /\ TagOf(old) = mFinal => TagOf(new) = mFinal
    BY <1>1, <1>2, <1>3 DEF OldOK, ObjKind
  <2>5. /\ ListsOK' /\ MovedTo(k, {old}, {new}) /\ InTable' = (InTable \ {old}) \cup {new} /\ mDefault' \in ObjId \cup {0}
        /\ Recorded(k)' = (Recorded(k) \ {mObj[old]}) \cup {mObj[new]}
        /\ \A j \in ObjKind \ {k} : Recorded(j)' = Recorded(j)
        /\ SwappedAt(k, old, new)
        /\ mBox = "running" => ResolvedOK' /\ DefaultOK'
    <3> HIDE DEF k, old, new
    <3>1. \A c : (c = {TagOf(new)} /\ swap(k, old, new, c)) =>
             (/\ ListsOK' /\ MovedTo(k, {old}, {new}) /\ InTable' = (InTable \ {old}) \cup {new} /\ mDefault' \in ObjId \cup {0}
              /\ c # {} => Recorded(k)' = (Recorded(k) \ {mObj[old]}) \cup {mObj[new]}
              /\ \A j \in ObjKind \ {k} : Recorded(j)' = Recorded(j)
              /\ SwappedAt(k, old, new)
              /\ mBox = "running" => ResolvedOK' /\ DefaultOK')
      BY <1>1, <2>1, <2>2, <2>3, <2>31, <2>4, SwapStep
    <3>2. {TagOf(new)} # {}
      OBVIOUS
    <3> QED
      BY <2>1, <3>1, <3>2, Zenon
  <2>6. /\ mList' \in [ObjKind -> Seq(ObjId)] /\ mRecipe' \in [ObjKind -> SUBSET AnyTag]
        /\ new \in Ids(k)' /\ \A j \in ObjKind \ {k} : mList'[j] = mList[j]
    BY <2>5 DEF MovedTo
  <2>51. MovedTo(k, {old}, {new})
    BY <2>5
  <2>7. ASSUME Retags(op), NEW t, Lookup(t) # {} PROVE Lookup(t)' # {}
    <3>1. TagOf(old) = TagOf(new)
      BY <1>1, <1>2, <1>3, <2>7 DEF OldOK, Retags
    <3>2. \A gone, came : gone \subseteq Ids(k) /\ MovedTo(k, gone, came) /\ Covered(k, gone, came, t) => Lookup(t)' # {}
      BY <1>1, <2>7, LookupMoves
    <3>3. {old} \subseteq Ids(k) /\ Covered(k, {old}, {new}, t)
      BY <2>1, <3>1 DEF Covered
    <3> HIDE DEF k, old, new
    <3> QED
      BY <2>51, <3>2, <3>3
  <2> QED
    BY <1>2, <1>3, <2>5, <2>6, <2>7 DEF PutIn
<1>4. CASE old = 0
  <2>1. add(k, new, TagOf(new)) /\ Resolved(new, 0)
    BY <1>1, <1>2, <1>4
  <2>2. \A i \in Ids(k) : TagOf(i) # TagOf(new)
    BY <1>1, <1>2, <1>4, HeldIs DEF OldOK
  <2>3. /\ ListsOK' /\ MovedTo(k, {}, {new}) /\ InTable' = InTable \cup {new} /\ mDefault' \in ObjId \cup {0}
        /\ Recorded(k)' = Recorded(k) \cup {mObj[new]}
        /\ \A j \in ObjKind \ {k} : Recorded(j)' = Recorded(j)
        /\ mList'[k] = Append(mList[k], new)
        /\ mBox = "running" => ResolvedOK' /\ DefaultOK'
    BY <1>1, <1>2, <2>1, <2>2, AddStep
  <2>4. /\ mList' \in [ObjKind -> Seq(ObjId)] /\ mRecipe' \in [ObjKind -> SUBSET AnyTag]
        /\ new \in Ids(k)' /\ \A j \in ObjKind \ {k} : mList'[j] = mList[j]
    BY <2>3 DEF MovedTo
  <2>5. ASSUME NEW t, Lookup(t) # {} PROVE Lookup(t)' # {}
    <3>1. \A gone, came : gone \subseteq Ids(k) /\ MovedTo(k, gone, came) /\ Covered(k, gone, came, t) => Lookup(t)' # {}
      BY <1>1, <2>5, LookupMoves
    <3>2. {} \subseteq Ids(k) /\ Covered(k, {}, {new}, t)
      BY DEF Covered
    <3> QED
      BY <2>3, <3>1, <3>2, Zenon
  <2>6. InTable' = (InTable \ {old}) \cup {new}
    <3>1. 0 \notin InTable
      BY <1>1, IdsAre, NotZero
    <3> QED
      BY <1>4, <2>3, <3>1
  <2> QED
    BY <1>2, <1>4, <2>3, <2>4, <2>5, <2>6 DEF PutIn
<1> QED
  BY <1>3, <1>4

\* The component is in, and its row is written.
LEMMA PutCommit ==
  ASSUME IInv, mOp.pc = "table", mOp.why = "put", NEW op, op = mOp, PutIn(op), ~ RenamesOutbound(op),
         Committed(op), mPending' = mPending,
         UNCHANGED <<mObj, mRes, mOver, mFinal, mBox, mLost, mOpen, mHeld>>, mMoved => mMoved', mMoved' \in BOOLEAN
  PROVE  IInv'
<1>1. /\ op \in SaveOp /\ Types /\ RowsOK /\ ListsOK /\ StaleOK /\ OpRow(op) /\ mBox \in {"running", "closed"}
      /\ op.kind \in ObjKind /\ op.spec \in ObjSpec
  BY TableFacts
<1>2. ~ Retags(op) /\ (op.do = "new" \/ op.do = "edit")
  BY TableFacts DEF Retags, RenamesOutbound, WhyOK
<1>3. op.new \in ObjId /\ mObj[op.new] = op.spec /\ \A d \in op.spec.deps : Lookup(d) # {}
  BY TableFacts DEF WhyOK
<1>4. /\ RowsOK' /\ mRows' \in [ObjKind -> Seq(ObjSpec)]
      /\ op.do = "new" => Written(op.kind, {}, {op.spec}) /\ mRows'[op.kind] = Append(mRows[op.kind], op.spec)
      /\ op.do = "edit" => Written(op.kind, {op.row}, {op.spec}) /\ EditedAt(op.kind, op.row, op.spec)
  BY <1>1, CommitRows DEF Committed
<1>5. Types'
  <2>1. mList' \in [ObjKind -> Seq(ObjId)] /\ mRecipe' \in [ObjKind -> SUBSET AnyTag] /\ mDefault' \in ObjId \cup {0}
    BY DEF PutIn
  <2> QED
    BY <1>1, <1>4, <2>1 DEF Types, Committed
<1>6. ListsOK' /\ (mBox = "running" => ResolvedOK' /\ DefaultOK')
  BY DEF PutIn
<1>7. /\ mBox' = "running" => mOpen' = InTable' /\ mHeld' = InTable'
      /\ mBox' = "closed" => mOpen' = {} /\ mHeld' = {}
  <2>1. InTable' = (InTable \ {op.old}) \cup {op.new}
    BY DEF PutIn
  <2> QED
    BY <2>1, ScopesNow
<1>8. ASSUME mBox = "running", ~ mLost, ~ mPending
      PROVE  /\ \A k \in ObjKind : Recorded(k) = RowsOf(k)
             /\ op.do = "new" /\ op.old # 0 => mObj[op.old] \notin Recorded(op.kind)
             /\ op.do = "edit" => op.old # 0 /\ mObj[op.old] = op.row /\ TagOf(op.old) = op.row.tag
  BY <1>2, <1>8, PutAgrees
<1>9. StaleOK'
  <2>1. ASSUME mBox = "running", ~ mLost, ~ mPending
        PROVE  /\ \A k \in ObjKind : RowsOf(k) \subseteq Recorded(k)
               /\ Recorded("end") \subseteq RowsOf("end") /\ Recorded("out") \subseteq RowsOf("out") \cup {op.spec}
               /\ op.do # "new" /\ op.kind # "in" => dependents(op.row.tag) = {}
    <3>1. \A k \in ObjKind : Recorded(k) = RowsOf(k)
      BY <1>8, <2>1
    <3>2. op.do # "new" /\ op.kind # "in" => dependents(op.row.tag) = {}
      <4>1. op.do # "new" => op.old # 0 /\ TagOf(op.old) = op.row.tag
        BY <1>2, <1>8, <2>1
      <4>2. op.old # 0 /\ op.kind # "in" => dependents(TagOf(op.old)) = {}
        BY TableFacts DEF OldOK
      <4> QED
        BY <4>1, <4>2
    <3> QED
      BY <3>1, <3>2 DEF ObjKind
  <2> QED
    BY <1>1, <1>3, <2>1, StaleCommit DEF Committed
<1>10. ASSUME mBox = "running", ~ mLost, ~ mPending PROVE \A k \in ObjKind : Recorded(k)' = RowsOf(k)'
  <2>1. \A k \in ObjKind : Recorded(k) = RowsOf(k)
    BY <1>8, <1>10
  <2>2. \A j \in ObjKind \ {op.kind} : Recorded(j)' = Recorded(j)
    BY DEF PutIn
  <2>3. \A j \in ObjKind \ {op.kind} : RowsOf(j)' = RowsOf(j)
    BY <1>1, <1>2, <1>4, OthersWritten
  <2>4. Recorded(op.kind)' = RowsOf(op.kind)'
    <3>1. CASE op.do = "new"
      <4>1. RowsOf(op.kind)' = RowsOf(op.kind) \cup {op.spec}
        BY <1>4, <3>1 DEF Written
      <4>2. Recorded(op.kind)' = Recorded(op.kind) \cup {op.spec}
        BY <1>8, <1>10, <3>1 DEF PutIn
      <4> QED
        BY <1>1, <2>1, <4>1, <4>2
    <3>2. CASE op.do = "edit"
      <4>1. RowsOf(op.kind)' = (RowsOf(op.kind) \ {op.row}) \cup {op.spec}
        BY <1>4, <3>2 DEF Written
      <4>2. Recorded(op.kind)' = (Recorded(op.kind) \ {op.row}) \cup {op.spec}
        BY <1>8, <1>10, <3>2 DEF PutIn
      <4> QED
        BY <1>1, <2>1, <4>1, <4>2
    <3> QED
      BY <1>2, <3>1, <3>2
  <2> QED
    BY <2>1, <2>2, <2>3, <2>4
<1>11. ASSUME mBox = "running", ~ mLost, ~ mMoved PROVE SameOrder'
  <2>1. /\ SameOrder
        /\ op.kind = "out" /\ op.do = "new" => op.old = 0
        /\ op.kind = "out" /\ op.do = "edit" => op.old # 0 /\ TagOf(op.old) = op.spec.tag /\ op.spec.tag = op.row.tag
    BY <1>11, PutOrder
  <2>2. CASE op.kind # "out"
    <3>1. mRows'["out"] = mRows["out"]
      BY <1>2, <1>4, <2>2 DEF Written, ObjKind
    <3>2. mList'["out"] = mList["out"]
      BY <2>2 DEF PutIn, ObjKind
    <3> QED
      BY <1>1, <2>1, <3>1, <3>2, OrderElsewhere
  <2>3. CASE op.kind = "out" /\ op.do = "new"
    <3>1. mList'["out"] = Append(mList["out"], op.new)
      BY <2>1, <2>3 DEF PutIn
    <3>2. mRows'["out"] = Append(mRows["out"], op.spec)
      BY <1>4, <2>3
    <3>3. UNCHANGED mObj /\ mObj[op.new].tag = op.spec.tag
      BY <1>3
    <3> QED
      BY <1>1, <1>3, <2>1, <3>1, <3>2, <3>3, OrderAppend
  <2>4. CASE op.kind = "out" /\ op.do = "edit"
    <3>1. RowTagsKept
      BY <1>4, <2>1, <2>4, EditKeepsTags
    <3>2. ListTagsKept
      <4>1. SwappedAt("out", op.old, op.new)
        BY <2>1, <2>4 DEF PutIn
      <4>2. mObj[op.old].tag = mObj[op.new].tag /\ mObj' = mObj
        BY <1>3, <2>1, <2>4 DEF TagOf
      <4> QED
        BY <4>1, <4>2 DEF SwappedAt, ListTagsKept
    <3>3. mList' \in [ObjKind -> Seq(ObjId)]
      BY <1>5 DEF Types
    <3> QED
      BY <1>1, <2>1, <3>1, <3>2, <3>3, OrderKept
  <2> QED
    BY <1>2, <2>2, <2>3, <2>4
<1>12. mOp' = NoOp /\ mBox' = mBox /\ mLost' = mLost
  BY DEF Committed
<1> QED
  BY <1>1, <1>4, <1>5, <1>6, <1>7, <1>9, <1>10, <1>11, <1>12, EndOfSave

\* An outbound under a new tag is in, the old one not yet out.
LEMMA PutAhead ==
  ASSUME IInv, mOp.pc = "table", mOp.why = "put", NEW op, op = mOp, PutIn(op), RenamesOutbound(op),
         mOp' = [mOp EXCEPT !.pc = "removeOld"],
         UNCHANGED <<mObj, mRes, mOver, mFinal, mBox, mLost, mOpen, mHeld, mRows, mPending, mStale>>,
         mMoved => mMoved', mMoved' \in BOOLEAN
  PROVE  IInv'
<1>1. /\ Saving /\ op \in SaveOp /\ Types /\ RowsOK /\ ListsOK /\ StaleOK /\ OpRow(op) /\ mBox \in {"running", "closed"}
  BY TableFacts
<1>2. Retags(op) /\ mMoved /\ mMoved' /\ op.do = "edit" /\ op.kind = "out" /\ op.row.tag # op.spec.tag
  BY TableFacts DEF Retags, RenamesOutbound
<1>3. mObj[op.new] = op.spec /\ \A d \in op.spec.deps : Lookup(d) # {}
  BY TableFacts DEF WhyOK
<1>4. SameOp /\ mOp'.pc = "removeOld" /\ Saving'
  BY <1>1, PcStep DEF SaveStep, SameOp, Saving
<1>5. Types'
  <2>1. mList' \in [ObjKind -> Seq(ObjId)] /\ mRecipe' \in [ObjKind -> SUBSET AnyTag] /\ mDefault' \in ObjId \cup {0}
    BY DEF PutIn
  <2> QED
    BY <1>1, <2>1 DEF Types
<1>6. RowsOK' /\ StaleOK'
  BY <1>1 DEF RowsOK, StaleOK, DialerRows, RowsOf
<1>7. ListsOK' /\ (mBox = "running" => ResolvedOK' /\ DefaultOK')
  BY DEF PutIn
<1>8. PhaseOK' /\ StartOK'
  BY <1>1, <1>4 DEF PhaseOK, StartOK
<1>9. ScopesOK'
  <2>1. InTable' = (InTable \ {op.old}) \cup {op.new}
    BY DEF PutIn
  <2>2. mBox = "running" => mOpen' = InTable' /\ mHeld' = InTable'
    BY <2>1, ScopesNow
  <2>3. mBox = "closed" => mOpen' = {} /\ mHeld' = {}
    BY ScopesNow
  <2>4. Gone' = {} /\ Entered' = {} /\ Unheld' = {} /\ Late' = {}
    BY <1>4 DEF Gone, Entered, Unheld, Late
  <2> QED
    BY <1>1, <2>2, <2>3, <2>4 DEF ScopesOK
<1>10. OpOK'
  <2>1. OpRow(mOp)'
    BY <1>1, <1>4 DEF OpRow, SameOp, tagFreeAcross, RowsOf
  <2>2. OpIn(mOp)'
    <3>1. op.new \in Ids("out")' /\ \A d \in op.spec.deps : Lookup(d)' # {}
      BY <1>2, <1>3 DEF PutIn
    <3>2. RenamesOutbound(mOp)'
      BY <1>4 DEF SameOp, RenamesOutbound
    <3>3. mOp'.why = "put" /\ mOp'.new = op.new /\ mOp'.spec = op.spec
      BY <1>4 DEF SameOp
    <3> QED
      BY <1>3, <3>1, <3>2, <3>3 DEF OpIn
  <2> QED
    BY <1>2, <1>4, <2>1, <2>2 DEF OpOK
<1>11. AgreeOK'
  <2> SUFFICES ASSUME mBox = "running", ~ mLost, ~ mPending, NEW k \in ObjKind
               PROVE  Recorded(k)' = RowsOf(k)' \cup Ahead(k)'
    BY <1>1 DEF AgreeOK
  <2>1. RowsOf(k)' = RowsOf(k) /\ Ahead(k)' = IF k = "out" THEN {op.spec} ELSE {}
    BY <1>4 DEF RowsOf, Ahead, SameOp
  <2>2. Recorded(k) = RowsOf(k)
    BY PutAgrees
  <2>3. CASE k # "out"
    BY <1>2, <2>1, <2>2, <2>3 DEF PutIn
  <2>4. CASE k = "out"
    <3>1. op.old # 0 => mObj[op.old] \notin Recorded("out")
      BY <1>2, PutAgrees
    <3>2. Recorded("out")' = Recorded("out") \cup {op.spec}
      BY <1>2, <3>1 DEF PutIn
    <3> QED
      BY <2>1, <2>2, <2>4, <3>2
  <2> QED
    BY <2>3, <2>4
<1>12. OrderOK'
  BY <1>2 DEF OrderOK
<1>13. ResolvedOK' /\ DefaultOK'
  <2>1. CASE mBox = "running"
    BY <1>7, <2>1
  <2>2. CASE mBox = "closed"
    BY <2>2, ClosedStep
  <2> QED
    BY <1>1, <2>1, <2>2
<1> QED
  BY <1>5, <1>6, <1>7, <1>8, <1>9, <1>10, <1>11, <1>12, <1>13 DEF IInv

\* The fallback stands in for the last outbound, whose row is taken out.
LEMMA StandInStep ==
  ASSUME IInv, mOp.pc = "table", mOp.why = "standIn", NEW op, op = mOp, swap("out", op.old, op.new, {}),
         mOpen' = mOpen \ {op.old}, mHeld' = mHeld \ ({op.old} \cap mOpen), Committed(op), mPending' = mPending,
         UNCHANGED <<mObj, mRes, mOver, mFinal, mBox, mLost>>, mMoved', mMoved' \in BOOLEAN
  PROVE  IInv'
<1>1. /\ op \in SaveOp /\ Types /\ RowsOK /\ ListsOK /\ StaleOK /\ OpRow(op) /\ mBox \in {"running", "closed"}
      /\ op.new \in ObjId /\ op.new \notin InTable /\ op.new # op.old /\ Resolved(op.new, op.old)
  BY TableFacts
<1>2. /\ op.do = "del" /\ op.kind = "out" /\ mObj[op.new] = Direct /\ op.old # 0
      /\ op.old \in Ids("out") /\ mList["out"] = <<op.old>> /\ TagOf(op.old) = op.row.tag /\ dependents(TagOf(op.old)) = {}
  BY TableFacts DEF WhyOK, OldOK
<1>21. mFinal = ""
  BY TableFacts, Zenon DEF WhyOK
<1>3. "out" \in ObjKind /\ op.row \in RowsOf("out")
  BY <1>1, <1>2 DEF ObjKind, OpRow
<1>4. Ids("out") = {op.old}
  BY <1>2, OneInList DEF Ids
<1>5. Fits("out", op.old, op.new)
  BY <1>2, <1>4 DEF Fits, Direct
<1>6. TagOf(op.old) # mFinal
  <2>1. TagOf(op.old) # ""
    <3>1. mObj[op.old] \in ObjSpec \cup {Direct}
      BY <1>1, <1>2, <1>3, IdsAre DEF Types
    <3> QED
      BY <3>1, SpecIs, Zenon DEF TagOf
  <2> QED
    BY <1>21, <2>1, Zenon
<1>7. /\ ListsOK' /\ MovedTo("out", {op.old}, {op.new}) /\ InTable' = (InTable \ {op.old}) \cup {op.new}
      /\ mDefault' \in ObjId \cup {0}
      /\ Recorded("out")' = Recorded("out") \ {mObj[op.old]}
      /\ \A j \in ObjKind \ {"out"} : Recorded(j)' = Recorded(j)
      /\ mBox = "running" => ResolvedOK' /\ DefaultOK'
  <2> DEFINE old == op.old
             new == op.new
             none == {}
  <2>1. /\ old \in Ids("out") /\ new \in ObjId /\ new \notin InTable /\ Fits("out", old, new) /\ Resolved(new, old)
        /\ none = {} /\ mObj[new] = Direct /\ mList["out"] = <<old>> /\ swap("out", old, new, none)
        /\ dependents(TagOf(old)) = {} /\ TagOf(old) # mFinal /\ (mMoved => mMoved')
    BY <1>1, <1>2, <1>5, <1>6
  <2> HIDE DEF old, new, none
  <2>2. /\ ListsOK' /\ MovedTo("out", {old}, {new}) /\ InTable' = (InTable \ {old}) \cup {new}
        /\ mDefault' \in ObjId \cup {0}
        /\ none = {} => Recorded("out")' = Recorded("out") \ {mObj[old]}
        /\ \A j \in ObjKind \ {"out"} : Recorded(j)' = Recorded(j)
        /\ mBox = "running" => ResolvedOK' /\ DefaultOK'
    BY <1>3, <2>1, SwapStep
  <2> QED
    BY <2>1, <2>2 DEF old, new
<1>8. /\ RowsOK' /\ mRows' \in [ObjKind -> Seq(ObjSpec)] /\ Written("out", {op.row}, {})
  BY <1>1, <1>2, CommitRows DEF Committed
<1>9. Types'
  <2>1. mList' \in [ObjKind -> Seq(ObjId)] /\ mRecipe' \in [ObjKind -> SUBSET AnyTag]
    BY <1>7 DEF MovedTo
  <2> QED
    BY <1>1, <1>7, <1>8, <2>1 DEF Types, Committed
<1>10. /\ mBox' = "running" => mOpen' = InTable' /\ mHeld' = InTable'
       /\ mBox' = "closed" => mOpen' = {} /\ mHeld' = {}
  <2>1. mBox = "running" => mHeld = mOpen /\ mOpen = InTable \cup {op.new}
    BY ScopesNow
  <2>2. mBox = "closed" => mOpen = {} /\ mHeld = {}
    BY ScopesNow
  <2> QED
    BY <1>1, <1>7, <2>1, <2>2
<1>11. ASSUME mBox = "running", ~ mLost, ~ mPending PROVE \A k \in ObjKind : Recorded(k) = RowsOf(k)
  BY <1>11, AgreeIs DEF SaveStep
<1>12. StaleOK'
  <2>1. ASSUME mBox = "running", ~ mLost, ~ mPending
        PROVE  /\ \A k \in ObjKind : RowsOf(k) \subseteq Recorded(k)
               /\ Recorded("end") \subseteq RowsOf("end") /\ Recorded("out") \subseteq RowsOf("out") \cup {op.spec}
    BY <1>11, <2>1 DEF ObjKind
  <2> QED
    BY <1>1, <1>2, <2>1, StaleCommit DEF Committed
<1>13. ASSUME mBox = "running", ~ mLost, ~ mPending PROVE \A k \in ObjKind : Recorded(k)' = RowsOf(k)'
  <2>1. mObj[op.old] = op.row
    BY <1>1, <1>2, <1>3, <1>11, <1>13, RowHeld
  <2>2. RowsOf("out")' = RowsOf("out") \ {op.row}
    BY <1>8 DEF Written
  <2>3. \A j \in ObjKind \ {"out"} : RowsOf(j)' = RowsOf(j)
    BY <1>3, <1>8, OthersWritten
  <2>4. \A k \in ObjKind : Recorded(k) = RowsOf(k)
    BY <1>11, <1>13
  <2> QED
    BY <1>3, <1>7, <2>1, <2>2, <2>3, <2>4
<1>14. mOp' = NoOp /\ mBox' = mBox /\ mLost' = mLost
  BY DEF Committed
<1> QED
  BY <1>1, <1>7, <1>8, <1>9, <1>10, <1>12, <1>13, <1>14, EndOfSave

\* What a failed start replaced is back, and nothing is written.
LEMMA RestoreStep ==
  ASSUME IInv, mOp.pc = "table", mOp.why = "restore", NEW op, op = mOp, swap(op.kind, op.old, op.new, {TagOf(op.new)}),
         Rollback, UNCHANGED <<mObj, mRes, mOver, mFinal, mBox, mLost, mOpen, mHeld>>, mMoved => mMoved', mMoved' \in BOOLEAN
  PROVE  IInv'
<1> DEFINE k == op.kind
           old == op.old
           new == op.new
<1>1. /\ Types /\ RowsOK /\ ListsOK /\ StaleOK /\ mBox \in {"running", "closed"} /\ k \in ObjKind
      /\ new \in ObjId /\ new \notin InTable /\ new # old /\ Resolved(new, old)
  BY TableFacts
<1>2. old # 0 /\ mObj[new] = mObj[old] /\ TagOf(old) \in mRecipe[k] /\ old \in Ids(k) /\ (k = "in" \/ dependents(TagOf(old)) = {})
  BY TableFacts DEF WhyOK, OldOK
<1>3. mObj[old].kind = k /\ TagOf(new) = TagOf(old)
  BY <1>1, <1>2 DEF ListsOK, TagOf
<1>4. Fits(k, old, new)
  <2>1. \A i \in Ids(k) : TagOf(i) = TagOf(old) => i = old
    BY <1>1, <1>2, OnePerTag
  <2> QED
    BY <1>2, <1>3, <2>1 DEF Fits
<1>5. /\ ListsOK' /\ MovedTo(k, {old}, {new}) /\ InTable' = (InTable \ {old}) \cup {new} /\ mDefault' \in ObjId \cup {0}
      /\ Recorded(k)' = (Recorded(k) \ {mObj[old]}) \cup {mObj[new]}
      /\ \A j \in ObjKind \ {k} : Recorded(j)' = Recorded(j)
      /\ SwappedAt(k, old, new)
      /\ mBox = "running" => ResolvedOK' /\ DefaultOK'
  <2> DEFINE c == {TagOf(new)}
  <2>1. /\ c # {} /\ c = {TagOf(new)} /\ swap(k, old, new, c) /\ (mMoved => mMoved')
        /\ UNCHANGED <<mObj, mRes, mOver, mFinal, mBox, mLost>> /\ (TagOf(old) = mFinal => TagOf(new) = mFinal)
        /\ k \in ObjKind /\ old \in Ids(k) /\ new \in ObjId /\ new \notin InTable /\ Resolved(new, old)
        /\ k = "in" \/ dependents(TagOf(old)) = {}
    BY <1>1, <1>2, <1>3
  <2> HIDE DEF c, k, old, new
  <2>2. /\ ListsOK' /\ MovedTo(k, {old}, {new}) /\ InTable' = (InTable \ {old}) \cup {new} /\ mDefault' \in ObjId \cup {0}
        /\ c # {} => Recorded(k)' = (Recorded(k) \ {mObj[old]}) \cup {mObj[new]}
        /\ \A j \in ObjKind \ {k} : Recorded(j)' = Recorded(j)
        /\ SwappedAt(k, old, new)
        /\ mBox = "running" => ResolvedOK' /\ DefaultOK'
    BY <1>4, <2>1, SwapStep
  <2> QED
    BY <2>1, <2>2
<1>6. mOp' = NoOp /\ UNCHANGED <<mRows, mPending, mStale>>
  BY DEF Rollback
<1>7. Types'
  <2>1. mList' \in [ObjKind -> Seq(ObjId)] /\ mRecipe' \in [ObjKind -> SUBSET AnyTag]
    BY <1>5 DEF MovedTo
  <2> QED
    BY <1>1, <1>5, <1>6, <2>1 DEF Types
<1>8. RowsOK' /\ StaleOK'
  BY <1>1, <1>6 DEF RowsOK, StaleOK, DialerRows, RowsOf
<1>9. /\ mBox' = "running" => mOpen' = InTable' /\ mHeld' = InTable'
      /\ mBox' = "closed" => mOpen' = {} /\ mHeld' = {}
  BY <1>5, ScopesNow
<1>10. ASSUME mBox = "running", ~ mLost, ~ mPending, NEW j \in ObjKind PROVE Recorded(j)' = RowsOf(j)'
  <2>1. Recorded(j) = RowsOf(j)
    BY <1>10, AgreeIs DEF SaveStep
  <2>2. mObj[old] \in Recorded(k)
    BY <1>2 DEF Recorded
  <2>3. RowsOf(j)' = RowsOf(j)
    BY <1>6 DEF RowsOf
  <2>4. Recorded(j)' = Recorded(j)
    <3>1. CASE j = k
      <4>1. Recorded(k)' = Recorded(k)
        BY <1>2, <1>5, <2>2
      <4> QED
        BY <3>1, <4>1
    <3>2. CASE j # k
      BY <1>5, <3>2
    <3> QED
      BY <3>1, <3>2
  <2> QED
    BY <2>1, <2>3, <2>4
<1>11. ASSUME mBox = "running", ~ mLost, ~ mMoved PROVE SameOrder'
  <2>1. SameOrder
    BY <1>11 DEF IInv, OrderOK
  <2>2. CASE k # "out"
    <3>1. mList'["out"] = mList["out"]
      BY <1>5, <2>2 DEF MovedTo, ObjKind
    <3> QED
      BY <1>1, <1>6, <2>1, <3>1, OrderElsewhere
  <2>3. CASE k = "out"
    <3>1. RowTagsKept
      BY <1>6 DEF RowTagsKept
    <3>2. ListTagsKept
      <4>1. SwappedAt("out", old, new)
        BY <1>5, <2>3
      <4>2. mObj[old].tag = mObj[new].tag /\ mObj' = mObj
        BY <1>2
      <4> QED
        BY <4>1, <4>2 DEF SwappedAt, ListTagsKept
    <3>3. mList' \in [ObjKind -> Seq(ObjId)]
      BY <1>7 DEF Types
    <3> QED
      BY <1>1, <2>1, <3>1, <3>2, <3>3, OrderKept
  <2> QED
    BY <2>2, <2>3
<1> QED
  BY <1>1, <1>5, <1>6, <1>7, <1>8, <1>9, <1>10, <1>11, EndOfSave

\* The component that runs is put in the table.
LEMMA PutInTableStep ==
  ASSUME IInv, PutInTable
  PROVE  IInv'
<1>1. mOp.pc = "table" /\ Types /\ UNCHANGED <<mObj, mRes, mOver, mFinal, mBox, mLost>>
  BY DEF PutInTable, IInv
<1>2. mMoved' \in BOOLEAN /\ (mMoved => mMoved') /\ (mOp.why = "standIn" => mMoved')
  BY <1>1, Zenon DEF PutInTable, Types
<1>3. PICK op : op = mOp
  OBVIOUS
<1>4. CASE /\ mOp.why = "standIn" /\ swap("out", mOp.old, mOp.new, {})
           /\ mOpen' = mOpen \ {mOp.old} /\ mHeld' = mHeld \ ({mOp.old} \cap mOpen)
           /\ Commit(mOp, FALSE)
  <2>1. Committed(op) /\ mPending' = mPending
    BY <1>1, <1>3, <1>4, CommitIs
  <2> QED
    BY <1>1, <1>2, <1>3, <1>4, <2>1, StandInStep
<1>5. CASE /\ mOp.why = "restore" /\ swap(mOp.kind, mOp.old, mOp.new, {TagOf(mOp.new)})
           /\ Rollback /\ UNCHANGED <<mOpen, mHeld>>
  BY <1>1, <1>2, <1>3, <1>5, RestoreStep
<1>6. CASE /\ mOp.why = "put"
           /\ IF mOp.old # 0 THEN swap(mOp.kind, mOp.old, mOp.new, {mOp.spec.tag})
              ELSE add(mOp.kind, mOp.new, mOp.spec.tag)
           /\ UNCHANGED <<mOpen, mHeld>>
           /\ IF RenamesOutbound(mOp)
              THEN mOp' = [mOp EXCEPT !.pc = "removeOld"] /\ UNCHANGED <<mRows, mPending, mStale>>
              ELSE Commit(mOp, FALSE)
  <2>1. PutIn(op)
    BY <1>1, <1>2, <1>3, <1>6, PutEffect
  <2>2. CASE RenamesOutbound(mOp)
    BY <1>1, <1>2, <1>3, <1>6, <2>1, <2>2, PutAhead
  <2>3. CASE ~ RenamesOutbound(mOp)
    <3>1. Committed(op) /\ mPending' = mPending
      BY <1>1, <1>3, <1>6, <2>3, CommitIs
    <3> QED
      BY <1>1, <1>2, <1>3, <1>6, <2>1, <2>3, <3>1, PutCommit
  <2> QED
    BY <2>2, <2>3
<1> QED
  BY <1>4, <1>5, <1>6, Zenon DEF PutInTable

\* The old outbound goes, or its removal is refused and the new one is taken back.
LEMMA RemoveOldStep ==
  ASSUME IInv, RemoveOld
  PROVE  IInv'
<1>1. mOp.pc = "removeOld" /\ UNCHANGED <<mFinal, mBox, mMoved>>
  BY DEF RemoveOld
<1>2. PICK op : op = mOp
  OBVIOUS
<1>3. /\ op \in SaveOp /\ mBox \in {"running", "closed"} /\ Types /\ RowsOK /\ ListsOK /\ StaleOK
      /\ OpRow(op) /\ (Retags(op) => mMoved) /\ OpIn(op)
  BY <1>1, <1>2, SavingFacts DEF SaveStep, IInv
<1>4. /\ Retags(op) /\ mMoved /\ op.do = "edit" /\ op.kind = "out" /\ op.row.tag # op.spec.tag /\ op.new \in Ids("out")
      /\ mObj[op.new] = op.spec /\ TagOf(op.new) = op.spec.tag /\ (\A d \in op.spec.deps : Lookup(d) # {}) /\ op.row \in RowsOf("out")
  BY <1>3 DEF OpIn, RenamesOutbound, Retags, TagOf, OpRow
<1>5. Rested
  BY <1>1, ScopesNow DEF Rested
<1>6. "out" \in ObjKind
  BY DEF ObjKind
<1> DEFINE it == IdOf("out", mOp.row.tag)
<1>7. /\ it = 0 <=> Holding("out", op.row.tag) = {}
      /\ it # 0 => it \in Ids("out") /\ TagOf(it) = op.row.tag
  BY <1>2, <1>3, <1>6, IdIs
<1> HIDE DEF it
<1>8. CASE (it = 0 \/ mBox = "closed") /\ Commit(mOp, FALSE) /\ UNCHANGED <<tableVars, mLost>>
  <2>1. Committed(op) /\ mPending' = mPending
    BY <1>2, <1>3, <1>8, CommitIs
  <2>2. CASE mBox = "closed"
    BY <1>1, <1>3, <1>5, <1>8, <2>1, <2>2, ClosedCommit
  <2>3. CASE mBox = "running"
    BY <1>1, <1>3, <1>4, <1>5, <1>7, <1>8, <2>1, <2>3, MissingCommit
  <2> QED
    BY <1>3, <2>2, <2>3
<1>9. CASE /\ it # 0 /\ mBox = "running" /\ ~ TakeBack(mOp) /\ UNCHANGED tableVars
           /\ mLost' = (mLost \/ refuse("out", mOp.spec.tag, TRUE)) /\ Rollback
  <2>1. mLost' /\ mLost' \in BOOLEAN
    BY <1>9, Zenon DEF TakeBack
  <2> QED
    BY <1>1, <1>3, <1>5, <1>9, <2>1, RollbackStep DEF Types
<1>10. ASSUME mBox = "running", ~ mLost, ~ mPending
       PROVE  /\ Recorded("out") = RowsOf("out") \cup {op.spec} /\ \A k \in ObjKind \ {"out"} : Recorded(k) = RowsOf(k)
              /\ \A k \in ObjKind : RowsOf(k) \subseteq Recorded(k)
  BY <1>1, <1>2, <1>10, AgreeIs
<1>11. CASE /\ it # 0 /\ mBox = "running" /\ TakeBack(mOp) /\ TakeDown("out", mOp.new)
            /\ mLost' = (mLost \/ refuse("out", mOp.spec.tag, TRUE)) /\ Rollback
  <2>1. mLost' = mLost
    <3>1. mLost \in BOOLEAN
      BY <1>3 DEF Types
    <3> QED
      BY <1>11, <3>1, Zenon DEF TakeBack
  <2>2. ~ refuse("out", op.spec.tag, TRUE)
    BY <1>2, <1>11, Zenon DEF TakeBack
  <2>3. dependents(TagOf(op.new)) = {} /\ TagOf(op.new) # mFinal
    BY <1>4, <2>2 DEF refuse
  <2>4. ~ standIn("out", op.new)
    <3>1. it # op.new
      BY <1>4, <1>7, <1>11
    <3>2. mList["out"] # <<op.new>>
      BY <1>7, <1>11, <3>1, OneInList DEF Ids
    <3> QED
      BY <3>2, Zenon DEF standIn
  <2>5. mOp' = NoOp /\ UNCHANGED <<mRows, mPending, mStale>>
    BY <1>11 DEF Rollback
  <2>6. RowsOK' /\ StaleOK' /\ mRows' \in [ObjKind -> Seq(ObjSpec)] /\ mPending' \in BOOLEAN /\ mStale' \in BOOLEAN
    BY <1>3, <2>5 DEF RowsOK, StaleOK, DialerRows, RowsOf, Types
  <2>7. ASSUME ~ mLost, ~ mPending'
        PROVE  Recorded("out") \ {mObj[op.new]} = RowsOf("out")' /\ \A j \in ObjKind \ {"out"} : Recorded(j) = RowsOf(j)'
    <3>1. op.spec \notin RowsOf("out")
      BY <1>3, <1>4, TagIsFree
    <3>2. \A j : RowsOf(j)' = RowsOf(j)
      BY <2>5 DEF RowsOf
    <3> QED
      BY <1>4, <1>10, <1>11, <2>5, <2>7, <3>1, <3>2
  <2> QED
    BY <1>1, <1>2, <1>4, <1>5, <1>6, <1>11, <2>1, <2>3, <2>4, <2>5, <2>6, <2>7, TakeDownEnd
<1>12. CASE /\ it # 0 /\ mBox = "running" /\ ~ refuse("out", mOp.row.tag, TRUE)
            /\ TakeDown("out", it) /\ Commit(mOp, FALSE) /\ UNCHANGED mLost
  <2>1. Committed(op) /\ mPending' = mPending
    BY <1>2, <1>3, <1>12, CommitIs
  <2>2. PICK old \in Ids("out") : old = it
    BY <1>7, <1>12
  <2>3. dependents(TagOf(old)) = {} /\ TagOf(old) # mFinal
    BY <1>2, <1>7, <1>12, <2>2 DEF refuse
  <2>4. ~ standIn("out", old)
    <3>1. old # op.new
      BY <1>4, <1>7, <1>12, <2>2
    <3>2. mList["out"] # <<old>>
      BY <1>4, <3>1, OneInList DEF Ids
    <3> QED
      BY <3>2, Zenon DEF standIn
  <2>5. RowsOK' /\ mRows' \in [ObjKind -> Seq(ObjSpec)] /\ Written("out", {op.row}, {op.spec})
    BY <1>3, <1>4, <2>1, CommitRows DEF Committed
  <2>6. StaleOK'
    <3>1. ASSUME ~ mLost, ~ mPending
          PROVE  /\ \A k \in ObjKind : RowsOf(k) \subseteq Recorded(k)
                 /\ Recorded("end") \subseteq RowsOf("end") /\ Recorded("out") \subseteq RowsOf("out") \cup {op.spec}
      BY <1>10, <1>12, <3>1 DEF ObjKind
    <3>2. dependents(op.row.tag) = {}
      BY <1>7, <1>12, <2>2, <2>3
    <3> QED
      BY <1>3, <1>4, <2>1, <3>1, <3>2, StaleCommit DEF Committed
  <2>7. ASSUME ~ mLost, ~ mPending'
        PROVE  Recorded("out") \ {mObj[old]} = RowsOf("out")' /\ \A j \in ObjKind \ {"out"} : Recorded(j) = RowsOf(j)'
    <3>1. mObj[old] = op.row
      BY <1>3, <1>4, <1>6, <1>7, <1>10, <1>12, <2>1, <2>2, <2>7, RowHeld
    <3>2. RowsOf("out")' = (RowsOf("out") \ {op.row}) \cup {op.spec}
      BY <2>5 DEF Written
    <3>3. \A j \in ObjKind \ {"out"} : RowsOf(j)' = RowsOf(j)
      BY <1>6, <2>5, OthersWritten
    <3>4. op.row # op.spec
      BY <1>4
    <3> QED
      BY <1>10, <1>12, <2>1, <2>7, <3>1, <3>2, <3>3, <3>4
  <2>8. mOp' = NoOp /\ mPending' \in BOOLEAN /\ mStale' \in BOOLEAN
    BY <2>1 DEF Committed
  <2> QED
    BY <1>1, <1>4, <1>5, <1>6, <1>12, <2>2, <2>3, <2>4, <2>5, <2>6, <2>7, <2>8, TakeDownEnd
<1> QED
  BY <1>8, <1>9, <1>11, <1>12, Zenon DEF RemoveOld, it

-----------------------------------------------------------------------------
(* The start of a box.                                                       *)

\* Three sequences in a row.
LEMMA ConcatIs ==
  ASSUME NEW S, NEW a \in Seq(S), NEW b \in Seq(S), NEW c \in Seq(S)
  PROVE  /\ a \o b \o c \in Seq(S) /\ Len(a \o b \o c) = Len(a) + Len(b) + Len(c)
         /\ Len(a) \in Nat /\ Len(b) \in Nat /\ Len(c) \in Nat
         /\ \A n \in 1 .. Len(a) : (a \o b \o c)[n] = a[n]
         /\ \A n \in 1 .. Len(b) : (a \o b \o c)[Len(a) + n] = b[n]
         /\ \A n \in 1 .. Len(c) : (a \o b \o c)[Len(a) + Len(b) + n] = c[n]
<1> DEFINE d == a \o b
<1>1. Len(a) \in Nat /\ Len(b) \in Nat /\ Len(c) \in Nat
  OBVIOUS
<1>2. /\ d \in Seq(S) /\ Len(d) = Len(a) + Len(b)
      /\ \A n \in 1 .. Len(a) : d[n] = a[n]
      /\ \A n \in 1 .. Len(b) : d[Len(a) + n] = b[n]
  BY <1>1
<1> HIDE DEF d
<1>3. /\ d \o c \in Seq(S) /\ Len(d \o c) = Len(d) + Len(c)
      /\ \A n \in 1 .. Len(d) : (d \o c)[n] = d[n]
      /\ \A n \in 1 .. Len(c) : (d \o c)[Len(d) + n] = c[n]
  <2>1. d \in Seq(S)
    BY <1>2
  <2> QED
    BY <2>1
<1>4. \A n \in 1 .. Len(a) : n \in 1 .. Len(d)
  BY <1>1, <1>2
<1>5. \A n \in 1 .. Len(b) : Len(a) + n \in 1 .. Len(d)
  BY <1>1, <1>2
<1>6. \A n \in 1 .. Len(a) : (d \o c)[n] = a[n]
  BY <1>2, <1>3, <1>4
<1>7. \A n \in 1 .. Len(b) : (d \o c)[Len(a) + n] = b[n]
  BY <1>2, <1>3, <1>5
<1>8. \A n \in 1 .. Len(c) : (d \o c)[Len(a) + Len(b) + n] = c[n]
  BY <1>2, <1>3
<1> QED
  BY <1>1, <1>2, <1>3, <1>6, <1>7, <1>8 DEF d

\* Two sequences in a row hold what either holds.
\* The same, of a sequence that is the three joined.
Joined(w, a, b, c, S) ==
  /\ w \in Seq(S) /\ Len(w) = Len(a) + Len(b) + Len(c)
  /\ Len(a) \in Nat /\ Len(b) \in Nat /\ Len(c) \in Nat
  /\ \A n \in 1 .. Len(a) : w[n] = a[n]
  /\ \A n \in 1 .. Len(b) : w[Len(a) + n] = b[n]
  /\ \A n \in 1 .. Len(c) : w[Len(a) + Len(b) + n] = c[n]
LEMMA JoinedIs ==
  \A S : \A a, b, c \in Seq(S) : Joined(a \o b \o c, a, b, c, S)
<1> SUFFICES ASSUME NEW S, NEW a \in Seq(S), NEW b \in Seq(S), NEW c \in Seq(S)
             PROVE  Joined(a \o b \o c, a, b, c, S)
  OBVIOUS
<1> QED
  BY ConcatIs DEF Joined

LEMMA ConcatSet ==
  ASSUME NEW S, NEW a \in Seq(S), NEW b \in Seq(S)
  PROVE  ToSet(a \o b) = ToSet(a) \cup ToSet(b)
<1> DEFINE d == a \o b
<1>1. /\ DOMAIN a = 1 .. Len(a) /\ DOMAIN b = 1 .. Len(b) /\ Len(a) \in Nat /\ Len(b) \in Nat
  OBVIOUS
<1>2. /\ DOMAIN d = 1 .. Len(a) + Len(b)
      /\ \A n \in 1 .. Len(a) : d[n] = a[n]
      /\ \A n \in 1 .. Len(b) : d[Len(a) + n] = b[n]
  BY <1>1
<1> HIDE DEF d
<1>3. ASSUME NEW x \in ToSet(a) PROVE x \in ToSet(d)
  <2>1. PICK n \in 1 .. Len(a) : a[n] = x
    BY <1>1, MemberOf
  <2>2. n \in DOMAIN d /\ d[n] = x
    BY <1>1, <1>2, <2>1
  <2> QED
    BY <2>2, MemberOf
<1>4. ASSUME NEW x \in ToSet(b) PROVE x \in ToSet(d)
  <2>1. PICK n \in 1 .. Len(b) : b[n] = x
    BY <1>1, MemberOf
  <2>2. Len(a) + n \in DOMAIN d /\ d[Len(a) + n] = x
    BY <1>1, <1>2, <2>1
  <2> QED
    BY <2>2, MemberOf
<1>5. ASSUME NEW x \in ToSet(d) PROVE x \in ToSet(a) \cup ToSet(b)
  <2>1. PICK n \in 1 .. Len(a) + Len(b) : d[n] = x
    BY <1>2, MemberOf
  <2>2. CASE n \in 1 .. Len(a)
    <3>1. a[n] = x /\ n \in DOMAIN a
      BY <1>1, <1>2, <2>1, <2>2
    <3> QED
      BY <3>1, MemberOf
  <2>3. CASE n \notin 1 .. Len(a)
    <3>1. PICK m \in 1 .. Len(b) : n = Len(a) + m
      <4>1. n - Len(a) \in 1 .. Len(b) /\ n = Len(a) + (n - Len(a))
        BY <1>1, <2>3
      <4> QED
        BY <4>1
    <3>2. b[m] = x /\ m \in DOMAIN b
      BY <1>1, <1>2, <2>1, <3>1
    <3> QED
      BY <3>2, MemberOf
  <2> QED
    BY <2>2, <2>3
<1> QED
  BY <1>3, <1>4, <1>5 DEF d

\* A start that fails closes the box.
LEMMA StartFails ==
  ASSUME IInv, mBox = "starting", BoxClose, mOp' = NoOp,
         UNCHANGED <<mRows, mObj, mList, mRecipe, mRes, mOver, mDefault, mFinal, mPending, mLost, mMoved, mStale>>
  PROVE  IInv'
<1>1. Types /\ RowsOK /\ ListsOK /\ StaleOK /\ ScopesOK /\ PhaseOK
  BY DEF IInv
<1>2. mBox' = "closed" /\ mOpen' = {} /\ mHeld' = mHeld \ mOpen
  BY DEF BoxClose
<1>3. mOp.pc \in {"initialize", "startOne"}
  BY <1>1, OpKinds DEF PhaseOK
<1>4. mHeld \subseteq mOpen
  BY <1>1, <1>3 DEF ScopesOK
<1>5. mHeld' = {}
  BY <1>2, <1>4
<1>6. Types'
  BY <1>1, <1>2, <1>5 DEF Types
<1>7. RowsOK' /\ StaleOK'
  BY <1>1 DEF RowsOK, StaleOK, DialerRows, RowsOf
<1>8. TableKept
  BY DEF TableKept
<1>9. ListsOK'
  BY <1>1, <1>8, Kept
<1> QED
  BY <1>2, <1>5, <1>6, <1>7, <1>9, EndOfSave

LEMMA StartStuckStep ==
  ASSUME IInv, StartStuck
  PROVE  IInv'
BY StartFails DEF StartStuck

\* A restart begins with an empty box.
LEMMA RestartStep ==
  ASSUME IInv, RestartBox
  PROVE  IInv'
<1>1. Types /\ RowsOK /\ ListsOK /\ StaleOK
  BY DEF IInv
<1>2. /\ mBox \in {"running", "closed"} /\ mOp = NoOp /\ mBox' = "new" /\ mPending' = FALSE
      /\ mOpen' = {} /\ mHeld' = mHeld \ mOpen
      /\ mList' = [k \in ObjKind |-> <<>>] /\ mRecipe' = [k \in ObjKind |-> {}] /\ mRes' = [i \in ObjId |-> {}]
      /\ mObj' = [i \in ObjId |-> Direct] /\ mOver' = {} /\ mDefault' = 0
      /\ mLost' = FALSE /\ mMoved' = FALSE
      /\ UNCHANGED <<mRows, mFinal, mOp, mCount, mStale>>
  BY DEF RestartBox
<1>3. mHeld' = {}
  <2>1. mHeld = mOpen
    BY <1>2, ScopesNow
  <2> QED
    BY <1>2, <2>1
<1>4. \A k \in ObjKind : mList'[k] = <<>> /\ mRecipe'[k] = {} /\ Ids(k)' = {}
  <2>1. \A k \in ObjKind : mList'[k] = <<>> /\ mRecipe'[k] = {}
    BY <1>2
  <2> QED
    BY <2>1 DEF Ids, ToSet
<1>5. Types'
  <2>1. <<>> \in Seq(ObjId)
    OBVIOUS
  <2>2. mList' \in [ObjKind -> Seq(ObjId)] /\ mRecipe' \in [ObjKind -> SUBSET AnyTag] /\ mRes' \in [ObjId -> SUBSET ObjId]
    BY <1>2, <2>1
  <2>3. mObj' \in [ObjId -> ObjSpec \cup {Direct}]
    BY <1>2
  <2> QED
    BY <1>1, <1>2, <1>3, <2>2, <2>3 DEF Types
<1>6. RowsOK' /\ StaleOK'
  BY <1>1, <1>2 DEF RowsOK, StaleOK, DialerRows, RowsOf
<1>7. ListsOK'
  BY <1>4 DEF ListsOK
<1>8. mOp' = NoOp /\ ~ Saving'
  BY <1>2, OpKinds DEF Saving
<1>9. PhaseOK' /\ OpOK' /\ ResolvedOK' /\ StartOK' /\ AgreeOK' /\ OrderOK'
  BY <1>2, <1>8 DEF PhaseOK, OpOK, ResolvedOK, StartOK, AgreeOK, OrderOK
<1>10. ScopesOK'
  BY <1>2, <1>3, <1>4 DEF ScopesOK
<1>11. DefaultOK'
  <2>1. ~ Opened'
    BY <1>2 DEF Opened
  <2> QED
    BY <1>2, <2>1 DEF DefaultOK
<1> QED
  BY <1>5, <1>6, <1>7, <1>9, <1>10, <1>11 DEF IInv

\* The database at the first start.
LEMMA InitHolds ==
  ASSUME ManagersInit
  PROVE  IInv
<1>1. /\ mRows \in InitialRows /\ Startable(DialerRows)
      /\ mObj = [i \in ObjId |-> Direct] /\ mList = [k \in ObjKind |-> <<>>] /\ mRecipe = [k \in ObjKind |-> {}]
      /\ mOpen = {} /\ mHeld = {} /\ mRes = [i \in ObjId |-> {}] /\ mOver = {} /\ mDefault = 0
      /\ mBox = "new" /\ mPending = FALSE /\ mOp = NoOp
      /\ mLost = FALSE /\ mMoved = FALSE /\ mStale = FALSE
  BY DEF ManagersInit
<1>2. /\ mRows \in [ObjKind -> Seq(ObjSpec)] /\ RowCount(mRows) <= MaxRows
      /\ \A k \in ObjKind : \A n \in DOMAIN mRows[k] : mRows[k][n].kind = k
      /\ \A k, j \in ObjKind : \A n \in DOMAIN mRows[k], m \in DOMAIN mRows[j] :
           (mRows[k][n].tag = mRows[j][m].tag /\ j \in Shares(k)) => (k = j /\ n = m)
  <2>1. mRows \in [ObjKind -> SeqOf(ObjSpec, MaxRows)]
    BY <1>1 DEF InitialRows
  <2>2. SeqOf(ObjSpec, MaxRows) \subseteq Seq(ObjSpec)
    <3> SUFFICES ASSUME NEW q \in SeqOf(ObjSpec, MaxRows) PROVE q \in Seq(ObjSpec)
      OBVIOUS
    <3>1. PICK m \in 0 .. MaxRows : q \in [1 .. m -> ObjSpec]
      BY DEF SeqOf
    <3>2. m \in Nat
      OBVIOUS
    <3> QED
      BY <3>1, <3>2
  <2>3. mRows \in [ObjKind -> Seq(ObjSpec)]
    BY <2>1, <2>2
  <2> QED
    BY <1>1, <2>3 DEF InitialRows
<1>3. Types
  <2>1. <<>> \in Seq(ObjId)
    OBVIOUS
  <2>2. mList \in [ObjKind -> Seq(ObjId)] /\ mRecipe \in [ObjKind -> SUBSET AnyTag] /\ mRes \in [ObjId -> SUBSET ObjId]
    BY <1>1, <2>1
  <2>3. mObj \in [ObjId -> ObjSpec \cup {Direct}]
    BY <1>1
  <2> QED
    BY <1>1, <1>2, <2>2, <2>3 DEF Types
<1>4. RowsOK
  <2>1. RowCount(mRows) \in Nat /\ MaxObj \in Nat /\ MaxRows \in Nat /\ MaxRows <= MaxObj
    BY <1>3, RowLens, RowCountIs, ManagerConstants
  <2>2. RowCount(mRows) <= MaxObj
    BY <1>2, <2>1
  <2> QED
    BY <1>2, <2>2 DEF RowsOK
<1>5. \A k \in ObjKind : mList[k] = <<>> /\ mRecipe[k] = {} /\ Ids(k) = {}
  <2>1. \A k \in ObjKind : mList[k] = <<>> /\ mRecipe[k] = {}
    BY <1>1
  <2> QED
    BY <2>1 DEF Ids, ToSet
<1>6. ListsOK
  BY <1>5 DEF ListsOK
<1>7. ~ Saving
  BY <1>1, OpKinds DEF Saving
<1>8. PhaseOK /\ OpOK /\ ResolvedOK /\ StartOK /\ AgreeOK /\ OrderOK
  BY <1>1, <1>7 DEF PhaseOK, OpOK, ResolvedOK, StartOK, AgreeOK, OrderOK
<1>9. ScopesOK
  BY <1>1, <1>5 DEF ScopesOK
<1>10. DefaultOK
  <2>1. ~ Opened
    BY <1>1 DEF Opened
  <2> QED
    BY <1>1, <2>1 DEF DefaultOK
<1>11. StaleOK
  BY <1>1 DEF StaleOK
<1> QED
  BY <1>3, <1>4, <1>6, <1>8, <1>9, <1>10, <1>11 DEF IInv

\* NewBox builds one component of each row, in the order of the rows.
NewTables ==
  \A k \in ObjKind :
    /\ mList'[k] \in Seq(ObjId) /\ Len(mList'[k]) = Len(mRows[k]) /\ DOMAIN mList'[k] = DOMAIN mRows[k]
    /\ \A n \in DOMAIN mRows[k] : mObj'[mList'[k][n]] = mRows[k][n]

LEMMA NewBoxTables ==
  ASSUME Types, RowsOK, NewBox
  PROVE  /\ NewTables /\ mObj' \in [ObjId -> ObjSpec \cup {Direct}] /\ mList' \in [ObjKind -> Seq(ObjId)]
         /\ mRows["out"] # <<>> => mList'["out"][1] = 1
<1> DEFINE a == mRows["out"]
           b == mRows["end"]
           c == mRows["in"]
<1>1. a \in Seq(ObjSpec) /\ b \in Seq(ObjSpec) /\ c \in Seq(ObjSpec) /\ MaxObj \in Nat
  BY RowLens DEF Types, ObjKind
<1>2. Len(a) + Len(b) + Len(c) <= MaxObj
  BY DEF RowsOK, RowCount
<1>3. mObj' = [i \in ObjId |-> IF i <= Len(BoxRows) THEN BoxRows[i] ELSE Direct] /\ mList' = [k \in ObjKind |-> Numbered(k)]
  BY DEF NewBox
<1>4. BoxRows = a \o b \o c
  BY DEF BoxRows
<1> HIDE DEF a, b, c
<1>5. /\ BoxRows \in Seq(ObjSpec) /\ Len(BoxRows) = Len(a) + Len(b) + Len(c)
      /\ Len(a) \in Nat /\ Len(b) \in Nat /\ Len(c) \in Nat
      /\ \A n \in 1 .. Len(a) : BoxRows[n] = a[n]
      /\ \A n \in 1 .. Len(b) : BoxRows[Len(a) + n] = b[n]
      /\ \A n \in 1 .. Len(c) : BoxRows[Len(a) + Len(b) + n] = c[n]
  <2>1. a \in Seq(ObjSpec) /\ b \in Seq(ObjSpec) /\ c \in Seq(ObjSpec)
    BY <1>1
  <2>2. Joined(a \o b \o c, a, b, c, ObjSpec)
    BY <2>1, JoinedIs, Zenon
  <2>3. Joined(BoxRows, a, b, c, ObjSpec)
    BY <1>4, <2>2
  <2> QED
    BY <2>3 DEF Joined
<1>6. DOMAIN a = 1 .. Len(a) /\ DOMAIN b = 1 .. Len(b) /\ DOMAIN c = 1 .. Len(c)
  BY <1>1
<1>7. mObj' \in [ObjId -> ObjSpec \cup {Direct}]
  <2>1. \A i \in ObjId : i <= Len(BoxRows) => BoxRows[i] \in ObjSpec
    BY <1>5 DEF ObjId
  <2> QED
    BY <1>3, <2>1
<1>8. \A i \in ObjId : i <= Len(BoxRows) => mObj'[i] = BoxRows[i]
  BY <1>3
<1> DEFINE Here(w, s) == /\ w \in Seq(ObjId) /\ Len(w) = Len(s) /\ DOMAIN w = DOMAIN s
                         /\ \A n \in DOMAIN s : mObj'[w[n]] = s[n]
<1>9. ASSUME NEW s, NEW x \in Nat, Len(s) \in Nat, DOMAIN s = 1 .. Len(s), x + Len(s) <= Len(BoxRows),
             \A n \in 1 .. Len(s) : BoxRows[x + n] = s[n]
      PROVE  Here([n \in DOMAIN s |-> x + n], s)
  <2> DEFINE w == [n \in DOMAIN s |-> x + n]
  <2>1. \A n \in 1 .. Len(s) : x + n \in ObjId /\ x + n <= Len(BoxRows)
    BY <1>1, <1>2, <1>5, <1>9 DEF ObjId
  <2>2. w \in [1 .. Len(s) -> ObjId]
    BY <1>9, <2>1
  <2>3. w \in Seq(ObjId) /\ Len(w) = Len(s) /\ DOMAIN w = DOMAIN s
    BY <1>9, <2>2
  <2>4. ASSUME NEW n \in DOMAIN s PROVE mObj'[w[n]] = s[n]
    <3>1. w[n] = x + n /\ n \in 1 .. Len(s)
      BY <1>9
    <3>2. mObj'[x + n] = BoxRows[x + n]
      BY <1>8, <2>1, <3>1
    <3> QED
      BY <1>9, <3>1, <3>2
  <2> QED
    BY <2>3, <2>4
<1>10. Here(mList'["out"], mRows["out"])
  <2>1. mList'["out"] = [n \in DOMAIN a |-> 0 + n]
    BY <1>3 DEF Numbered, ObjKind, a
  <2>2. Here([n \in DOMAIN a |-> 0 + n], a)
    <3>1. \A n \in 1 .. Len(a) : BoxRows[0 + n] = a[n]
      BY <1>5
    <3>2. 0 + Len(a) <= Len(BoxRows) /\ 0 \in Nat
      BY <1>5
    <3> HIDE DEF Here
    <3> QED
      BY <1>5, <1>6, <1>9, <3>1, <3>2
  <2> QED
    BY <2>1, <2>2 DEF a
<1>11. Here(mList'["end"], mRows["end"])
  <2>1. mList'["end"] = [n \in DOMAIN b |-> Len(a) + n]
    BY <1>3 DEF Numbered, ObjKind, a, b
  <2>2. Here([n \in DOMAIN b |-> Len(a) + n], b)
    <3>1. Len(a) + Len(b) <= Len(BoxRows)
      BY <1>5
    <3> HIDE DEF Here
    <3> QED
      BY <1>5, <1>6, <1>9, <3>1
  <2> QED
    BY <2>1, <2>2 DEF b
<1>12. Here(mList'["in"], mRows["in"])
  <2>1. mList'["in"] = [n \in DOMAIN c |-> Len(a) + Len(b) + n]
    BY <1>3 DEF Numbered, ObjKind, a, b, c
  <2>2. Here([n \in DOMAIN c |-> Len(a) + Len(b) + n], c)
    <3>1. Len(a) + Len(b) + Len(c) <= Len(BoxRows) /\ Len(a) + Len(b) \in Nat
      BY <1>5
    <3> HIDE DEF Here
    <3> QED
      BY <1>5, <1>6, <1>9, <3>1
  <2> QED
    BY <2>1, <2>2 DEF c
<1>13. \A k \in ObjKind : Here(mList'[k], mRows[k])
  <2> HIDE DEF Here
  <2> QED
    BY <1>10, <1>11, <1>12 DEF ObjKind
<1>14. NewTables
  BY <1>13 DEF NewTables
<1>15. mList' \in [ObjKind -> Seq(ObjId)]
  <2>1. \A k \in ObjKind : mList'[k] \in Seq(ObjId)
    BY <1>13
  <2> QED
    BY <1>3, <2>1
<1>16. mRows["out"] # <<>> => mList'["out"][1] = 1
  <2>1. a # <<>> => 1 \in DOMAIN a
    BY <1>1, NoneInSeq
  <2>2. mList'["out"] = [n \in DOMAIN a |-> 0 + n]
    BY <1>3 DEF Numbered, ObjKind, a
  <2> QED
    BY <2>1, <2>2 DEF a
<1> QED
  BY <1>7, <1>14, <1>15, <1>16

LEMMA NewBoxStep ==
  ASSUME IInv, NewBox
  PROVE  IInv'
<1>1. /\ Types /\ RowsOK /\ StaleOK /\ PhaseOK /\ ScopesOK /\ DefaultOK /\ mBox = "new"
  BY DEF IInv, NewBox
<1>2. /\ mBox' = "starting" /\ mOp' = [pc |-> "initialize", started |-> {}]
      /\ mRecipe' = [k \in ObjKind |-> {s.tag : s \in RowsOf(k)}]
      /\ UNCHANGED <<mRows, mOpen, mHeld, mRes, mOver, mFinal, mPending, mCount, mLost, mMoved, mStale>>
  BY DEF NewBox
<1>3. mOpen = {} /\ mHeld = {} /\ mLost = FALSE /\ mPending = FALSE /\ mOver = {} /\ mMoved = FALSE
  BY <1>1 DEF ScopesOK, PhaseOK, DefaultOK
<1>4. /\ NewTables /\ mObj' \in [ObjId -> ObjSpec \cup {Direct}] /\ mList' \in [ObjKind -> Seq(ObjId)]
      /\ mRows["out"] # <<>> => mList'["out"][1] = 1
  BY <1>1, NewBoxTables
<1>5. mOp' \in StartOp /\ mOp'.pc = "initialize" /\ mOp'.started = {} /\ ~ Saving'
  <2>1. mOp' \in StartOp /\ mOp'.pc = "initialize" /\ mOp'.started = {}
    BY <1>2 DEF StartOp
  <2> QED
    BY <2>1, OpKinds DEF Saving
<1>6. ASSUME NEW k \in ObjKind
      PROVE  /\ \A i \in Ids(k)' : \E n \in DOMAIN mRows[k] : i = mList'[k][n] /\ mObj'[i] = mRows[k][n] /\ mObj'[i] \in RowsOf(k)
             /\ \A r \in RowsOf(k) : \E i \in Ids(k)' : mObj'[i] = r
             /\ mRecipe'[k] = {s.tag : s \in RowsOf(k)}
  <2>1. /\ DOMAIN mList'[k] = DOMAIN mRows[k]
        /\ \A n \in DOMAIN mRows[k] : mObj'[mList'[k][n]] = mRows[k][n]
    BY <1>4 DEF NewTables
  <2>2. ASSUME NEW i \in Ids(k)'
        PROVE  \E n \in DOMAIN mRows[k] : i = mList'[k][n] /\ mObj'[i] = mRows[k][n] /\ mObj'[i] \in RowsOf(k)
    <3>1. PICK n \in DOMAIN mRows[k] : mList'[k][n] = i
      BY <2>1, MemberOf DEF Ids
    <3>2. mRows[k][n] \in RowsOf(k)
      BY MemberOf DEF RowsOf
    <3> QED
      BY <2>1, <3>1, <3>2
  <2>3. ASSUME NEW r \in RowsOf(k) PROVE \E i \in Ids(k)' : mObj'[i] = r
    <3>1. PICK n \in DOMAIN mRows[k] : mRows[k][n] = r
      BY MemberOf DEF RowsOf
    <3>2. mList'[k][n] \in Ids(k)'
      BY <2>1, MemberOf DEF Ids
    <3> QED
      BY <2>1, <3>1, <3>2
  <2> QED
    BY <1>2, <2>2, <2>3
<1>7. ASSUME NEW k \in ObjKind PROVE mRecipe'[k] \in SUBSET AnyTag
  <2>1. \A s \in RowsOf(k) : s.tag \in AnyTag
    BY <1>1, RowIs DEF AnyTag
  <2> QED
    BY <1>6, <2>1
<1>8. mDefault' \in ObjId \cup {0}
  <2>1. DOMAIN mRows["out"] \subseteq ObjId
    <3>1. Len(mRows["out"]) \in Nat /\ Len(mRows["end"]) \in Nat /\ Len(mRows["in"]) \in Nat /\ MaxObj \in Nat
      BY <1>1, RowLens
    <3>2. Len(mRows["out"]) + Len(mRows["end"]) + Len(mRows["in"]) <= MaxObj
      BY <1>1 DEF RowsOK, RowCount
    <3>3. DOMAIN mRows["out"] = 1 .. Len(mRows["out"])
      BY <1>1, NoneInSeq DEF Types, ObjKind
    <3> DEFINE x == Len(mRows["out"])
               y == Len(mRows["end"])
               z == Len(mRows["in"])
    <3>4. x \in Nat /\ y \in Nat /\ z \in Nat /\ MaxObj \in Nat /\ x + y + z <= MaxObj
      BY <3>1, <3>2
    <3> HIDE DEF x, y, z
    <3>5. 1 .. x \subseteq 1 .. MaxObj
      BY <3>4
    <3> QED
      BY <3>3, <3>5 DEF ObjId, x
  <2>2. mRows["out"] # <<>> => 1 \in DOMAIN mRows["out"]
    BY <1>1, NoneInSeq DEF Types, ObjKind
  <2>3. \/ mRows["out"] # <<>> /\ mDefault' = 1
        \/ /\ \E n \in DOMAIN mRows["out"] : mRows["out"][n].tag = mFinal
           /\ mDefault' = CHOOSE n \in DOMAIN mRows["out"] : mRows["out"][n].tag = mFinal
        \/ mDefault' = 0
    BY Zenon DEF NewBox
  <2>4. (\E n \in DOMAIN mRows["out"] : mRows["out"][n].tag = mFinal)
        => (CHOOSE n \in DOMAIN mRows["out"] : mRows["out"][n].tag = mFinal) \in DOMAIN mRows["out"]
    OBVIOUS
  <2> QED
    BY <2>1, <2>2, <2>3, <2>4
<1>9. Types'
  <2>1. mRecipe' \in [ObjKind -> SUBSET AnyTag]
    BY <1>2, <1>7
  <2> QED
    BY <1>1, <1>2, <1>4, <1>8, <2>1 DEF Types
<1>10. RowsOK' /\ StaleOK'
  BY <1>1, <1>2 DEF RowsOK, StaleOK, DialerRows, RowsOf
<1>11. ListsOK'
  <2> SUFFICES ASSUME NEW k \in ObjKind
               PROVE  /\ \A i \in Ids(k)' : mObj'[i].kind = k
                      /\ \A n, m \in DOMAIN mList'[k] : mObj'[mList'[k][n]].tag = mObj'[mList'[k][m]].tag => n = m
                      /\ mRecipe'[k] \subseteq {mObj'[i].tag : i \in Ids(k)'}
                      /\ \A i \in Ids(k)' : mObj'[i].tag \in mRecipe'[k]
    BY DEF ListsOK, TagOf
  <2>1. \A i \in Ids(k)' : mObj'[i].kind = k
    BY <1>1, <1>6, RowIs
  <2>2. ASSUME NEW n \in DOMAIN mList'[k], NEW m \in DOMAIN mList'[k], mObj'[mList'[k][n]].tag = mObj'[mList'[k][m]].tag
        PROVE  n = m
    <3>1. n \in DOMAIN mRows[k] /\ m \in DOMAIN mRows[k] /\ mRows[k][n].tag = mRows[k][m].tag
      BY <1>4, <2>2 DEF NewTables
    <3>2. k \in Shares(k)
      BY SharesOwn
    <3> QED
      BY <1>1, <3>1, <3>2 DEF RowsOK
  <2>3. mRecipe'[k] \subseteq {mObj'[i].tag : i \in Ids(k)'}
    BY <1>6
  <2>4. \A i \in Ids(k)' : mObj'[i].tag \in mRecipe'[k]
    BY <1>6
  <2> QED
    BY <2>1, <2>2, <2>3, <2>4
<1>12. PhaseOK' /\ OpOK'
  BY <1>2, <1>3, <1>5 DEF PhaseOK, OpOK
<1>13. ScopesOK' /\ ResolvedOK'
  BY <1>2, <1>3, <1>5 DEF ScopesOK, ResolvedOK
<1>14. StartOK'
  <2>1. ASSUME NEW i \in Ids("out")', NEW j \in Ids("end")', mObj'[i].tag = mObj'[j].tag PROVE FALSE
    <3>1. mObj'[i] \in RowsOf("out") /\ mObj'[j] \in RowsOf("end") /\ "out" \in ObjKind /\ "end" \in ObjKind
      BY <1>6 DEF ObjKind
    <3>2. "end" \in Shares("out")
      BY DEF Shares
    <3> QED
      BY <1>1, <2>1, <3>1, <3>2, OneRowPerTag
  <2> QED
    BY <1>5, <2>1 DEF StartOK, TagOf
<1>15. AgreeOK'
  <2> SUFFICES ASSUME NEW k \in ObjKind PROVE Recorded(k)' = RowsOf(k)' \cup Ahead(k)'
    BY DEF AgreeOK
  <2>1. Ahead(k)' = {} /\ RowsOf(k)' = RowsOf(k)
    BY <1>2, <1>5 DEF Ahead, RowsOf
  <2>2. Recorded(k)' = {mObj'[i] : i \in {j \in Ids(k)' : mObj'[j].tag \in mRecipe'[k]}}
    BY DEF Recorded, TagOf
  <2>3. \A i \in Ids(k)' : mObj'[i] \in RowsOf(k) /\ mObj'[i].tag \in mRecipe'[k]
    BY <1>6
  <2>4. \A r \in RowsOf(k) : \E i \in Ids(k)' : mObj'[i] = r
    BY <1>6
  <2>5. \A x : x \in Recorded(k)' <=> x \in RowsOf(k)
    BY <2>2, <2>3, <2>4
  <2> QED
    BY <2>1, <2>5
<1>16. OrderOK'
  <2>1. SameOrder'
    BY <1>2, <1>4 DEF SameOrder, NewTables, TagOf, ObjKind
  <2> QED
    BY <2>1 DEF OrderOK
<1>17. DefaultOK'
  <2>1. ~ Opened'
    BY <1>2, <1>5 DEF Opened
  <2>2. mFinal = "" => mDefault' = IF mList'["out"] = <<>> THEN 0 ELSE mList'["out"][1]
    <3>1. mList'["out"] = <<>> <=> mRows["out"] = <<>>
      <4>1. mList'["out"] \in Seq(ObjId) /\ mRows["out"] \in Seq(ObjSpec) /\ Len(mList'["out"]) = Len(mRows["out"])
        BY <1>1, <1>4 DEF NewTables, Types, ObjKind
      <4> QED
        BY <4>1, NoneInSeq
    <3>2. CASE mRows["out"] = <<>>
      <4>1. ~ \E n \in DOMAIN mRows["out"] : mRows["out"][n].tag = mFinal
        <5>1. DOMAIN mRows["out"] = {}
          BY <3>2
        <5> QED
          BY <5>1
      <4>2. mDefault' = 0
        BY <3>2, <4>1, Zenon DEF NewBox
      <4> QED
        BY <3>1, <3>2, <4>2
    <3>3. CASE mRows["out"] # <<>>
      <4>1. mFinal = "" => mDefault' = 1
        BY <3>3, Zenon DEF NewBox
      <4> QED
        BY <1>4, <3>1, <3>3, <4>1, Zenon
    <3> QED
      BY <3>2, <3>3, Zenon
  <2>3. mFinal # "" /\ mDefault' # 0 => \E n \in DOMAIN mRows["out"] : mRows["out"][n].tag = mFinal
    BY Zenon DEF NewBox
  <2>4. (\E n \in DOMAIN mRows["out"] : mRows["out"][n].tag = mFinal) => Holding("out", mFinal)' # {}
    <3> SUFFICES ASSUME NEW n \in DOMAIN mRows["out"], mRows["out"][n].tag = mFinal PROVE Holding("out", mFinal)' # {}
      OBVIOUS
    <3>1. mList'["out"][n] \in ToSet(mList'["out"]) /\ mObj'[mList'["out"][n]] = mRows["out"][n]
      BY <1>4, MemberOf DEF NewTables, ObjKind
    <3>2. mFinal' = mFinal
      BY <1>2
    <3> QED
      BY <3>1, <3>2 DEF Holding, TagOf
  <2>5. mFinal' = mFinal /\ mMoved' = FALSE /\ mBox' = "starting"
    BY <1>2, <1>3
  <2> QED
    BY <2>1, <2>2, <2>3, <2>4, <2>5, Zenon DEF DefaultOK
<1> QED
  BY <1>9, <1>10, <1>11, <1>12, <1>13, <1>14, <1>15, <1>16, <1>17 DEF IInv

\* The stage that opens the scopes, the tables being well formed.
LEMMA OpenStep ==
  ASSUME IInv, mBox = "starting", mOp.pc = "initialize", mOp' = [pc |-> "startOne", started |-> {}], mOpen' = InTable',
         UNCHANGED <<mBox, mHeld, mRows, mRecipe, mRes, mOver, mFinal, mPending, mLost, mStale>>
  PROVE  /\ RowsOK' /\ StaleOK' /\ PhaseOK' /\ ScopesOK' /\ OpOK' /\ ResolvedOK'
         /\ mHeld' = {} /\ mOp' \in StartOp /\ mOp'.pc = "startOne" /\ mOp'.started = {} /\ ~ Saving'
<1>1. RowsOK /\ StaleOK /\ PhaseOK /\ ScopesOK
  BY DEF IInv
<1>2. mOp' \in StartOp /\ mOp'.pc = "startOne" /\ mOp'.started = {}
  BY DEF StartOp
<1>3. ~ Saving'
  BY <1>2, OpKinds DEF Saving
<1>4. mHeld' = {}
  BY <1>1 DEF ScopesOK
<1>5. RowsOK' /\ StaleOK'
  BY <1>1 DEF RowsOK, StaleOK, DialerRows, RowsOf
<1>6. PhaseOK' /\ OpOK'
  BY <1>1, <1>2, <1>3 DEF PhaseOK, OpOK
<1>7. ScopesOK'
  BY <1>2, <1>4 DEF ScopesOK
<1>8. ResolvedOK'
  BY <1>4 DEF ResolvedOK
<1> QED
  BY <1>2, <1>3, <1>4, <1>5, <1>6, <1>7, <1>8

\* The first stage with a default there is.
LEMMA InitializeKept ==
  ASSUME IInv, mBox = "starting", mOp.pc = "initialize", mOp' = [pc |-> "startOne", started |-> {}],
         mOpen' = InTable', UNCHANGED <<mBox, mHeld, mRows, mRecipe, mRes, mOver, mFinal, mPending, mLost, mStale>>,
         UNCHANGED <<mObj, mList, mMoved>>,
         mDefault' \in ObjId,
         mFinal = "" => mDefault' = mDefault,
         mFinal # "" => mDefault # 0 \/ Holding("end", mFinal) # {}
  PROVE  IInv'
<1>1. Types /\ ListsOK /\ PhaseOK /\ StartOK /\ AgreeOK /\ OrderOK /\ DefaultOK /\ ScopesOK
  BY DEF IInv
<1>2. /\ RowsOK' /\ StaleOK' /\ PhaseOK' /\ ScopesOK' /\ OpOK' /\ ResolvedOK'
      /\ mHeld' = {} /\ mOp' \in StartOp /\ mOp'.pc = "startOne" /\ mOp'.started = {} /\ ~ Saving'
  BY OpenStep
<1>3. TableKept
  BY DEF TableKept
<1>4. /\ \A k : Ids(k)' = Ids(k)
      /\ InTable' = InTable /\ DialerIds' = DialerIds
      /\ \A k \in ObjKind : Recorded(k)' = Recorded(k)
      /\ ListsOK'
  BY <1>1, <1>3, Kept
<1>5. Types'
  <2>1. InTable \subseteq ObjId
    BY <1>1, IdsAre
  <2> QED
    BY <1>1, <1>2, <1>4, <2>1 DEF Types
<1>6. StartOK'
  BY <1>1, <1>2, <1>4 DEF StartOK, TagOf
<1>7. AgreeOK'
  <2>1. ~ Saving
    BY <1>1, OpKinds DEF PhaseOK, Saving
  <2>2. \A k \in ObjKind : Ahead(k)' = {} /\ Ahead(k) = {} /\ RowsOf(k)' = RowsOf(k)
    BY <1>2, <2>1 DEF Ahead, RowsOf
  <2> QED
    BY <1>1, <1>4, <2>2 DEF AgreeOK
<1>8. OrderOK'
  BY <1>1 DEF OrderOK, SameOrder, TagOf
<1>9. DefaultOK'
  <2>1. mLost' = FALSE /\ mMoved' = FALSE
    BY <1>1 DEF PhaseOK, DefaultOK
  <2>2. mFinal = "" => /\ mDefault' \in Ids("out")' /\ mDefault' # 0
                       /\ mList'["out"] # <<>> /\ mDefault' = mList'["out"][1]
    <3>1. mFinal = "" => mDefault = IF mList["out"] = <<>> THEN 0 ELSE mList["out"][1]
      BY <1>1, Zenon DEF DefaultOK
    <3>2. mDefault' # 0
      BY NotZero
    <3>3. mFinal = "" => mList["out"] # <<>> /\ mDefault' = mList["out"][1]
      BY <3>1, <3>2, Zenon
    <3>4. mList["out"] # <<>> => mList["out"][1] \in Ids("out")
      BY <1>1, NoneInSeq DEF Types, ObjKind, Ids
    <3> QED
      BY <1>4, <3>2, <3>3, <3>4, Zenon
  <2>3. mFinal # "" => Lookup(mFinal)' # {}
    <3>1. mFinal # "" /\ mDefault # 0 => Holding("out", mFinal) # {}
      BY <1>1, Zenon DEF DefaultOK
    <3>2. Holding("out", mFinal) # {} \/ Holding("end", mFinal) # {} => Lookup(mFinal) # {}
      BY Zenon DEF Lookup
    <3>3. Lookup(mFinal)' = Lookup(mFinal)
      BY DEF Lookup, Holding, TagOf
    <3> QED
      BY <3>1, <3>2, <3>3, Zenon
  <2>4. mBox' = "starting" /\ mOp'.pc # "initialize" /\ mBox' # "new"
    BY <1>2
  <2>5. mFinal' = mFinal
    OBVIOUS
  <2> QED
    BY <2>1, <2>2, <2>3, <2>4, <2>5, Zenon DEF DefaultOK
<1> QED
  BY <1>2, <1>4, <1>5, <1>6, <1>7, <1>8, <1>9 DEF IInv

\* The first stage without one: the fallback is the only outbound.
NeedsFallback == mFinal = "" /\ mDefault = 0
LEMMA InitializeFallback ==
  ASSUME IInv, mBox = "starting", mOp.pc = "initialize", mOp' = [pc |-> "startOne", started |-> {}],
         mOpen' = InTable', UNCHANGED <<mBox, mHeld, mRows, mRecipe, mRes, mOver, mFinal, mPending, mLost, mStale>>,
         NeedsFallback, NEW id \in ObjId, id \notin InTable,
         mList' = [mList EXCEPT !["out"] = Append(@, id)], mObj' = [mObj EXCEPT ![id] = Direct],
         mMoved' = TRUE, mDefault' = id
  PROVE  IInv'
<1>1. Types /\ ListsOK /\ PhaseOK /\ StartOK /\ AgreeOK /\ DefaultOK /\ ScopesOK
  BY DEF IInv
<1>2. /\ RowsOK' /\ StaleOK' /\ PhaseOK' /\ ScopesOK' /\ OpOK' /\ ResolvedOK'
      /\ mHeld' = {} /\ mOp' \in StartOp /\ mOp'.pc = "startOne" /\ mOp'.started = {} /\ ~ Saving'
  BY OpenStep
<1>3. mList["out"] = <<>>
  <2>1. mDefault = IF mList["out"] = <<>> THEN 0 ELSE mList["out"][1]
    BY <1>1, Zenon DEF DefaultOK, NeedsFallback
  <2>2. mDefault = 0
    BY Zenon DEF NeedsFallback
  <2>3. mList["out"] # <<>> => mList["out"][1] \in ObjId
    BY <1>1, NoneInSeq DEF Types, ObjKind
  <2> QED
    BY <2>1, <2>2, <2>3, NotZero, Zenon
<1>4. /\ mList'["out"] = <<id>> /\ mList'["out"] \in Seq(ObjId)
      /\ \A k \in ObjKind : k # "out" => mList'[k] = mList[k]
      /\ mList' \in [ObjKind -> Seq(ObjId)]
  <2>1. mList \in [ObjKind -> Seq(ObjId)] /\ "out" \in ObjKind
    BY <1>1 DEF Types, ObjKind
  <2>2. mList'["out"] = Append(<<>>, id) /\ \A k \in ObjKind : k # "out" => mList'[k] = mList[k]
    BY <1>3, <2>1
  <2>3. Append(<<>>, id) = <<id>> /\ <<id>> \in Seq(ObjId)
    OBVIOUS
  <2>4. mList' \in [ObjKind -> Seq(ObjId)]
    <3> DEFINE w == Append(mList["out"], id)
    <3>1. w \in Seq(ObjId) /\ mList' = [mList EXCEPT !["out"] = w]
      BY <1>3, <2>3
    <3> HIDE DEF w
    <3> QED
      BY <2>1, <3>1
  <2> QED
    BY <2>2, <2>3, <2>4
<1>5. /\ Ids("out") = {} /\ Ids("out")' = {id}
      /\ \A k \in ObjKind : k # "out" => Ids(k)' = Ids(k)
  <2>1. ToSet(<<id>>) = {id} /\ ToSet(<<>>) = {}
    BY DEF ToSet
  <2> QED
    BY <1>3, <1>4, <2>1 DEF Ids
<1>6. /\ mObj' \in [ObjId -> ObjSpec \cup {Direct}] /\ mObj'[id] = Direct
      /\ \A i \in ObjId : i # id => mObj'[i] = mObj[i]
  BY <1>1 DEF Types
<1>7. \A k \in ObjKind : Ids(k) \subseteq ObjId /\ id \notin Ids(k)
  BY <1>1, IdsAre
<1>8. \A k \in ObjKind : k # "out" => \A i \in Ids(k) : mObj'[i] = mObj[i]
  BY <1>6, <1>7
<1>9. mRecipe'["out"] = {}
  <2>1. mRecipe["out"] \subseteq {TagOf(i) : i \in Ids("out")}
    BY <1>1 DEF ListsOK, ObjKind
  <2> QED
    BY <1>5, <2>1
<1>10. Types'
  <2>1. InTable' \subseteq ObjId
    <3>1. \A k \in ObjKind : ToSet(mList'[k]) \subseteq ObjId
      BY <1>5, <1>7 DEF Ids
    <3> QED
      BY <3>1 DEF InTable
  <2> QED
    BY <1>1, <1>2, <1>4, <1>6, <2>1 DEF Types
<1>11. ListsOK'
  <2> SUFFICES ASSUME NEW k \in ObjKind
               PROVE  /\ \A i \in Ids(k)' : mObj'[i].kind = k
                      /\ \A n, m \in DOMAIN mList'[k] : mObj'[mList'[k][n]].tag = mObj'[mList'[k][m]].tag => n = m
                      /\ mRecipe'[k] \subseteq {mObj'[i].tag : i \in Ids(k)'}
                      /\ \A i \in Ids(k)' : mObj'[i].tag \in mRecipe'[k] \/ mObj'[i] = Direct
    BY DEF ListsOK, TagOf
  <2>1. CASE k = "out"
    <3>1. DOMAIN mList'[k] = {1}
      BY <1>4, <2>1
    <3>2. Direct.kind = "out"
      BY DEF Direct
    <3> QED
      BY <1>5, <1>6, <1>9, <2>1, <3>1, <3>2
  <2>2. CASE k # "out"
    <3>1. /\ \A i \in Ids(k) : mObj[i].kind = k
          /\ \A n, m \in DOMAIN mList[k] : mObj[mList[k][n]].tag = mObj[mList[k][m]].tag => n = m
          /\ mRecipe[k] \subseteq {mObj[i].tag : i \in Ids(k)}
          /\ \A i \in Ids(k) : mObj[i].tag \in mRecipe[k] \/ mObj[i] = Direct
      BY <1>1 DEF ListsOK, TagOf
    <3>2. \A i \in Ids(k) : mObj'[i] = mObj[i]
      BY <1>8, <2>2
    <3>3. \A n \in DOMAIN mList[k] : mList[k][n] \in Ids(k)
      BY MemberOf DEF Ids
    <3>4. Ids(k)' = Ids(k) /\ mList'[k] = mList[k] /\ mRecipe' = mRecipe
      BY <1>4, <1>5, <2>2
    <3>5. \A n, m \in DOMAIN mList'[k] : mObj'[mList'[k][n]].tag = mObj'[mList'[k][m]].tag => n = m
      <4>1. mList'[k] = mList[k]
        BY <3>4
      <4>2. \A n \in DOMAIN mList[k] : mObj'[mList[k][n]] = mObj[mList[k][n]]
        BY <3>2, <3>3, Zenon
      <4>3. \A n, m \in DOMAIN mList[k] : mObj'[mList[k][n]].tag = mObj'[mList[k][m]].tag => n = m
        BY <3>1, <4>2, Zenon
      <4> QED
        BY <4>1, <4>3, Zenon
    <3>6. {mObj'[i].tag : i \in Ids(k)'} = {mObj[i].tag : i \in Ids(k)}
      BY <3>2, <3>4
    <3>7. \A i \in Ids(k)' : mObj'[i].kind = k /\ (mObj'[i].tag \in mRecipe'[k] \/ mObj'[i] = Direct)
      BY <3>1, <3>2, <3>4
    <3>8. mRecipe'[k] \subseteq {mObj'[i].tag : i \in Ids(k)'}
      BY <3>1, <3>4, <3>6
    <3> QED
      BY <3>5, <3>7, <3>8
  <2> QED
    BY <2>1, <2>2
<1>12. StartOK'
  <2>1. ASSUME NEW j \in Ids("end")' PROVE mObj'[j].tag # "direct"
    <3>1. j \in Ids("end") /\ mObj'[j] = mObj[j] /\ mObj[j].kind = "end" /\ j \in ObjId
      BY <1>1, <1>5, <1>7, <1>8 DEF ObjKind, ListsOK
    <3>2. mObj[j] \in ObjSpec \cup {Direct}
      BY <1>1, <3>1 DEF Types
    <3> QED
      BY <3>1, <3>2, SpecIs
  <2>2. Direct.tag = "direct"
    BY DEF Direct
  <2> QED
    BY <1>2, <1>5, <1>6, <2>1, <2>2 DEF StartOK, TagOf
<1>13. AgreeOK'
  <2>1. ~ Saving
    BY <1>1, OpKinds DEF PhaseOK, Saving
  <2>2. \A k \in ObjKind : Ahead(k)' = {} /\ Ahead(k) = {} /\ RowsOf(k)' = RowsOf(k)
    BY <1>2, <2>1 DEF Ahead, RowsOf
  <2>3. mLost = FALSE /\ mPending = FALSE
    BY <1>1 DEF PhaseOK
  <2>4. \A k \in ObjKind : Recorded(k) = RowsOf(k)
    BY <1>1, <2>2, <2>3 DEF AgreeOK
  <2>5. Recorded("out")' = {} /\ Recorded("out") = {}
    BY <1>5, <1>9 DEF Recorded
  <2>6. ASSUME NEW k \in ObjKind, k # "out" PROVE Recorded(k)' = Recorded(k)
    <3>1. Ids(k)' = Ids(k) /\ mRecipe' = mRecipe /\ \A i \in Ids(k) : mObj'[i] = mObj[i]
      BY <1>5, <1>8, <2>6
    <3>2. \A x : x \in Recorded(k)' <=> x \in Recorded(k)
      BY <3>1 DEF Recorded, TagOf
    <3> QED
      BY <3>2
  <2>7. \A k \in ObjKind : Recorded(k)' = RowsOf(k)' \cup Ahead(k)'
    <3> TAKE k \in ObjKind
    <3>1. CASE k = "out"
      BY <2>2, <2>4, <2>5, <3>1
    <3>2. CASE k # "out"
      BY <2>2, <2>4, <2>6, <3>2
    <3> QED
      BY <3>1, <3>2
  <2> QED
    BY <2>7 DEF AgreeOK
<1>14. OrderOK'
  BY DEF OrderOK
<1>15. DefaultOK'
  <2>1. mDefault' \in Ids("out")' \cup {0} /\ mDefault' # 0 /\ mList'["out"] # <<>>
    BY <1>4, <1>5, NotZero
  <2>2. mBox' = "starting" /\ mOp'.pc # "initialize" /\ mBox' # "new"
    BY <1>2
  <2>3. mFinal' = ""
    BY Zenon DEF NeedsFallback
  <2> QED
    BY <2>1, <2>2, <2>3, Zenon DEF DefaultOK
<1> QED
  BY <1>2, <1>10, <1>11, <1>12, <1>13, <1>14, <1>15 DEF IInv

LEMMA InitializeStep ==
  ASSUME IInv, Initialize
  PROVE  IInv'
<1>1. mBox = "starting" /\ mOp.pc = "initialize"
  BY DEF Initialize
<1>2. UNCHANGED <<mRows, mRecipe, mRes, mOver, mFinal, mPending, mCount, mLost, mStale>>
  BY DEF Initialize
<1> DEFINE Fails == BoxClose /\ mOp' = NoOp /\ UNCHANGED <<mObj, mList, mDefault, mMoved>>
           HasDefault == mFinal # "" => mDefault # 0 \/ Holding("end", mFinal) # {}
           Opens == /\ HasRoom /\ mOp' = [pc |-> "startOne", started |-> {}] /\ mOpen' = InTable'
                    /\ UNCHANGED <<mBox, mHeld>>
           Fallback == /\ mList' = [mList EXCEPT !["out"] = Append(@, FreshId)] /\ mMoved' = TRUE
                       /\ mObj' = [mObj EXCEPT ![FreshId] = Direct] /\ mDefault' = FreshId
           Found == IF mDefault = 0 THEN CHOOSE e \in Holding("end", mFinal) : TRUE ELSE mDefault
           Keeps == mList' = mList /\ mMoved' = mMoved /\ mObj' = mObj /\ mDefault' = Found
<1>3. Fails \/ (HasDefault /\ Opens /\ (IF NeedsFallback THEN Fallback ELSE Keeps))
  <2> DEFINE list == IF NeedsFallback THEN [mList EXCEPT !["out"] = Append(@, FreshId)] ELSE mList
             Rest == /\ mFinal # "" => mDefault # 0 \/ Holding("end", mFinal) # {}
                     /\ HasRoom
                     /\ mList' = list
                     /\ mMoved' = (mMoved \/ NeedsFallback)
                     /\ mObj' = IF NeedsFallback THEN [mObj EXCEPT ![FreshId] = Direct] ELSE mObj
                     /\ mDefault' = IF NeedsFallback THEN FreshId ELSE Found
                     /\ mOpen' = UNION {ToSet(list[k]) : k \in ObjKind}
                     /\ mOp' = [pc |-> "startOne", started |-> {}]
                     /\ UNCHANGED <<mBox, mHeld>>
  <2>1. Fails \/ Rest
    BY Zenon DEF Initialize, NeedsFallback
  <2>2. ASSUME Rest PROVE HasDefault /\ Opens
    <3>1. mOpen' = InTable'
      BY <2>2 DEF InTable
    <3> QED
      BY <2>2, <3>1, Zenon
  <2>3. ASSUME Rest, NeedsFallback PROVE Fallback
    BY <2>3, Zenon
  <2>4. ASSUME Rest, ~ NeedsFallback PROVE Keeps
    <3>1. mMoved \in BOOLEAN
      BY DEF IInv, Types
    <3> HIDE DEF Found
    <3>2. mMoved' = mMoved
      BY <2>4, <3>1, Zenon
    <3> QED
      BY <2>4, <3>2, Zenon
  <2> QED
    BY <2>1, <2>2, <2>3, <2>4, Zenon
<1>4. ASSUME Fails PROVE IInv'
  BY <1>1, <1>2, <1>4, StartFails
<1>5. ASSUME HasDefault, Opens, NeedsFallback, Fallback PROVE IInv'
  <2>1. FreshId \in ObjId /\ FreshId \notin Used
    BY <1>5, FreshIs
  <2>2. FreshId \notin InTable
    BY <2>1 DEF Used, InTable
  <2>3. PICK id \in ObjId : id = FreshId
    BY <2>1
  <2> HIDE DEF HasDefault
  <2>4. /\ mList' = [mList EXCEPT !["out"] = Append(@, id)] /\ mObj' = [mObj EXCEPT ![id] = Direct]
        /\ mMoved' = TRUE /\ mDefault' = id /\ id \notin InTable
    BY <1>5, <2>2, <2>3
  <2>5. /\ mOp' = [pc |-> "startOne", started |-> {}] /\ mOpen' = InTable' /\ NeedsFallback
        /\ UNCHANGED <<mBox, mHeld, mRows, mRecipe, mRes, mOver, mFinal, mPending, mLost, mStale>>
    BY <1>2, <1>5
  <2> QED
    BY <1>1, <2>4, <2>5, InitializeFallback
<1>6. ASSUME HasDefault, Opens, ~ NeedsFallback, Keeps PROVE IInv'
  <2>1. Types
    BY DEF IInv
  <2>2. mFinal = "" => mDefault # 0 /\ mDefault' = mDefault
    <3>1. mDefault' = Found
      BY <1>6, Zenon
    <3>2. mFinal = "" => mDefault # 0
      BY <1>6, Zenon DEF NeedsFallback
    <3> QED
      BY <3>1, <3>2, Zenon
  <2>3. mDefault' \in ObjId
    <3>1. mDefault \in ObjId \cup {0}
      BY <2>1 DEF Types
    <3>2. mDefault = 0 => Holding("end", mFinal) # {}
      BY <1>6, <2>2, Zenon
    <3>3. Holding("end", mFinal) \subseteq ObjId
      BY <2>1, IdsAre DEF Holding, Ids, ObjKind
    <3>4. Holding("end", mFinal) # {} => (CHOOSE e \in Holding("end", mFinal) : TRUE) \in Holding("end", mFinal)
      BY Zenon
    <3>5. mDefault' = Found
      BY <1>6, Zenon
    <3>6. CASE mDefault = 0
      <4>1. mDefault' = CHOOSE e \in Holding("end", mFinal) : TRUE
        BY <3>5, <3>6, Zenon
      <4> QED
        BY <3>2, <3>3, <3>4, <3>6, <4>1, Zenon
    <3>7. CASE mDefault # 0
      <4>1. mDefault' = mDefault
        BY <3>5, <3>7, Zenon
      <4> QED
        BY <3>1, <3>7, <4>1
    <3> QED
      BY <3>6, <3>7
  <2> HIDE DEF Found
  <2>4. /\ mOp' = [pc |-> "startOne", started |-> {}] /\ mOpen' = InTable'
        /\ UNCHANGED <<mBox, mHeld, mRows, mRecipe, mRes, mOver, mFinal, mPending, mLost, mStale>>
        /\ UNCHANGED <<mObj, mList, mMoved>>
    BY <1>2, <1>6, Zenon
  <2>5. HasDefault
    BY <1>6
  <2> QED
    BY <1>1, <2>2, <2>3, <2>4, <2>5, InitializeKept, Zenon
<1> HIDE DEF Fails, Fallback, Keeps, Opens, HasDefault
<1> QED
  BY <1>3, <1>4, <1>5, <1>6, Zenon

\* What is started next: an outbound or endpoint whose dependencies have been, or
\* once all of them have an inbound.
LEMMA EligibleIs ==
  ASSUME Types
  PROVE  /\ ToSet(Dialers) = DialerIds
         /\ \A i \in Eligible :
              \/ i \in DialerIds /\ Ready(i)
              \/ i \in Ids("in") /\ DialerIds \subseteq mOp.started
         /\ Eligible = {} /\ DialerIds \subseteq mOp.started => Ids("in") \subseteq mOp.started
<1> DEFINE next == {n \in DOMAIN Dialers : Dialers[n] \notin mOp.started /\ Ready(Dialers[n])}
           rest == {n \in DOMAIN mList["in"] : mList["in"][n] \notin mOp.started}
           First(S) == CHOOSE n \in S : \A m \in S : n <= m
<1>1. mList["out"] \in Seq(ObjId) /\ mList["end"] \in Seq(ObjId) /\ mList["in"] \in Seq(ObjId)
  BY DEF Types, ObjKind
<1>2. ToSet(Dialers) = DialerIds
  BY <1>1, ConcatSet DEF Dialers, DialerIds, Ids
<1>3. Dialers \in Seq(ObjId)
  BY <1>1 DEF Dialers
<1>4. next \subseteq Nat /\ rest \subseteq Nat
  BY <1>1, <1>3
<1>5. Eligible = IF ToSet(Dialers) \subseteq mOp.started
                 THEN IF rest = {} THEN {} ELSE {mList["in"][First(rest)]}
                 ELSE IF next = {} THEN {} ELSE {Dialers[First(next)]}
  BY Zenon DEF Eligible
<1>6. \A S : S \subseteq Nat /\ S # {} => First(S) \in S
  <2> SUFFICES ASSUME NEW S, S \subseteq Nat, S # {} PROVE First(S) \in S
    OBVIOUS
  <2>1. \E n \in S : \A m \in S : n <= m
    BY LeastNumber
  <2> QED
    BY <2>1
<1>7. next # {} => First(next) \in next
  BY <1>4, <1>6, Zenon
<1>8. rest # {} => First(rest) \in rest
  BY <1>4, <1>6, Zenon
<1>9. \A n \in next : Dialers[n] \in DialerIds /\ Ready(Dialers[n])
  BY <1>2, MemberOf
<1>10. \A n \in rest : mList["in"][n] \in Ids("in")
  BY MemberOf DEF Ids
<1>11. rest = {} => Ids("in") \subseteq mOp.started
  BY MemberOf DEF Ids
<1> HIDE DEF next, rest, First
<1>12. ASSUME NEW i \in Eligible
       PROVE  (i \in DialerIds /\ Ready(i)) \/ (i \in Ids("in") /\ DialerIds \subseteq mOp.started)
  <2>1. CASE ToSet(Dialers) \subseteq mOp.started
    <3>1. rest # {} /\ i = mList["in"][First(rest)]
      BY <1>5, <1>12, <2>1
    <3> QED
      BY <1>2, <1>8, <1>10, <2>1, <3>1, Zenon
  <2>2. CASE ~ ToSet(Dialers) \subseteq mOp.started
    <3>1. next # {} /\ i = Dialers[First(next)]
      BY <1>5, <1>12, <2>2
    <3> QED
      BY <1>7, <1>9, <3>1, Zenon
  <2> QED
    BY <2>1, <2>2
<1>13. Eligible = {} /\ DialerIds \subseteq mOp.started => Ids("in") \subseteq mOp.started
  BY <1>2, <1>5, <1>11
<1> QED
  BY <1>2, <1>12, <1>13

\* A component starts: what it depends on has.
LEMMA StartOneDone ==
  ASSUME IInv, mBox = "starting", mOp.pc = "startOne", NEW i \in Eligible,
         mOp' = [mOp EXCEPT !.started = @ \cup {i}], mHeld' = mHeld \cup {i},
         mRes' = [mRes EXCEPT ![i] = UNION {Lookup(d) : d \in mObj[i].deps}],
         UNCHANGED <<mBox, mOpen, mRows, mObj, mList, mRecipe, mOver, mDefault, mFinal, mPending, mLost, mMoved, mStale>>
  PROVE  IInv'
<1>1. /\ Types /\ RowsOK /\ ListsOK /\ PhaseOK /\ ScopesOK /\ ResolvedOK
      /\ StartOK /\ AgreeOK /\ OrderOK /\ DefaultOK /\ StaleOK
  BY DEF IInv
<1>2. mOp \in StartOp /\ mOpen = InTable /\ mHeld = mOp.started /\ mHeld \subseteq mOpen /\ mOp.started \in SUBSET ObjId
  BY <1>1, OpKinds DEF PhaseOK, ScopesOK
<1>3. (i \in DialerIds /\ Ready(i)) \/ (i \in Ids("in") /\ DialerIds \subseteq mOp.started)
  BY <1>1, EligibleIs
<1>4. /\ \A k \in ObjKind : Ids(k) \subseteq ObjId /\ Ids(k) \subseteq InTable
      /\ InTable \subseteq ObjId /\ InTable = Ids("out") \cup Ids("end") \cup Ids("in") /\ DialerIds \subseteq InTable
  BY <1>1, IdsAre
<1>5. i \in InTable /\ i \in ObjId
  BY <1>3, <1>4 DEF ObjKind
<1>6. TableKept
  BY DEF TableKept
<1>7. /\ \A k : Ids(k)' = Ids(k)
      /\ InTable' = InTable /\ DialerIds' = DialerIds
      /\ \A k \in ObjKind : Recorded(k)' = Recorded(k)
      /\ ListsOK'
  BY <1>1, <1>6, Kept
<1>8. mOp' \in StartOp /\ mOp'.pc = "startOne" /\ mOp'.started = mOp.started \cup {i}
  BY <1>2, <1>5 DEF StartOp
<1>9. ~ Saving /\ ~ Saving'
  BY <1>2, <1>8, OpKinds DEF Saving
<1> DEFINE R == UNION {Lookup(d) : d \in mObj[i].deps}
<1>10. \A r \in R : r \in DialerIds /\ TagOf(r) \in mObj[i].deps
  BY LookupIs
<1>11. mRes \in [ObjId -> SUBSET ObjId] /\ mRes' = [mRes EXCEPT ![i] = R]
  BY <1>1 DEF Types
<1> HIDE DEF R
<1>12. R \subseteq ObjId
  BY <1>4, <1>10
<1>13. mRes' \in [ObjId -> SUBSET ObjId] /\ mRes'[i] = R /\ \A j \in ObjId : j # i => mRes'[j] = mRes[j]
  BY <1>5, <1>11, <1>12
<1>14. Types'
  BY <1>1, <1>5, <1>13 DEF Types
<1>15. RowsOK' /\ StaleOK' /\ \A k : RowsOf(k)' = RowsOf(k)
  BY <1>1 DEF RowsOK, StaleOK, DialerRows, RowsOf
<1>16. PhaseOK' /\ OpOK'
  BY <1>1, <1>8, <1>9 DEF PhaseOK, OpOK
<1>17. ScopesOK'
  BY <1>2, <1>5, <1>7, <1>8 DEF ScopesOK
<1>18. ASSUME NEW r \in R PROVE r \in mOp.started
  <2>1. r \in DialerIds /\ TagOf(r) \in mObj[i].deps
    BY <1>10
  <2>2. CASE i \in Ids("in") /\ DialerIds \subseteq mOp.started
    BY <2>1, <2>2
  <2>3. CASE i \in DialerIds /\ Ready(i)
    <3>1. PICK j \in mOp.started : TagOf(j) = TagOf(r)
      BY <2>1, <2>3 DEF Ready
    <3>2. j \in Ids("out") \cup Ids("end") \cup Ids("in")
      BY <1>2, <1>4, <3>1
    <3>3. CASE j \in Ids("in")
      BY <1>1, <2>1, <3>1, <3>3 DEF StartOK
    <3>4. \A a \in Ids("out"), b \in Ids("end") : TagOf(a) # TagOf(b)
      BY <1>1 DEF StartOK
    <3>5. ASSUME NEW k \in {"out", "end"}, j \in Ids(k) PROVE r = j
      <4>1. k \in ObjKind
        BY DEF ObjKind
      <4>2. r \in Ids(k)
        BY <2>1, <3>1, <3>4, <3>5 DEF DialerIds
      <4> QED
        BY <1>1, <3>1, <3>5, <4>1, <4>2, OnePerTag
    <3> QED
      BY <3>1, <3>2, <3>3, <3>5
  <2> QED
    BY <1>3, <2>2, <2>3
<1>19. ResolvedOK'
  <2> SUFFICES ASSUME NEW j \in mHeld', NEW r \in mRes'[j]
               PROVE  r \in DialerIds /\ r \in mHeld' /\ TagOf(r) \in mObj[j].deps
    BY <1>7 DEF ResolvedOK, TagOf
  <2>1. CASE j = i
    BY <1>2, <1>10, <1>13, <1>18, <2>1
  <2>2. CASE j # i
    <3>1. j \in mHeld /\ mRes'[j] = mRes[j]
      BY <1>1, <1>13, <2>2 DEF Types
    <3> QED
      BY <1>1, <3>1 DEF ResolvedOK
  <2> QED
    BY <2>1, <2>2
<1>20. StartOK'
  <2>1. (\E j \in Ids("in") : j \in mOp.started \cup {i}) => DialerIds \subseteq mOp.started \cup {i}
    <3> SUFFICES ASSUME NEW j \in Ids("in"), j \in mOp.started \cup {i} PROVE DialerIds \subseteq mOp.started
      OBVIOUS
    <3>1. CASE j \in mOp.started
      BY <1>1, <3>1 DEF StartOK
    <3>2. CASE j = i
      <4>1. i \notin DialerIds
        BY <1>1, <3>2, ListsApart DEF DialerIds, ObjKind
      <4> QED
        BY <1>3, <4>1
    <3> QED
      BY <3>1, <3>2
  <2>2. \A a \in Ids("out"), b \in Ids("end") : TagOf(a) # TagOf(b)
    BY <1>1 DEF StartOK
  <2> QED
    BY <1>7, <1>8, <2>1, <2>2 DEF StartOK, TagOf
<1>21. AgreeOK'
  <2>1. \A k \in ObjKind : Ahead(k)' = Ahead(k)
    BY <1>9 DEF Ahead
  <2> QED
    BY <1>1, <1>7, <1>15, <2>1 DEF AgreeOK
<1>22. OrderOK'
  BY <1>1 DEF OrderOK, SameOrder, TagOf
<1>23. DefaultOK'
  <2>1. Opened /\ Opened'
    BY <1>8 DEF Opened
  <2>2. Lookup(mFinal)' = Lookup(mFinal)
    BY DEF Lookup, Holding, TagOf
  <2> QED
    BY <1>1, <1>7, <1>8, <2>1, <2>2, Zenon DEF DefaultOK
<1> QED
  BY <1>7, <1>14, <1>15, <1>16, <1>17, <1>19, <1>20, <1>21, <1>22, <1>23 DEF IInv

LEMMA StartOneStep ==
  ASSUME IInv, StartOne
  PROVE  IInv'
<1>1. /\ mBox = "starting" /\ mOp.pc = "startOne"
      /\ UNCHANGED <<mRows, mObj, mList, mRecipe, mOver, mDefault, mFinal, mPending, mLost, mMoved, mStale>>
  BY DEF StartOne
<1>2. PICK i \in Eligible :
        \/ /\ mOp' = [mOp EXCEPT !.started = @ \cup {i}] /\ mHeld' = mHeld \cup {i}
           /\ mRes' = [mRes EXCEPT ![i] = UNION {Lookup(d) : d \in mObj[i].deps}]
           /\ UNCHANGED <<mBox, mOpen>>
        \/ BoxClose /\ mOp' = NoOp /\ UNCHANGED mRes
  BY Zenon DEF StartOne
<1>3. CASE /\ mOp' = [mOp EXCEPT !.started = @ \cup {i}] /\ mHeld' = mHeld \cup {i}
           /\ mRes' = [mRes EXCEPT ![i] = UNION {Lookup(d) : d \in mObj[i].deps}]
           /\ UNCHANGED <<mBox, mOpen>>
  BY <1>1, <1>3, StartOneDone
<1>4. CASE BoxClose /\ mOp' = NoOp /\ UNCHANGED mRes
  BY <1>1, <1>4, StartFails
<1> QED
  BY <1>2, <1>3, <1>4

\* The box runs: everything in the tables has started.
LEMMA StartedStep ==
  ASSUME IInv, Started
  PROVE  IInv'
<1>1. /\ Types /\ RowsOK /\ ListsOK /\ PhaseOK /\ ScopesOK /\ ResolvedOK
      /\ StartOK /\ AgreeOK /\ OrderOK /\ DefaultOK /\ StaleOK
  BY DEF IInv
<1>2. /\ mBox = "starting" /\ mOp.pc = "startOne" /\ Eligible = {} /\ ToSet(Dialers) \subseteq mOp.started
      /\ mBox' = "running" /\ mOp' = NoOp
      /\ UNCHANGED <<mRows, mObj, mList, mRecipe, mOpen, mHeld, mRes, mOver, mDefault, mFinal, mPending, mLost, mMoved, mStale>>
  BY DEF Started
<1>3. mOp \in StartOp /\ mOpen = InTable /\ mHeld = mOp.started /\ mHeld \subseteq mOpen
  BY <1>1, <1>2 DEF PhaseOK, ScopesOK
<1>4. DialerIds \subseteq mOp.started /\ Ids("in") \subseteq mOp.started
  BY <1>1, <1>2, EligibleIs
<1>5. InTable = Ids("out") \cup Ids("end") \cup Ids("in")
  BY <1>1, IdsAre
<1>6. mHeld = InTable
  BY <1>3, <1>4, <1>5 DEF DialerIds
<1>7. TableKept
  BY <1>2 DEF TableKept
<1>8. /\ \A k : Ids(k)' = Ids(k)
      /\ InTable' = InTable /\ DialerIds' = DialerIds
      /\ \A k \in ObjKind : Recorded(k)' = Recorded(k)
      /\ ListsOK'
  BY <1>1, <1>7, Kept
<1>9. Types' /\ RowsOK' /\ StaleOK' /\ \A k : RowsOf(k)' = RowsOf(k)
  BY <1>1, <1>2 DEF Types, RowsOK, StaleOK, DialerRows, RowsOf
<1>10. mOpen' = InTable' /\ mHeld' = InTable'
  BY <1>2, <1>3, <1>6, <1>8
<1>11. ResolvedOK'
  <2>1. \A i \in InTable : \A r \in mRes[i] : r \in DialerIds /\ TagOf(r) \in mObj[i].deps
    BY <1>1, <1>2, <1>6 DEF ResolvedOK
  <2> QED
    BY <1>2, <1>8, <2>1 DEF ResolvedOK, TagOf
<1>12. DefaultOK'
  <2>1. Opened /\ Opened'
    BY <1>2 DEF Opened
  <2>2. Lookup(mFinal)' = Lookup(mFinal)
    BY <1>2 DEF Lookup, Holding, TagOf
  <2>3. mBox' = "running" /\ mBox' # "starting" /\ mBox' # "new"
    BY <1>2
  <2> QED
    BY <1>1, <1>2, <1>8, <2>1, <2>2, <2>3, Zenon DEF DefaultOK
<1>13. \A k \in ObjKind : ~ mLost' /\ ~ mPending' => Recorded(k)' = RowsOf(k)'
  <2>1. \A k \in ObjKind : Ahead(k) = {}
    BY <1>3, OpKinds DEF Ahead, Saving
  <2> QED
    BY <1>1, <1>2, <1>8, <1>9, <2>1 DEF AgreeOK
<1>14. ~ mLost' /\ ~ mMoved' => SameOrder'
  BY <1>1, <1>2 DEF OrderOK, SameOrder, TagOf
<1> QED
  BY <1>2, <1>8, <1>9, <1>10, <1>11, <1>12, <1>13, <1>14, EndOfSave

-----------------------------------------------------------------------------
(* The theorem.                                                              *)

\* Every step keeps the invariant.
LEMMA NextKeeps ==
  ASSUME IInv, ManagersNext
  PROVE  IInv'
<1>1. CASE NewBox \/ Initialize \/ StartOne \/ StartStuck \/ Started
  BY <1>1, NewBoxStep, InitializeStep, StartOneStep, StartStuckStep, StartedStep, Zenon
<1>2. CASE \E s \in ObjSpec : SaveNew(s)
  BY <1>2, SaveNewStep, Zenon
<1>3. CASE \E k \in ObjKind : \E row \in RowsOf(k) : SaveDel(k, row) \/ \E s \in ObjSpec : SaveEdit(k, row, s)
  BY <1>3, SaveDelStep, SaveEditStep, Zenon
<1>4. CASE Entry \/ ComponentStart \/ StartEnded \/ Undo \/ PutInTable \/ RemoveOld
  BY <1>4, EntryUndoStep, ComponentStartStep, StartEndedStep, PutInTableStep, RemoveOldStep, Zenon
<1>5. CASE Close \/ RestartBox
  BY <1>5, CloseStep, RestartStep, Zenon
<1> QED
  BY <1>1, <1>2, <1>3, <1>4, <1>5, Zenon DEF ManagersNext

\* So does a step of something else.
LEMMA StutterKeeps ==
  ASSUME IInv, UNCHANGED mgrVars
  PROVE  IInv'
<1>1. UNCHANGED <<mRows, mObj, mList, mRecipe, mOpen, mHeld, mRes, mOver, mDefault, mFinal, mBox, mPending, mOp, mLost, mMoved, mStale>>
  BY DEF mgrVars
<1>2. Types' /\ RowsOK' /\ ListsOK' /\ StaleOK'
  BY <1>1 DEF IInv, Types, RowsOK, ListsOK, StaleOK, Ids, TagOf, DialerRows, RowsOf
<1>3. PhaseOK' /\ ScopesOK' /\ ResolvedOK' /\ StartOK'
  BY <1>1 DEF IInv, PhaseOK, ScopesOK, ResolvedOK, StartOK, Saving, Gone, Entered, Unheld, Late, InTable, DialerIds, Ids, TagOf
<1>4. OpOK'
  <2>1. OpOK
    BY DEF IInv
  <2>2. Saving' <=> Saving
    BY <1>1 DEF Saving
  <2>3. OpRow(mOp)' <=> OpRow(mOp)
    BY <1>1 DEF OpRow, RowsOf, tagFreeAcross
  <2>4. OpNew(mOp)' <=> OpNew(mOp)
    BY <1>1, Zenon DEF OpNew, WhyOK, InTable, Ids, TagOf
  <2>5. OpOld(mOp)' <=> OpOld(mOp)
    BY <1>1 DEF OpOld, OldOK, Holding, TagOf, dependents
  <2>6. OpRes(mOp)' <=> OpRes(mOp)
    BY <1>1 DEF OpRes, DialerIds, Ids, Lookup, Holding, TagOf
  <2>7. OpIn(mOp)' <=> OpIn(mOp)
    BY <1>1 DEF OpIn, Ids, Lookup, Holding, TagOf, RenamesOutbound
  <2>8. Retags(mOp)' <=> Retags(mOp)
    BY <1>1 DEF Retags
  <2>9. mOp' = mOp /\ mMoved' = mMoved
    BY <1>1
  <2> QED
    BY <2>1, <2>2, <2>3, <2>4, <2>5, <2>6, <2>7, <2>8, <2>9, Zenon DEF OpOK
<1>5. AgreeOK' /\ OrderOK'
  BY <1>1 DEF IInv, AgreeOK, OrderOK, SameOrder, Recorded, Ahead, Saving, RowsOf, Ids, TagOf
<1>6. DefaultOK'
  <2>1. DefaultOK
    BY DEF IInv
  <2> QED
    BY <1>1, <2>1, Zenon DEF DefaultOK, Opened, Ids, Lookup, Holding, TagOf
<1> QED
  BY <1>2, <1>3, <1>4, <1>5, <1>6 DEF IInv

\* What the invariant says of the default, and of the order.
LEMMA DefaultSafe ==
  ASSUME IInv
  PROVE  DefaultRuns /\ DefaultAsAfterRestart
<1>1. Types /\ ListsOK /\ OrderOK
  BY DEF IInv
<1>2. mBox = "running" => /\ mFinal = "" =>
                               /\ mDefault \in Ids("out") \cup {0}
                               /\ mList["out"] # <<>> => mDefault # 0
                               /\ ~ mLost => mList["out"] # <<>>
                               /\ ~ mLost /\ ~ mMoved => mDefault = mList["out"][1]
                          /\ mFinal # "" /\ ~ mLost => Lookup(mFinal) # {}
  BY Zenon DEF IInv, DefaultOK, Opened
<1>3. AtRest => mBox = "running" /\ mOpen = InTable
  BY ScopesNow DEF AtRest
<1>4. Ids("out") \subseteq InTable /\ DialerIds \subseteq InTable
  BY <1>1, IdsAre DEF ObjKind
<1>5. Lookup(mFinal) \subseteq DialerIds
  BY LookupIs
<1>6. mFinal = "" => DefaultOutbound = {mDefault} \ {0}
  BY Zenon DEF DefaultOutbound
<1>7. mFinal # "" /\ Lookup(mFinal) # {} => DefaultOutbound = Lookup(mFinal)
  BY Zenon DEF DefaultOutbound
<1>8. mDefault # 0 => {mDefault} \ {0} # {}
  OBVIOUS
<1>9. mDefault \in Ids("out") \cup {0} => {mDefault} \ {0} \subseteq InTable
  BY <1>4
<1>10. ASSUME mBox = "running", ~ mLost PROVE DefaultOutbound # {}
  BY <1>2, <1>6, <1>7, <1>8, <1>10, Zenon
<1>11. ASSUME AtRest, mLost => mFinal = "" PROVE DefaultOutbound \subseteq mOpen
  <2>1. CASE mFinal = ""
    <3>1. mDefault \in Ids("out") \cup {0}
      BY <1>2, <1>3, <1>11, <2>1, Zenon
    <3>2. {mDefault} \ {0} \subseteq InTable
      BY <1>9, <3>1, Zenon
    <3>3. DefaultOutbound = {mDefault} \ {0}
      BY <1>6, <2>1, Zenon
    <3> QED
      BY <1>3, <1>11, <3>2, <3>3, Zenon
  <2>2. CASE mFinal # ""
    <3>1. Lookup(mFinal) # {}
      BY <1>2, <1>3, <1>11, <2>2, Zenon
    <3>2. DefaultOutbound = Lookup(mFinal)
      BY <1>7, <2>2, <3>1, Zenon
    <3> QED
      BY <1>3, <1>4, <1>5, <1>11, <3>2, Zenon
  <2> QED
    BY <2>1, <2>2, Zenon
<1>12. DefaultRuns
  BY <1>10, <1>11, Zenon DEF DefaultRuns
<1>13. ASSUME AtRest, ~ mLost, ~ mMoved
       PROVE  /\ [n \in DOMAIN mList["out"] |-> TagOf(mList["out"][n])] = [n \in DOMAIN mRows["out"] |-> mRows["out"][n].tag]
              /\ mFinal = "" => TagOf(mDefault) = mRows["out"][1].tag
  <2>1. SameOrder
    BY <1>1, <1>3, <1>13 DEF OrderOK
  <2>2. mList["out"] \in Seq(ObjId) /\ mRows["out"] \in Seq(ObjSpec)
    BY <1>1 DEF Types, ObjKind
  <2>3. DOMAIN mList["out"] = DOMAIN mRows["out"]
    BY <2>1, <2>2 DEF SameOrder
  <2>4. \A n \in DOMAIN mList["out"] : TagOf(mList["out"][n]) = mRows["out"][n].tag
    BY <2>1 DEF SameOrder
  <2>5. [n \in DOMAIN mList["out"] |-> TagOf(mList["out"][n])] = [n \in DOMAIN mRows["out"] |-> mRows["out"][n].tag]
    BY <2>3, <2>4
  <2>6. mFinal = "" => mList["out"] # <<>> /\ mDefault = mList["out"][1]
    BY <1>2, <1>3, <1>13, Zenon
  <2>7. mList["out"] # <<>> => TagOf(mList["out"][1]) = mRows["out"][1].tag
    BY <2>2, <2>4, NoneInSeq
  <2> QED
    BY <2>5, <2>6, <2>7, Zenon
<1>14. DefaultAsAfterRestart
  BY <1>13, Zenon DEF DefaultAsAfterRestart
<1> QED
  BY <1>12, <1>14

\* The rest of what it says.
LEMMA InvariantIsSafe ==
  ASSUME IInv
  PROVE  ManagerSafety
<1>1. Types /\ ListsOK /\ ScopesOK /\ ResolvedOK /\ StaleOK
  BY DEF IInv
<1>2. DefaultRuns /\ DefaultAsAfterRestart
  BY DefaultSafe
<1>3. ManagersTypeOK
  BY <1>1 DEF ManagersTypeOK, Types, ListsOK, Ids
<1>4. NothingLeaks
  BY ScopesNow DEF NothingLeaks, AtRest
<1>5. NobodyDialsClosed
  <2>1. ASSUME AtRest, NEW i \in mOpen \ mOver, NEW r \in mRes[i] PROVE r \in mOpen
    <3>1. mOpen = InTable /\ mBox = "running"
      BY <2>1, ScopesNow DEF AtRest
    <3>2. r \in DialerIds
      BY <1>1, <2>1, <3>1 DEF ResolvedOK
    <3>3. DialerIds \subseteq InTable
      BY <1>1, IdsAre
    <3> QED
      BY <3>1, <3>2, <3>3
  <2>2. ASSUME mBox = "starting", NEW i \in mHeld, NEW r \in mRes[i] PROVE r \in mHeld
    BY <1>1, <2>2 DEF ResolvedOK
  <2> QED
    BY <2>1, <2>2 DEF NobodyDialsClosed
<1>6. CoreMatchesRows
  <2> SUFFICES ASSUME AtRest, ~ mLost, ~ mPending, NEW k \in ObjKind
               PROVE  {mObj[i] : i \in {j \in ToSet(mList[k]) : mObj[j].tag \in mRecipe[k]}} = RowsOf(k)
    BY DEF CoreMatchesRows
  <2>1. Recorded(k) = RowsOf(k)
    BY AgreeIs DEF AtRest
  <2> QED
    BY <2>1 DEF Recorded, Ids, TagOf
<1>7. RowsStartable
  BY <1>1 DEF RowsStartable, StaleOK
<1> QED
  BY <1>2, <1>3, <1>4, <1>5, <1>6, <1>7 DEF ManagerSafety

\* The hot replacement of objects is safe: whatever is saved, in whatever order,
\* whichever start fails and whenever the box is closed under it, between saves the
\* core runs what the rows say, leaks nothing, dials nothing closed, has a default,
\* and a restart can start and would change nothing.
THEOREM ManagersAreSafe == ManagersSpec => []ManagerSafety
<1>1. ManagersInit => IInv
  BY InitHolds
<1>2. IInv /\ [ManagersNext]_mgrVars => IInv'
  BY NextKeeps, StutterKeeps, Zenon
<1>3. IInv => ManagerSafety
  BY InvariantIsSafe
<1> QED
  BY <1>1, <1>2, <1>3, PTL DEF ManagersSpec

-----------------------------------------------------------------------------
(* The links and detours of rows (ObjectGraph).                             *)

\* What tags and remarks are made of, and the links.
Letter == NodeNames \cup {"own"} \cup UNION {ToSet(t) : t \in InbTag}
Link == [type : {"local", "external"}, remark : Seq(Letter), uri : Nat \X Nat, pre : BOOLEAN]

-----------------------------------------------------------------------------
(* Lists.                                                                   *)

\* One more link at the end.
LEMMA AppendLink ==
  ASSUME NEW a \in Seq(Link), NEW x \in Link
  PROVE  /\ Append(a, x) \in Seq(Link) /\ ToSet(Append(a, x)) = ToSet(a) \cup {x}
         /\ LocalOnce(a) /\ (x \notin ToSet(a) \/ x.type # "local") => LocalOnce(Append(a, x))
<1> DEFINE b == Append(a, x)
<1>1. /\ b \in Seq(Link) /\ Len(b) = Len(a) + 1 /\ b[Len(a) + 1] = x /\ Len(a) \in Nat
      /\ \A i \in 1 .. Len(a) : b[i] = a[i]
  OBVIOUS
<1>2. DOMAIN a = 1 .. Len(a) /\ DOMAIN b = 1 .. Len(a) + 1
  BY <1>1
<1> HIDE DEF b
<1>3. ToSet(b) = ToSet(a) \cup {x}
  <2>1. \A i \in DOMAIN a : i \in DOMAIN b /\ b[i] = a[i]
    BY <1>1, <1>2
  <2>2. \A i \in DOMAIN b : i \in DOMAIN a \/ i = Len(a) + 1
    BY <1>1, <1>2
  <2>3. Len(a) + 1 \in DOMAIN b
    BY <1>1, <1>2
  <2> QED
    BY <1>1, <2>1, <2>2, <2>3 DEF ToSet
<1>4. ASSUME LocalOnce(a), x \notin ToSet(a) \/ x.type # "local" PROVE LocalOnce(b)
  <2> SUFFICES ASSUME NEW j \in DOMAIN b, NEW k \in DOMAIN b, b[j] = b[k], b[j].type = "local" PROVE j = k
    BY DEF LocalOnce
  <2>1. CASE j \in DOMAIN a /\ k \in DOMAIN a
    BY <1>1, <1>2, <1>4, <2>1 DEF LocalOnce
  <2>2. CASE j = Len(a) + 1 /\ k = Len(a) + 1
    BY <2>2
  <2>3. CASE j \in DOMAIN a /\ k = Len(a) + 1
    BY <1>1, <1>2, <1>4, <2>3 DEF ToSet
  <2>4. CASE k \in DOMAIN a /\ j = Len(a) + 1
    BY <1>1, <1>2, <1>4, <2>4 DEF ToSet
  <2> QED
    BY <1>1, <1>2, <2>1, <2>2, <2>3, <2>4
<1> QED
  BY <1>1, <1>3, <1>4 DEF b

\* Two lists joined.
LEMMA JoinedLinks ==
  ASSUME NEW a \in Seq(Link), NEW b \in Seq(Link)
  PROVE  /\ a \o b \in Seq(Link) /\ ToSet(a \o b) = ToSet(a) \cup ToSet(b)
         /\ LocalOnce(a) /\ LocalOnce(b) /\ (\A x \in ToSet(a) \cap ToSet(b) : x.type # "local") => LocalOnce(a \o b)
<1> DEFINE c == a \o b
<1>1. /\ c \in Seq(Link) /\ Len(c) = Len(a) + Len(b) /\ Len(a) \in Nat /\ Len(b) \in Nat
      /\ \A i \in 1 .. Len(a) : c[i] = a[i]
      /\ \A i \in 1 .. Len(b) : c[Len(a) + i] = b[i]
  OBVIOUS
<1>2. DOMAIN a = 1 .. Len(a) /\ DOMAIN b = 1 .. Len(b) /\ DOMAIN c = 1 .. Len(a) + Len(b)
  BY <1>1
<1> HIDE DEF c
<1>3. /\ \A i \in DOMAIN a : i \in DOMAIN c /\ c[i] = a[i]
      /\ \A i \in DOMAIN b : Len(a) + i \in DOMAIN c /\ c[Len(a) + i] = b[i]
  BY <1>1, <1>2
<1>4. ASSUME NEW i \in DOMAIN c
      PROVE  \/ i \in DOMAIN a /\ c[i] = a[i] /\ a[i] \in ToSet(a)
             \/ i \notin DOMAIN a /\ i - Len(a) \in DOMAIN b /\ c[i] = b[i - Len(a)] /\ b[i - Len(a)] \in ToSet(b)
  <2>1. CASE i \in DOMAIN a
    BY <1>3, <2>1 DEF ToSet
  <2>2. CASE i \notin DOMAIN a
    <3>1. i - Len(a) \in DOMAIN b /\ Len(a) + (i - Len(a)) = i
      BY <1>1, <1>2, <2>2
    <3> QED
      BY <1>3, <2>2, <3>1 DEF ToSet
  <2> QED
    BY <2>1, <2>2
<1>5. ToSet(c) = ToSet(a) \cup ToSet(b)
  <2>1. ASSUME NEW x \in ToSet(c) PROVE x \in ToSet(a) \cup ToSet(b)
    BY <1>4, <2>1 DEF ToSet
  <2>2. ASSUME NEW x \in ToSet(a) PROVE x \in ToSet(c)
    BY <1>3, <2>2 DEF ToSet
  <2>3. ASSUME NEW x \in ToSet(b) PROVE x \in ToSet(c)
    BY <1>3, <2>3 DEF ToSet
  <2> QED
    BY <2>1, <2>2, <2>3
<1>6. ASSUME LocalOnce(a), LocalOnce(b), \A x \in ToSet(a) \cap ToSet(b) : x.type # "local" PROVE LocalOnce(c)
  <2> SUFFICES ASSUME NEW j \in DOMAIN c, NEW k \in DOMAIN c, c[j] = c[k], c[j].type = "local" PROVE j = k
    BY DEF LocalOnce
  <2>1. j \in Int /\ k \in Int /\ Len(a) \in Int
    BY <1>1, <1>2
  <2>2. CASE j \in DOMAIN a /\ k \in DOMAIN a
    BY <1>4, <1>6, <2>2 DEF LocalOnce
  <2>3. CASE j \notin DOMAIN a /\ k \notin DOMAIN a
    <3>1. j - Len(a) = k - Len(a)
      BY <1>4, <1>6, <2>3 DEF LocalOnce
    <3> QED
      BY <2>1, <3>1
  <2>4. CASE (j \in DOMAIN a /\ k \notin DOMAIN a) \/ (k \in DOMAIN a /\ j \notin DOMAIN a)
    BY <1>4, <1>6, <2>4
  <2> QED
    BY <2>2, <2>3, <2>4
<1> QED
  BY <1>1, <1>5, <1>6 DEF c

\* f filters the first n links of a list.
Filters(f, list, those, n) ==
  /\ f = [k \in 0 .. n |-> f[k]]
  /\ f[0] = <<>>
  /\ \A k \in 1 .. n : f[k] = IF list[k] \in those THEN Append(f[k - 1], list[k]) ELSE f[k - 1]

\* There is such a function for every prefix.
LEMMA FiltersExist ==
  ASSUME NEW list, NEW those, NEW n \in Nat
  PROVE  \E f : Filters(f, list, those, n)
<1> DEFINE Bad == {m \in Nat : ~ \E f : Filters(f, list, those, m)}
<1>1. SUFFICES ASSUME Bad # {} PROVE FALSE
  OBVIOUS
<1>2. PICK m \in Bad : \A k \in Bad : m <= k
  BY <1>1, LeastNumber
<1>3. CASE m = 0
  <2> DEFINE f == [k \in 0 .. 0 |-> <<>>]
  <2>1. Filters(f, list, those, 0)
    BY DEF Filters
  <2> QED
    BY <1>2, <1>3, <2>1
<1>4. CASE m # 0
  <2>1. m \in Nat /\ m - 1 \in Nat /\ m - 1 \notin Bad
    BY <1>2, <1>4
  <2>2. PICK f : Filters(f, list, those, m - 1)
    BY <2>1
  <2> DEFINE last == IF list[m] \in those THEN Append(f[m - 1], list[m]) ELSE f[m - 1]
             g == [k \in 0 .. m |-> IF k = m THEN last ELSE f[k]]
  <2> HIDE DEF last
  <2>3. g[m] = last /\ \A k \in 0 .. m - 1 : g[k] = f[k]
    BY <2>1
  <2>4. g = [k \in 0 .. m |-> g[k]]
    OBVIOUS
  <2> HIDE DEF g
  <2>5. g[0] = <<>>
    BY <2>1, <2>2, <2>3 DEF Filters
  <2>6. ASSUME NEW k \in 1 .. m
        PROVE  g[k] = IF list[k] \in those THEN Append(g[k - 1], list[k]) ELSE g[k - 1]
    <3>1. CASE k = m
      <4>1. g[k - 1] = f[m - 1]
        BY <2>1, <2>3, <3>1
      <4> QED
        BY <2>3, <3>1, <4>1 DEF last
    <3>2. CASE k \in 1 .. m - 1
      <4>1. g[k] = f[k] /\ g[k - 1] = f[k - 1]
        BY <2>1, <2>3, <3>2
      <4> QED
        BY <2>2, <3>2, <4>1 DEF Filters
    <3> QED
      BY <2>1, <3>1, <3>2
  <2>7. Filters(g, list, those, m)
    BY <2>4, <2>5, <2>6 DEF Filters
  <2> QED
    BY <1>2, <2>7
<1> QED
  BY <1>3, <1>4

\* What is kept of a list: those of its links, in the list as often as they were or less.
LEMMA KeptLinks ==
  ASSUME NEW list \in Seq(Link), NEW those
  PROVE  /\ Keep(list, those) \in Seq(Link) /\ ToSet(Keep(list, those)) = ToSet(list) \cap those
         /\ LocalOnce(list) => LocalOnce(Keep(list, those))
<1> DEFINE Body(f) == [k \in 0 .. Len(list) |->
                         IF k = 0 THEN <<>>
                         ELSE IF list[k] \in those THEN Append(f[k - 1], list[k]) ELSE f[k - 1]]
           g == CHOOSE f : f = Body(f)
<1>1. Len(list) \in Nat /\ DOMAIN list = 1 .. Len(list) /\ \A k \in DOMAIN list : list[k] \in Link
  OBVIOUS
<1>2. Keep(list, those) = g[Len(list)]
  BY DEF Keep
<1>3. PICK f : Filters(f, list, those, Len(list))
  BY <1>1, FiltersExist
<1>4. f = Body(f)
  <2>1. ASSUME NEW k \in 0 .. Len(list)
        PROVE  f[k] = IF k = 0 THEN <<>>
                      ELSE IF list[k] \in those THEN Append(f[k - 1], list[k]) ELSE f[k - 1]
    <3>1. CASE k = 0
      BY <1>3, <3>1 DEF Filters
    <3>2. CASE k \in 1 .. Len(list)
      <4>1. k # 0
        BY <1>1, <3>2
      <4>2. f[k] = IF list[k] \in those THEN Append(f[k - 1], list[k]) ELSE f[k - 1]
        BY <1>3, <3>2 DEF Filters
      <4> QED
        BY <4>1, <4>2
    <3> QED
      BY <1>1, <3>1, <3>2
  <2> QED
    BY <1>3, <2>1 DEF Filters
<1>5. g = Body(g)
  BY <1>4
<1> HIDE DEF g
<1>55. ASSUME NEW k \in 0 .. Len(list)
       PROVE  g[k] = IF k = 0 THEN <<>>
                     ELSE IF list[k] \in those THEN Append(g[k - 1], list[k]) ELSE g[k - 1]
  BY <1>5
<1>6. /\ g[0] = <<>>
      /\ \A k \in 1 .. Len(list) : g[k] = IF list[k] \in those THEN Append(g[k - 1], list[k]) ELSE g[k - 1]
  <2>1. 0 \in 0 .. Len(list)
    BY <1>1
  <2>2. \A k \in 1 .. Len(list) : k \in 0 .. Len(list) /\ k # 0
    BY <1>1
  <2> QED
    BY <1>55, <2>1, <2>2
<1> DEFINE First(k) == {list[j] : j \in 1 .. k}
           Right(k) == /\ g[k] \in Seq(Link) /\ ToSet(g[k]) = First(k) \cap those
                       /\ LocalOnce(list) => LocalOnce(g[k])
           Bad == {k \in 0 .. Len(list) : ~ Right(k)}
<1>7. Bad = {}
  <2>1. SUFFICES ASSUME Bad # {} PROVE FALSE
    OBVIOUS
  <2>2. PICK k \in Bad : \A m \in Bad : k <= m
    <3> HIDE DEF Right
    <3>1. Bad \subseteq Nat
      BY <1>1
    <3> QED
      BY <2>1, <3>1, LeastNumber
  <2>3. CASE k = 0
    <3>1. g[0] \in Seq(Link) /\ ToSet(g[0]) = {} /\ LocalOnce(g[0])
      BY <1>6 DEF ToSet, LocalOnce
    <3>2. First(0) = {}
      OBVIOUS
    <3> QED
      BY <2>2, <2>3, <3>1, <3>2
  <2>4. CASE k # 0
    <3>1. k \in 1 .. Len(list) /\ k - 1 \in 0 .. Len(list) /\ k - 1 \notin Bad /\ list[k] \in Link
      <4> HIDE DEF Right
      <4>1. k \in 0 .. Len(list)
        BY <2>2
      <4>2. k \in 1 .. Len(list) /\ k - 1 \in 0 .. Len(list) /\ ~ (k <= k - 1)
        BY <1>1, <2>4, <4>1
      <4>3. k - 1 \notin Bad
        <5> HIDE DEF Bad
        <5> QED
          BY <2>2, <4>2
      <4> QED
        BY <1>1, <4>2, <4>3
    <3>2. Right(k - 1)
      BY <3>1
    <3>3. First(k) = First(k - 1) \cup {list[k]}
      BY <1>1, <3>1
    <3>4. CASE list[k] \in those
      <4>1. g[k] = Append(g[k - 1], list[k])
        BY <1>6, <3>1, <3>4
      <4>2. g[k] \in Seq(Link) /\ ToSet(g[k]) = ToSet(g[k - 1]) \cup {list[k]}
        BY <3>1, <3>2, <4>1, AppendLink
      <4>3. ToSet(g[k]) = First(k) \cap those
        BY <3>2, <3>3, <3>4, <4>2
      <4>4. ASSUME LocalOnce(list) PROVE LocalOnce(g[k])
        <5>1. list[k] \notin First(k - 1) \/ list[k].type # "local"
          BY <1>1, <3>1, <4>4 DEF LocalOnce
        <5> QED
          BY <3>1, <3>2, <4>1, <4>4, <5>1, AppendLink
      <4> QED
        BY <2>2, <4>2, <4>3, <4>4
    <3>5. CASE list[k] \notin those
      <4>1. g[k] = g[k - 1]
        BY <1>6, <3>1, <3>5
      <4> QED
        BY <2>2, <3>2, <3>3, <3>5, <4>1
    <3> QED
      BY <3>4, <3>5
  <2> QED
    BY <2>3, <2>4
<1>8. Len(list) \in 0 .. Len(list) /\ Right(Len(list))
  <2> HIDE DEF Right
  <2> QED
    BY <1>1, <1>7
<1>9. First(Len(list)) = ToSet(list)
  BY <1>1 DEF ToSet
<1> QED
  BY <1>2, <1>8, <1>9

-----------------------------------------------------------------------------
(* The links of inbounds.                                                   *)

InbRow == [tag : InbTag, kind : InbKinds, detour : InbTag \cup {NoDetour}, ver : Nat, replica : BOOLEAN]

\* A table of inbounds with ids up to n, no two of one tag.
Inbounds(table, n) ==
  /\ table \in [DOMAIN table -> InbRow] /\ DOMAIN table \subseteq 1 .. n
  /\ \A id, o \in DOMAIN table : table[id].tag = table[o].tag => id = o

\* A set of ids in some order: each once.
LEMMA IdsInOrder ==
  ASSUME NEW n \in Nat, NEW ids \in SUBSET (1 .. n)
  PROVE  /\ SetToSeq(ids) \in Seq(ids) /\ IsInjective(SetToSeq(ids))
         /\ \A id \in ids : \E k \in DOMAIN SetToSeq(ids) : SetToSeq(ids)[k] = id
<1> DEFINE m == Cardinality(ids)
           q == SetToSeq(ids)
<1>1. IsFiniteSet(1 .. n)
  BY FS_Interval
<1>2. IsFiniteSet(ids)
  BY <1>1, FS_Subset
<1>3. m \in Nat /\ ExistsBijection(1 .. m, ids)
  BY <1>2, FS_CardinalityType
<1>4. \E f \in [1 .. m -> ids] : IsInjective(f)
  BY <1>3 DEF ExistsBijection, Bijection, Injection
<1>5. q \in [1 .. m -> ids] /\ IsInjective(q)
  BY <1>4 DEF SetToSeq
<1> HIDE DEF q, m
<1>6. q \in Injection(1 .. m, ids)
  BY <1>5 DEF Injection
<1>7. Cardinality(1 .. m) = m
  BY <1>3, FS_Interval
<1>8. q \in Surjection(1 .. m, ids)
  BY <1>2, <1>6, <1>7, FS_Injection DEF m
<1>9. \A id \in ids : \E k \in DOMAIN q : q[k] = id
  BY <1>5, <1>8 DEF Surjection
<1>10. q \in Seq(ids)
  BY <1>3, <1>5
<1> QED
  BY <1>5, <1>9, <1>10 DEF q

\* Tags, and remarks of node links, are made of letters; a node link's is the node's own.
LEMMA Remarks ==
  /\ \A t \in InbTag : t \in Seq(Letter) /\ t # <<>>
  /\ \A name \in NodeNames, t \in InbTag :
       /\ <<name>> \o t \in Seq(Letter) /\ isNodeOwnedRemark(<<name>> \o t, name) /\ Tail(<<name>> \o t) = t
  /\ \A name \in NodeNames, r \in Seq(Letter) : isNodeOwnedRemark(r, name) => r = <<name>> \o Tail(r)
<1>1. ASSUME NEW t \in InbTag PROVE t \in Seq(Letter) /\ t # <<>>
  <2>1. t # <<>> /\ t \in Seq(ToSet(t)) /\ ToSet(t) \subseteq Letter
    BY GraphConstants DEF Letter
  <2>2. Len(t) \in Nat /\ DOMAIN t = 1 .. Len(t) /\ \A k \in 1 .. Len(t) : t[k] \in Letter
    BY <2>1
  <2>3. t = [k \in 1 .. Len(t) |-> t[k]]
    BY <2>1
  <2> QED
    BY <2>1, <2>2, <2>3
<1>2. ASSUME NEW name \in NodeNames, NEW t \in InbTag
      PROVE  <<name>> \o t \in Seq(Letter) /\ isNodeOwnedRemark(<<name>> \o t, name) /\ Tail(<<name>> \o t) = t
  <2>1. name \in Letter /\ t \in Seq(Letter) /\ t # <<>>
    BY <1>1 DEF Letter
  <2>2. <<name>> \in Seq(Letter) /\ Len(<<name>>) = 1 /\ <<name>>[1] = name
    BY <2>1
  <2> DEFINE r == <<name>> \o t
  <2>3. r \in Seq(Letter) /\ Len(r) = 1 + Len(t) /\ r[1] = name /\ \A k \in 1 .. Len(t) : r[1 + k] = t[k]
    BY <2>1, <2>2
  <2>4. Len(t) \in Nat /\ Len(t) > 0
    BY <2>1
  <2> HIDE DEF r
  <2>5. Len(r) > 1 /\ Head(r) = name
    BY <2>3, <2>4
  <2>6. Tail(r) = t
    <3>1. Tail(r) \in Seq(Letter) /\ Len(Tail(r)) = Len(t) /\ \A k \in 1 .. Len(t) : Tail(r)[k] = r[k + 1]
      BY <2>3, <2>4
    <3>2. \A k \in 1 .. Len(t) : Tail(r)[k] = t[k]
      BY <2>3, <2>4, <3>1
    <3> QED
      BY <2>1, <3>1, <3>2
  <2> QED
    BY <2>3, <2>5, <2>6 DEF isNodeOwnedRemark, r
<1>3. ASSUME NEW name \in NodeNames, NEW r \in Seq(Letter), isNodeOwnedRemark(r, name)
      PROVE  r = <<name>> \o Tail(r)
  <2>1. Len(r) \in Nat /\ Len(r) > 1 /\ r[1] = name
    BY <1>3 DEF isNodeOwnedRemark
  <2>2. name \in Letter
    BY DEF Letter
  <2> DEFINE t == Tail(r)
  <2>3. t \in Seq(Letter) /\ Len(t) = Len(r) - 1 /\ \A k \in 1 .. Len(r) - 1 : t[k] = r[k + 1]
    BY <2>1
  <2> HIDE DEF t
  <2>4. <<name>> \in Seq(Letter) /\ Len(<<name>>) = 1 /\ <<name>>[1] = name
    BY <2>2
  <2> DEFINE u == <<name>> \o t
  <2>5. u \in Seq(Letter) /\ Len(u) = Len(r) /\ u[1] = name /\ \A k \in 1 .. Len(t) : u[1 + k] = t[k]
    BY <2>1, <2>3, <2>4
  <2> HIDE DEF u
  <2>6. ASSUME NEW k \in 1 .. Len(r) PROVE u[k] = r[k]
    <3>1. CASE k = 1
      BY <2>1, <2>5, <3>1
    <3>2. CASE k # 1
      <4>1. k - 1 \in 1 .. Len(t) /\ 1 + (k - 1) = k /\ (k - 1) + 1 = k
        BY <2>1, <2>3, <3>2
      <4>2. u[1 + (k - 1)] = t[k - 1] /\ t[k - 1] = r[(k - 1) + 1]
        BY <2>3, <2>5, <4>1
      <4> QED
        BY <4>1, <4>2
    <3> QED
      BY <3>1, <3>2
  <2>7. u = r
    BY <2>5, <2>6
  <2> QED
    BY <2>7 DEF u, t
<1> QED
  BY <1>1, <1>2, <1>3

\* A local and a node link.
LEMMA LinkFields ==
  ASSUME NEW c, c.config \in Nat, NEW i \in InbRow, NEW pre \in BOOLEAN, NEW name \in NodeNames
  PROVE  /\ LocalLink(c, i, pre) \in Link /\ LocalLink(c, i, pre).type = "local" /\ LocalLink(c, i, pre).remark = i.tag
         /\ NodeLink(c, i, name, pre) \in Link /\ NodeLink(c, i, name, pre).type = "external"
         /\ NodeLink(c, i, name, pre).remark = <<name>> \o i.tag
<1>1. i.tag \in InbTag /\ i.ver \in Nat
  BY DEF InbRow
<1>2. Uri(c, i) \in Nat \X Nat
  BY <1>1 DEF Uri
<1>3. i.tag \in Seq(Letter) /\ <<name>> \o i.tag \in Seq(Letter)
  BY <1>1, Remarks
<1>4. LocalLink(c, i, pre) \in Link
  BY <1>2, <1>3 DEF LocalLink, Link
<1>5. NodeLink(c, i, name, pre) \in Link
  BY <1>2, <1>3 DEF NodeLink, Link
<1> QED
  BY <1>4, <1>5 DEF LocalLink, NodeLink

LocalSet(c, table, ids, pre) == {LocalLink(c, table[id], pre) : id \in WithLink(table, ids)}
NodeSet(c, table, ids, name, pre) == {NodeLink(c, table[id], name, pre) : id \in WithLink(table, ids)}

\* The lists of links that are made anew.
LEMMA MadeLinks ==
  ASSUME NEW n \in Nat, NEW table, Inbounds(table, n), NEW ids \in SUBSET DOMAIN table,
         NEW c, c.config \in Nat, NEW pre \in BOOLEAN, NEW name \in NodeNames
  PROVE  /\ LocalLinks(c, table, ids, pre) \in Seq(Link)
         /\ ToSet(LocalLinks(c, table, ids, pre)) = LocalSet(c, table, ids, pre)
         /\ LocalOnce(LocalLinks(c, table, ids, pre))
         /\ genNodeReplicaLinks(c, table, ids, name, pre) \in Seq(Link)
         /\ ToSet(genNodeReplicaLinks(c, table, ids, name, pre)) = NodeSet(c, table, ids, name, pre)
<1> DEFINE some == WithLink(table, ids)
           q == SetToSeq(some)
<1>1. some \in SUBSET (1 .. n) /\ some \subseteq DOMAIN table
  BY DEF WithLink, Inbounds
<1> HIDE DEF some
<1>2. /\ q \in Seq(some) /\ IsInjective(q)
      /\ \A id \in some : \E k \in DOMAIN q : q[k] = id
  BY <1>1, IdsInOrder
<1> HIDE DEF q
<1>3. \A k \in DOMAIN q : q[k] \in some /\ table[q[k]] \in InbRow
  BY <1>1, <1>2 DEF Inbounds
<1>4. DOMAIN q = 1 .. Len(q) /\ Len(q) \in Nat
  BY <1>2
<1> DEFINE a == [k \in DOMAIN q |-> LocalLink(c, table[q[k]], pre)]
           b == [k \in DOMAIN q |-> NodeLink(c, table[q[k]], name, pre)]
<1>5. LocalLinks(c, table, ids, pre) = a /\ genNodeReplicaLinks(c, table, ids, name, pre) = b
  BY DEF LocalLinks, genNodeReplicaLinks, q, some
<1>6. \A k \in DOMAIN q : LocalLink(c, table[q[k]], pre) \in Link /\ NodeLink(c, table[q[k]], name, pre) \in Link
  BY <1>3, LinkFields
<1>66. \A k \in DOMAIN q : LocalLink(c, table[q[k]], pre).remark = table[q[k]].tag
  BY DEF LocalLink
<1>7. a \in Seq(Link) /\ b \in Seq(Link)
  BY <1>4, <1>6
<1>8. ToSet(a) = {LocalLink(c, table[id], pre) : id \in some} /\ ToSet(b) = {NodeLink(c, table[id], name, pre) : id \in some}
  <2>1. DOMAIN a = DOMAIN q /\ DOMAIN b = DOMAIN q
    OBVIOUS
  <2> QED
    BY <1>2, <1>3, <2>1 DEF ToSet
<1>9. LocalOnce(a)
  <2> SUFFICES ASSUME NEW j \in DOMAIN q, NEW k \in DOMAIN q, a[j] = a[k] PROVE j = k
    BY DEF LocalOnce
  <2>1. table[q[j]].tag = table[q[k]].tag
    <3>1. a[j] = LocalLink(c, table[q[j]], pre) /\ a[k] = LocalLink(c, table[q[k]], pre)
      OBVIOUS
    <3> HIDE DEF a
    <3> QED
      BY <1>66, <3>1
  <2>2. q[j] = q[k]
    BY <1>1, <1>3, <2>1 DEF Inbounds
  <2> QED
    BY <1>2, <2>2 DEF IsInjective
<1> QED
  BY <1>5, <1>7, <1>8, <1>9 DEF some, LocalSet, NodeSet

-----------------------------------------------------------------------------
(* The invariant.                                                           *)

ClientRows(n) == [on : SUBSET (1 .. n), config : Nat, links : Seq(Link)]

\* The local links of a client are those of its local inbounds in the table, each once.
Current(c, table, pre) ==
  /\ \A l \in ToSet(c.links) : l.type = "local" =>
       \E id \in WithLink(table, c.on \cap Local(table)) : l = LocalLink(c, table[id], pre)
  /\ \A id \in WithLink(table, c.on \cap Local(table)) : LocalLink(c, table[id], pre) \in ToSet(c.links)
  /\ LocalOnce(c.links)

\* Its others are the operator's own and those of its replicas.
Bound(c, table, name) ==
  \A l \in ToSet(c.links) : l.type # "local" /\ l # OwnLink =>
    \E id \in (c.on \cap DOMAIN table) \ Local(table) : l.remark = <<name>> \o table[id].tag

GraphBase ==
  /\ lastInb \in Nat /\ nodeName \in NodeNames /\ prefixOn \in BOOLEAN
  /\ Inbounds(inbs, lastInb)
  /\ clients \in [DOMAIN clients -> ClientRows(lastInb)] /\ DOMAIN clients \subseteq ListClient
  /\ overwritten \subseteq DOMAIN clients

LinksInv ==
  \A n \in DOMAIN clients \ overwritten :
    Current(clients[n], inbs, prefixOn) /\ Bound(clients[n], inbs, nodeName)

FormInv == form # NoForm => form.links \in Seq(Link)

\* A pass has read replicas: those that are still there are replicas of the same tag.
PassInv ==
  /\ pass.step \in {"idle", "replicas", "clients"}
  /\ pass.step # "idle" =>
       /\ pass.name \in NodeNames /\ Inbounds(pass.of, lastInb)
       /\ \A id \in DOMAIN pass.of \cap DOMAIN inbs : inbs[id].tag = pass.of[id].tag /\ id \notin Local(inbs)
  /\ pass.step = "clients" =>
       /\ pass = [step |-> "clients", name |-> pass.name, of |-> pass.of, pre |-> pass.pre, rows |-> pass.rows]
       /\ pass.pre \in BOOLEAN
       /\ pass.rows \in [DOMAIN pass.rows -> ClientRows(lastInb)]

RidesInv == DOMAIN rides = DOMAIN inbs /\ RidersFollow

GraphInv == GraphBase /\ LinksInv /\ FormInv /\ PassInv /\ RidesInv

\* SaveKeepsNodeLinks, of one step.
NodeLinksStay ==
  inbs' = inbs /\ pass' = pass /\ nodeName' = nodeName =>
    \A n \in DOMAIN clients \cap DOMAIN clients' : \A id \in (clients'[n].on \cap DOMAIN inbs) \ Local(inbs) :
      \A l \in ToSet(clients[n].links) : isNodeLinkFor(l.remark, inbs[id].tag, nodeName) /\ l.type # "local"
                                           => l \in ToSet(clients'[n].links)

\* The invariant says what the properties do.
LEMMA LinksInvIs ==
  ASSUME GraphInv
  PROVE  GraphTypeOK /\ LocalLinksCurrent /\ NodeLinksBound /\ RidersFollow
<1>1. GraphTypeOK
  BY DEF GraphInv, GraphBase, Inbounds, RidesInv, GraphTypeOK
<1>2. LocalLinksCurrent
  <2> SUFFICES ASSUME NEW n \in DOMAIN clients \ overwritten
               PROVE  /\ LocalIn(clients[n].links) =
                           {LocalLink(clients[n], inbs[id], prefixOn) : id \in WithLink(inbs, clients[n].on \cap Local(inbs))}
                      /\ LocalOnce(clients[n].links)
    BY DEF LocalLinksCurrent
  <2> DEFINE c == clients[n]
  <2>1. Current(c, inbs, prefixOn) /\ c \in ClientRows(lastInb) /\ Inbounds(inbs, lastInb)
    BY DEF GraphInv, LinksInv, GraphBase
  <2>2. c.config \in Nat /\ prefixOn \in BOOLEAN /\ nodeName \in NodeNames
    BY <2>1 DEF ClientRows, GraphInv, GraphBase
  <2>3. \A id \in WithLink(inbs, c.on \cap Local(inbs)) : LocalLink(c, inbs[id], prefixOn).type = "local"
    <3>1. \A id \in WithLink(inbs, c.on \cap Local(inbs)) : inbs[id] \in InbRow
      BY <2>1 DEF WithLink, Local, Inbounds
    <3> HIDE DEF c
    <3> QED
      BY <2>2, <3>1, LinkFields
  <2> QED
    BY <2>1, <2>3 DEF Current, LocalIn
<1>3. NodeLinksBound
  BY DEF GraphInv, LinksInv, Bound, NodeLinksBound, ToSet
<1> QED
  BY <1>1, <1>2, <1>3 DEF GraphInv, RidesInv

\* The rows have their fields, and the inbounds theirs.
LEMMA Fields ==
  ASSUME GraphBase
  PROVE  /\ \A n \in DOMAIN clients : /\ clients[n] \in ClientRows(lastInb) /\ clients[n].on \subseteq 1 .. lastInb
                                      /\ clients[n].config \in Nat /\ clients[n].links \in Seq(Link)
         /\ \A id \in DOMAIN inbs : inbs[id] \in InbRow /\ inbs[id].tag \in InbTag /\ id \in 1 .. lastInb
         /\ Local(inbs) \subseteq DOMAIN inbs
<1>1. \A n \in DOMAIN clients : clients[n] \in ClientRows(lastInb)
  BY DEF GraphBase
<1>2. \A n \in DOMAIN clients : clients[n].on \subseteq 1 .. lastInb /\ clients[n].config \in Nat /\ clients[n].links \in Seq(Link)
  BY <1>1 DEF ClientRows
<1>3. \A id \in DOMAIN inbs : inbs[id] \in InbRow /\ id \in 1 .. lastInb
  BY DEF GraphBase, Inbounds
<1>4. \A id \in DOMAIN inbs : inbs[id].tag \in InbTag
  BY <1>3 DEF InbRow
<1> QED
  BY <1>1, <1>2, <1>3, <1>4 DEF Local

\* Links have a type and a remark; the operator's own is one that no node owns.
LEMMA LinkTypes ==
  /\ \A l \in Link : l.type \in {"local", "external"} /\ l.remark \in Seq(Letter)
  /\ \A s \in Seq(Link) : ToSet(s) \subseteq Link
  /\ OwnLink \in Link /\ OwnLink.type = "external" /\ \A name : ~ isNodeOwnedRemark(OwnLink.remark, name)
<1>1. \A l \in Link : l.type \in {"local", "external"} /\ l.remark \in Seq(Letter)
  BY DEF Link
<1>2. \A s \in Seq(Link) : ToSet(s) \subseteq Link
  BY DEF ToSet
<1>3. <<"own">> \in Seq(Letter) /\ Len(<<"own">>) = 1
  BY DEF Letter
<1>4. OwnLink \in Link
  BY <1>3 DEF OwnLink, Link
<1>5. OwnLink.type = "external" /\ OwnLink.remark = <<"own">>
  BY DEF OwnLink
<1> QED
  BY <1>1, <1>2, <1>3, <1>4, <1>5 DEF isNodeOwnedRemark

\* New links before some of the old ones.
LEMMA LinksOver ==
  ASSUME NEW made \in Seq(Link), NEW list \in Seq(Link), NEW those
  PROVE  /\ made \o Keep(list, those) \in Seq(Link)
         /\ ToSet(made \o Keep(list, those)) = ToSet(made) \cup (ToSet(list) \cap those)
         /\ LocalOnce(made) /\ LocalOnce(list) /\ (\A x \in ToSet(made) \cap ToSet(list) : x \in those => x.type # "local")
              => LocalOnce(made \o Keep(list, those))
<1>1. /\ Keep(list, those) \in Seq(Link) /\ ToSet(Keep(list, those)) = ToSet(list) \cap those
      /\ LocalOnce(list) => LocalOnce(Keep(list, those))
  BY KeptLinks
<1> DEFINE k == Keep(list, those)
<1> HIDE DEF k
<1>2. /\ made \o k \in Seq(Link) /\ ToSet(made \o k) = ToSet(made) \cup ToSet(k)
      /\ LocalOnce(made) /\ LocalOnce(k) /\ (\A x \in ToSet(made) \cap ToSet(k) : x.type # "local") => LocalOnce(made \o k)
  BY <1>1, JoinedLinks DEF k
<1> QED
  BY <1>1, <1>2 DEF k

\* A link depends on the client's credentials only.
LEMMA SameConfig ==
  ASSUME NEW c, NEW d, c.config = d.config, NEW i, NEW pre
  PROVE  LocalLink(c, i, pre) = LocalLink(d, i, pre)
BY DEF LocalLink, Uri

-----------------------------------------------------------------------------
(* Saves of clients.                                                        *)

BoundTags(on) == {inbs[id].tag : id \in (on \cap DOMAIN inbs) \ Local(inbs)}

\* The row updateLinksWithFixedInbounds leaves: its local links are current, its others come from
\* the request or, those of the node, from the stored row.
RowSaved(c, on, asked, stored, old) ==
  /\ c \in ClientRows(lastInb) /\ c.on = on /\ Current(c, inbs, prefixOn)
  /\ \A l \in ToSet(c.links) : l.type # "local" =>
       \/ l \in ToSet(asked) /\ ~ (stored # <<>> /\ isNodeOwnedRemark(l.remark, nodeName))
       \/ isNodeOwnedRemark(l.remark, nodeName) /\ Tail(l.remark) \in BoundTags(on)
  /\ stored = <<old>> =>
       \A l \in ToSet(old) : l.type # "local" /\ isNodeOwnedRemark(l.remark, nodeName) /\ Tail(l.remark) \in BoundTags(on)
                               => l \in ToSet(c.links)

\* SavedClient gives such a row.
LEMMA SavedRow ==
  ASSUME GraphBase, NEW n, NEW on \in SUBSET (1 .. lastInb), NEW config \in Nat, NEW asked \in Seq(Link),
         NEW old \in Seq(Link), NEW stored, stored = <<>> \/ stored = <<old>>,
         NEW c, c = SavedClient(n, on, config, asked, stored)
  PROVE  RowSaved(c, on, asked, stored, old)
<1> DEFINE d == [on |-> on, config |-> config, links |-> <<>>]
           ids == on \cap Local(inbs)
           made == LocalLinks(d, inbs, ids, prefixOn)
           theirs == {l \in ToSet(asked) : l.type # "local" /\ ~(stored # <<>> /\ isNodeOwnedRemark(l.remark, nodeName))}
           nodes == {l \in ToSet(old) : l.type # "local" /\ isNodeOwnedRemark(l.remark, nodeName) /\ Tail(l.remark) \in BoundTags(on)}
           tail == IF stored # <<>> THEN Keep(old, nodes) ELSE <<>>
<1>1. d.on = on /\ d.config = config /\ d.config \in Nat
  OBVIOUS
<1>2. stored # <<>> => stored[1] = old
  OBVIOUS
<1>3. FixedLinks(d, asked, stored) = made \o Keep(asked, theirs) \o tail
  <2>1. CASE stored = <<>>
    BY <2>1 DEF FixedLinks, BoundTags
  <2>2. CASE stored # <<>>
    BY <1>2, <2>2 DEF FixedLinks, BoundTags
  <2> QED
    BY <2>1, <2>2
<1>4. /\ made \in Seq(Link) /\ LocalOnce(made)
      /\ ToSet(made) = LocalSet(d, inbs, ids, prefixOn)
  <2>1. lastInb \in Nat /\ Inbounds(inbs, lastInb) /\ prefixOn \in BOOLEAN /\ nodeName \in NodeNames
    BY DEF GraphBase
  <2>2. ids \in SUBSET DOMAIN inbs
    BY Fields
  <2> HIDE DEF d, ids
  <2> QED
    BY <1>1, <2>1, <2>2, MadeLinks
<1>5. ASSUME NEW l \in ToSet(made) PROVE l.type = "local" /\ l \in Link
  <2>1. PICK id \in WithLink(inbs, ids) : l = LocalLink(d, inbs[id], prefixOn)
    BY <1>4, <1>5 DEF LocalSet
  <2>2. inbs[id] \in InbRow /\ prefixOn \in BOOLEAN /\ nodeName \in NodeNames
    BY Fields DEF WithLink, GraphBase
  <2> HIDE DEF d
  <2> QED
    BY <1>1, <2>1, <2>2, LinkFields
<1> HIDE DEF made, theirs, nodes
<1>6. /\ tail \in Seq(Link) /\ ToSet(tail) \subseteq nodes /\ (stored = <<old>> => ToSet(tail) = ToSet(old) \cap nodes)
      /\ \A x \in ToSet(tail) : x.type # "local"
  <2>1. CASE stored = <<>>
    <3>1. tail = <<>> /\ stored # <<old>>
      BY <2>1
    <3>2. ToSet(<<>>) = {}
      BY DEF ToSet
    <3> QED
      BY <3>1, <3>2
  <2>2. CASE stored # <<>>
    <3>1. tail = Keep(old, nodes)
      BY <2>2
    <3>2. tail \in Seq(Link) /\ ToSet(tail) = ToSet(old) \cap nodes
      BY <3>1, KeptLinks
    <3> QED
      BY <3>2 DEF nodes
  <2> QED
    BY <2>1, <2>2
<1> HIDE DEF tail
<1> DEFINE mid == made \o Keep(asked, theirs)
           all == mid \o tail
<1>7. mid \in Seq(Link) /\ ToSet(mid) = ToSet(made) \cup (ToSet(asked) \cap theirs) /\ LocalOnce(mid)
  <2> DEFINE k == Keep(asked, theirs)
  <2>1. k \in Seq(Link) /\ ToSet(k) = ToSet(asked) \cap theirs
    BY KeptLinks
  <2>2. \A x \in ToSet(k) : x.type # "local"
    BY <2>1 DEF theirs
  <2> HIDE DEF k
  <2>3. LocalOnce(k)
    BY <2>2 DEF LocalOnce, ToSet
  <2>4. made \o k \in Seq(Link) /\ ToSet(made \o k) = ToSet(made) \cup ToSet(k) /\ LocalOnce(made \o k)
    BY <1>4, <2>1, <2>2, <2>3, JoinedLinks
  <2> QED
    BY <2>1, <2>4 DEF k
<1> HIDE DEF mid
<1>9. LocalOnce(tail)
  BY <1>6 DEF LocalOnce, ToSet
<1>10. all \in Seq(Link) /\ ToSet(all) = ToSet(mid) \cup ToSet(tail) /\ LocalOnce(all)
  BY <1>6, <1>7, <1>9, JoinedLinks
<1>11. c = [on |-> on, config |-> config, links |-> all]
  <2>1. c = [d EXCEPT !.links = FixedLinks(d, asked, stored)]
    BY DEF SavedClient
  <2>2. FixedLinks(d, asked, stored) = all
    BY <1>3 DEF mid
  <2> HIDE DEF all
  <2> QED
    BY <2>1, <2>2
<1> HIDE DEF all
<1>12. c.on = on /\ c.config = config /\ c.links = all
  BY <1>11
<1>13. c \in ClientRows(lastInb)
  BY <1>10, <1>11 DEF ClientRows
<1> HIDE DEF d
<1>14. \A i : LocalLink(c, i, prefixOn) = LocalLink(d, i, prefixOn)
  BY <1>1, <1>12, SameConfig
<1>15. Current(c, inbs, prefixOn)
  <2>1. ASSUME NEW l \in ToSet(all), l.type = "local"
        PROVE  \E id \in WithLink(inbs, ids) : l = LocalLink(c, inbs[id], prefixOn)
    <3>1. l \in ToSet(made)
      BY <1>6, <1>7, <1>10, <2>1 DEF theirs
    <3> QED
      BY <1>4, <1>14, <3>1 DEF LocalSet
  <2>2. \A id \in WithLink(inbs, ids) : LocalLink(c, inbs[id], prefixOn) \in ToSet(all)
    BY <1>4, <1>7, <1>10, <1>14 DEF LocalSet
  <2>3. LocalOnce(c.links) /\ ToSet(c.links) = ToSet(all) /\ c.on \cap Local(inbs) = ids
    BY <1>10, <1>12
  <2> HIDE DEF ids
  <2> QED
    BY <2>1, <2>2, <2>3 DEF Current
<1>16. ASSUME NEW l \in ToSet(c.links), l.type # "local"
       PROVE  \/ l \in ToSet(asked) /\ ~ (stored # <<>> /\ isNodeOwnedRemark(l.remark, nodeName))
              \/ isNodeOwnedRemark(l.remark, nodeName) /\ Tail(l.remark) \in BoundTags(on)
  <2>1. l \in ToSet(made) \/ l \in theirs \/ l \in nodes
    BY <1>6, <1>7, <1>10, <1>12, <1>16
  <2>2. l \notin ToSet(made)
    BY <1>5, <1>16
  <2> QED
    BY <2>1, <2>2 DEF theirs, nodes
<1>17. stored = <<old>> => \A l \in ToSet(old) :
           l.type # "local" /\ isNodeOwnedRemark(l.remark, nodeName) /\ Tail(l.remark) \in BoundTags(on) => l \in ToSet(c.links)
  BY <1>6, <1>10, <1>12 DEF nodes
<1> QED
  BY <1>12, <1>13, <1>15, <1>16, <1>17 DEF RowSaved

\* A node link whose tag is bound is one of a replica.
LEMMA BoundLink ==
  ASSUME GraphBase, NEW on, NEW l \in Link, isNodeOwnedRemark(l.remark, nodeName), Tail(l.remark) \in BoundTags(on)
  PROVE  \E id \in (on \cap DOMAIN inbs) \ Local(inbs) : l.remark = <<nodeName>> \o inbs[id].tag
<1>1. l.remark = <<nodeName>> \o Tail(l.remark)
  BY Remarks, LinkTypes DEF GraphBase
<1> QED
  BY <1>1 DEF BoundTags

\* A step that leaves the inbounds, the node and the pass alone.
LEMMA RowsChange ==
  ASSUME GraphInv, UNCHANGED <<inbs, lastInb, pass, nodeName, prefixOn, rides>>, FormInv',
         clients' \in [DOMAIN clients' -> ClientRows(lastInb)], DOMAIN clients' \subseteq ListClient,
         overwritten' \subseteq DOMAIN clients',
         \A n \in DOMAIN clients' \ overwritten' : Current(clients'[n], inbs, prefixOn) /\ Bound(clients'[n], inbs, nodeName)
  PROVE  GraphInv'
<1>1. GraphBase'
  BY DEF GraphInv, GraphBase
<1>2. LinksInv'
  BY DEF LinksInv
<1>3. PassInv'
  BY DEF GraphInv, PassInv
<1>4. RidesInv'
  BY DEF GraphInv, RidesInv, RidersFollow
<1> QED
  BY <1>1, <1>2, <1>3, <1>4 DEF GraphInv

\* A row is right after its save, unless it keeps a link under an old name of the node; and the save
\* takes no link of a replica the client is on.
LEMMA SavedRowIsRight ==
  ASSUME GraphBase, NEW n, NEW on \in SUBSET (1 .. lastInb), NEW config \in Nat, NEW asked \in Seq(Link),
         NEW old \in Seq(Link)
  PROVE  LET c == SavedClient(n, on, config, asked, <<old>>) IN
         /\ c \in ClientRows(lastInb) /\ Current(c, inbs, prefixOn)
         /\ (\A l \in ToSet(c.links) : ~ Orphan(l)) => Bound(c, inbs, nodeName)
         /\ \A id \in (c.on \cap DOMAIN inbs) \ Local(inbs) : \A l \in ToSet(old) :
              isNodeLinkFor(l.remark, inbs[id].tag, nodeName) /\ l.type # "local" => l \in ToSet(c.links)
<1> DEFINE c == SavedClient(n, on, config, asked, <<old>>)
<1>1. /\ c \in ClientRows(lastInb) /\ c.on = on /\ Current(c, inbs, prefixOn)
      /\ \A l \in ToSet(c.links) : l.type # "local" =>
           \/ l \in ToSet(asked) /\ ~ (<<old>> # <<>> /\ isNodeOwnedRemark(l.remark, nodeName))
           \/ isNodeOwnedRemark(l.remark, nodeName) /\ Tail(l.remark) \in BoundTags(on)
      /\ \A l \in ToSet(old) : l.type # "local" /\ isNodeOwnedRemark(l.remark, nodeName) /\ Tail(l.remark) \in BoundTags(on)
                                 => l \in ToSet(c.links)
  <2>1. RowSaved(c, on, asked, <<old>>, old)
    <3> DEFINE st == <<old>>
    <3>1. st = <<old>> /\ c = SavedClient(n, on, config, asked, st)
      OBVIOUS
    <3> HIDE DEF st, c
    <3>2. RowSaved(c, on, asked, st, old)
      BY <3>1, SavedRow
    <3> QED
      BY <3>2 DEF st
  <2> HIDE DEF c
  <2> QED
    BY <2>1 DEF RowSaved
<1>2. <<old>> # <<>>
  OBVIOUS
<1> HIDE DEF c
<1>3. ASSUME \A l \in ToSet(c.links) : ~ Orphan(l) PROVE Bound(c, inbs, nodeName)
  <2> SUFFICES ASSUME NEW l \in ToSet(c.links), l.type # "local", l # OwnLink
               PROVE  \E id \in (c.on \cap DOMAIN inbs) \ Local(inbs) : l.remark = <<nodeName>> \o inbs[id].tag
    BY DEF Bound
  <2>1. isNodeOwnedRemark(l.remark, nodeName)
    BY <1>3 DEF Orphan
  <2>2. Tail(l.remark) \in BoundTags(on)
    BY <1>1, <1>2, <2>1
  <2>3. l \in Link
    BY <1>1, LinkTypes DEF ClientRows
  <2> QED
    BY <1>1, <2>1, <2>2, <2>3, BoundLink
<1>4. ASSUME NEW id \in (c.on \cap DOMAIN inbs) \ Local(inbs), NEW l \in ToSet(old),
             isNodeLinkFor(l.remark, inbs[id].tag, nodeName), l.type # "local"
      PROVE  l \in ToSet(c.links)
  <2>1. inbs[id].tag \in InbTag /\ nodeName \in NodeNames /\ inbs[id].tag \in BoundTags(on)
    BY <1>1, Fields DEF BoundTags, GraphBase
  <2>2. l.remark = <<nodeName>> \o inbs[id].tag
    BY <1>4 DEF isNodeLinkFor
  <2>3. isNodeOwnedRemark(l.remark, nodeName) /\ Tail(l.remark) = inbs[id].tag
    BY <2>1, <2>2, Remarks
  <2> QED
    BY <1>1, <1>4, <2>1, <2>3
<1> QED
  BY <1>1, <1>3, <1>4 DEF c

\* A new client.
LEMMA NewClientKeeps ==
  ASSUME GraphInv, NEW n \in ListClient, NEW on \in SUBSET (1 .. lastInb), NewClient(n, on)
  PROVE  GraphInv' /\ NodeLinksStay
<1> DEFINE c == SavedClient(n, on, 0, <<OwnLink>>, <<>>)
<1>0. GraphBase /\ LinksInv /\ FormInv
  BY DEF GraphInv
<1>1. <<OwnLink>> \in Seq(Link) /\ ToSet(<<OwnLink>>) = {OwnLink}
  BY LinkTypes DEF ToSet
<1>2. /\ c \in ClientRows(lastInb) /\ c.on = on /\ Current(c, inbs, prefixOn)
      /\ \A l \in ToSet(c.links) : l.type # "local" =>
           \/ l \in ToSet(<<OwnLink>>)
           \/ isNodeOwnedRemark(l.remark, nodeName) /\ Tail(l.remark) \in BoundTags(on)
  <2> DEFINE none == <<>>
             asked == <<OwnLink>>
  <2>1. none \in Seq(Link) /\ none = <<>> /\ asked \in Seq(Link) /\ 0 \in Nat
    BY <1>1
  <2>2. c = SavedClient(n, on, 0, asked, none)
    OBVIOUS
  <2> HIDE DEF c, none, asked
  <2>3. RowSaved(c, on, asked, none, none)
    BY <1>0, <2>1, <2>2, SavedRow
  <2> QED
    BY <2>3 DEF RowSaved, asked
<1> HIDE DEF c
<1>3. Bound(c, inbs, nodeName)
  <2> SUFFICES ASSUME NEW l \in ToSet(c.links), l.type # "local", l # OwnLink
               PROVE  \E id \in (c.on \cap DOMAIN inbs) \ Local(inbs) : l.remark = <<nodeName>> \o inbs[id].tag
    BY DEF Bound
  <2>1. l \in Link
    BY <1>2, LinkTypes DEF ClientRows
  <2>2. isNodeOwnedRemark(l.remark, nodeName) /\ Tail(l.remark) \in BoundTags(on)
    BY <1>1, <1>2
  <2> QED
    BY <1>0, <1>2, <2>1, <2>2, BoundLink
<1>4. /\ n \notin DOMAIN clients /\ clients' = [k \in DOMAIN clients \cup {n} |-> IF k = n THEN c ELSE clients[k]]
      /\ UNCHANGED <<inbs, lastInb, form, pass, nodeName, prefixOn, overwritten, rides>>
  BY DEF NewClient, Put, c
<1>5. DOMAIN clients' = DOMAIN clients \cup {n} /\ clients'[n] = c /\ \A k \in DOMAIN clients : clients'[k] = clients[k]
  BY <1>4
<1>6. clients' \in [DOMAIN clients' -> ClientRows(lastInb)]
  BY <1>0, <1>2, <1>4 DEF GraphBase
<1>7. DOMAIN clients' \subseteq ListClient /\ overwritten' \subseteq DOMAIN clients'
  BY <1>0, <1>4, <1>5 DEF GraphBase
<1>8. \A k \in DOMAIN clients' \ overwritten' : Current(clients'[k], inbs, prefixOn) /\ Bound(clients'[k], inbs, nodeName)
  BY <1>0, <1>2, <1>3, <1>4, <1>5 DEF LinksInv
<1>9. FormInv'
  BY <1>0, <1>4 DEF FormInv
<1>10. GraphInv'
  BY <1>4, <1>6, <1>7, <1>8, <1>9, RowsChange
<1>11. NodeLinksStay
  BY <1>5 DEF NodeLinksStay
<1> QED
  BY <1>10, <1>11

\* Some clients are deleted.
LEMMA DelClientsKeeps ==
  ASSUME GraphInv, NEW batch, DelClients(batch)
  PROVE  GraphInv' /\ NodeLinksStay
<1>0. GraphBase /\ LinksInv /\ FormInv
  BY DEF GraphInv
<1>1. /\ clients' = [n \in DOMAIN clients \ batch |-> clients[n]] /\ overwritten' = overwritten \ batch
      /\ UNCHANGED <<inbs, lastInb, form, pass, nodeName, prefixOn, rides>>
  BY DEF DelClients
<1>2. DOMAIN clients' = DOMAIN clients \ batch /\ \A n \in DOMAIN clients' : n \in DOMAIN clients /\ clients'[n] = clients[n]
  BY <1>1
<1>3. clients' \in [DOMAIN clients' -> ClientRows(lastInb)]
  BY <1>0, <1>1 DEF GraphBase
<1>4. DOMAIN clients' \subseteq ListClient /\ overwritten' \subseteq DOMAIN clients'
  BY <1>0, <1>1, <1>2 DEF GraphBase
<1>5. \A n \in DOMAIN clients' \ overwritten' : Current(clients'[n], inbs, prefixOn) /\ Bound(clients'[n], inbs, nodeName)
  BY <1>0, <1>1, <1>2 DEF LinksInv
<1>6. FormInv'
  BY <1>0, <1>1 DEF FormInv
<1>7. GraphInv'
  BY <1>1, <1>3, <1>4, <1>5, <1>6, RowsChange
<1>8. NodeLinksStay
  BY <1>2 DEF NodeLinksStay
<1> QED
  BY <1>7, <1>8

\* A client is saved from a tab.
LEMMA EditClientKeeps ==
  ASSUME GraphInv, NEW on \in SUBSET (1 .. lastInb), NEW config \in {0, 1}, EditLinkedClient(on, config)
  PROVE  GraphInv' /\ NodeLinksStay
<1>0. GraphBase /\ LinksInv /\ FormInv
  BY DEF GraphInv
<1> DEFINE n == form.name
           c == SavedClient(n, on, config, form.links, <<clients[n].links>>)
<1>1. /\ form.loaded /\ n \in DOMAIN clients
      /\ clients' = [clients EXCEPT ![n] = c] /\ form' = NoForm /\ overwritten' = Healed({n})
      /\ UNCHANGED <<inbs, lastInb, pass, nodeName, prefixOn, rides>>
  BY DEF EditLinkedClient
<1>2. form.links \in Seq(Link) /\ clients[n].links \in Seq(Link) /\ config \in Nat
  <2>1. ~ NoForm.loaded
    BY DEF NoForm
  <2>2. form # NoForm
    BY <1>1, <2>1
  <2> QED
    BY <1>0, <1>1, <2>2, Fields DEF FormInv
<1>3. /\ c \in ClientRows(lastInb) /\ Current(c, inbs, prefixOn)
      /\ (\A l \in ToSet(c.links) : ~ Orphan(l)) => Bound(c, inbs, nodeName)
      /\ \A id \in (c.on \cap DOMAIN inbs) \ Local(inbs) : \A l \in ToSet(clients[n].links) :
           isNodeLinkFor(l.remark, inbs[id].tag, nodeName) /\ l.type # "local" => l \in ToSet(c.links)
  <2> HIDE DEF n
  <2> QED
    BY <1>0, <1>2, SavedRowIsRight
<1> HIDE DEF c, n
<1>4. DOMAIN clients' = DOMAIN clients /\ clients'[n] = c /\ \A k \in DOMAIN clients \ {n} : clients'[k] = clients[k]
  BY <1>0, <1>1 DEF GraphBase
<1>5. clients' \in [DOMAIN clients' -> ClientRows(lastInb)]
  BY <1>0, <1>1, <1>3 DEF GraphBase
<1>6. overwritten' = (overwritten \ {n}) \cup {k \in {n} : \E l \in ToSet(clients'[k].links) : Orphan(l)}
  BY <1>1 DEF Healed
<1>7. DOMAIN clients' \subseteq ListClient /\ overwritten' \subseteq DOMAIN clients'
  BY <1>0, <1>1, <1>4, <1>6 DEF GraphBase
<1>8. ASSUME NEW k \in DOMAIN clients' \ overwritten'
      PROVE  Current(clients'[k], inbs, prefixOn) /\ Bound(clients'[k], inbs, nodeName)
  <2>1. CASE k = n
    BY <1>3, <1>4, <1>6, <1>8, <2>1
  <2>2. CASE k # n
    BY <1>0, <1>4, <1>6, <1>8, <2>2 DEF LinksInv
  <2> QED
    BY <2>1, <2>2
<1>9. FormInv'
  BY <1>1 DEF FormInv
<1>10. GraphInv'
  BY <1>1, <1>5, <1>7, <1>8, <1>9, RowsChange
<1>11. NodeLinksStay
  BY <1>3, <1>4 DEF NodeLinksStay
<1> QED
  BY <1>10, <1>11

\* Several clients are put on other inbounds.
LEMMA EditBulkKeeps ==
  ASSUME GraphInv, NEW batch, NEW on \in SUBSET (1 .. lastInb), EditLinkedBulk(batch, on)
  PROVE  GraphInv' /\ NodeLinksStay
<1>0. GraphBase /\ LinksInv /\ FormInv
  BY DEF GraphInv
<1> DEFINE changed == UNION {(clients[n].on \ on) \cup (on \ clients[n].on) : n \in batch}
           row(n) == SavedClient(n, on, clients[n].config, clients[n].links, <<clients[n].links>>)
<1>1. /\ batch \subseteq DOMAIN clients
      /\ clients' = [n \in DOMAIN clients |->
                       IF n \notin batch THEN clients[n]
                       ELSE IF changed = {} THEN [clients[n] EXCEPT !.on = on] ELSE row(n)]
      /\ overwritten' = IF changed = {} THEN overwritten ELSE Healed(batch)
      /\ UNCHANGED <<inbs, lastInb, form, pass, nodeName, prefixOn, rides>>
  BY DEF EditLinkedBulk
<1>2. FormInv'
  BY <1>0, <1>1 DEF FormInv
<1>3. CASE changed = {}
  <2>1. ASSUME NEW n \in batch PROVE [clients[n] EXCEPT !.on = on] = clients[n]
    <3>1. clients[n].on = on
      <4>1. (clients[n].on \ on) \cup (on \ clients[n].on) \subseteq changed
        OBVIOUS
      <4> QED
        BY <1>3, <4>1
    <3>2. clients[n] \in ClientRows(lastInb)
      BY <1>0, <1>1, Fields
    <3> QED
      BY <3>1, <3>2 DEF ClientRows
  <2>2. \A n \in DOMAIN clients : clients'[n] = clients[n]
    BY <1>1, <1>3, <2>1
  <2>3. clients' = clients /\ overwritten' = overwritten
    BY <1>0, <1>1, <1>3, <2>2 DEF GraphBase
  <2>4. GraphInv'
    BY <1>0, <1>1, <1>2, <2>3, RowsChange DEF GraphBase, LinksInv
  <2> QED
    BY <2>3, <2>4 DEF NodeLinksStay
<1>4. CASE changed # {}
  <2>1. ASSUME NEW n \in batch
        PROVE  /\ row(n) \in ClientRows(lastInb) /\ Current(row(n), inbs, prefixOn)
               /\ (\A l \in ToSet(row(n).links) : ~ Orphan(l)) => Bound(row(n), inbs, nodeName)
               /\ \A id \in (row(n).on \cap DOMAIN inbs) \ Local(inbs) : \A l \in ToSet(clients[n].links) :
                    isNodeLinkFor(l.remark, inbs[id].tag, nodeName) /\ l.type # "local" => l \in ToSet(row(n).links)
    <3>1. clients[n].config \in Nat /\ clients[n].links \in Seq(Link)
      BY <1>0, <1>1, Fields
    <3> QED
      BY <1>0, <3>1, SavedRowIsRight
  <2> HIDE DEF row, changed
  <2>2. DOMAIN clients' = DOMAIN clients /\ \A n \in DOMAIN clients : clients'[n] = IF n \in batch THEN row(n) ELSE clients[n]
    BY <1>1, <1>4
  <2>3. clients' = [n \in DOMAIN clients |-> IF n \in batch THEN row(n) ELSE clients[n]]
    BY <1>1, <1>4
  <2>4. clients' \in [DOMAIN clients' -> ClientRows(lastInb)]
    BY <1>0, <2>1, <2>2, <2>3 DEF GraphBase
  <2>5. overwritten' = (overwritten \ batch) \cup {k \in batch : \E l \in ToSet(clients'[k].links) : Orphan(l)}
    BY <1>1, <1>4 DEF Healed
  <2>6. DOMAIN clients' \subseteq ListClient /\ overwritten' \subseteq DOMAIN clients'
    BY <1>0, <1>1, <2>2, <2>5 DEF GraphBase
  <2>7. ASSUME NEW k \in DOMAIN clients' \ overwritten'
        PROVE  Current(clients'[k], inbs, prefixOn) /\ Bound(clients'[k], inbs, nodeName)
    <3>1. CASE k \in batch
      BY <1>1, <2>1, <2>2, <2>5, <2>7, <3>1
    <3>2. CASE k \notin batch
      BY <1>0, <2>2, <2>5, <2>7, <3>2 DEF LinksInv
    <3> QED
      BY <3>1, <3>2
  <2>8. GraphInv'
    BY <1>1, <1>2, <2>4, <2>6, <2>7, RowsChange
  <2>9. NodeLinksStay
    <3> SUFFICES ASSUME NEW n \in DOMAIN clients, NEW id \in (clients'[n].on \cap DOMAIN inbs) \ Local(inbs),
                        NEW l \in ToSet(clients[n].links), isNodeLinkFor(l.remark, inbs[id].tag, nodeName), l.type # "local"
                 PROVE  l \in ToSet(clients'[n].links)
      BY DEF NodeLinksStay
    <3>1. CASE n \in batch
      BY <2>1, <2>2, <3>1
    <3>2. CASE n \notin batch
      BY <2>2, <3>2
    <3> QED
      BY <3>1, <3>2
  <2> QED
    BY <2>8, <2>9
<1> QED
  BY <1>3, <1>4

-----------------------------------------------------------------------------
(* The node.                                                                *)

\* At the start.
LEMMA GraphInitial ==
  ASSUME GraphInit
  PROVE  GraphInv
<1>1. DOMAIN inbs = {} /\ DOMAIN clients = {} /\ DOMAIN rides = {}
  BY DEF GraphInit
<1>2. inbs \in [DOMAIN inbs -> InbRow] /\ clients \in [DOMAIN clients -> ClientRows(lastInb)]
  BY DEF GraphInit
<1>3. GraphBase
  BY <1>1, <1>2, GraphConstants DEF GraphInit, GraphBase, Inbounds
<1>4. LinksInv /\ FormInv /\ RidesInv
  BY <1>1 DEF GraphInit, LinksInv, FormInv, RidesInv, RidersFollow, Local
<1>5. PassInv
  BY DEF GraphInit, PassInv, NoPass
<1> QED
  BY <1>3, <1>4, <1>5 DEF GraphInv

\* A browser tab loads a client.
LEMMA LoadFormKeeps ==
  ASSUME GraphInv, NEW n, LoadForm(n)
  PROVE  GraphInv' /\ NodeLinksStay
<1>0. GraphBase /\ LinksInv
  BY DEF GraphInv
<1>1. /\ n \in DOMAIN clients /\ form' = [loaded |-> TRUE, name |-> n, on |-> clients[n].on, links |-> clients[n].links]
      /\ UNCHANGED <<inbs, lastInb, clients, pass, nodeName, prefixOn, overwritten, rides>>
  BY DEF LoadForm
<1>2. FormInv'
  BY <1>0, <1>1, Fields DEF FormInv
<1>3. GraphInv'
  BY <1>0, <1>1, <1>2, RowsChange DEF GraphBase, LinksInv
<1> QED
  BY <1>1, <1>3 DEF NodeLinksStay

\* A step of the pass that writes nothing.
LEMMA PassMoves ==
  ASSUME GraphInv, UNCHANGED <<inbs, lastInb, clients, form, nodeName, prefixOn, overwritten, rides>>, PassInv'
  PROVE  GraphInv' /\ NodeLinksStay
<1>1. GraphBase' /\ LinksInv' /\ FormInv'
  BY DEF GraphInv, GraphBase, LinksInv, FormInv
<1>2. RidesInv'
  BY DEF GraphInv, RidesInv, RidersFollow
<1> QED
  BY <1>1, <1>2 DEF GraphInv, NodeLinksStay

\* A pass starts: it reads the replicas.
LEMMA PassStartsKeeps ==
  ASSUME GraphInv, PassStarts
  PROVE  GraphInv' /\ NodeLinksStay
<1>0. GraphBase
  BY DEF GraphInv
<1> DEFINE of == [id \in DOMAIN inbs \ Local(inbs) |-> inbs[id]]
<1>1. /\ pass' = [step |-> "replicas", name |-> nodeName, of |-> of]
      /\ UNCHANGED <<inbs, lastInb, clients, form, nodeName, prefixOn, overwritten, rides>>
  BY DEF PassStarts
<1>2. DOMAIN of = DOMAIN inbs \ Local(inbs) /\ \A id \in DOMAIN of : of[id] = inbs[id]
  OBVIOUS
<1>3. of \in [DOMAIN of -> InbRow]
  BY <1>0, Fields
<1> HIDE DEF of
<1>4. Inbounds(of, lastInb)
  BY <1>0, <1>2, <1>3 DEF GraphBase, Inbounds
<1>5. pass'.step = "replicas" /\ pass'.name = nodeName /\ pass'.of = of
  BY <1>1
<1>6. PassInv'
  BY <1>0, <1>1, <1>2, <1>4, <1>5 DEF PassInv, GraphBase
<1> QED
  BY <1>1, <1>6, PassMoves

\* It reads the clients.
LEMMA PassReadsKeeps ==
  ASSUME GraphInv, PassReads
  PROVE  GraphInv' /\ NodeLinksStay
<1>0. GraphBase /\ PassInv
  BY DEF GraphInv
<1>1. /\ pass.step = "replicas" /\ pass' = [step |-> "clients", name |-> pass.name, of |-> pass.of, pre |-> prefixOn, rows |-> clients]
      /\ UNCHANGED <<inbs, lastInb, clients, form, nodeName, prefixOn, overwritten, rides>>
  BY DEF PassReads
<1>2. pass'.step = "clients" /\ pass'.name = pass.name /\ pass'.of = pass.of /\ pass'.pre = prefixOn /\ pass'.rows = clients
  BY <1>1
<1>3. PassInv'
  BY <1>0, <1>1, <1>2 DEF PassInv, GraphBase
<1> QED
  BY <1>1, <1>3, PassMoves

\* It ends.
LEMMA PassEndsKeeps ==
  ASSUME GraphInv, PassEnds
  PROVE  GraphInv' /\ NodeLinksStay
<1>1. pass' = NoPass /\ UNCHANGED <<inbs, lastInb, clients, form, nodeName, prefixOn, overwritten, rides>>
  BY DEF PassEnds
<1>2. PassInv'
  BY <1>1 DEF PassInv, NoPass
<1> QED
  BY <1>1, <1>2, PassMoves

\* The links a pass computes from a row that is still the client's.
LEMMA PassLinksAreRight ==
  ASSUME GraphBase, PassInv, pass.step = "clients", NEW n \in DOMAIN pass.rows
  PROVE  LET c == pass.rows[n]
             d == [c EXCEPT !.links = PassLinks(c)] IN
         /\ PassLinks(c) \in Seq(Link)
         /\ Current(c, inbs, prefixOn) => Current(d, inbs, prefixOn)
         /\ Bound(c, inbs, nodeName) /\ pass.name = nodeName /\ (\A id \in c.on \cap DOMAIN pass.of : id \in DOMAIN inbs)
              => Bound(d, inbs, nodeName)
<1> DEFINE c == pass.rows[n]
           d == [c EXCEPT !.links = PassLinks(c)]
           those == {l \in ToSet(c.links) : l.type = "local" \/ ~isNodeOwnedRemark(l.remark, pass.name)}
           ids == c.on \cap DOMAIN pass.of
           made == genNodeReplicaLinks(c, pass.of, ids, pass.name, pass.pre)
           k == Keep(c.links, those)
<1>1. c \in ClientRows(lastInb)
  BY DEF PassInv
<1>2. c.on \subseteq 1 .. lastInb /\ c.config \in Nat /\ c.links \in Seq(Link)
  BY <1>1 DEF ClientRows
<1>3. lastInb \in Nat /\ Inbounds(pass.of, lastInb) /\ pass.name \in NodeNames /\ pass.pre \in BOOLEAN /\ nodeName \in NodeNames
  BY DEF PassInv, GraphBase
<1>4. PassLinks(c) = k \o made
  BY DEF PassLinks
<1>5. d.on = c.on /\ d.config = c.config /\ d.links = PassLinks(c)
  <2> HIDE DEF c
  <2> QED
    BY <1>1 DEF ClientRows
<1> HIDE DEF c, d
<1>6. made \in Seq(Link) /\ ToSet(made) = NodeSet(c, pass.of, ids, pass.name, pass.pre)
  <2> DEFINE table == pass.of
             name == pass.name
             pre == pass.pre
  <2>1. /\ lastInb \in Nat /\ Inbounds(table, lastInb) /\ ids \in SUBSET DOMAIN table
        /\ c.config \in Nat /\ pre \in BOOLEAN /\ name \in NodeNames
    BY <1>2, <1>3
  <2> HIDE DEF ids, table, name, pre
  <2>2. /\ LocalLinks(c, table, ids, pre) \in Seq(Link)
        /\ genNodeReplicaLinks(c, table, ids, name, pre) \in Seq(Link)
        /\ ToSet(genNodeReplicaLinks(c, table, ids, name, pre)) = NodeSet(c, table, ids, name, pre)
    BY <2>1, MadeLinks
  <2> QED
    BY <2>2 DEF table, name, pre
<1>7. k \in Seq(Link) /\ ToSet(k) = ToSet(c.links) \cap those /\ (LocalOnce(c.links) => LocalOnce(k))
  BY <1>2, KeptLinks
<1>8. ASSUME NEW l \in ToSet(made)
      PROVE  \E id \in ids : l.type = "external" /\ l.remark = <<pass.name>> \o pass.of[id].tag
  <2>1. PICK id \in WithLink(pass.of, ids) : l = NodeLink(c, pass.of[id], pass.name, pass.pre)
    BY <1>6, <1>8 DEF NodeSet
  <2>2. id \in ids
    BY DEF WithLink
  <2>3. pass.of[id] \in InbRow
    BY <1>3, <2>2 DEF Inbounds
  <2> DEFINE name == pass.name
             pre == pass.pre
             i == pass.of[id]
  <2>31. name \in NodeNames /\ pre \in BOOLEAN /\ i \in InbRow
    BY <1>3, <2>3
  <2> HIDE DEF name, pre, i
  <2>4. /\ LocalLink(c, i, pre) \in Link
        /\ NodeLink(c, i, name, pre).type = "external" /\ NodeLink(c, i, name, pre).remark = <<name>> \o i.tag
    BY <1>2, <1>3, <2>31, LinkFields
  <2>5. l.type = "external" /\ l.remark = <<pass.name>> \o pass.of[id].tag
    BY <2>1, <2>4 DEF name, pre, i
  <2> QED
    BY <2>2, <2>5
<1> HIDE DEF k, made
<1>9. LocalOnce(made)
  BY <1>8 DEF LocalOnce, ToSet
<1>10. /\ PassLinks(c) \in Seq(Link) /\ ToSet(PassLinks(c)) = ToSet(k) \cup ToSet(made)
       /\ LocalOnce(c.links) => LocalOnce(PassLinks(c))
  <2>1. \A x \in ToSet(k) \cap ToSet(made) : x.type # "local"
    BY <1>8
  <2> QED
    BY <1>4, <1>6, <1>7, <1>9, <2>1, JoinedLinks
<1>11. \A i : LocalLink(d, i, prefixOn) = LocalLink(c, i, prefixOn)
  BY <1>5, SameConfig
<1>12. ASSUME NEW l, l.type = "local" PROVE l \in ToSet(d.links) <=> l \in ToSet(c.links)
  BY <1>5, <1>7, <1>8, <1>10, <1>12 DEF those
<1>13. ASSUME Current(c, inbs, prefixOn) PROVE Current(d, inbs, prefixOn)
  <2>1. \A id \in WithLink(inbs, c.on \cap Local(inbs)) : LocalLink(c, inbs[id], prefixOn).type = "local"
    BY DEF LocalLink
  <2>2. ASSUME NEW l \in ToSet(d.links), l.type = "local"
        PROVE  \E id \in WithLink(inbs, d.on \cap Local(inbs)) : l = LocalLink(d, inbs[id], prefixOn)
    <3>1. l \in ToSet(c.links)
      BY <1>12, <2>2
    <3> QED
      BY <1>5, <1>11, <1>13, <2>2, <3>1 DEF Current
  <2>3. ASSUME NEW id \in WithLink(inbs, d.on \cap Local(inbs)) PROVE LocalLink(d, inbs[id], prefixOn) \in ToSet(d.links)
    <3>1. LocalLink(c, inbs[id], prefixOn) \in ToSet(c.links)
      BY <1>5, <1>13, <2>3 DEF Current
    <3> DEFINE l == LocalLink(c, inbs[id], prefixOn)
    <3>2. l.type = "local" /\ l \in ToSet(c.links) /\ l = LocalLink(d, inbs[id], prefixOn)
      BY <1>5, <1>11, <2>1, <2>3, <3>1
    <3> HIDE DEF l
    <3>3. l \in ToSet(d.links)
      BY <1>12, <3>2
    <3> QED
      BY <3>2, <3>3
  <2> QED
    BY <1>5, <1>10, <1>13, <2>2, <2>3 DEF Current
<1>14. ASSUME Bound(c, inbs, nodeName), pass.name = nodeName, \A id \in c.on \cap DOMAIN pass.of : id \in DOMAIN inbs
       PROVE  Bound(d, inbs, nodeName)
  <2> SUFFICES ASSUME NEW l \in ToSet(d.links), l.type # "local", l # OwnLink
               PROVE  \E id \in (c.on \cap DOMAIN inbs) \ Local(inbs) : l.remark = <<nodeName>> \o inbs[id].tag
    BY <1>5 DEF Bound
  <2>1. CASE l \in ToSet(k)
    <3>1. l \in ToSet(c.links)
      BY <1>7, <2>1
    <3> QED
      BY <1>14, <3>1 DEF Bound
  <2>2. CASE l \in ToSet(made)
    <3>1. PICK id \in ids : l.remark = <<pass.name>> \o pass.of[id].tag
      BY <1>8, <2>2
    <3>2. id \in c.on /\ id \in DOMAIN pass.of /\ id \in DOMAIN inbs
      BY <1>14
    <3>3. inbs[id].tag = pass.of[id].tag /\ id \notin Local(inbs)
      BY <3>2 DEF PassInv
    <3> QED
      BY <1>14, <3>1, <3>2, <3>3
  <2> QED
    BY <1>5, <1>10, <2>1, <2>2
<1> QED
  BY <1>10, <1>13, <1>14 DEF c, d

\* It writes the links of one client.
LEMMA PassWritesKeeps ==
  ASSUME GraphInv, NEW n \in ListClient, PassWrites(n)
  PROVE  GraphInv' /\ NodeLinksStay
<1>0. GraphBase /\ LinksInv /\ FormInv /\ PassInv /\ RidesInv
  BY DEF GraphInv
<1> DEFINE c == pass.rows[n]
           d == [c EXCEPT !.links = PassLinks(c)]
           moved == n \in DOMAIN clients /\ (clients[n] # c \/ pass.name # nodeName \/ \E id \in c.on \cap DOMAIN pass.of : id \notin DOMAIN inbs)
           rest == [m \in DOMAIN pass.rows \ {n} |-> pass.rows[m]]
<1>1. /\ pass.step = "clients" /\ n \in DOMAIN pass.rows
      /\ pass' = IF DOMAIN pass.rows = {n} THEN NoPass ELSE [pass EXCEPT !.rows = rest]
      /\ IF n \in DOMAIN clients /\ PassLinks(c) # c.links
         THEN /\ clients' = [clients EXCEPT ![n].links = PassLinks(c)]
              /\ overwritten' = IF moved THEN overwritten \cup {n} ELSE overwritten
         ELSE clients' = clients /\ overwritten' = overwritten
      /\ UNCHANGED <<inbs, lastInb, form, nodeName, prefixOn, rides>>
  BY DEF PassWrites
<1>2. /\ PassLinks(c) \in Seq(Link)
      /\ Current(c, inbs, prefixOn) => Current(d, inbs, prefixOn)
      /\ Bound(c, inbs, nodeName) /\ pass.name = nodeName /\ (\A id \in c.on \cap DOMAIN pass.of : id \in DOMAIN inbs)
           => Bound(d, inbs, nodeName)
  BY <1>0, <1>1, PassLinksAreRight
<1>3. PassInv' /\ pass' # pass
  <2>1. CASE DOMAIN pass.rows = {n}
    <3>1. pass' = NoPass
      BY <1>1, <2>1
    <3>2. NoPass.step = "idle"
      BY DEF NoPass
    <3> QED
      BY <1>1, <3>1, <3>2 DEF PassInv
  <2>2. CASE DOMAIN pass.rows # {n}
    <3>1. pass' = [pass EXCEPT !.rows = rest]
      BY <1>1, <2>2
    <3>2. pass = [step |-> "clients", name |-> pass.name, of |-> pass.of, pre |-> pass.pre, rows |-> pass.rows]
      BY <1>0, <1>1 DEF PassInv
    <3>3. pass' = [step |-> "clients", name |-> pass.name, of |-> pass.of, pre |-> pass.pre, rows |-> rest]
      <4> DEFINE nm == pass.name
                 tb == pass.of
                 pr == pass.pre
                 rw == pass.rows
                 rs == rest
      <4>1. pass = [step |-> "clients", name |-> nm, of |-> tb, pre |-> pr, rows |-> rw] /\ pass' = [pass EXCEPT !.rows = rs]
        BY <3>1, <3>2
      <4> HIDE DEF nm, tb, pr, rw, rs
      <4>2. pass' = [step |-> "clients", name |-> nm, of |-> tb, pre |-> pr, rows |-> rs]
        BY <4>1
      <4> QED
        BY <4>2 DEF nm, tb, pr, rs
    <3>4. pass'.step = "clients" /\ pass'.name = pass.name /\ pass'.of = pass.of /\ pass'.pre = pass.pre /\ pass'.rows = rest
      BY <3>3
    <3>5. DOMAIN rest = DOMAIN pass.rows \ {n} /\ rest \in [DOMAIN rest -> ClientRows(lastInb)]
      BY <1>0, <1>1 DEF PassInv
    <3>6. pass' # pass
      BY <1>1, <3>4, <3>5
    <3>7. PassInv'
      <4> HIDE DEF rest
      <4> QED
        BY <1>0, <1>1, <3>3, <3>4, <3>5 DEF PassInv
    <3> QED
      BY <3>6, <3>7
  <2> QED
    BY <2>1, <2>2
<1>4. RidesInv' /\ FormInv'
  BY <1>0, <1>1 DEF RidesInv, RidersFollow, FormInv
<1>5. GraphBase' /\ LinksInv'
  <2>1. CASE n \in DOMAIN clients /\ PassLinks(c) # c.links
    <3> DEFINE e == [clients[n] EXCEPT !.links = PassLinks(c)]
    <3>1. /\ clients' = [clients EXCEPT ![n] = e]
          /\ overwritten' = IF moved THEN overwritten \cup {n} ELSE overwritten
      BY <1>1, <2>1
    <3>2. clients[n] \in ClientRows(lastInb)
      BY <1>0, <2>1, Fields
    <3>3. e \in ClientRows(lastInb)
      <4> DEFINE q == PassLinks(c)
      <4> HIDE DEF q
      <4> QED
        BY <1>2, <3>2 DEF ClientRows, q
    <3> HIDE DEF e
    <3>4. DOMAIN clients' = DOMAIN clients /\ clients'[n] = e /\ \A m \in DOMAIN clients \ {n} : clients'[m] = clients[m]
      BY <1>0, <2>1, <3>1 DEF GraphBase
    <3>5. clients' \in [DOMAIN clients' -> ClientRows(lastInb)]
      BY <1>0, <3>1, <3>3 DEF GraphBase
    <3>6. overwritten \subseteq overwritten' /\ overwritten' \subseteq DOMAIN clients' /\ (n \notin overwritten' => ~ moved)
      BY <1>0, <2>1, <3>1, <3>4 DEF GraphBase
    <3>7. GraphBase'
      BY <1>0, <1>1, <3>4, <3>5, <3>6 DEF GraphBase
    <3>8. ASSUME NEW m \in DOMAIN clients' \ overwritten'
          PROVE  Current(clients'[m], inbs, prefixOn) /\ Bound(clients'[m], inbs, nodeName)
      <4>1. CASE m = n
        <5>1. clients[n] = c /\ pass.name = nodeName /\ \A id \in c.on \cap DOMAIN pass.of : id \in DOMAIN inbs
          BY <2>1, <3>6, <3>8, <4>1
        <5>2. Current(c, inbs, prefixOn) /\ Bound(c, inbs, nodeName)
          BY <1>0, <2>1, <3>6, <3>8, <4>1, <5>1 DEF LinksInv
        <5>3. e = d
          BY <5>1 DEF e
        <5> HIDE DEF c, d
        <5> QED
          BY <1>2, <3>4, <4>1, <5>1, <5>2, <5>3
      <4>2. CASE m # n
        BY <1>0, <3>4, <3>6, <3>8, <4>2 DEF LinksInv
      <4> QED
        BY <4>1, <4>2
    <3>9. LinksInv'
      BY <1>1, <3>8 DEF LinksInv
    <3> QED
      BY <3>7, <3>9
  <2>2. CASE ~ (n \in DOMAIN clients /\ PassLinks(c) # c.links)
    <3>1. clients' = clients /\ overwritten' = overwritten
      BY <1>1, <2>2
    <3> QED
      BY <1>0, <1>1, <3>1 DEF GraphBase, LinksInv
  <2> QED
    BY <2>1, <2>2
<1> QED
  BY <1>3, <1>4, <1>5 DEF GraphInv, NodeLinksStay

\* The node is renamed, and the links with it.
LEMMA RenameNodeKeeps ==
  ASSUME GraphInv, NEW new \in NodeNames, RenameNode(new)
  PROVE  GraphInv' /\ NodeLinksStay
<1>0. GraphBase /\ LinksInv /\ FormInv /\ PassInv /\ RidesInv
  BY DEF GraphInv
<1> DEFINE list(n) == [k \in DOMAIN clients[n].links |-> renameNodeLinkPrefix(clients[n].links[k], new)]
           row(n) == [clients[n] EXCEPT !.links = list(n)]
<1>1. /\ new # nodeName /\ nodeName' = new
      /\ clients' = [n \in DOMAIN clients |-> row(n)]
      /\ overwritten' = overwritten \cup {n \in DOMAIN clients : \E k \in DOMAIN clients[n].links :
           clients[n].links[k].type = "local" /\ isNodeOwnedRemark(clients[n].links[k].remark, nodeName)}
      /\ UNCHANGED <<inbs, lastInb, form, pass, prefixOn, rides>>
  BY DEF RenameNode
<1>2. ASSUME NEW l \in Link
      PROVE  /\ renameNodeLinkPrefix(l, new) \in Link /\ renameNodeLinkPrefix(l, new).type = l.type
             /\ ~ isNodeOwnedRemark(l.remark, nodeName) => renameNodeLinkPrefix(l, new) = l
             /\ isNodeOwnedRemark(l.remark, nodeName) => renameNodeLinkPrefix(l, new).remark = <<new>> \o Tail(l.remark)
  <2>1. CASE ~ isNodeOwnedRemark(l.remark, nodeName)
    BY <2>1 DEF renameNodeLinkPrefix
  <2>2. CASE isNodeOwnedRemark(l.remark, nodeName)
    <3> DEFINE t == Tail(l.remark)
               r == <<new>> \o t
    <3>1. l.remark \in Seq(Letter)
      BY LinkTypes
    <3>2. t \in Seq(Letter)
      BY <2>2, <3>1 DEF isNodeOwnedRemark
    <3>3. r \in Seq(Letter)
      <4>1. <<new>> \in Seq(Letter)
        BY DEF Letter
      <4> HIDE DEF t
      <4> QED
        BY <3>2, <4>1
    <3>4. renameNodeLinkPrefix(l, new) = [l EXCEPT !.remark = r]
      BY <2>2 DEF renameNodeLinkPrefix
    <3> HIDE DEF r
    <3>5. renameNodeLinkPrefix(l, new) \in Link
      BY <3>3, <3>4 DEF Link
    <3>6. renameNodeLinkPrefix(l, new).type = l.type /\ renameNodeLinkPrefix(l, new).remark = r
      BY <3>4 DEF Link
    <3> QED
      BY <2>2, <3>5, <3>6 DEF r
  <2> QED
    BY <2>1, <2>2
<1>3. ASSUME NEW n \in DOMAIN clients
      PROVE  /\ clients[n].links \in Seq(Link) /\ list(n) \in Seq(Link) /\ DOMAIN list(n) = DOMAIN clients[n].links
             /\ \A k \in DOMAIN list(n) : /\ clients[n].links[k] \in Link
                                          /\ list(n)[k] = renameNodeLinkPrefix(clients[n].links[k], new)
             /\ row(n) \in ClientRows(lastInb) /\ row(n).on = clients[n].on /\ row(n).config = clients[n].config
             /\ row(n).links = list(n)
  <2>1. clients[n] \in ClientRows(lastInb) /\ clients[n].links \in Seq(Link)
    BY <1>0, Fields
  <2> DEFINE a == clients[n].links
  <2>2. \A k \in DOMAIN a : a[k] \in Link
    BY <2>1
  <2>3. DOMAIN list(n) = DOMAIN a /\ \A k \in DOMAIN list(n) : list(n)[k] = renameNodeLinkPrefix(a[k], new)
    OBVIOUS
  <2>4. list(n) \in Seq(Link)
    <3>1. DOMAIN a = 1 .. Len(a) /\ Len(a) \in Nat
      BY <2>1
    <3> HIDE DEF a
    <3>2. \A k \in DOMAIN a : renameNodeLinkPrefix(a[k], new) \in Link
      BY <1>2, <2>2
    <3>3. list(n) = [k \in 1 .. Len(a) |-> renameNodeLinkPrefix(a[k], new)]
      BY <3>1 DEF a
    <3> HIDE DEF list
    <3> QED
      BY <3>1, <3>2, <3>3
  <2>5. row(n) = [clients[n] EXCEPT !.links = list(n)]
    OBVIOUS
  <2> HIDE DEF list, row
  <2>6. row(n) \in ClientRows(lastInb) /\ row(n).on = clients[n].on /\ row(n).config = clients[n].config
        /\ row(n).links = list(n)
    BY <2>1, <2>4, <2>5 DEF ClientRows
  <2> QED
    BY <2>1, <2>2, <2>3, <2>4, <2>6
<1> HIDE DEF list, row
<1>4. DOMAIN clients' = DOMAIN clients /\ \A n \in DOMAIN clients : clients'[n] = row(n)
  BY <1>1
<1>5. clients' \in [DOMAIN clients' -> ClientRows(lastInb)]
  BY <1>1, <1>3
<1>6. overwritten \subseteq overwritten' /\ overwritten' \subseteq DOMAIN clients'
  BY <1>0, <1>1, <1>4 DEF GraphBase
<1>7. GraphBase'
  BY <1>0, <1>1, <1>4, <1>5, <1>6 DEF GraphBase
<1>8. ASSUME NEW n \in DOMAIN clients' \ overwritten'
      PROVE  Current(clients'[n], inbs, prefixOn) /\ Bound(clients'[n], inbs, new)
  <2> DEFINE a == clients[n].links
             b == list(n)
             c == clients[n]
             d == row(n)
  <2>1. n \in DOMAIN clients /\ n \notin overwritten /\ clients'[n] = d
    BY <1>4, <1>6
  <2>2. Current(c, inbs, prefixOn) /\ Bound(c, inbs, nodeName)
    BY <1>0, <2>1 DEF LinksInv
  <2>3. /\ a \in Seq(Link) /\ b \in Seq(Link) /\ DOMAIN b = DOMAIN a
        /\ \A k \in DOMAIN a : a[k] \in Link /\ b[k] = renameNodeLinkPrefix(a[k], new)
        /\ d.on = c.on /\ d.config = c.config /\ d.links = b /\ c.links = a
    BY <1>3, <2>1
  <2>4. \A k \in DOMAIN a : a[k].type = "local" => ~ isNodeOwnedRemark(a[k].remark, nodeName)
    BY <1>1, <2>1, <1>8
  <2> HIDE DEF a, b, c, d
  <2>5. \A k \in DOMAIN a : b[k].type = a[k].type /\ (a[k].type = "local" => b[k] = a[k])
    BY <1>2, <2>3, <2>4
  <2>6. ASSUME NEW l, l.type = "local" PROVE l \in ToSet(b) <=> l \in ToSet(a)
    BY <2>3, <2>5, <2>6 DEF ToSet
  <2>7. \A i : LocalLink(d, i, prefixOn) = LocalLink(c, i, prefixOn) /\ LocalLink(c, i, prefixOn).type = "local"
    BY <2>3, SameConfig DEF LocalLink
  <2>8. LocalOnce(b)
    BY <2>2, <2>3, <2>5 DEF Current, LocalOnce
  <2>9. ASSUME NEW l \in ToSet(d.links), l.type = "local"
        PROVE  \E id \in WithLink(inbs, d.on \cap Local(inbs)) : l = LocalLink(d, inbs[id], prefixOn)
    <3>1. l \in ToSet(a)
      BY <2>3, <2>6, <2>9
    <3>2. PICK id \in WithLink(inbs, c.on \cap Local(inbs)) : l = LocalLink(c, inbs[id], prefixOn)
      BY <2>2, <2>3, <2>9, <3>1 DEF Current
    <3>3. l = LocalLink(d, inbs[id], prefixOn)
      BY <2>7, <3>2
    <3> QED
      BY <2>3, <3>2, <3>3
  <2>10. ASSUME NEW id \in WithLink(inbs, d.on \cap Local(inbs)) PROVE LocalLink(d, inbs[id], prefixOn) \in ToSet(d.links)
    <3> DEFINE l == LocalLink(c, inbs[id], prefixOn)
    <3>1. l \in ToSet(a) /\ l.type = "local" /\ l = LocalLink(d, inbs[id], prefixOn)
      BY <2>2, <2>3, <2>7, <2>10 DEF Current
    <3> HIDE DEF l
    <3>2. l \in ToSet(b)
      BY <2>6, <3>1
    <3> QED
      BY <2>3, <3>1, <3>2
  <2>11. Current(d, inbs, prefixOn)
    BY <2>3, <2>8, <2>9, <2>10 DEF Current
  <2>12. Bound(d, inbs, new)
    <3> SUFFICES ASSUME NEW k \in DOMAIN b, b[k].type # "local", b[k] # OwnLink
                 PROVE  \E id \in (c.on \cap DOMAIN inbs) \ Local(inbs) : b[k].remark = <<new>> \o inbs[id].tag
      <4>1. SUFFICES ASSUME NEW l \in ToSet(b), l.type # "local", l # OwnLink
                     PROVE  \E id \in (c.on \cap DOMAIN inbs) \ Local(inbs) : l.remark = <<new>> \o inbs[id].tag
        BY <2>3 DEF Bound
      <4>2. PICK k \in DOMAIN b : b[k] = l
        BY DEF ToSet
      <4> QED
        BY <4>1, <4>2
    <3>1. a[k] \in Link /\ a[k].type # "local" /\ b[k] = renameNodeLinkPrefix(a[k], new) /\ a[k] \in ToSet(a)
      BY <2>3, <2>5 DEF ToSet
    <3>2. a[k] # OwnLink
      BY <1>2, <3>1, LinkTypes
    <3>3. PICK id \in (c.on \cap DOMAIN inbs) \ Local(inbs) : a[k].remark = <<nodeName>> \o inbs[id].tag
      BY <2>2, <2>3, <3>1, <3>2 DEF Bound
    <3>4. inbs[id].tag \in InbTag /\ nodeName \in NodeNames
      BY <1>0, Fields DEF GraphBase
    <3>5. isNodeOwnedRemark(a[k].remark, nodeName) /\ Tail(a[k].remark) = inbs[id].tag
      BY <3>3, <3>4, Remarks
    <3>6. b[k].remark = <<new>> \o Tail(a[k].remark)
      BY <1>2, <3>1, <3>5
    <3> QED
      BY <3>5, <3>6
  <2> QED
    BY <2>1, <2>11, <2>12
<1>9. LinksInv'
  BY <1>1, <1>8 DEF LinksInv
<1>10. FormInv' /\ PassInv'
  BY <1>0, <1>1 DEF FormInv, PassInv
<1>11. RidesInv'
  BY <1>0, <1>1 DEF RidesInv, RidersFollow
<1> QED
  BY <1>1, <1>7, <1>9, <1>10, <1>11 DEF GraphInv, NodeLinksStay

-----------------------------------------------------------------------------
(* Saves of inbounds.                                                       *)

\* The table after a save: the inbounds ids changed, the others have the tags and links they had, and
\* a changed one had its new tag or oldTag.
Relabels(table, ids, oldTag, pre) ==
  /\ Inbounds(table, lastInb) /\ DOMAIN table = DOMAIN inbs /\ Local(table) = Local(inbs) /\ ids \subseteq Local(inbs)
  /\ \A id \in DOMAIN inbs \ Local(inbs) : table[id].tag = inbs[id].tag
  /\ \A id \in Local(inbs) \ ids :
       /\ table[id].tag = inbs[id].tag /\ table[id].kind = inbs[id].kind /\ inbs[id].tag # oldTag
       /\ table[id].kind \in InboundTypeWithLink => pre = prefixOn /\ table[id].ver = inbs[id].ver
  /\ \A id \in ids : inbs[id].tag = table[id].tag \/ inbs[id].tag = oldTag

\* The link of an inbound that did not change is the one it had.
LEMMA SameLink ==
  ASSUME NEW table, NEW ids, NEW oldTag, NEW pre, Relabels(table, ids, oldTag, pre), NEW c,
         NEW id \in Local(inbs) \ ids
  PROVE  /\ id \in WithLink(table, c.on \cap Local(table)) <=> id \in WithLink(inbs, c.on \cap Local(inbs))
         /\ id \in WithLink(inbs, c.on \cap Local(inbs)) => LocalLink(c, table[id], pre) = LocalLink(c, inbs[id], prefixOn)
<1>1. /\ table[id].tag = inbs[id].tag /\ table[id].kind = inbs[id].kind /\ Local(table) = Local(inbs)
      /\ table[id].kind \in InboundTypeWithLink => pre = prefixOn /\ table[id].ver = inbs[id].ver
  BY DEF Relabels
<1>2. id \in WithLink(table, c.on \cap Local(table)) <=> id \in WithLink(inbs, c.on \cap Local(inbs))
  BY <1>1 DEF WithLink
<1>3. ASSUME id \in WithLink(inbs, c.on \cap Local(inbs)) PROVE LocalLink(c, table[id], pre) = LocalLink(c, inbs[id], prefixOn)
  BY <1>1, <1>3 DEF WithLink, LocalLink, Uri
<1> QED
  BY <1>2, <1>3

\* A client on none of the changed inbounds keeps its row.
LEMMA UnaffectedRow ==
  ASSUME NEW table, NEW ids, NEW oldTag, NEW pre, Relabels(table, ids, oldTag, pre), NEW c, ids \cap c.on = {}
  PROVE  Current(c, inbs, prefixOn) => Current(c, table, pre)
<1> SUFFICES ASSUME Current(c, inbs, prefixOn) PROVE Current(c, table, pre)
  OBVIOUS
<1>1. Local(table) = Local(inbs)
  BY DEF Relabels
<1>2. ASSUME NEW l \in ToSet(c.links), l.type = "local"
      PROVE  \E id \in WithLink(table, c.on \cap Local(table)) : l = LocalLink(c, table[id], pre)
  <2>1. PICK id \in WithLink(inbs, c.on \cap Local(inbs)) : l = LocalLink(c, inbs[id], prefixOn)
    BY <1>2 DEF Current
  <2>2. id \in Local(inbs) \ ids
    BY DEF WithLink
  <2> QED
    BY <2>1, <2>2, SameLink
<1>3. ASSUME NEW id \in WithLink(table, c.on \cap Local(table)) PROVE LocalLink(c, table[id], pre) \in ToSet(c.links)
  <2>1. id \in Local(inbs) \ ids
    BY <1>1 DEF WithLink
  <2> QED
    BY <1>3, <2>1, SameLink DEF Current
<1> QED
  BY <1>2, <1>3 DEF Current

\* A client on some of them has their links made anew; the others stay.
RowRelinked(c, d, table, pre) ==
  /\ d \in ClientRows(lastInb) /\ d.on = c.on
  /\ Current(c, inbs, prefixOn) => Current(d, table, pre)
  /\ \A l \in ToSet(d.links) : l.type # "local" => l \in ToSet(c.links)
  /\ \A l \in ToSet(c.links) : l.type # "local" => l \in ToSet(d.links)

\* Relinked gives such a row.
LEMMA RelinkedRow ==
  ASSUME GraphBase, NEW table, NEW ids, NEW oldTag, NEW pre \in BOOLEAN, Relabels(table, ids, oldTag, pre),
         NEW c \in ClientRows(lastInb), NEW d, d = [c EXCEPT !.links = Relinked(c, table, ids \cap c.on, oldTag, pre)]
  PROVE  RowRelinked(c, d, table, pre)
<1> DEFINE own == ids \cap c.on
           tags == {table[id].tag : id \in own} \cup {oldTag}
           made == LocalLinks(c, table, own, pre)
           those == Others(c, tags)
           all == made \o Keep(c.links, those)
<1>1. c.on \subseteq 1 .. lastInb /\ c.config \in Nat /\ c.links \in Seq(Link)
  BY DEF ClientRows
<1>2. Relinked(c, table, own, oldTag, pre) = all
  BY DEF Relinked
<1>3. /\ lastInb \in Nat /\ Inbounds(table, lastInb) /\ prefixOn \in BOOLEAN /\ nodeName \in NodeNames
      /\ own \subseteq Local(table) /\ Local(table) = Local(inbs) /\ Local(table) \subseteq DOMAIN table
  BY DEF GraphBase, Relabels, Local
<1>4. own \in SUBSET DOMAIN table
  BY <1>3
<1>44. WithLink(table, own) \subseteq own
  BY DEF WithLink
<1> HIDE DEF own
<1>5. made \in Seq(Link) /\ LocalOnce(made) /\ ToSet(made) = LocalSet(c, table, own, pre)
  BY <1>1, <1>3, <1>4, MadeLinks
<1>6. ASSUME NEW l \in ToSet(made)
      PROVE  \E id \in WithLink(table, own) : l = LocalLink(c, table[id], pre)
  BY <1>5, <1>6 DEF LocalSet
<1>7. \A id \in WithLink(table, own) : LocalLink(c, table[id], pre) \in ToSet(made)
  BY <1>5 DEF LocalSet
<1>8. ASSUME NEW id \in DOMAIN table
      PROVE  LocalLink(c, table[id], pre).type = "local" /\ LocalLink(c, table[id], pre).remark = table[id].tag
  BY DEF LocalLink
<1>9. ASSUME NEW l \in ToSet(made) PROVE l.type = "local" /\ l.remark \in tags
  <2>1. PICK id \in WithLink(table, own) : l = LocalLink(c, table[id], pre)
    BY <1>6
  <2>2. id \in own /\ id \in DOMAIN table
    BY <1>4, <1>44
  <2> QED
    BY <1>8, <2>1, <2>2
<1>10. \A l : l \in those <=> l \in ToSet(c.links) /\ (l.type # "local" \/ l.remark \notin tags)
  BY DEF Others
<1> HIDE DEF made, those, tags
<1>11. /\ all \in Seq(Link) /\ ToSet(all) = ToSet(made) \cup (ToSet(c.links) \cap those)
       /\ LocalOnce(c.links) => LocalOnce(all)
  <2>1. \A x \in ToSet(made) \cap ToSet(c.links) : x \in those => x.type # "local"
    BY <1>9, <1>10
  <2> QED
    BY <1>1, <1>5, <2>1, LinksOver
<1>12. d = [c EXCEPT !.links = all]
  BY <1>2 DEF own
<1> HIDE DEF all
<1>13. d \in ClientRows(lastInb) /\ d.on = c.on /\ d.config = c.config /\ d.links = all
  BY <1>11, <1>12 DEF ClientRows
<1>14. \A l \in ToSet(d.links) : l.type # "local" => l \in ToSet(c.links)
  BY <1>9, <1>11, <1>13
<1>15. \A l \in ToSet(c.links) : l.type # "local" => l \in ToSet(d.links)
  BY <1>10, <1>11, <1>13
<1>16. ASSUME Current(c, inbs, prefixOn) PROVE Current(d, table, pre)
  <2>1. \A i : LocalLink(d, i, pre) = LocalLink(c, i, pre)
    BY <1>13 DEF LocalLink, Uri
  <2>2. ASSUME NEW l \in ToSet(d.links), l.type = "local"
        PROVE  \E id \in WithLink(table, d.on \cap Local(table)) : l = LocalLink(d, table[id], pre)
    <3>1. CASE l \in ToSet(made)
      <4>1. PICK id \in WithLink(table, own) : l = LocalLink(c, table[id], pre)
        BY <1>6, <3>1
      <4>2. id \in WithLink(table, c.on \cap Local(table))
        BY <1>3 DEF own, WithLink
      <4>3. l = LocalLink(d, table[id], pre)
        BY <2>1, <4>1
      <4> QED
        BY <1>13, <4>2, <4>3
    <3>2. CASE l \in ToSet(c.links) /\ l \in those
      <4>1. PICK id \in WithLink(inbs, c.on \cap Local(inbs)) : l = LocalLink(c, inbs[id], prefixOn)
        BY <1>16, <2>2, <3>2 DEF Current
      <4>2. l.remark = inbs[id].tag /\ l.remark \notin tags
        BY <1>10, <2>2, <3>2, <4>1 DEF LocalLink
      <4>3. id \in Local(inbs) /\ id \in c.on
        BY DEF WithLink
      <4>4. id \notin ids
        <5>1. ASSUME id \in ids PROVE FALSE
          <6>1. inbs[id].tag = table[id].tag \/ inbs[id].tag = oldTag
            BY <5>1 DEF Relabels
          <6>2. id \in own
            BY <4>3, <5>1 DEF own
          <6> QED
            BY <4>2, <6>1, <6>2 DEF tags
        <5> QED
          BY <5>1
      <4>44. id \in WithLink(inbs, c.on \cap Local(inbs)) /\ id \in Local(inbs) \ ids
        BY <4>3, <4>4
      <4>45. LocalLink(c, table[id], pre) = LocalLink(c, inbs[id], prefixOn)
        <5>1. /\ table[id].tag = inbs[id].tag /\ table[id].kind = inbs[id].kind
              /\ table[id].kind \in InboundTypeWithLink => pre = prefixOn /\ table[id].ver = inbs[id].ver
          BY <4>44 DEF Relabels
        <5>2. inbs[id].kind \in InboundTypeWithLink
          BY <4>44 DEF WithLink
        <5> QED
          BY <5>1, <5>2 DEF LocalLink, Uri
      <4>46. id \in WithLink(table, c.on \cap Local(table))
        BY <4>1, <4>3, <4>4, SameLink
      <4>5. id \in WithLink(table, c.on \cap Local(table)) /\ LocalLink(c, table[id], pre) = l
        BY <4>1, <4>45, <4>46
      <4>6. l = LocalLink(d, table[id], pre)
        BY <2>1, <4>5
      <4> QED
        BY <1>13, <4>5, <4>6
    <3> QED
      BY <1>11, <1>13, <2>2, <3>1, <3>2
  <2>3. ASSUME NEW id \in WithLink(table, d.on \cap Local(table)) PROVE LocalLink(d, table[id], pre) \in ToSet(d.links)
    <3>0. id \in c.on /\ id \in Local(table) /\ id \in DOMAIN table /\ LocalLink(d, table[id], pre) = LocalLink(c, table[id], pre)
      BY <1>3, <1>13, <2>1 DEF WithLink
    <3>1. CASE id \in ids
      <4>1. id \in WithLink(table, own)
        BY <2>3, <3>0, <3>1 DEF WithLink, own
      <4> QED
        BY <1>7, <1>11, <1>13, <3>0, <4>1
    <3>2. CASE id \notin ids
      <4> DEFINE l == LocalLink(c, inbs[id], prefixOn)
      <4>1. id \in WithLink(inbs, c.on \cap Local(inbs)) /\ LocalLink(c, table[id], pre) = l
        BY <1>3, <1>13, <2>3, <3>0, <3>2, SameLink
      <4>2. l \in ToSet(c.links)
        BY <1>16, <4>1 DEF Current
      <4>3. l.remark = table[id].tag
        BY <1>8, <3>0, <4>1
      <4>4. table[id].tag \notin tags
        <5>1. table[id].tag # oldTag
          BY <1>3, <3>0, <3>2 DEF Relabels
        <5>2. \A o \in own : table[o].tag # table[id].tag
          BY <1>3, <1>4, <3>0, <3>2 DEF Inbounds, own
        <5> QED
          BY <5>1, <5>2 DEF tags
      <4> HIDE DEF l
      <4>5. l \in those
        BY <1>10, <4>2, <4>3, <4>4
      <4> QED
        BY <1>11, <1>13, <3>0, <4>1, <4>2, <4>5
    <3> QED
      BY <3>1, <3>2
  <2>4. LocalOnce(d.links)
    BY <1>11, <1>13, <1>16 DEF Current
  <2> QED
    BY <2>2, <2>3, <2>4 DEF Current
<1> QED
  BY <1>13, <1>14, <1>15, <1>16 DEF RowRelinked

\* A save of inbounds, of the TLS row or of the setting puts every client's links right.
LEMMA LinksChange ==
  ASSUME GraphInv, NEW table, NEW ids, NEW oldTag, NEW pre \in BOOLEAN, Relabels(table, ids, oldTag, pre),
         clients' = UpdateLinksByInboundChange(table, ids, oldTag, pre), inbs' = table, prefixOn' = pre,
         UNCHANGED <<lastInb, form, pass, nodeName, overwritten>>
  PROVE  GraphBase' /\ LinksInv' /\ FormInv' /\ PassInv' /\ NodeLinksStay
<1>0. GraphBase /\ LinksInv /\ FormInv /\ PassInv
  BY DEF GraphInv
<1> DEFINE row(n) == [clients[n] EXCEPT !.links = Relinked(clients[n], table, ids \cap clients[n].on, oldTag, pre)]
<1>1. clients' = [n \in DOMAIN clients |-> IF ids \cap clients[n].on = {} THEN clients[n] ELSE row(n)]
  BY DEF UpdateLinksByInboundChange
<1>2. ASSUME NEW n \in DOMAIN clients
      PROVE  /\ row(n) \in ClientRows(lastInb) /\ row(n).on = clients[n].on
             /\ Current(clients[n], inbs, prefixOn) => Current(row(n), table, pre)
             /\ \A l \in ToSet(row(n).links) : l.type # "local" => l \in ToSet(clients[n].links)
             /\ \A l \in ToSet(clients[n].links) : l.type # "local" => l \in ToSet(row(n).links)
  <2>1. clients[n] \in ClientRows(lastInb)
    BY <1>0, Fields
  <2> DEFINE c == clients[n]
             d == row(n)
  <2>2. d = [c EXCEPT !.links = Relinked(c, table, ids \cap c.on, oldTag, pre)]
    OBVIOUS
  <2> HIDE DEF c, d
  <2>3. RowRelinked(c, d, table, pre)
    <3>1. c \in ClientRows(lastInb)
      BY <2>1 DEF c
    <3> QED
      BY <1>0, <2>2, <3>1, RelinkedRow
  <2> HIDE DEF row
  <2> QED
    BY <2>3 DEF c, d, RowRelinked
<1> HIDE DEF row
<1>3. DOMAIN clients' = DOMAIN clients /\ \A n \in DOMAIN clients : clients'[n] = IF ids \cap clients[n].on = {} THEN clients[n] ELSE row(n)
  BY <1>1
<1>4. ASSUME NEW n \in DOMAIN clients
      PROVE  /\ clients'[n] \in ClientRows(lastInb) /\ clients'[n].on = clients[n].on
             /\ Current(clients[n], inbs, prefixOn) => Current(clients'[n], table, pre)
             /\ \A l \in ToSet(clients'[n].links) : l.type # "local" => l \in ToSet(clients[n].links)
             /\ \A l \in ToSet(clients[n].links) : l.type # "local" => l \in ToSet(clients'[n].links)
  <2>1. CASE ids \cap clients[n].on = {}
    <3>1. clients'[n] = clients[n] /\ clients[n] \in ClientRows(lastInb)
      BY <1>0, <1>3, <2>1, Fields
    <3>2. Current(clients[n], inbs, prefixOn) => Current(clients[n], table, pre)
      BY <2>1, UnaffectedRow
    <3> QED
      BY <3>1, <3>2
  <2>2. CASE ids \cap clients[n].on # {}
    BY <1>2, <1>3, <2>2
  <2> QED
    BY <2>1, <2>2
<1>5. clients' \in [DOMAIN clients' -> ClientRows(lastInb)]
  <2>1. clients' = [n \in DOMAIN clients |-> clients'[n]]
    BY <1>1
  <2> QED
    BY <1>3, <1>4, <2>1
<1>6. Inbounds(table, lastInb) /\ DOMAIN table = DOMAIN inbs /\ Local(table) = Local(inbs)
      /\ \A id \in DOMAIN inbs \ Local(inbs) : table[id].tag = inbs[id].tag
  BY DEF Relabels
<1>7. GraphBase'
  BY <1>0, <1>3, <1>5, <1>6 DEF GraphBase
<1>8. ASSUME NEW n \in DOMAIN clients \ overwritten
      PROVE  Current(clients'[n], table, pre) /\ Bound(clients'[n], table, nodeName)
  <2>1. Current(clients[n], inbs, prefixOn) /\ Bound(clients[n], inbs, nodeName)
    BY <1>0 DEF LinksInv
  <2>2. Bound(clients'[n], table, nodeName)
    <3> SUFFICES ASSUME NEW l \in ToSet(clients'[n].links), l.type # "local", l # OwnLink
                 PROVE  \E id \in (clients'[n].on \cap DOMAIN table) \ Local(table) : l.remark = <<nodeName>> \o table[id].tag
      BY DEF Bound
    <3>1. l \in ToSet(clients[n].links) /\ clients'[n].on = clients[n].on
      BY <1>4
    <3>2. PICK id \in (clients[n].on \cap DOMAIN inbs) \ Local(inbs) : l.remark = <<nodeName>> \o inbs[id].tag
      BY <2>1, <3>1 DEF Bound
    <3>3. table[id].tag = inbs[id].tag /\ id \in (clients'[n].on \cap DOMAIN table) \ Local(table)
      BY <1>6, <3>1
    <3> QED
      BY <3>2, <3>3
  <2> QED
    BY <1>4, <2>1, <2>2
<1>9. LinksInv'
  BY <1>3, <1>8 DEF LinksInv
<1>10. FormInv'
  BY <1>0 DEF FormInv
<1>11. PassInv'
  <2>1. Local(inbs)' = Local(inbs) /\ DOMAIN inbs' = DOMAIN inbs /\ \A id \in DOMAIN inbs \ Local(inbs) : inbs'[id].tag = inbs[id].tag
    BY <1>6
  <2> QED
    BY <1>0, <2>1 DEF PassInv
<1>12. NodeLinksStay
  BY <1>3, <1>4 DEF NodeLinksStay
<1> QED
  BY <1>7, <1>9, <1>10, <1>11, <1>12

\* The TLS row is saved.
LEMMA TlsEditKeeps ==
  ASSUME GraphInv, TlsEdit
  PROVE  GraphInv' /\ NodeLinksStay
<1>0. GraphBase /\ RidesInv
  BY DEF GraphInv
<1> DEFINE ids == {id \in Local(inbs) : UsesTls(inbs[id])}
           table == [id \in DOMAIN inbs |-> IF id \in ids THEN [inbs[id] EXCEPT !.ver = @ + 1] ELSE inbs[id]]
<1>1. /\ inbs' = table /\ clients' = UpdateLinksByInboundChange(table, ids, NoDetour, prefixOn)
      /\ UNCHANGED <<lastInb, form, pass, nodeName, prefixOn, overwritten, rides>>
  BY DEF TlsEdit
<1>2. ASSUME NEW id \in DOMAIN inbs
      PROVE  /\ table[id] \in InbRow /\ table[id].tag = inbs[id].tag /\ table[id].kind = inbs[id].kind
             /\ table[id].detour = inbs[id].detour /\ table[id].replica = inbs[id].replica
             /\ id \notin ids => table[id] = inbs[id]
  <2>1. inbs[id] \in InbRow
    BY <1>0, Fields
  <2>2. CASE id \in ids
    <3>1. table[id] = [inbs[id] EXCEPT !.ver = @ + 1]
      BY <2>2
    <3> HIDE DEF table
    <3> QED
      BY <2>1, <2>2, <3>1 DEF InbRow
  <2>3. CASE id \notin ids
    <3>1. table[id] = inbs[id]
      BY <2>3
    <3> HIDE DEF table
    <3> QED
      BY <2>1, <3>1
  <2> QED
    BY <2>2, <2>3
<1>3. DOMAIN table = DOMAIN inbs /\ table = [id \in DOMAIN inbs |-> table[id]]
  OBVIOUS
<1>4. ids \subseteq Local(inbs)
  OBVIOUS
<1> HIDE DEF table, ids
<1>5. Local(table) = Local(inbs)
  BY <1>2, <1>3 DEF Local
<1>6. Inbounds(table, lastInb)
  <2>1. table \in [DOMAIN table -> InbRow]
    BY <1>2, <1>3
  <2> QED
    BY <1>0, <1>2, <1>3, <2>1 DEF Inbounds, GraphBase
<1>7. \A id \in DOMAIN inbs : inbs[id].tag # NoDetour
  BY <1>0, Fields, Remarks DEF NoDetour
<1>8. Relabels(table, ids, NoDetour, prefixOn)
  <2>1. \A id \in Local(inbs) : id \in DOMAIN inbs
    BY <1>0, Fields
  <2> QED
    BY <1>2, <1>3, <1>4, <1>5, <1>6, <1>7, <2>1 DEF Relabels
<1>9. GraphBase' /\ LinksInv' /\ FormInv' /\ PassInv' /\ NodeLinksStay
  BY <1>0, <1>1, <1>8, LinksChange DEF GraphBase
<1>10. RidesInv'
  <2>1. \A id \in Local(inbs) : id \in DOMAIN inbs
    BY <1>0, Fields
  <2> QED
    BY <1>0, <1>1, <1>2, <1>3, <1>5, <2>1 DEF RidesInv, RidersFollow
<1> QED
  BY <1>9, <1>10 DEF GraphInv

\* The setting subRemarkPrefix is saved.
LEMMA RebuildLocalLinksKeeps ==
  ASSUME GraphInv, RebuildLocalLinks
  PROVE  GraphInv' /\ NodeLinksStay
<1>0. GraphBase /\ RidesInv
  BY DEF GraphInv
<1> DEFINE ids == {id \in Local(inbs) : inbs[id].kind \in InboundTypeWithLink}
<1>1. PICK pre \in BOOLEAN : prefixOn' = pre
  <2>1. prefixOn' \in BOOLEAN
    BY DEF RebuildLocalLinks
  <2> QED
    BY <2>1
<1>2. /\ clients' = UpdateLinksByInboundChange(inbs, ids, NoDetour, pre)
      /\ UNCHANGED <<inbs, lastInb, form, pass, nodeName, overwritten, rides>>
  BY <1>1 DEF RebuildLocalLinks
<1>3. \A id \in DOMAIN inbs : inbs[id].tag # NoDetour
  BY <1>0, Fields, Remarks DEF NoDetour
<1>4. Relabels(inbs, ids, NoDetour, pre)
  BY <1>0, <1>3, Fields DEF Relabels, GraphBase
<1> HIDE DEF ids
<1>5. GraphBase' /\ LinksInv' /\ FormInv' /\ PassInv' /\ NodeLinksStay
  BY <1>1, <1>2, <1>4, LinksChange
<1>6. RidesInv'
  BY <1>0, <1>2 DEF RidesInv, RidersFollow
<1> QED
  BY <1>5, <1>6 DEF GraphInv

\* The table after the edit of a local inbound.
LEMMA EditedTable ==
  ASSUME GraphInv, NEW id, NEW tag \in InbTag, NEW kind \in InbKinds, NEW detour \in InbTag \cup {NoDetour},
         EditInbound(id, tag, kind, detour)
  PROVE  /\ id \in Local(inbs) /\ id \in DOMAIN inbs /\ tagFree(tag, id)
         /\ DOMAIN inbs' = DOMAIN inbs /\ Inbounds(inbs', lastInb) /\ Local(inbs)' = Local(inbs)
         /\ inbs'[id].tag = tag /\ inbs'[id].detour = detour
         /\ \A r \in DOMAIN inbs \ {id} :
              /\ inbs'[r].tag = inbs[r].tag /\ inbs'[r].kind = inbs[r].kind /\ inbs'[r].ver = inbs[r].ver
              /\ inbs'[r].detour = IF r \in Local(inbs) /\ inbs[r].detour = inbs[id].tag THEN tag ELSE inbs[r].detour
         /\ \A r \in DOMAIN inbs : inbs'[r].replica = inbs[r].replica
<1>0. GraphBase
  BY DEF GraphInv
<1> DEFINE old == inbs[id]
           i == [tag |-> tag, kind |-> kind, detour |-> detour, ver |-> old.ver + 1, replica |-> old.replica]
           riders == IF tag # old.tag THEN renameClientDetours(inbs, id, old.tag, tag) ELSE inbs
           table == [riders EXCEPT ![id] = i]
<1>1. id \in Local(inbs) /\ tagFree(tag, id) /\ inbs' = table
  BY DEF EditInbound
<1>2. id \in DOMAIN inbs /\ old \in InbRow /\ old.tag \in InbTag
  BY <1>0, <1>1, Fields
<1>3. i \in InbRow /\ i.tag = tag /\ i.kind = kind /\ i.detour = detour /\ i.replica = old.replica
  <2>1. old.ver \in Nat /\ old.ver + 1 \in Nat
    BY <1>2 DEF InbRow
  <2>2. i = [tag |-> tag, kind |-> kind, detour |-> detour, ver |-> old.ver + 1, replica |-> old.replica]
    OBVIOUS
  <2>3. old.replica \in BOOLEAN
    BY <1>2 DEF InbRow
  <2> HIDE DEF old, i
  <2>4. i \in InbRow
    BY <2>1, <2>2, <2>3 DEF InbRow
  <2> QED
    BY <2>2, <2>4
<1>4. DOMAIN riders = DOMAIN inbs /\ riders = [r \in DOMAIN inbs |-> riders[r]]
  <2>1. CASE tag # old.tag
    BY <2>1 DEF renameClientDetours
  <2>2. CASE tag = old.tag
    BY <1>0, <2>2 DEF GraphBase, Inbounds
  <2> QED
    BY <2>1, <2>2
<1>5. ASSUME NEW r \in DOMAIN inbs \ {id}
      PROVE  /\ riders[r] \in InbRow /\ riders[r].tag = inbs[r].tag /\ riders[r].kind = inbs[r].kind
             /\ riders[r].ver = inbs[r].ver /\ riders[r].replica = inbs[r].replica
             /\ riders[r].detour = IF r \in Local(inbs) /\ inbs[r].detour = old.tag THEN tag ELSE inbs[r].detour
  <2>0. inbs[r] \in InbRow
    BY <1>0, Fields
  <2>1. r \in clientDetourRiders(id, old.tag) <=> r \in Local(inbs) /\ inbs[r].detour = old.tag
    BY DEF clientDetourRiders
  <2>2. CASE tag # old.tag /\ r \in clientDetourRiders(id, old.tag)
    <3>1. riders[r] = [inbs[r] EXCEPT !.detour = tag]
      BY <2>2 DEF renameClientDetours
    <3> HIDE DEF riders, old
    <3>2. riders[r] \in InbRow /\ riders[r].detour = tag
      BY <2>0, <3>1 DEF InbRow
    <3>3. /\ riders[r].tag = inbs[r].tag /\ riders[r].kind = inbs[r].kind
          /\ riders[r].ver = inbs[r].ver /\ riders[r].replica = inbs[r].replica
      BY <2>0, <3>1 DEF InbRow
    <3> QED
      BY <2>1, <2>2, <3>2, <3>3
  <2>3. CASE ~ (tag # old.tag /\ r \in clientDetourRiders(id, old.tag))
    <3>1. riders[r] = inbs[r]
      BY <2>3 DEF renameClientDetours
    <3>2. (r \in Local(inbs) /\ inbs[r].detour = old.tag) => inbs[r].detour = tag
      BY <2>1, <2>3
    <3> HIDE DEF riders, old
    <3> QED
      BY <2>0, <3>1, <3>2
  <2> QED
    BY <2>2, <2>3
<1> HIDE DEF i, riders
<1>6. DOMAIN table = DOMAIN inbs /\ table[id] = i /\ \A r \in DOMAIN inbs \ {id} : table[r] = riders[r]
  BY <1>2, <1>4
<1>7. table = [r \in DOMAIN inbs |-> table[r]]
  BY <1>4, <1>6
<1> HIDE DEF table
<1>8. \A r \in DOMAIN inbs : table[r].replica = inbs[r].replica
  BY <1>3, <1>5, <1>6
<1>9. Local(table) = Local(inbs)
  BY <1>6, <1>8 DEF Local
<1>10. Inbounds(table, lastInb)
  <2>1. table \in [DOMAIN table -> InbRow]
    BY <1>3, <1>5, <1>6, <1>7
  <2>2. ASSUME NEW r \in DOMAIN inbs, NEW o \in DOMAIN inbs, table[r].tag = table[o].tag PROVE r = o
    <3>0. \A x \in DOMAIN inbs \ {id} : table[x].tag = inbs[x].tag /\ inbs[x].tag # tag
      BY <1>1, <1>5, <1>6 DEF tagFree
    <3>1. table[id].tag = tag
      BY <1>3, <1>6
    <3> QED
      BY <1>0, <2>2, <3>0, <3>1 DEF GraphBase, Inbounds
  <2> QED
    BY <1>0, <1>6, <2>1, <2>2 DEF GraphBase, Inbounds
<1> QED
  BY <1>1, <1>2, <1>3, <1>5, <1>6, <1>8, <1>9, <1>10

\* An inbound is edited.
LEMMA EditInboundKeeps ==
  ASSUME GraphInv, NEW id, NEW tag \in InbTag, NEW kind \in InbKinds, NEW detour \in InbTag \cup {NoDetour},
         EditInbound(id, tag, kind, detour)
  PROVE  GraphInv' /\ NodeLinksStay
<1>0. GraphBase /\ RidesInv
  BY DEF GraphInv
<1>1. /\ id \in Local(inbs) /\ id \in DOMAIN inbs /\ tagFree(tag, id)
      /\ DOMAIN inbs' = DOMAIN inbs /\ Inbounds(inbs', lastInb) /\ Local(inbs)' = Local(inbs)
      /\ inbs'[id].tag = tag /\ inbs'[id].detour = detour
      /\ \A r \in DOMAIN inbs \ {id} :
           /\ inbs'[r].tag = inbs[r].tag /\ inbs'[r].kind = inbs[r].kind /\ inbs'[r].ver = inbs[r].ver
           /\ inbs'[r].detour = IF r \in Local(inbs) /\ inbs[r].detour = inbs[id].tag THEN tag ELSE inbs[r].detour
  BY EditedTable
<1>2. PICK table : table = inbs'
  OBVIOUS
<1> DEFINE i == [tag |-> tag, kind |-> kind, detour |-> detour, ver |-> inbs[id].ver + 1, replica |-> inbs[id].replica]
<1>3. /\ clients' = UpdateLinksByInboundChange(table, {id}, inbs[id].tag, prefixOn)
      /\ rides' = RidesAfter(table, id, i)
      /\ UNCHANGED <<lastInb, form, pass, nodeName, prefixOn, overwritten>>
  BY <1>2 DEF EditInbound
<1>4. i.detour = detour
  OBVIOUS
<1> HIDE DEF i
<1>5. Local(table) = Local(inbs)
  BY <1>1, <1>2
<1>6. Relabels(table, {id}, inbs[id].tag, prefixOn)
  <2>1. \A r \in DOMAIN inbs \ {id} : inbs[r].tag # inbs[id].tag
    BY <1>0, <1>1 DEF GraphBase, Inbounds
  <2>2. \A r \in Local(inbs) : r \in DOMAIN inbs
    BY <1>0, Fields
  <2>3. /\ Inbounds(table, lastInb) /\ DOMAIN table = DOMAIN inbs
        /\ \A r \in DOMAIN inbs \ {id} : table[r].tag = inbs[r].tag /\ table[r].kind = inbs[r].kind /\ table[r].ver = inbs[r].ver
    BY <1>1, <1>2
  <2> QED
    BY <1>1, <1>5, <2>1, <2>2, <2>3 DEF Relabels
<1>7. GraphBase' /\ LinksInv' /\ FormInv' /\ PassInv' /\ NodeLinksStay
  BY <1>0, <1>2, <1>3, <1>6, LinksChange DEF GraphBase
<1>8. RidesInv'
  <2>1. DOMAIN rides' = DOMAIN inbs
    BY <1>1, <1>2, <1>3 DEF RidesAfter
  <2>2. ASSUME NEW r \in Local(inbs), rides'[r] # 0
        PROVE  rides'[r] \in Local(inbs) /\ inbs'[rides'[r]].tag = inbs'[r].detour
    <3>0. r \in DOMAIN inbs
      BY <1>0, Fields
    <3>1. CASE r = id
      <4> DEFINE t == DetourTarget(id, detour)
      <4>1. rides'[r] = IF t = {} THEN 0 ELSE CHOOSE x \in t : TRUE
        BY <1>1, <1>2, <1>3, <1>4, <3>0, <3>1 DEF RidesAfter
      <4>2. rides'[r] \in t
        BY <2>2, <4>1
      <4>3. rides'[r] \in Local(inbs) \ {id} /\ inbs[rides'[r]].tag = detour
        BY <4>2 DEF DetourTarget
      <4>4. rides'[r] \in DOMAIN inbs \ {id}
        BY <1>0, <4>3, Fields
      <4> QED
        BY <1>1, <3>1, <4>3, <4>4
    <3>2. CASE r # id /\ inbs'[r].detour = inbs'[id].tag /\ rides[r] = 0
      <4>1. rides'[r] = id \/ rides'[r] = rides[r]
        BY <1>1, <1>2, <1>3, <3>0, <3>2 DEF RidesAfter
      <4> QED
        BY <1>1, <2>2, <3>2, <4>1
    <3>3. CASE r # id /\ ~ (inbs'[r].detour = inbs'[id].tag /\ rides[r] = 0)
      <4>1. rides'[r] = rides[r]
        BY <1>1, <1>2, <1>3, <3>0, <3>3 DEF RidesAfter
      <4>2. rides[r] \in Local(inbs) /\ inbs[rides[r]].tag = inbs[r].detour
        BY <1>0, <2>2, <4>1 DEF RidesInv, RidersFollow
      <4>3. rides[r] \in DOMAIN inbs
        BY <1>0, <4>2, Fields
      <4>4. CASE rides[r] = id
        BY <1>1, <3>0, <3>3, <4>1, <4>2, <4>4
      <4>5. CASE rides[r] # id
        <5>1. inbs[rides[r]].tag # inbs[id].tag
          BY <1>0, <1>1, <4>3, <4>5 DEF GraphBase, Inbounds
        <5>2. inbs'[r].detour = inbs[r].detour /\ inbs'[rides[r]].tag = inbs[rides[r]].tag
          BY <1>1, <3>0, <3>3, <4>2, <4>3, <4>5, <5>1
        <5> QED
          BY <4>1, <4>2, <5>2
      <4> QED
        BY <4>4, <4>5
    <3> QED
      BY <3>1, <3>2, <3>3
  <2> QED
    BY <1>1, <2>1, <2>2 DEF RidesInv, RidersFollow
<1> QED
  BY <1>7, <1>8 DEF GraphInv

\* A table with one more inbound: nothing changes for those who are not on it.
LEMMA OneMoreInbound ==
  ASSUME GraphInv, NEW i \in InbRow, \A o \in DOMAIN inbs : inbs[o].tag # i.tag,
         NEW id, id = lastInb + 1, NEW table, table = Put(inbs, id, i)
  PROVE  /\ id \notin DOMAIN inbs /\ DOMAIN table = DOMAIN inbs \cup {id} /\ table[id] = i
         /\ \A o \in DOMAIN inbs : table[o] = inbs[o]
         /\ Inbounds(table, id)
         /\ \A o \in DOMAIN inbs : o \in Local(table) <=> o \in Local(inbs)
         /\ \A c \in ClientRows(lastInb) :
              /\ id \notin c.on /\ c \in ClientRows(id)
              /\ Current(c, inbs, prefixOn) => Current(c, table, prefixOn)
              /\ Bound(c, inbs, nodeName) => Bound(c, table, nodeName)
<1>0. GraphBase
  BY DEF GraphInv
<1>1. lastInb \in Nat /\ Inbounds(inbs, lastInb) /\ DOMAIN inbs \subseteq 1 .. lastInb
  BY <1>0 DEF GraphBase, Inbounds
<1>2. id \in Nat /\ id \notin 1 .. lastInb /\ 1 .. lastInb \subseteq 1 .. id /\ id \in 1 .. id
  BY <1>1
<1>3. id \notin DOMAIN inbs
  BY <1>1, <1>2
<1>4. table = [k \in DOMAIN inbs \cup {id} |-> IF k = id THEN i ELSE inbs[k]]
  BY DEF Put
<1>5. DOMAIN table = DOMAIN inbs \cup {id} /\ table[id] = i /\ \A o \in DOMAIN inbs : table[o] = inbs[o]
  BY <1>3, <1>4
<1>6. Inbounds(table, id)
  <2>1. table \in [DOMAIN table -> InbRow]
    BY <1>0, <1>3, <1>4, <1>5, Fields
  <2>2. DOMAIN table \subseteq 1 .. id
    BY <1>1, <1>2, <1>5
  <2>3. ASSUME NEW r \in DOMAIN table, NEW o \in DOMAIN table, table[r].tag = table[o].tag PROVE r = o
    BY <1>1, <1>5, <2>3 DEF Inbounds
  <2> QED
    BY <2>1, <2>2, <2>3 DEF Inbounds
<1>7. \A o \in DOMAIN inbs : o \in Local(table) <=> o \in Local(inbs)
  BY <1>5 DEF Local
<1>8. ASSUME NEW c \in ClientRows(lastInb)
      PROVE  /\ id \notin c.on /\ c \in ClientRows(id)
             /\ Current(c, inbs, prefixOn) => Current(c, table, prefixOn)
             /\ Bound(c, inbs, nodeName) => Bound(c, table, nodeName)
  <2>1. id \notin c.on
    <3>1. c.on \subseteq 1 .. lastInb
      BY DEF ClientRows
    <3> QED
      BY <1>2, <3>1
  <2>2. c \in ClientRows(id)
    <3>1. SUBSET (1 .. lastInb) \subseteq SUBSET (1 .. id)
      BY <1>2
    <3> QED
      BY <3>1 DEF ClientRows
  <2>3. /\ \A o : o \in c.on \cap Local(table) <=> o \in c.on \cap Local(inbs)
        /\ \A o : o \in (c.on \cap DOMAIN table) \ Local(table) <=> o \in (c.on \cap DOMAIN inbs) \ Local(inbs)
    <3>1. Local(table) \subseteq DOMAIN table /\ Local(inbs) \subseteq DOMAIN inbs
      BY DEF Local
    <3> QED
      BY <1>5, <1>7, <2>1, <3>1
  <2>4. \A o \in c.on \cap Local(inbs) : o \in DOMAIN inbs
    BY DEF Local
  <2>5. \A o : o \in WithLink(table, c.on \cap Local(table)) <=> o \in WithLink(inbs, c.on \cap Local(inbs))
    BY <1>5, <2>3, <2>4 DEF WithLink
  <2>6. \A o \in WithLink(inbs, c.on \cap Local(inbs)) : LocalLink(c, table[o], prefixOn) = LocalLink(c, inbs[o], prefixOn)
    BY <1>5, <2>4 DEF WithLink
  <2>7. ASSUME Current(c, inbs, prefixOn) PROVE Current(c, table, prefixOn)
    <3>1. ASSUME NEW l \in ToSet(c.links), l.type = "local"
          PROVE  \E o \in WithLink(table, c.on \cap Local(table)) : l = LocalLink(c, table[o], prefixOn)
      <4>1. PICK o \in WithLink(inbs, c.on \cap Local(inbs)) : l = LocalLink(c, inbs[o], prefixOn)
        BY <2>7, <3>1 DEF Current
      <4> QED
        BY <2>5, <2>6, <4>1
    <3>2. ASSUME NEW o \in WithLink(table, c.on \cap Local(table)) PROVE LocalLink(c, table[o], prefixOn) \in ToSet(c.links)
      <4>1. LocalLink(c, inbs[o], prefixOn) \in ToSet(c.links) /\ o \in WithLink(inbs, c.on \cap Local(inbs))
        BY <2>5, <2>7, <3>2 DEF Current
      <4> QED
        BY <2>6, <4>1
    <3> QED
      BY <2>7, <3>1, <3>2 DEF Current
  <2>8. ASSUME Bound(c, inbs, nodeName) PROVE Bound(c, table, nodeName)
    <3> SUFFICES ASSUME NEW l \in ToSet(c.links), l.type # "local", l # OwnLink
                 PROVE  \E o \in (c.on \cap DOMAIN table) \ Local(table) : l.remark = <<nodeName>> \o table[o].tag
      BY DEF Bound
    <3>1. PICK o \in (c.on \cap DOMAIN inbs) \ Local(inbs) : l.remark = <<nodeName>> \o inbs[o].tag
      BY <2>8 DEF Bound
    <3>2. o \in (c.on \cap DOMAIN table) \ Local(table) /\ table[o] = inbs[o]
      BY <1>5, <2>3
    <3> QED
      BY <3>1, <3>2
  <2> QED
    BY <2>1, <2>2, <2>7, <2>8
<1> QED
  BY <1>3, <1>5, <1>6, <1>7, <1>8

\* The pass does not notice a new inbound.
LEMMA PassMissesNewInbound ==
  ASSUME GraphInv, lastInb' = lastInb + 1, pass' = pass,
         DOMAIN inbs' = DOMAIN inbs \cup {lastInb + 1}, \A o \in DOMAIN inbs : inbs'[o] = inbs[o],
         \A o \in DOMAIN inbs : o \in Local(inbs)' <=> o \in Local(inbs)
  PROVE  PassInv'
<1>0. GraphBase /\ PassInv
  BY DEF GraphInv
<1>1. lastInb \in Nat /\ 1 .. lastInb \subseteq 1 .. lastInb' /\ lastInb + 1 \notin 1 .. lastInb
  BY <1>0 DEF GraphBase
<1>2. ASSUME pass.step # "idle"
      PROVE  /\ Inbounds(pass.of, lastInb')
             /\ \A id \in DOMAIN pass.of \cap DOMAIN inbs' : inbs'[id].tag = pass.of[id].tag /\ id \notin Local(inbs)'
  <2>1. Inbounds(pass.of, lastInb) /\ \A id \in DOMAIN pass.of \cap DOMAIN inbs : inbs[id].tag = pass.of[id].tag /\ id \notin Local(inbs)
    BY <1>0, <1>2 DEF PassInv
  <2>2. DOMAIN pass.of \subseteq 1 .. lastInb
    BY <2>1 DEF Inbounds
  <2>3. Inbounds(pass.of, lastInb')
    BY <1>1, <2>1, <2>2 DEF Inbounds
  <2>4. DOMAIN pass.of \cap DOMAIN inbs' \subseteq DOMAIN inbs
    BY <1>1, <2>2
  <2> QED
    BY <2>1, <2>3, <2>4
<1>3. ClientRows(lastInb) \subseteq ClientRows(lastInb')
  <2>1. SUBSET (1 .. lastInb) \subseteq SUBSET (1 .. lastInb')
    BY <1>1
  <2> QED
    BY <2>1 DEF ClientRows
<1>4. ASSUME pass.step = "clients"
      PROVE  pass.rows \in [DOMAIN pass.rows -> ClientRows(lastInb')]
  <2>1. pass.rows \in [DOMAIN pass.rows -> ClientRows(lastInb)]
    BY <1>0, <1>4 DEF PassInv
  <2> QED
    BY <1>3, <2>1
<1> QED
  BY <1>0, <1>2, <1>4 DEF PassInv

\* A client put on a new inbound.
RowAdded(c, d, i, id, table) ==
  /\ d \in ClientRows(id)
  /\ Current(c, inbs, prefixOn) => Current(d, table, prefixOn)
  /\ Bound(c, inbs, nodeName) => Bound(d, table, nodeName)

\* UpdateClientsOnInboundAdd gives it such a row.
LEMMA AddedRow ==
  ASSUME GraphInv, NEW i \in InbRow, i.replica = FALSE, \A o \in DOMAIN inbs : inbs[o].tag # i.tag,
         NEW id, id = lastInb + 1, NEW table, table = Put(inbs, id, i), NEW c \in ClientRows(lastInb), NEW d,
         d = [c EXCEPT !.on = @ \cup {id},
                       !.links = LocalLinks(c, table, {id}, prefixOn) \o Keep(@, {l \in ToSet(@) : l.remark # table[id].tag})]
  PROVE  RowAdded(c, d, i, id, table)
<1>0. GraphBase
  BY DEF GraphInv
<1>1. /\ id \notin DOMAIN inbs /\ DOMAIN table = DOMAIN inbs \cup {id} /\ table[id] = i
      /\ \A o \in DOMAIN inbs : table[o] = inbs[o]
      /\ Inbounds(table, id)
      /\ \A o \in DOMAIN inbs : o \in Local(table) <=> o \in Local(inbs)
      /\ id \notin c.on /\ c \in ClientRows(id)
      /\ Current(c, inbs, prefixOn) => Current(c, table, prefixOn)
      /\ Bound(c, inbs, nodeName) => Bound(c, table, nodeName)
  BY OneMoreInbound
<1>2. id \in Local(table) /\ Local(table) \subseteq DOMAIN table
  BY <1>1 DEF Local
<1> DEFINE made == LocalLinks(c, table, {id}, prefixOn)
           those == {l \in ToSet(c.links) : l.remark # table[id].tag}
           all == made \o Keep(c.links, those)
           on == c.on \cup {id}
<1>3. c.config \in Nat /\ c.links \in Seq(Link) /\ c.on \subseteq 1 .. id /\ id \in Nat /\ id \in 1 .. id
      /\ prefixOn \in BOOLEAN /\ nodeName \in NodeNames
  <2>1. c.config \in Nat /\ c.links \in Seq(Link) /\ c.on \subseteq 1 .. id
    BY <1>1 DEF ClientRows
  <2> QED
    BY <1>0, <2>1 DEF GraphBase
<1>4. made \in Seq(Link) /\ LocalOnce(made) /\ ToSet(made) = LocalSet(c, table, {id}, prefixOn)
  <2> DEFINE one == {id}
  <2>1. one \in SUBSET DOMAIN table
    BY <1>1
  <2> HIDE DEF one
  <2>2. /\ LocalLinks(c, table, one, prefixOn) \in Seq(Link) /\ LocalOnce(LocalLinks(c, table, one, prefixOn))
        /\ ToSet(LocalLinks(c, table, one, prefixOn)) = LocalSet(c, table, one, prefixOn)
        /\ genNodeReplicaLinks(c, table, one, nodeName, prefixOn) \in Seq(Link)
    BY <1>1, <1>3, <2>1, MadeLinks
  <2> QED
    BY <2>2 DEF one
<1>5. /\ \A l \in ToSet(made) : l = LocalLink(c, table[id], prefixOn) /\ id \in WithLink(table, {id})
      /\ id \in WithLink(table, {id}) => LocalLink(c, table[id], prefixOn) \in ToSet(made)
  BY <1>4 DEF LocalSet, WithLink
<1>6. \A o : LocalLink(c, table[o], prefixOn).type = "local" /\ LocalLink(c, table[o], prefixOn).remark = table[o].tag
  BY DEF LocalLink
<1>7. \A l : l \in those <=> l \in ToSet(c.links) /\ l.remark # table[id].tag
  OBVIOUS
<1>8. d = [c EXCEPT !.on = on, !.links = all]
  OBVIOUS
<1> HIDE DEF made, those
<1>9. /\ all \in Seq(Link) /\ ToSet(all) = ToSet(made) \cup (ToSet(c.links) \cap those)
      /\ LocalOnce(c.links) => LocalOnce(all)
  <2>1. \A x \in ToSet(made) \cap ToSet(c.links) : x \in those => x.type # "local"
    BY <1>5, <1>6, <1>7
  <2> QED
    BY <1>3, <1>4, <2>1, LinksOver
<1>10. on \in SUBSET (1 .. id)
  BY <1>3
<1> HIDE DEF all, on
<1>11. d \in ClientRows(id) /\ d.on = on /\ d.config = c.config /\ d.links = all
  BY <1>1, <1>8, <1>9, <1>10 DEF ClientRows
<1>12. ASSUME Current(c, table, prefixOn) PROVE Current(d, table, prefixOn)
  <2>1. \A x : LocalLink(d, x, prefixOn) = LocalLink(c, x, prefixOn)
    BY <1>11 DEF LocalLink, Uri
  <2>2. \A o : o \in WithLink(table, on \cap Local(table)) <=>
                 o \in WithLink(table, c.on \cap Local(table)) \/ (o = id /\ id \in WithLink(table, {id}))
    BY <1>2 DEF WithLink, on
  <2>3. ASSUME NEW l \in ToSet(d.links), l.type = "local"
        PROVE  \E o \in WithLink(table, d.on \cap Local(table)) : l = LocalLink(d, table[o], prefixOn)
    <3>1. CASE l \in ToSet(made)
      BY <1>5, <1>11, <2>1, <2>2, <3>1
    <3>2. CASE l \in ToSet(c.links)
      <4>1. PICK o \in WithLink(table, c.on \cap Local(table)) : l = LocalLink(c, table[o], prefixOn)
        BY <1>12, <2>3, <3>2 DEF Current
      <4>2. l = LocalLink(d, table[o], prefixOn) /\ o \in WithLink(table, d.on \cap Local(table))
        BY <1>11, <2>1, <2>2, <4>1
      <4> QED
        BY <4>2
    <3> QED
      BY <1>9, <1>11, <2>3, <3>1, <3>2
  <2>4. ASSUME NEW o \in WithLink(table, d.on \cap Local(table)) PROVE LocalLink(d, table[o], prefixOn) \in ToSet(d.links)
    <3>0. LocalLink(d, table[o], prefixOn) = LocalLink(c, table[o], prefixOn)
      BY <2>1
    <3>1. CASE o \in WithLink(table, c.on \cap Local(table))
      <4> DEFINE l == LocalLink(c, table[o], prefixOn)
      <4>1. l \in ToSet(c.links)
        BY <1>12, <3>1 DEF Current
      <4>2. o \in DOMAIN table /\ o # id
        BY <1>1, <1>2, <3>1 DEF WithLink
      <4>3. l.remark = table[o].tag /\ table[o].tag # table[id].tag
        BY <1>1, <1>6, <4>2 DEF Inbounds
      <4> HIDE DEF l
      <4>4. l \in ToSet(all)
        BY <1>7, <1>9, <4>1, <4>3
      <4> QED
        BY <1>11, <3>0, <4>4 DEF l
    <3>2. CASE o = id /\ id \in WithLink(table, {id})
      BY <1>5, <1>9, <1>11, <3>0, <3>2
    <3> QED
      BY <1>11, <2>2, <2>4, <3>1, <3>2
  <2>5. LocalOnce(d.links)
    BY <1>9, <1>11, <1>12 DEF Current
  <2> QED
    BY <2>3, <2>4, <2>5 DEF Current
<1>13. ASSUME Bound(c, table, nodeName) PROVE Bound(d, table, nodeName)
  <2> SUFFICES ASSUME NEW l \in ToSet(d.links), l.type # "local", l # OwnLink
               PROVE  \E o \in (d.on \cap DOMAIN table) \ Local(table) : l.remark = <<nodeName>> \o table[o].tag
    BY DEF Bound
  <2>1. l \in ToSet(c.links)
    BY <1>5, <1>6, <1>9, <1>11
  <2>2. PICK o \in (c.on \cap DOMAIN table) \ Local(table) : l.remark = <<nodeName>> \o table[o].tag
    BY <1>13, <2>1 DEF Bound
  <2>3. o \in d.on
    BY <1>11 DEF on
  <2> QED
    BY <2>2, <2>3
<1> QED
  BY <1>1, <1>11, <1>12, <1>13 DEF RowAdded

\* An inbound is added.
LEMMA NewInboundKeeps ==
  ASSUME GraphInv, NEW i \in InbRows, NEW users, NewInbound(i, users)
  PROVE  GraphInv' /\ NodeLinksStay
<1>0. GraphBase /\ LinksInv /\ FormInv /\ RidesInv
  BY DEF GraphInv
<1>1. i \in InbRow /\ i.replica = FALSE
  <2>1. i \in [tag : InbTag, kind : InbKinds, detour : InbTag \cup {NoDetour}, ver : {0}, replica : {FALSE}]
    BY DEF InbRows
  <2>2. i.replica = FALSE
    BY <2>1
  <2>3. \A v : v \in {0} => v \in Nat
    OBVIOUS
  <2>4. \A v : v \in {FALSE} => v \in BOOLEAN
    OBVIOUS
  <2>5. i \in InbRow
    BY <2>1, <2>3, <2>4 DEF InbRow
  <2> QED
    BY <2>2, <2>5
<1> DEFINE id == lastInb + 1
           table == Put(inbs, id, i)
           row(n) == [clients[n] EXCEPT !.on = @ \cup {id},
                        !.links = LocalLinks(clients[n], table, {id}, prefixOn) \o Keep(@, {l \in ToSet(@) : l.remark # table[id].tag})]
<1>2. /\ tagFree(i.tag, id) /\ inbs' = table /\ lastInb' = id
      /\ clients' = UpdateClientsOnInboundAdd(table, users, id)
      /\ rides' = RidesAfter(table, id, i)
      /\ UNCHANGED <<form, pass, nodeName, prefixOn, overwritten>>
  BY DEF NewInbound
<1>3. clients' = [n \in DOMAIN clients |-> IF n \notin users THEN clients[n] ELSE row(n)]
  BY <1>2 DEF UpdateClientsOnInboundAdd
<1>4. \A o \in DOMAIN inbs : o \in 1 .. lastInb /\ inbs[o].tag # i.tag
  <2>1. \A o \in DOMAIN inbs : o \in 1 .. lastInb /\ lastInb \in Nat
    BY <1>0, Fields DEF GraphBase
  <2>2. \A o \in DOMAIN inbs : o # id
    BY <2>1
  <2> QED
    BY <1>2, <2>1, <2>2 DEF tagFree
<1>5. /\ id \notin DOMAIN inbs /\ DOMAIN table = DOMAIN inbs \cup {id} /\ table[id] = i
      /\ \A o \in DOMAIN inbs : table[o] = inbs[o]
      /\ Inbounds(table, id)
      /\ \A o \in DOMAIN inbs : o \in Local(table) <=> o \in Local(inbs)
      /\ \A c \in ClientRows(lastInb) :
           /\ id \notin c.on /\ c \in ClientRows(id)
           /\ Current(c, inbs, prefixOn) => Current(c, table, prefixOn)
           /\ Bound(c, inbs, nodeName) => Bound(c, table, nodeName)
  <2>1. id = lastInb + 1 /\ table = Put(inbs, id, i)
    OBVIOUS
  <2>2. \A o \in DOMAIN inbs : inbs[o].tag # i.tag
    BY <1>4
  <2> HIDE DEF id, table, row
  <2> QED
    BY <1>1, <2>1, <2>2, OneMoreInbound
<1>6. ASSUME NEW n \in DOMAIN clients
      PROVE  /\ row(n) \in ClientRows(id)
             /\ Current(clients[n], inbs, prefixOn) => Current(row(n), table, prefixOn)
             /\ Bound(clients[n], inbs, nodeName) => Bound(row(n), table, nodeName)
  <2> DEFINE c == clients[n]
             d == row(n)
  <2>1. c \in ClientRows(lastInb)
    BY <1>0, Fields
  <2>2. /\ id = lastInb + 1 /\ table = Put(inbs, id, i)
        /\ d = [c EXCEPT !.on = @ \cup {id},
                         !.links = LocalLinks(c, table, {id}, prefixOn) \o Keep(@, {l \in ToSet(@) : l.remark # table[id].tag})]
    OBVIOUS
  <2> HIDE DEF id, table, c, d
  <2>3. RowAdded(c, d, i, id, table)
    <3>1. \A o \in DOMAIN inbs : inbs[o].tag # i.tag
      BY <1>4
    <3> QED
      BY <1>1, <2>1, <2>2, <3>1, AddedRow
  <2> HIDE DEF row
  <2> QED
    BY <2>3 DEF c, d, RowAdded
<1> HIDE DEF row
<1>7. DOMAIN clients' = DOMAIN clients /\ \A n \in DOMAIN clients : clients'[n] = IF n \notin users THEN clients[n] ELSE row(n)
  BY <1>3
<1> HIDE DEF id, table
<1>8. ASSUME NEW n \in DOMAIN clients
      PROVE  /\ clients'[n] \in ClientRows(id)
             /\ Current(clients[n], inbs, prefixOn) => Current(clients'[n], table, prefixOn)
             /\ Bound(clients[n], inbs, nodeName) => Bound(clients'[n], table, nodeName)
  <2>1. CASE n \in users
    BY <1>6, <1>7, <2>1
  <2>2. CASE n \notin users
    <3>1. clients'[n] = clients[n] /\ clients[n] \in ClientRows(lastInb)
      BY <1>0, <1>7, <2>2, Fields
    <3> QED
      BY <1>5, <3>1
  <2> QED
    BY <2>1, <2>2
<1>9. clients' \in [DOMAIN clients' -> ClientRows(id)]
  <2>1. clients' = [n \in DOMAIN clients |-> clients'[n]]
    BY <1>3
  <2> QED
    BY <1>7, <1>8, <2>1
<1>10. GraphBase'
  <2>1. id \in Nat
    BY <1>0 DEF id, GraphBase
  <2> QED
    BY <1>0, <1>2, <1>5, <1>7, <1>9, <2>1 DEF GraphBase
<1>11. LinksInv'
  BY <1>0, <1>2, <1>7, <1>8 DEF LinksInv
<1>12. FormInv'
  BY <1>0, <1>2 DEF FormInv
<1>13. Local(inbs)' = Local(table)
  BY <1>2
<1>14. PassInv'
  <2>1. lastInb' = lastInb + 1 /\ DOMAIN inbs' = DOMAIN inbs \cup {lastInb + 1}
    BY <1>2, <1>5 DEF id
  <2> QED
    BY <1>2, <1>5, <1>13, <2>1, PassMissesNewInbound
<1>15. RidesInv'
  <2>1. DOMAIN rides' = DOMAIN table
    BY <1>2 DEF RidesAfter
  <2>2. id \in Local(table) /\ Local(table) \subseteq DOMAIN table
    BY <1>1, <1>5 DEF Local
  <2>3. ASSUME NEW r \in Local(table), rides'[r] # 0
        PROVE  rides'[r] \in Local(table) /\ table[rides'[r]].tag = table[r].detour
    <3>0. r \in DOMAIN table
      BY <2>2
    <3>1. CASE r = id
      <4> DEFINE t == DetourTarget(id, i.detour)
      <4>1. rides'[r] = IF t = {} THEN 0 ELSE CHOOSE x \in t : TRUE
        BY <1>2, <3>0, <3>1 DEF RidesAfter
      <4>2. rides'[r] \in t
        BY <2>3, <4>1
      <4>3. rides'[r] \in Local(inbs) \ {id} /\ inbs[rides'[r]].tag = i.detour
        BY <4>2 DEF DetourTarget
      <4>4. rides'[r] \in DOMAIN inbs
        BY <1>0, <4>3, Fields
      <4> QED
        BY <1>5, <3>1, <4>3, <4>4
    <3>2. CASE r # id /\ table[r].detour = table[id].tag /\ rides[r] = 0
      <4>1. rides'[r] = id \/ rides'[r] = rides[r]
        BY <1>2, <3>0, <3>2 DEF RidesAfter
      <4> QED
        BY <2>2, <2>3, <3>2, <4>1
    <3>3. CASE r # id /\ ~ (table[r].detour = table[id].tag /\ rides[r] = 0)
      <4>1. rides'[r] = rides[r]
        BY <1>2, <3>0, <3>3 DEF RidesAfter
      <4>2. r \in DOMAIN inbs /\ r \in Local(inbs)
        BY <1>5, <3>0, <3>3
      <4>3. rides[r] \in Local(inbs) /\ inbs[rides[r]].tag = inbs[r].detour
        BY <1>0, <2>3, <4>1, <4>2 DEF RidesInv, RidersFollow
      <4>4. rides[r] \in DOMAIN inbs
        BY <1>0, <4>3, Fields
      <4> QED
        BY <1>5, <4>1, <4>2, <4>3, <4>4
    <3> QED
      BY <3>1, <3>2, <3>3
  <2> QED
    BY <1>2, <1>13, <2>1, <2>3 DEF RidesInv, RidersFollow
<1>16. inbs' # inbs
  BY <1>2, <1>5
<1> QED
  BY <1>10, <1>11, <1>12, <1>14, <1>15, <1>16 DEF GraphInv, NodeLinksStay

\* A replica is adopted.
LEMMA AdoptKeeps ==
  ASSUME GraphInv, NEW tag \in InbTag, NEW kind \in InbKinds, Adopt(tag, kind)
  PROVE  GraphInv' /\ NodeLinksStay
<1>0. GraphBase /\ LinksInv /\ FormInv /\ RidesInv
  BY DEF GraphInv
<1> DEFINE id == lastInb + 1
           i == [tag |-> tag, kind |-> kind, detour |-> NoDetour, ver |-> 0, replica |-> TRUE]
           table == Put(inbs, id, i)
<1>1. /\ tagFree(tag, 0) /\ inbs' = table /\ rides' = Put(rides, id, 0) /\ lastInb' = id
      /\ UNCHANGED <<clients, form, pass, nodeName, prefixOn, overwritten>>
  BY DEF Adopt
<1>2. i \in InbRow /\ i.tag = tag /\ i.replica = TRUE
  BY DEF InbRow
<1>3. id = lastInb + 1 /\ table = Put(inbs, id, i)
  OBVIOUS
<1> HIDE DEF i
<1>4. \A o \in DOMAIN inbs : inbs[o].tag # i.tag
  <2>1. \A o \in DOMAIN inbs : o \in 1 .. lastInb /\ lastInb \in Nat
    BY <1>0, Fields DEF GraphBase
  <2>2. \A o \in DOMAIN inbs : o # 0
    BY <2>1
  <2> QED
    BY <1>1, <1>2, <2>2 DEF tagFree
<1> HIDE DEF id, table
<1>5. /\ id \notin DOMAIN inbs /\ DOMAIN table = DOMAIN inbs \cup {id} /\ table[id] = i
      /\ \A o \in DOMAIN inbs : table[o] = inbs[o]
      /\ Inbounds(table, id)
      /\ \A o \in DOMAIN inbs : o \in Local(table) <=> o \in Local(inbs)
      /\ \A c \in ClientRows(lastInb) :
           /\ id \notin c.on /\ c \in ClientRows(id)
           /\ Current(c, inbs, prefixOn) => Current(c, table, prefixOn)
           /\ Bound(c, inbs, nodeName) => Bound(c, table, nodeName)
  BY <1>2, <1>3, <1>4, OneMoreInbound
<1>6. clients \in [DOMAIN clients -> ClientRows(id)]
  BY <1>0, <1>5 DEF GraphBase
<1>7. GraphBase'
  <2>1. id \in Nat
    BY <1>0 DEF id, GraphBase
  <2> QED
    BY <1>0, <1>1, <1>5, <1>6, <2>1 DEF GraphBase
<1>8. LinksInv'
  <2>1. \A n \in DOMAIN clients : clients[n] \in ClientRows(lastInb)
    BY <1>0, Fields
  <2> QED
    BY <1>0, <1>1, <1>5, <2>1 DEF LinksInv
<1>9. FormInv'
  BY <1>0, <1>1 DEF FormInv
<1>10. Local(inbs)' = Local(table)
  BY <1>1
<1>11. PassInv'
  <2>1. lastInb' = lastInb + 1 /\ DOMAIN inbs' = DOMAIN inbs \cup {lastInb + 1}
    BY <1>1, <1>5 DEF id
  <2> QED
    BY <1>1, <1>5, <1>10, <2>1, PassMissesNewInbound
<1>12. RidesInv'
  <2>1. DOMAIN rides = DOMAIN inbs
    BY <1>0 DEF RidesInv
  <2>2. DOMAIN rides' = DOMAIN table /\ \A r \in DOMAIN inbs : rides'[r] = rides[r]
    BY <1>1, <1>5, <2>1 DEF Put
  <2>3. id \notin Local(table) /\ Local(table) \subseteq DOMAIN table
    BY <1>2, <1>5 DEF Local
  <2>4. ASSUME NEW r \in Local(table), rides'[r] # 0
        PROVE  rides'[r] \in Local(table) /\ table[rides'[r]].tag = table[r].detour
    <3>1. r \in DOMAIN inbs /\ r \in Local(inbs) /\ rides'[r] = rides[r]
      BY <1>5, <2>2, <2>3
    <3>2. rides[r] \in Local(inbs) /\ inbs[rides[r]].tag = inbs[r].detour
      BY <1>0, <2>4, <3>1 DEF RidesInv, RidersFollow
    <3>3. rides[r] \in DOMAIN inbs
      BY <1>0, <3>2, Fields
    <3> QED
      BY <1>5, <3>1, <3>2, <3>3
  <2> QED
    BY <1>1, <1>10, <2>2, <2>4 DEF RidesInv, RidersFollow
<1>13. inbs' # inbs
  BY <1>1, <1>5
<1> QED
  BY <1>7, <1>8, <1>9, <1>11, <1>12, <1>13 DEF GraphInv, NodeLinksStay

\* A row a client that was on a deleted inbound is left with.
RowOff(c, d, id, rest) ==
  /\ d \in ClientRows(lastInb)
  /\ Current(c, inbs, prefixOn) /\ ~ HasLocal(c, <<nodeName>> \o inbs[id].tag) => Current(d, rest, prefixOn)
  /\ Bound(c, inbs, nodeName) => Bound(d, rest, nodeName)

\* UpdateClientsOnInboundDelete gives it such a row.
LEMMA DroppedRow ==
  ASSUME GraphBase, NEW id \in DOMAIN inbs, NEW rest, rest = [r \in DOMAIN inbs \ {id} |-> inbs[r]],
         NEW c \in ClientRows(lastInb), NEW d,
         d = [c EXCEPT !.on = @ \ {id},
                       !.links = Keep(@, {l \in ToSet(@) : l.remark # inbs[id].tag /\ ~isNodeLinkFor(l.remark, inbs[id].tag, nodeName)})]
  PROVE  RowOff(c, d, id, rest)
<1> DEFINE tag == inbs[id].tag
           those == {l \in ToSet(c.links) : l.remark # tag /\ ~isNodeLinkFor(l.remark, tag, nodeName)}
           all == Keep(c.links, those)
           on == c.on \ {id}
<1>1. c.on \subseteq 1 .. lastInb /\ c.config \in Nat /\ c.links \in Seq(Link)
  BY DEF ClientRows
<1>2. d = [c EXCEPT !.on = on, !.links = all]
  OBVIOUS
<1>3. \A l : l \in those <=> l \in ToSet(c.links) /\ l.remark # tag /\ ~isNodeLinkFor(l.remark, tag, nodeName)
  OBVIOUS
<1>4. DOMAIN rest = DOMAIN inbs \ {id} /\ \A r \in DOMAIN rest : rest[r] = inbs[r]
  OBVIOUS
<1> HIDE DEF those, tag
<1>5. all \in Seq(Link) /\ ToSet(all) = ToSet(c.links) \cap those /\ (LocalOnce(c.links) => LocalOnce(all))
  BY <1>1, KeptLinks
<1>6. on \in SUBSET (1 .. lastInb)
  BY <1>1
<1> HIDE DEF all, on
<1>7. d \in ClientRows(lastInb) /\ d.on = on /\ d.config = c.config /\ d.links = all
  BY <1>2, <1>5, <1>6 DEF ClientRows
<1>8. \A r : r \in Local(rest) <=> r \in Local(inbs) /\ r # id
  BY <1>4 DEF Local
<1>9. \A x : LocalLink(d, x, prefixOn) = LocalLink(c, x, prefixOn) /\ LocalLink(c, x, prefixOn).remark = x.tag
             /\ LocalLink(c, x, prefixOn).type = "local"
  BY <1>7 DEF LocalLink, Uri
<1>10. \A r : r \in WithLink(rest, d.on \cap Local(rest)) <=> r \in WithLink(inbs, c.on \cap Local(inbs)) /\ r # id
  <2>1. \A r : r \in Local(rest) => r \in DOMAIN rest
    BY DEF Local
  <2> QED
    BY <1>4, <1>7, <1>8, <2>1 DEF WithLink, on
<1>11. \A r \in WithLink(rest, d.on \cap Local(rest)) : r \in DOMAIN inbs /\ rest[r] = inbs[r]
  BY <1>4, <1>8 DEF WithLink, Local
<1>12. ASSUME Current(c, inbs, prefixOn), ~ HasLocal(c, <<nodeName>> \o inbs[id].tag)
       PROVE  Current(d, rest, prefixOn)
  <2>1. ASSUME NEW l \in ToSet(d.links), l.type = "local"
        PROVE  \E r \in WithLink(rest, d.on \cap Local(rest)) : l = LocalLink(d, rest[r], prefixOn)
    <3>1. l \in ToSet(c.links) /\ l.remark # tag
      BY <1>3, <1>5, <1>7, <2>1
    <3>2. PICK r \in WithLink(inbs, c.on \cap Local(inbs)) : l = LocalLink(c, inbs[r], prefixOn)
      BY <1>12, <2>1, <3>1 DEF Current
    <3>3. r # id
      BY <1>9, <3>1, <3>2 DEF tag
    <3>4. r \in WithLink(rest, d.on \cap Local(rest)) /\ rest[r] = inbs[r]
      BY <1>10, <1>11, <3>2, <3>3
    <3> QED
      BY <1>9, <3>2, <3>4
  <2>2. ASSUME NEW r \in WithLink(rest, d.on \cap Local(rest)) PROVE LocalLink(d, rest[r], prefixOn) \in ToSet(d.links)
    <3> DEFINE l == LocalLink(c, inbs[r], prefixOn)
    <3>1. r \in WithLink(inbs, c.on \cap Local(inbs)) /\ r # id /\ r \in DOMAIN inbs /\ rest[r] = inbs[r]
      BY <1>10, <1>11, <2>2
    <3>2. l \in ToSet(c.links) /\ l.remark = inbs[r].tag /\ l.type = "local" /\ LocalLink(d, rest[r], prefixOn) = l
      BY <1>9, <1>12, <3>1 DEF Current
    <3>3. inbs[r].tag # tag
      BY <3>1 DEF GraphBase, Inbounds, tag
    <3> HIDE DEF l
    <3>4. ~ isNodeLinkFor(l.remark, tag, nodeName)
      BY <1>12, <3>2 DEF HasLocal, isNodeLinkFor, ToSet, tag
    <3> QED
      BY <1>3, <1>5, <1>7, <3>2, <3>3, <3>4
  <2> QED
    BY <1>5, <1>7, <1>12, <2>1, <2>2 DEF Current
<1>13. ASSUME Bound(c, inbs, nodeName) PROVE Bound(d, rest, nodeName)
  <2> SUFFICES ASSUME NEW l \in ToSet(d.links), l.type # "local", l # OwnLink
               PROVE  \E r \in (d.on \cap DOMAIN rest) \ Local(rest) : l.remark = <<nodeName>> \o rest[r].tag
    BY DEF Bound
  <2>1. l \in ToSet(c.links) /\ ~isNodeLinkFor(l.remark, tag, nodeName)
    BY <1>3, <1>5, <1>7
  <2>2. PICK r \in (c.on \cap DOMAIN inbs) \ Local(inbs) : l.remark = <<nodeName>> \o inbs[r].tag
    BY <1>13, <2>1 DEF Bound
  <2>3. r # id
    BY <2>1, <2>2 DEF isNodeLinkFor, tag
  <2>4. r \in (d.on \cap DOMAIN rest) \ Local(rest) /\ rest[r] = inbs[r]
    BY <1>4, <1>7, <1>8, <2>3 DEF on
  <2> QED
    BY <2>2, <2>4
<1> QED
  BY <1>7, <1>12, <1>13 DEF RowOff

\* A client that is not on it keeps its row.
LEMMA RowNotOn ==
  ASSUME GraphBase, NEW id \in DOMAIN inbs, NEW rest, rest = [r \in DOMAIN inbs \ {id} |-> inbs[r]], NEW c, id \notin c.on
  PROVE  /\ Current(c, inbs, prefixOn) => Current(c, rest, prefixOn)
         /\ Bound(c, inbs, nodeName) => Bound(c, rest, nodeName)
<1>1. DOMAIN rest = DOMAIN inbs \ {id} /\ \A r \in DOMAIN rest : rest[r] = inbs[r]
  OBVIOUS
<1>2. \A r : r \in Local(rest) <=> r \in Local(inbs) /\ r # id
  BY <1>1 DEF Local
<1>3. Local(rest) \subseteq DOMAIN rest
  BY DEF Local
<1>4. \A r : r \in WithLink(rest, c.on \cap Local(rest)) <=> r \in WithLink(inbs, c.on \cap Local(inbs))
  BY <1>1, <1>2, <1>3 DEF WithLink
<1>5. \A r \in WithLink(inbs, c.on \cap Local(inbs)) : LocalLink(c, rest[r], prefixOn) = LocalLink(c, inbs[r], prefixOn)
  <2>1. \A r \in WithLink(inbs, c.on \cap Local(inbs)) : r \in DOMAIN rest
    BY <1>2, <1>3 DEF WithLink
  <2> QED
    BY <1>1, <2>1
<1>6. ASSUME Current(c, inbs, prefixOn) PROVE Current(c, rest, prefixOn)
  <2>1. ASSUME NEW l \in ToSet(c.links), l.type = "local"
        PROVE  \E r \in WithLink(rest, c.on \cap Local(rest)) : l = LocalLink(c, rest[r], prefixOn)
    <3>1. PICK r \in WithLink(inbs, c.on \cap Local(inbs)) : l = LocalLink(c, inbs[r], prefixOn)
      BY <1>6, <2>1 DEF Current
    <3> QED
      BY <1>4, <1>5, <3>1
  <2>2. ASSUME NEW r \in WithLink(rest, c.on \cap Local(rest)) PROVE LocalLink(c, rest[r], prefixOn) \in ToSet(c.links)
    <3>1. r \in WithLink(inbs, c.on \cap Local(inbs)) /\ LocalLink(c, inbs[r], prefixOn) \in ToSet(c.links)
      BY <1>4, <1>6, <2>2 DEF Current
    <3> QED
      BY <1>5, <3>1
  <2> QED
    BY <1>6, <2>1, <2>2 DEF Current
<1>7. ASSUME Bound(c, inbs, nodeName) PROVE Bound(c, rest, nodeName)
  <2> SUFFICES ASSUME NEW l \in ToSet(c.links), l.type # "local", l # OwnLink
               PROVE  \E r \in (c.on \cap DOMAIN rest) \ Local(rest) : l.remark = <<nodeName>> \o rest[r].tag
    BY DEF Bound
  <2>1. PICK r \in (c.on \cap DOMAIN inbs) \ Local(inbs) : l.remark = <<nodeName>> \o inbs[r].tag
    BY <1>7 DEF Bound
  <2>2. r \in (c.on \cap DOMAIN rest) \ Local(rest) /\ rest[r] = inbs[r]
    BY <1>1, <1>2
  <2> QED
    BY <2>1, <2>2
<1> QED
  BY <1>6, <1>7

\* An inbound is deleted.
LEMMA DelInboundKeeps ==
  ASSUME GraphInv, NEW id, DelInbound(id)
  PROVE  GraphInv' /\ NodeLinksStay
<1>0. GraphBase /\ LinksInv /\ FormInv /\ PassInv /\ RidesInv
  BY DEF GraphInv
<1> DEFINE rest == [r \in DOMAIN inbs \ {id} |-> inbs[r]]
           row(n) == [clients[n] EXCEPT !.on = @ \ {id},
                        !.links = Keep(@, {l \in ToSet(@) : l.remark # inbs[id].tag /\ ~isNodeLinkFor(l.remark, inbs[id].tag, nodeName)})]
<1>1. /\ id \in DOMAIN inbs /\ (inbs[id].replica \/ clientDetourRiders(id, inbs[id].tag) = {})
      /\ clients' = UpdateClientsOnInboundDelete(id, inbs[id].tag)
      /\ inbs' = rest /\ rides' = [r \in DOMAIN inbs \ {id} |-> rides[r]]
      /\ overwritten' = overwritten \cup {n \in On(id) : HasLocal(clients[n], <<nodeName>> \o inbs[id].tag)}
      /\ UNCHANGED <<lastInb, form, pass, nodeName, prefixOn>>
  BY DEF DelInbound
<1>2. clients' = [n \in DOMAIN clients |-> IF n \notin On(id) THEN clients[n] ELSE row(n)]
  BY <1>1 DEF UpdateClientsOnInboundDelete
<1>3. DOMAIN rest = DOMAIN inbs \ {id} /\ \A r \in DOMAIN rest : rest[r] = inbs[r]
  OBVIOUS
<1>4. rest \in [DOMAIN rest -> InbRow]
  BY <1>0, Fields
<1>5. ASSUME NEW n \in DOMAIN clients PROVE RowOff(clients[n], row(n), id, rest)
  <2> DEFINE c == clients[n]
             d == row(n)
  <2>1. c \in ClientRows(lastInb)
    BY <1>0, Fields
  <2>2. /\ rest = [r \in DOMAIN inbs \ {id} |-> inbs[r]]
        /\ d = [c EXCEPT !.on = @ \ {id},
                         !.links = Keep(@, {l \in ToSet(@) : l.remark # inbs[id].tag /\ ~isNodeLinkFor(l.remark, inbs[id].tag, nodeName)})]
    OBVIOUS
  <2> HIDE DEF rest, c, d
  <2>3. RowOff(c, d, id, rest)
    BY <1>0, <1>1, <2>1, <2>2, DroppedRow
  <2> HIDE DEF row
  <2> QED
    BY <2>3 DEF c, d
<1>6. ASSUME NEW n \in DOMAIN clients, n \notin On(id)
      PROVE  /\ Current(clients[n], inbs, prefixOn) => Current(clients[n], rest, prefixOn)
             /\ Bound(clients[n], inbs, nodeName) => Bound(clients[n], rest, nodeName)
  <2> DEFINE c == clients[n]
  <2>1. id \notin c.on
    BY <1>6 DEF On
  <2>2. rest = [r \in DOMAIN inbs \ {id} |-> inbs[r]]
    OBVIOUS
  <2> HIDE DEF rest, c
  <2>3. (Current(c, inbs, prefixOn) => Current(c, rest, prefixOn)) /\ (Bound(c, inbs, nodeName) => Bound(c, rest, nodeName))
    BY <1>0, <1>1, <2>1, <2>2, RowNotOn
  <2> QED
    BY <2>3 DEF c
<1> HIDE DEF rest, row
<1>7. DOMAIN clients' = DOMAIN clients /\ \A n \in DOMAIN clients : clients'[n] = IF n \notin On(id) THEN clients[n] ELSE row(n)
  BY <1>2
<1>8. clients' \in [DOMAIN clients' -> ClientRows(lastInb)]
  <2>1. \A n \in DOMAIN clients : row(n) \in ClientRows(lastInb) /\ clients[n] \in ClientRows(lastInb)
    BY <1>0, <1>5, Fields DEF RowOff
  <2> QED
    BY <1>2, <1>7, <2>1
<1>9. On(id) \subseteq DOMAIN clients
  BY DEF On
<1>10. GraphBase'
  <2>1. Inbounds(rest, lastInb)
    BY <1>0, <1>3, <1>4 DEF GraphBase, Inbounds
  <2>2. overwritten' \subseteq DOMAIN clients'
    BY <1>0, <1>1, <1>7, <1>9 DEF GraphBase
  <2> QED
    BY <1>0, <1>1, <1>7, <1>8, <2>1, <2>2 DEF GraphBase
<1>11. ASSUME NEW n \in DOMAIN clients' \ overwritten'
       PROVE  Current(clients'[n], rest, prefixOn) /\ Bound(clients'[n], rest, nodeName)
  <2>1. n \in DOMAIN clients /\ n \notin overwritten
    BY <1>1, <1>7
  <2>2. Current(clients[n], inbs, prefixOn) /\ Bound(clients[n], inbs, nodeName)
    BY <1>0, <2>1 DEF LinksInv
  <2>3. CASE n \in On(id)
    <3>1. ~ HasLocal(clients[n], <<nodeName>> \o inbs[id].tag)
      BY <1>1, <1>11, <2>3
    <3> QED
      BY <1>5, <1>7, <2>1, <2>2, <2>3, <3>1 DEF RowOff
  <2>4. CASE n \notin On(id)
    BY <1>6, <1>7, <2>1, <2>2, <2>4
  <2> QED
    BY <2>3, <2>4
<1>12. LinksInv'
  BY <1>1, <1>11 DEF LinksInv
<1>13. FormInv'
  BY <1>0, <1>1 DEF FormInv
<1>14. \A r : r \in Local(rest) <=> r \in Local(inbs) /\ r # id
  BY <1>3 DEF Local
<1>15. Local(inbs)' = Local(rest)
  BY <1>1
<1>16. PassInv'
  BY <1>0, <1>1, <1>3, <1>14, <1>15 DEF PassInv
<1>17. RidesInv'
  <2>1. DOMAIN rides' = DOMAIN rest /\ \A r \in DOMAIN rest : rides'[r] = rides[r]
    BY <1>1, <1>3
  <2>2. ASSUME NEW r \in Local(rest), rides'[r] # 0
        PROVE  rides'[r] \in Local(rest) /\ rest[rides'[r]].tag = rest[r].detour
    <3>1. r \in Local(inbs) /\ r # id /\ r \in DOMAIN inbs /\ r \in DOMAIN rest
      BY <1>0, <1>3, <1>14, Fields
    <3>2. rides[r] \in Local(inbs) /\ inbs[rides[r]].tag = inbs[r].detour /\ rides'[r] = rides[r]
      BY <1>0, <2>1, <2>2, <3>1 DEF RidesInv, RidersFollow
    <3>3. rides[r] # id
      <4>1. ASSUME rides[r] = id PROVE FALSE
        <5>1. id \in Local(inbs) /\ inbs[id].tag = inbs[r].detour
          BY <3>2, <4>1
        <5>2. ~ inbs[id].replica
          BY <5>1 DEF Local
        <5>3. r \in clientDetourRiders(id, inbs[id].tag)
          BY <3>1, <5>1 DEF clientDetourRiders
        <5> QED
          BY <1>1, <5>2, <5>3
      <4> QED
        BY <4>1
    <3>4. rides[r] \in Local(rest) /\ rides[r] \in DOMAIN rest
      BY <1>0, <1>3, <1>14, <3>2, <3>3, Fields
    <3> QED
      BY <1>3, <3>1, <3>2, <3>4
  <2> QED
    BY <1>1, <1>15, <2>1, <2>2 DEF RidesInv, RidersFollow
<1>18. inbs' # inbs
  BY <1>1, <1>3
<1> QED
  BY <1>10, <1>12, <1>13, <1>16, <1>17, <1>18 DEF GraphInv, NodeLinksStay

\* A replica takes its node's new definition.
LEMMA RefreshReplicaKeeps ==
  ASSUME GraphInv, NEW id, NEW kind \in InbKinds, RefreshReplica(id, kind)
  PROVE  GraphInv' /\ NodeLinksStay
<1>0. GraphBase /\ LinksInv /\ FormInv /\ PassInv /\ RidesInv
  BY DEF GraphInv
<1>1. PICK table : inbs' = table
  OBVIOUS
<1>2. /\ id \in DOMAIN inbs /\ inbs[id].replica
      /\ table = [inbs EXCEPT ![id].kind = kind, ![id].ver = @ + 1]
      /\ UNCHANGED <<lastInb, clients, form, pass, nodeName, prefixOn, overwritten, rides>>
  BY <1>1 DEF RefreshReplica
<1>3. inbs[id] \in InbRow /\ inbs = [r \in DOMAIN inbs |-> inbs[r]] /\ \A r \in DOMAIN inbs : inbs[r] \in InbRow
  BY <1>0, <1>2, Fields DEF GraphBase, Inbounds
<1>4. DOMAIN table = DOMAIN inbs /\ \A r \in DOMAIN inbs \ {id} : table[r] = inbs[r]
  BY <1>2, <1>3
<1>5. table[id] = [inbs[id] EXCEPT !.kind = kind, !.ver = inbs[id].ver + 1]
  BY <1>2, <1>3 DEF InbRow
<1>6. table[id] \in InbRow
  <2> DEFINE old == inbs[id]
             new == table[id]
             v == inbs[id].ver + 1
  <2>1. old \in InbRow /\ new = [old EXCEPT !.kind = kind, !.ver = v]
    BY <1>3, <1>5
  <2>2. v \in Nat
    BY <1>3 DEF InbRow
  <2> HIDE DEF old, new, v
  <2>3. [old EXCEPT !.kind = kind] \in InbRow
    BY <2>1 DEF InbRow
  <2>4. [[old EXCEPT !.kind = kind] EXCEPT !.ver = v] \in InbRow
    BY <2>2, <2>3 DEF InbRow
  <2>5. new \in InbRow
    BY <2>1, <2>4
  <2> QED
    BY <2>5 DEF new
<1>7. table[id].tag = inbs[id].tag /\ table[id].detour = inbs[id].detour
  BY <1>3, <1>5 DEF InbRow
<1>8. table[id].replica = inbs[id].replica
  BY <1>3, <1>5 DEF InbRow
<1>9. id \notin Local(inbs) /\ id \notin Local(table)
  BY <1>2, <1>8 DEF Local
<1>10. Local(table) = Local(inbs)
  BY <1>4, <1>9 DEF Local
<1>11. \A r \in Local(inbs) : r \in DOMAIN inbs /\ table[r] = inbs[r]
  BY <1>0, <1>4, <1>9, Fields
<1>12. table = [r \in DOMAIN inbs |-> table[r]]
  BY <1>2, <1>3
<1>13. Inbounds(table, lastInb)
  <2>1. table \in [DOMAIN table -> InbRow]
    BY <1>3, <1>4, <1>6, <1>12
  <2> QED
    BY <1>0, <1>4, <1>7, <2>1 DEF GraphBase, Inbounds
<1>14. \A ids \in SUBSET Local(inbs) : WithLink(table, ids) = WithLink(inbs, ids)
  BY <1>11 DEF WithLink
<1>15. \A r \in DOMAIN inbs : table[r].tag = inbs[r].tag
  BY <1>4, <1>7
<1>16. GraphBase'
  BY <1>0, <1>1, <1>2, <1>13 DEF GraphBase
<1>17. ASSUME NEW n \in DOMAIN clients \ overwritten
       PROVE  Current(clients[n], table, prefixOn) /\ Bound(clients[n], table, nodeName)
  <2> DEFINE c == clients[n]
  <2>1. Current(c, inbs, prefixOn) /\ Bound(c, inbs, nodeName)
    BY <1>0 DEF LinksInv
  <2> HIDE DEF c
  <2>2. WithLink(table, c.on \cap Local(table)) = WithLink(inbs, c.on \cap Local(inbs))
    BY <1>10, <1>14
  <2>3. \A r \in WithLink(inbs, c.on \cap Local(inbs)) : table[r] = inbs[r]
    BY <1>11 DEF WithLink
  <2>4. Current(c, table, prefixOn)
    BY <2>1, <2>2, <2>3 DEF Current
  <2>5. Bound(c, table, nodeName)
    BY <1>4, <1>10, <1>15, <2>1 DEF Bound
  <2> QED
    BY <2>4, <2>5 DEF c
<1>18. LinksInv'
  BY <1>1, <1>2, <1>17 DEF LinksInv
<1>19. FormInv'
  BY <1>0, <1>2 DEF FormInv
<1>20. Local(inbs)' = Local(inbs)
  BY <1>1, <1>10
<1>21. PassInv'
  BY <1>0, <1>1, <1>2, <1>4, <1>15, <1>20 DEF PassInv
<1>22. RidesInv'
  BY <1>0, <1>1, <1>2, <1>4, <1>11, <1>15, <1>20 DEF RidesInv, RidersFollow
<1>23. NodeLinksStay
  BY <1>2 DEF NodeLinksStay
<1> QED
  BY <1>16, <1>18, <1>19, <1>21, <1>22, <1>23 DEF GraphInv

\* Nothing changes.
LEMMA GraphStutters ==
  ASSUME GraphInv, UNCHANGED graphVars
  PROVE  GraphInv' /\ NodeLinksStay
<1>1. UNCHANGED <<inbs, lastInb, clients, form, pass, nodeName, prefixOn, overwritten, rides>>
  BY DEF graphVars
<1>2. GraphBase' /\ LinksInv' /\ FormInv'
  BY <1>1 DEF GraphInv, GraphBase, LinksInv, FormInv
<1>3. PassInv' /\ RidesInv'
  BY <1>1 DEF GraphInv, PassInv, RidesInv, RidersFollow
<1> QED
  BY <1>1, <1>2, <1>3 DEF GraphInv, NodeLinksStay

\* Every step keeps the invariant, and takes no node link that it should not.
LEMMA GraphStepKeeps ==
  ASSUME GraphInv, [GraphNext]_graphVars
  PROVE  GraphInv' /\ NodeLinksStay
<1>1. ASSUME GraphSave PROVE GraphInv' /\ NodeLinksStay
  <2>1. ASSUME NEW i \in InbRows, NEW users \in SUBSET ListClient, NewInbound(i, users) PROVE GraphInv' /\ NodeLinksStay
    BY <2>1, NewInboundKeeps
  <2>2. ASSUME NEW id \in DOMAIN inbs, NEW tag \in InbTag, NEW kind \in InbKinds, NEW detour \in InbTag \cup {NoDetour},
               EditInbound(id, tag, kind, detour)
        PROVE  GraphInv' /\ NodeLinksStay
    BY <2>2, EditInboundKeeps
  <2>3. ASSUME NEW id \in DOMAIN inbs, DelInbound(id) PROVE GraphInv' /\ NodeLinksStay
    BY <2>3, DelInboundKeeps
  <2>4. ASSUME TlsEdit \/ RebuildLocalLinks PROVE GraphInv' /\ NodeLinksStay
    BY <2>4, TlsEditKeeps, RebuildLocalLinksKeeps
  <2>5. ASSUME NEW n \in ListClient, NEW on \in SUBSET (1..lastInb), NewClient(n, on) PROVE GraphInv' /\ NodeLinksStay
    BY <2>5, NewClientKeeps
  <2>6. ASSUME NEW on \in SUBSET (1..lastInb), NEW config \in {0, 1}, EditLinkedClient(on, config) PROVE GraphInv' /\ NodeLinksStay
    BY <2>6, EditClientKeeps
  <2>7. ASSUME NEW batch \in SUBSET ListClient, NEW on \in SUBSET (1..lastInb), EditLinkedBulk(batch, on) PROVE GraphInv' /\ NodeLinksStay
    BY <2>7, EditBulkKeeps
  <2>8. ASSUME NEW batch \in SUBSET ListClient, DelClients(batch) PROVE GraphInv' /\ NodeLinksStay
    BY <2>8, DelClientsKeeps
  <2>9. ASSUME NEW tag \in InbTag, NEW kind \in InbKinds, Adopt(tag, kind) PROVE GraphInv' /\ NodeLinksStay
    BY <2>9, AdoptKeeps
  <2>10. ASSUME NEW id \in DOMAIN inbs, NEW kind \in InbKinds, RefreshReplica(id, kind) PROVE GraphInv' /\ NodeLinksStay
    BY <2>10, RefreshReplicaKeeps
  <2>11. ASSUME NEW new \in NodeNames, RenameNode(new) PROVE GraphInv' /\ NodeLinksStay
    BY <2>11, RenameNodeKeeps
  <2> QED
    BY <1>1, <2>1, <2>2, <2>3, <2>4, <2>5, <2>6, <2>7, <2>8, <2>9, <2>10, <2>11 DEF GraphSave
<1>2. ASSUME GraphStep PROVE GraphInv' /\ NodeLinksStay
  BY <1>2, LoadFormKeeps, PassStartsKeeps, PassReadsKeeps, PassEndsKeeps, PassWritesKeeps DEF GraphStep
<1>3. ASSUME UNCHANGED graphVars PROVE GraphInv' /\ NodeLinksStay
  BY <1>3, GraphStutters
<1> QED
  BY <1>1, <1>2, <1>3 DEF GraphNext

\* Whatever order inbounds, TLS rows, settings, clients and the node are saved in while passes of
\* refreshNodeLinks run, and whatever old tabs clients are saved from: a client's local links are those
\* of its local inbounds, its node links those of its replicas, a detour keeps meaning the inbound
\* it was saved for, and a save of clients takes no node link of a replica they are still on.
THEOREM LinksAreSafe == GraphSpec => LinkSafety
<1>1. GraphInit => GraphInv
  BY GraphInitial
<1>2. GraphInv /\ [GraphNext]_graphVars => GraphInv'
  BY GraphStepKeeps
<1> DEFINE Facts == GraphTypeOK /\ LocalLinksCurrent /\ NodeLinksBound /\ RidersFollow
           Stays == [inbs' = inbs /\ pass' = pass /\ nodeName' = nodeName =>
                       \A n \in DOMAIN clients \cap DOMAIN clients' : \A id \in (clients'[n].on \cap DOMAIN inbs) \ Local(inbs) :
                         \A l \in ToSet(clients[n].links) : isNodeLinkFor(l.remark, inbs[id].tag, nodeName) /\ l.type # "local"
                                                              => l \in ToSet(clients'[n].links)]_graphVars
<1>3. GraphInv => Facts
  BY LinksInvIs
<1>4. GraphInv /\ [GraphNext]_graphVars => Stays
  BY GraphStepKeeps DEF NodeLinksStay
<1>5. GraphSpec => []Facts
  <2> HIDE DEF Facts
  <2> QED
    BY <1>1, <1>2, <1>3, PTL DEF GraphSpec
<1>6. GraphSpec => SaveKeepsNodeLinks
  BY <1>1, <1>2, <1>4, PTL DEF GraphSpec, SaveKeepsNodeLinks
<1> QED
  BY <1>5, <1>6 DEF LinkSafety
=============================================================================
