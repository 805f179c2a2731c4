--------------------------- MODULE ObjectManagers ---------------------------
(***************************************************************************)
(* The managers of the running box (core/managers.go, core/scopes.go), the *)
(* start of a box in stages (core/box.go), and the saves that change it in *)
(* place (core/endpoint.go; service/outbounds.go, endpoints.go and         *)
(* inbounds.go, whose service counterpart behaves as inbounds do).         *)
(*                                                                         *)
(* Saves take the database's write lock at BEGIN, so one is under way at a *)
(* time.  The box may be closed between any two steps of it: ConfigService *)
(* keeps a stop out with startMu, the managers do not rely on that.  What  *)
(* a component's Start does is external: it may fail, before or after it   *)
(* took its port; it needs its port free and what it depends on present.   *)
(***************************************************************************)
EXTENDS Naturals, Sequences, FiniteSets, SequencesExt

CONSTANTS
  ObjSpec,     \* what may be saved: [kind, tag, deps, port], port 0 for none
  FinalTags,   \* the values of route.final; "" for unset
  MaxObj,      \* bound: components at a time, those a save builds included
  MaxRows,     \* bound: rows of the initial database
  MaxChanges,  \* bound: saves
  MaxFaults    \* bound: starts that fail for reasons of their own

\* An object has a tag; inbounds depend on nothing.  No endpoint has the tag of
\* the fallback outbound: startOutbounds counts what it started by tag.
ASSUME ManagerConstants ==
  /\ \A s \in ObjSpec :
       /\ s.kind \in {"out", "end", "in"} /\ s.tag # "" /\ s.port \in Nat
       /\ s.kind = "in" => s.deps = {}
       /\ s.kind = "end" => s.tag # "direct"
  /\ {MaxObj, MaxRows, MaxChanges, MaxFaults} \subseteq Nat
  /\ MaxRows <= MaxObj

VARIABLES
  mRows,     \* the saved rows of each kind, by id
  mObj,      \* what each component was built from
  mList,     \* the list of each manager, in start order
  mRecipe,   \* the tags a manager holds a recipe of
  mOpen,     \* the components with a scope entry
  mHeld,     \* the components with a cleanup that has not run
  mRes,      \* what each resolved its dependencies to when it started
  mOver,     \* ghost: the components that resolved the one they replace, nothing refusing a name of its own
  mDefault,  \* defaultOutbound, 0 for nil
  mFinal,    \* route.final (defaultTag)
  mBox,      \* "new", "starting", "running" or "closed"
  mPending,  \* a restart waits (restartQueued)
  mOp,       \* the change under way
  mCount,    \* saves and faults so far
  mLost,     \* ghost: a component could not be brought back, or taken back
  mMoved,    \* ghost: an outbound was renamed, or the box had none but the fallback
  mStale     \* ghost: a save was written that the core did not judge as a restart will

mgrVars == <<mRows, mObj, mList, mRecipe, mOpen, mHeld, mRes, mOver, mDefault, mFinal, mBox, mPending, mOp, mCount, mLost, mMoved, mStale>>

ObjKind == {"out", "end", "in"}
ObjId == 1 .. MaxObj
Direct == [kind |-> "out", tag |-> "direct", deps |-> {}, port |-> 0]
NoOp == [pc |-> "idle"]

-----------------------------------------------------------------------------
(* The tables. *)

TagOf(i) == mObj[i].tag
\* componentTable.get and all.
Holding(k, tag) == {i \in ToSet(mList[k]) : TagOf(i) = tag}
\* Outbound: an outbound, or else an endpoint of that tag.
Lookup(tag) == IF Holding("out", tag) # {} THEN Holding("out", tag) ELSE Holding("end", tag)
\* Default.
DefaultOutbound == IF mFinal # "" /\ Lookup(mFinal) # {} THEN Lookup(mFinal) ELSE {mDefault} \ {0}
\* dependents: outbounds and endpoints.
dependents(tag) == {i \in ToSet(mList["out"]) \cup ToSet(mList["end"]) : tag \in mObj[i].deps}
\* refuse: what others depend on, and on a removal what route.final names.
refuse(k, tag, removing) == k \in {"out", "end"} /\ (dependents(tag) # {} \/ (removing /\ tag = mFinal))

Used == UNION {ToSet(mList[k]) : k \in ObjKind} \cup mOpen \cup mHeld \cup UNION {mRes[i] : i \in ObjId}
FreshId == CHOOSE i \in ObjId \ Used : \A j \in ObjId \ Used : i <= j
HasRoom == ObjId \ Used # {}

\* replaced and dropped: the default follows a replacement, and falls to the
\* first outbound left.
DefaultReplaced(old, new) == IF mDefault = old THEN new ELSE mDefault
DefaultDropped(it, left) == IF mDefault # it THEN mDefault ELSE IF left # <<>> THEN left[1] ELSE 0

\* Where an element is, and the sequence without what is there (slices.Index,
\* slices.DeleteFunc: no element is there twice).
At(s, e) == CHOOSE n \in DOMAIN s : s[n] = e
WithoutAt(s, n) == [m \in 1 .. Len(s) - 1 |-> IF m < n THEN s[m] ELSE s[m + 1]]
Without(s, e) == IF e \in ToSet(s) THEN WithoutAt(s, At(s, e)) ELSE s

\* swap: in the old one's place; the old one's recipe goes, the new one's comes, if
\* it has one.
Swapped(k, old, new) == [mList EXCEPT ![k] = [n \in DOMAIN @ |-> IF @[n] = old THEN new ELSE @[n]]]
swap(k, old, new, recipe) ==
  /\ mList' = Swapped(k, old, new)
  /\ mRecipe' = [mRecipe EXCEPT ![k] = (@ \ {TagOf(old)}) \cup recipe]
  /\ mDefault' = IF k = "out" THEN DefaultReplaced(old, new) ELSE mDefault
\* add: at the end; the first outbound, or route.final, becomes the default.
add(k, new, tag) ==
  /\ mList' = [mList EXCEPT ![k] = Append(@, new)]
  /\ mRecipe' = [mRecipe EXCEPT ![k] = @ \cup {tag}]
  /\ mDefault' = IF k = "out" /\ (tag = mFinal \/ (mFinal = "" /\ mDefault = 0)) THEN new ELSE mDefault
recipesLeft(k, it) == [mRecipe EXCEPT ![k] = @ \ {TagOf(it)}]
drop(k, it) ==
  /\ mList' = [mList EXCEPT ![k] = Without(mList[k], it)]
  /\ mRecipe' = recipesLeft(k, it)
  /\ mDefault' = IF k = "out" THEN DefaultDropped(it, Without(mList["out"], it)) ELSE mDefault

-----------------------------------------------------------------------------
(* The database, and what a restart would make of it. *)

RowsOf(k) == ToSet(mRows[k])
DialerRows == RowsOf("out") \cup RowsOf("end")
\* tagFreeAcross: tags are unique in a table, and endpoints share theirs with
\* both outbounds and inbounds.
Shares(k) == CASE k = "end" -> ObjKind [] OTHER -> {k, "end"}
tagFreeAcross(k, tag, row) == \A j \in Shares(k) : \A s \in RowsOf(j) : s.tag = tag => j = k /\ s = row
RowsAfter(do, k, row, new) ==
  CASE do = "new" -> [mRows EXCEPT ![k] = Append(@, new)]
    [] do = "edit" -> [mRows EXCEPT ![k] = [mRows[k] EXCEPT ![At(mRows[k], row)] = new]]
    [] OTHER -> [mRows EXCEPT ![k] = Without(mRows[k], row)]
\* What startOutbounds needs: every dependency there, and none circular, so that
\* of any tags one depends on none of the others.
Startable(specs) ==
  LET Tags == {s.tag : s \in specs} IN
  /\ \A s \in specs : s.deps \subseteq Tags
  /\ \A T \in SUBSET Tags : T # {} => \E t \in T : \A s \in specs : s.tag = t => s.deps \cap T = {}
\* checkDependencies: what leads from the new dependencies, the least set closed
\* under dependencies, exists and does not hold the tag.
Reached(from) ==
  LET Onwards(C) == UNION {mObj[i].deps : i \in UNION {Lookup(t) : t \in C}}
      Around == from \cup UNION {mObj[i].deps : i \in ToSet(mList["out"]) \cup ToSet(mList["end"])}
  IN {t \in Around : \A C \in SUBSET Around : from \subseteq C /\ Onwards(C) \subseteq C => t \in C}
checkDependencies(tag, deps) == tag \notin Reached(deps) /\ \A d \in Reached(deps) : Lookup(d) # {}

-----------------------------------------------------------------------------
(* The start of a box.  NewBox builds the components; a duplicate tag cannot *)
(* happen, the rows being unique. *)

RowCount(f) == Len(f["out"]) + Len(f["end"]) + Len(f["in"])
BoxRows == mRows["out"] \o mRows["end"] \o mRows["in"]
Numbered(k) ==
  LET before == CASE k = "out" -> 0 [] k = "end" -> Len(mRows["out"]) [] OTHER -> Len(mRows["out"]) + Len(mRows["end"])
  IN [n \in DOMAIN mRows[k] |-> before + n]
NewBox ==
  /\ mBox = "new"
  /\ mBox' = "starting"
  /\ mObj' = [i \in ObjId |-> IF i <= Len(BoxRows) THEN BoxRows[i] ELSE Direct]
  /\ mList' = [k \in ObjKind |-> Numbered(k)]
  /\ mRecipe' = [k \in ObjKind |-> {s.tag : s \in RowsOf(k)}]
  /\ mDefault' = IF mFinal = "" /\ mRows["out"] # <<>> THEN 1
                 ELSE IF \E n \in DOMAIN mRows["out"] : mRows["out"][n].tag = mFinal
                      THEN CHOOSE n \in DOMAIN mRows["out"] : mRows["out"][n].tag = mFinal ELSE 0
  /\ mOp' = [pc |-> "initialize", started |-> {}]
  /\ UNCHANGED <<mRows, mOpen, mHeld, mRes, mOver, mFinal, mPending, mCount, mLost, mMoved, mStale>>

\* Box.Close: every cleanup runs, whatever each one does (closeGuarded).
\* scopeSet.Close.
BoxClose ==
  /\ mBox' = "closed" /\ mOpen' = {} /\ mHeld' = mHeld \ mOpen

\* StartStateInitialize: route.final must name something; a box with no
\* default gets a direct outbound, which has no recipe.
Initialize ==
  /\ mBox = "starting" /\ mOp.pc = "initialize"
  /\ \/ /\ mFinal # "" /\ mDefault = 0 /\ Holding("end", mFinal) = {}
        /\ BoxClose /\ mOp' = NoOp
        /\ UNCHANGED <<mObj, mList, mDefault, mMoved>>
     \/ /\ mFinal # "" => mDefault # 0 \/ Holding("end", mFinal) # {}
        /\ HasRoom
        /\ LET needed == mFinal = "" /\ mDefault = 0
               id == FreshId
               list == IF needed THEN [mList EXCEPT !["out"] = Append(@, id)] ELSE mList
           IN /\ mList' = list
              /\ mMoved' = (mMoved \/ needed)
              /\ mObj' = IF needed THEN [mObj EXCEPT ![id] = Direct] ELSE mObj
              /\ mDefault' = IF needed THEN id
                             ELSE IF mDefault = 0 THEN CHOOSE e \in Holding("end", mFinal) : TRUE ELSE mDefault
              /\ mOpen' = UNION {ToSet(list[k]) : k \in ObjKind}
        /\ mOp' = [pc |-> "startOne", started |-> {}]
        /\ UNCHANGED <<mBox, mHeld>>
  /\ UNCHANGED <<mRows, mRecipe, mRes, mOver, mFinal, mPending, mCount, mLost, mStale>>

PortFree(i) == \A j \in mHeld : mObj[j].port = 0 \/ mObj[j].port # mObj[i].port
Present(i) == \A d \in mObj[i].deps : Lookup(d) # {}
Faulty == mCount[2] < MaxFaults
StartFault == mCount' = [mCount EXCEPT ![2] = @ + 1]

\* startOutbounds: the first outbound, then endpoint, whose dependencies have
\* started; then the inbounds, in order.
Ready(i) == mObj[i].deps \subseteq {TagOf(j) : j \in mOp.started}
Dialers == mList["out"] \o mList["end"]
Eligible ==
  LET next == {n \in DOMAIN Dialers : Dialers[n] \notin mOp.started /\ Ready(Dialers[n])}
      rest == {n \in DOMAIN mList["in"] : mList["in"][n] \notin mOp.started}
      First(S) == CHOOSE n \in S : \A m \in S : n <= m
  IN IF ToSet(Dialers) \subseteq mOp.started
     THEN IF rest = {} THEN {} ELSE {mList["in"][First(rest)]}
     ELSE IF next = {} THEN {} ELSE {Dialers[First(next)]}
StartOne ==
  /\ mBox = "starting" /\ mOp.pc = "startOne"
  /\ \E i \in Eligible :
       \/ /\ PortFree(i)
          /\ mOp' = [mOp EXCEPT !.started = @ \cup {i}]
          /\ mHeld' = mHeld \cup {i}
          /\ mRes' = [mRes EXCEPT ![i] = UNION {Lookup(d) : d \in mObj[i].deps}]
          /\ UNCHANGED <<mBox, mOpen, mCount>>
       \/ /\ PortFree(i) => Faulty
          /\ IF PortFree(i) THEN StartFault ELSE UNCHANGED mCount
          /\ BoxClose /\ mOp' = NoOp /\ UNCHANGED mRes
  /\ UNCHANGED <<mRows, mObj, mList, mRecipe, mOver, mDefault, mFinal, mPending, mLost, mMoved, mStale>>
\* A cycle or a missing dependency: lintOutbound names it and the start fails.
StartStuck ==
  /\ mBox = "starting" /\ mOp.pc = "startOne" /\ Eligible = {} /\ ~ ToSet(Dialers) \subseteq mOp.started
  /\ BoxClose /\ mOp' = NoOp
  /\ UNCHANGED <<mRows, mObj, mList, mRecipe, mRes, mOver, mDefault, mFinal, mPending, mCount, mLost, mMoved, mStale>>
\* PostStart and Started change nothing the model keeps.
Started ==
  /\ mBox = "starting" /\ mOp.pc = "startOne" /\ Eligible = {} /\ ToSet(Dialers) \subseteq mOp.started
  /\ mBox' = "running" /\ mOp' = NoOp
  /\ UNCHANGED <<mRows, mObj, mList, mRecipe, mOpen, mHeld, mRes, mOver, mDefault, mFinal, mPending, mCount, mLost, mMoved, mStale>>

-----------------------------------------------------------------------------
(* A save. op: do ("new", "edit", "del"), kind, row (the saved one), spec,   *)
(* pc, old (the component being replaced), new (the one being started), why  *)
(* ("put", "restore", "standIn") and then ("add", "rename" of an outbound).  *)

\* What a restart may not have of what a save can depend on: the object itself,
\* under its old tag or its new one, and the fallback.
Passing(op) == {op.row.tag, op.spec.tag} \cup ({"direct"} \ mRecipe["out"])
\* The end of a save: the row is written, or everything is rolled back.
Commit(op, restart) ==
  /\ mRows' = RowsAfter(op.do, op.kind, op.row, op.spec)
  /\ mPending' = (mPending \/ restart)
  /\ mStale' = (mStale \/ mPending \/ mLost \/ mBox # "running" \/ op.spec.deps \cap Passing(op) # {})
  /\ mOp' = NoOp
Rollback == mOp' = NoOp /\ UNCHANGED <<mRows, mPending, mStale>>
tableVars == <<mObj, mList, mRecipe, mOpen, mHeld, mRes, mOver, mDefault>>
ghostVars == <<mLost, mMoved>>

\* close of the old component, then the entry of the new one: catchUp.
Build(op, spec, old, why) ==
  LET id == FreshId IN
  /\ HasRoom
  /\ mObj' = [mObj EXCEPT ![id] = spec]
  /\ mRes' = [mRes EXCEPT ![id] = {}] /\ mOver' = mOver \ {id}
  /\ mOp' = [op EXCEPT !.pc = "entry", !.old = old, !.new = id, !.why = why]
  /\ mOpen' = IF why = "put" THEN mOpen \ {old} ELSE mOpen
  /\ mHeld' = IF why = "put" THEN mHeld \ ({old} \cap mOpen) ELSE mHeld

\* componentTable.create and rename, up to the start of the new component.
create(op, old) ==
  \/ old # 0 /\ refuse(op.kind, op.spec.tag, FALSE)
     /\ Rollback /\ UNCHANGED tableVars
  \/ /\ old = 0 \/ ~ refuse(op.kind, op.spec.tag, FALSE)
     /\ Build(op, op.spec, old, "put")
     /\ UNCHANGED <<mList, mRecipe, mDefault, mRows, mPending, mStale>>
IdOf(k, tag) == IF Holding(k, tag) = {} THEN 0 ELSE CHOOSE i \in Holding(k, tag) : TRUE
rename(op) ==
  LET old == IdOf(op.kind, op.row.tag) IN
  IF old = 0 THEN create(op, IdOf(op.kind, op.spec.tag))
  ELSE \/ /\ Holding(op.kind, op.spec.tag) # {} \/ refuse(op.kind, op.row.tag, TRUE)
          /\ Rollback /\ UNCHANGED tableVars
       \/ /\ Holding(op.kind, op.spec.tag) = {} /\ ~ refuse(op.kind, op.row.tag, TRUE)
          /\ Build(op, op.spec, old, "put")
          /\ UNCHANGED <<mList, mRecipe, mDefault, mRows, mPending, mStale>>

\* fallbackForLast.
standIn(k, it) == k = "out" /\ mFinal = "" /\ mList["out"] = <<it>>
\* drop, then close.
TakeDown(k, it) ==
  /\ drop(k, it)
  /\ mOpen' = mOpen \ {it} /\ mHeld' = mHeld \ ({it} \cap mOpen)
  /\ UNCHANGED <<mObj, mRes, mOver>>
\* componentTable.remove: an unknown tag is os.ErrInvalid, which a save ignores.
remove(op, tag) ==
  LET it == IdOf(op.kind, tag) IN
  \/ it = 0 /\ Commit(op, FALSE) /\ UNCHANGED tableVars
  \/ it # 0 /\ refuse(op.kind, tag, TRUE) /\ Rollback /\ UNCHANGED tableVars
  \/ /\ it # 0 /\ ~ refuse(op.kind, tag, TRUE) /\ standIn(op.kind, it)
     /\ Build(op, Direct, it, "standIn")
     /\ UNCHANGED <<mList, mRecipe, mDefault, mRows, mPending, mStale>>
  \/ /\ it # 0 /\ ~ refuse(op.kind, tag, TRUE) /\ ~ standIn(op.kind, it)
     /\ TakeDown(op.kind, it) /\ Commit(op, FALSE)

NewOp(do, k, row, spec) ==
  [do |-> do, kind |-> k, row |-> row, spec |-> spec, pc |-> "entry", old |-> 0, new |-> 0, why |-> "put"]
CountSave == mCount' = [mCount EXCEPT ![1] = @ + 1]
CanSave == mBox \in {"running", "closed"} /\ mOp = NoOp /\ mCount[1] < MaxChanges

\* "new".
SaveNew(s) ==
  /\ CanSave /\ CountSave /\ RowCount(mRows) < MaxObj - 2
  /\ tagFreeAcross(s.kind, s.tag, s) /\ s \notin RowsOf(s.kind)
  /\ LET op == NewOp("new", s.kind, s, s) IN
     \/ mBox = "running" /\ create(op, IdOf(s.kind, s.tag))
     \/ mBox = "closed" /\ Commit(op, FALSE) /\ UNCHANGED tableVars
  /\ UNCHANGED <<mFinal, mBox, ghostVars>>

\* "edit": nothing when it is saved as it was and the core holds it; through a
\* restart when something depends on it; else replaced or renamed in place.  An
\* outbound is renamed by starting the new one before the old one goes.
SaveEdit(k, row, s) ==
  /\ CanSave /\ CountSave
  /\ row \in RowsOf(k) /\ s.kind = k /\ tagFreeAcross(k, s.tag, row)
  /\ LET op == NewOp("edit", k, row, s)
         held == IdOf(k, row.tag)
     IN
     \/ mBox = "closed" /\ Commit(op, FALSE) /\ UNCHANGED <<tableVars, mMoved>>
     \/ /\ mBox = "running" /\ k # "in" /\ s = row /\ held # 0
        /\ Commit(op, FALSE) /\ UNCHANGED <<tableVars, mMoved>>
     \/ /\ mBox = "running" /\ k # "in" /\ (s # row \/ held = 0) /\ s.tag = row.tag /\ dependents(row.tag) # {}
        /\ \/ checkDependencies(s.tag, s.deps) /\ Commit(op, TRUE)
           \/ ~ checkDependencies(s.tag, s.deps) /\ Rollback
        /\ UNCHANGED <<tableVars, mMoved>>
     \/ /\ mBox = "running" /\ s.tag = row.tag /\ (k = "in" \/ ((s # row \/ held = 0) /\ dependents(row.tag) = {}))
        /\ create(op, held) /\ UNCHANGED mMoved
     \/ /\ mBox = "running" /\ s.tag # row.tag /\ k # "out"
        /\ rename(op) /\ UNCHANGED mMoved
     \/ /\ mBox = "running" /\ s.tag # row.tag /\ k = "out"
        /\ create(op, IdOf(k, s.tag)) /\ mMoved' = TRUE
  /\ UNCHANGED <<mFinal, mBox, mLost>>

\* "del".
SaveDel(k, row) ==
  /\ CanSave /\ CountSave /\ row \in RowsOf(k)
  /\ LET op == NewOp("del", k, row, row) IN
     \/ mBox = "running" /\ remove(op, row.tag)
     \/ mBox = "closed" /\ Commit(op, FALSE) /\ UNCHANGED tableVars
  /\ UNCHANGED <<mFinal, mBox, ghostVars>>

-----------------------------------------------------------------------------
(* The start of one component on a scope of its own: scopeSet.Start. *)

\* A failed start: an earlier component comes back from its recipe, or is
\* dropped; a stand-in that fails fails the removal.
Failed(op) ==
  \/ /\ op.why = "put" /\ op.old # 0 /\ TagOf(op.old) \in mRecipe[op.kind]
     /\ Build(op, mObj[op.old], op.old, "restore")
     /\ UNCHANGED <<mList, mRecipe, mDefault, mLost, mRows, mPending, mStale>>
  \/ /\ op.why = "restore" \/ (op.why = "put" /\ op.old # 0 /\ TagOf(op.old) \notin mRecipe[op.kind])
     /\ drop(op.kind, op.old) /\ mLost' = TRUE /\ Rollback
     /\ UNCHANGED <<mObj, mRes, mOver, mOpen, mHeld>>
  \/ /\ op.why = "standIn" \/ op.old = 0
     /\ Rollback /\ UNCHANGED <<tableVars, mLost>>

Entry ==
  /\ mOp.pc = "entry" /\ mBox # "starting"
  /\ \/ mBox = "closed" /\ Failed(mOp)
     \/ /\ mBox = "running"
        /\ mOpen' = mOpen \cup {mOp.new} /\ mOp' = [mOp EXCEPT !.pc = "run"]
        /\ UNCHANGED <<mObj, mList, mRecipe, mHeld, mRes, mOver, mDefault, mLost, mRows, mPending, mStale>>
  /\ UNCHANGED <<mFinal, mBox, mCount, mMoved>>

\* component.Start, with no lock held.
ComponentStart ==
  /\ mOp.pc = "run"
  /\ LET i == mOp.new IN
     \/ /\ PortFree(i) /\ Present(i)
        /\ mHeld' = mHeld \cup {i} /\ mOp' = [mOp EXCEPT !.pc = "started"]
        /\ mRes' = [mRes EXCEPT ![i] = UNION {Lookup(d) : d \in mObj[i].deps}]
        /\ mOver' = mOver \cup {j \in {i} : mOp.old \in UNION {Lookup(d) : d \in mObj[i].deps}}
        /\ UNCHANGED mCount
     \/ /\ PortFree(i) /\ Present(i) => Faulty
        /\ IF PortFree(i) /\ Present(i) THEN StartFault ELSE UNCHANGED mCount
        /\ mHeld' \in IF PortFree(i) THEN {mHeld, mHeld \cup {i}} ELSE {mHeld}
        /\ mOp' = [mOp EXCEPT !.pc = "failed"] /\ UNCHANGED <<mRes, mOver>>
  /\ UNCHANGED <<mRows, mObj, mList, mRecipe, mOpen, mDefault, mFinal, mBox, mPending, mLost, mMoved, mStale>>

\* The entry may have gone while Start ran: what it registered since is closed
\* again.
detached == mOp.new \notin mOpen
\* scopeSet.Remove of the component that did not start.
StartEnded ==
  /\ mOp.pc \in {"started", "failed"}
  /\ \/ detached
        /\ mOp' = [mOp EXCEPT !.pc = "undo"] /\ mHeld' = mHeld \ {mOp.new} /\ UNCHANGED mOpen
     \/ /\ ~ detached /\ mOp.pc = "failed"
        /\ mOp' = [mOp EXCEPT !.pc = "undo"]
        /\ mOpen' = mOpen \ {mOp.new} /\ mHeld' = mHeld \ ({mOp.new} \cap mOpen)
     \/ ~ detached /\ mOp.pc = "started" /\ mOp' = [mOp EXCEPT !.pc = "table"] /\ UNCHANGED <<mOpen, mHeld>>
  /\ UNCHANGED <<mRows, mObj, mList, mRecipe, mRes, mOver, mDefault, mFinal, mBox, mPending, mCount, mLost, mMoved, mStale>>
Undo ==
  /\ mOp.pc = "undo" /\ Failed(mOp)
  /\ UNCHANGED <<mFinal, mBox, mCount, mMoved>>

\* An outbound under a new tag: the old one goes once the new one runs, and a
\* refusal takes the new one back.
RenamesOutbound(op) == op.do = "edit" /\ op.kind = "out" /\ op.why = "put" /\ op.row.tag # op.spec.tag
PutInTable ==
  /\ mOp.pc = "table"
  /\ \/ /\ mOp.why = "standIn" /\ swap("out", mOp.old, mOp.new, {})
        /\ mOpen' = mOpen \ {mOp.old} /\ mHeld' = mHeld \ ({mOp.old} \cap mOpen)
        /\ Commit(mOp, FALSE)
     \/ /\ mOp.why = "restore" /\ swap(mOp.kind, mOp.old, mOp.new, {TagOf(mOp.new)})
        /\ Rollback /\ UNCHANGED <<mOpen, mHeld>>
     \/ /\ mOp.why = "put"
        /\ IF mOp.old # 0 THEN swap(mOp.kind, mOp.old, mOp.new, {mOp.spec.tag})
           ELSE add(mOp.kind, mOp.new, mOp.spec.tag)
        /\ UNCHANGED <<mOpen, mHeld>>
        /\ IF RenamesOutbound(mOp)
           THEN mOp' = [mOp EXCEPT !.pc = "removeOld"] /\ UNCHANGED <<mRows, mPending, mStale>>
           ELSE Commit(mOp, FALSE)
  /\ mMoved' = (mMoved \/ mOp.why = "standIn")
  /\ UNCHANGED <<mObj, mRes, mOver, mFinal, mBox, mCount, mLost>>
\* Mutant: the refusal leaves the new one in.
KeepBoth(op) == FALSE
\* A removal like any other, whose own refusal nobody sees.
TakeBack(op) == ~ refuse("out", op.spec.tag, TRUE)
RemoveOld ==
  /\ mOp.pc = "removeOld"
  /\ LET it == IdOf("out", mOp.row.tag) IN
     \/ (it = 0 \/ mBox = "closed") /\ Commit(mOp, FALSE) /\ UNCHANGED <<tableVars, mLost>>
     \/ /\ it # 0 /\ mBox = "running" /\ refuse("out", mOp.row.tag, TRUE)
        /\ IF TakeBack(mOp) THEN TakeDown("out", mOp.new) ELSE UNCHANGED tableVars
        /\ mLost' = (mLost \/ refuse("out", mOp.spec.tag, TRUE))
        /\ Rollback
     \/ /\ it # 0 /\ mBox = "running" /\ ~ refuse("out", mOp.row.tag, TRUE)
        /\ TakeDown("out", it) /\ Commit(mOp, FALSE) /\ UNCHANGED mLost
  /\ UNCHANGED <<mFinal, mBox, mCount, mMoved>>

-----------------------------------------------------------------------------
(* Stops and restarts. *)

\* The box is closed under whatever runs.
Close ==
  /\ mBox = "running" /\ BoxClose
  /\ UNCHANGED <<mRows, mObj, mList, mRecipe, mRes, mOver, mDefault, mFinal, mPending, mOp, mCount, mLost, mMoved, mStale>>
\* restartQueuedCore, or the start of a core that is down: a box from the rows.
\* startMu keeps it from a save under way.
RestartBox ==
  /\ mBox \in {"running", "closed"} /\ mOp = NoOp /\ (mPending \/ mBox = "closed")
  /\ mBox' = "new" /\ mPending' = FALSE
  /\ mOpen' = {} /\ mHeld' = mHeld \ mOpen
  /\ mList' = [k \in ObjKind |-> <<>>] /\ mRecipe' = [k \in ObjKind |-> {}] /\ mRes' = [i \in ObjId |-> {}]
  /\ mObj' = [i \in ObjId |-> Direct] /\ mOver' = {} /\ mDefault' = 0
  /\ mLost' = FALSE /\ mMoved' = FALSE
  /\ UNCHANGED <<mRows, mFinal, mOp, mCount, mStale>>

InitialRows ==
  {r \in [ObjKind -> SeqOf(ObjSpec, MaxRows)] :
     /\ \A k \in ObjKind : \A n \in DOMAIN r[k] : r[k][n].kind = k
     /\ RowCount(r) <= MaxRows
     /\ \A k, j \in ObjKind : \A n \in DOMAIN r[k], m \in DOMAIN r[j] :
          (r[k][n].tag = r[j][m].tag /\ j \in Shares(k)) => (k = j /\ n = m)}
ManagersInit ==
  /\ mRows \in InitialRows /\ mFinal \in FinalTags
  /\ Startable(DialerRows)
  /\ mObj = [i \in ObjId |-> Direct] /\ mList = [k \in ObjKind |-> <<>>] /\ mRecipe = [k \in ObjKind |-> {}]
  /\ mOpen = {} /\ mHeld = {} /\ mRes = [i \in ObjId |-> {}] /\ mOver = {} /\ mDefault = 0
  /\ mBox = "new" /\ mPending = FALSE /\ mOp = NoOp /\ mCount = <<0, 0>>
  /\ mLost = FALSE /\ mMoved = FALSE /\ mStale = FALSE

ManagersNext ==
  \/ NewBox \/ Initialize \/ StartOne \/ StartStuck \/ Started
  \/ \E s \in ObjSpec : SaveNew(s)
  \/ \E k \in ObjKind : \E row \in RowsOf(k) : SaveDel(k, row) \/ \E s \in ObjSpec : SaveEdit(k, row, s)
  \/ Entry \/ ComponentStart \/ StartEnded \/ Undo \/ PutInTable \/ RemoveOld
  \/ Close \/ RestartBox

ManagersSpec == ManagersInit /\ [][ManagersNext]_mgrVars

-----------------------------------------------------------------------------
(* Properties. *)

AtRest == mOp = NoOp /\ mBox = "running"
InTable == UNION {ToSet(mList[k]) : k \in ObjKind}

\* The managers' state is well formed: a component is in one list once, one tag
\* is held once in each table, and a recipe is kept only of what is there.
ManagersTypeOK ==
  /\ mOpen \subseteq ObjId /\ mHeld \subseteq ObjId /\ mDefault \in ObjId \cup {0}
  /\ \A k \in ObjKind :
       /\ \A n, m \in DOMAIN mList[k] : mObj[mList[k][n]].tag = mObj[mList[k][m]].tag => n = m
       /\ mRecipe[k] \subseteq {TagOf(i) : i \in ToSet(mList[k])}

\* Between saves every component in a table runs and nothing else does: a
\* replacement or rename that failed, at any step and whatever it had started,
\* left neither a closed component behind nor one that nothing knows of; and a
\* closed box holds nothing, a component whose start it overtook included
\* (catchUp, restore, scopeSet.Start's second look).
NothingLeaks ==
  /\ AtRest => mOpen = InTable /\ mHeld = InTable
  /\ mBox = "closed" /\ mOp = NoOp => mOpen = {} /\ mHeld = {}

\* Between saves no running outbound, endpoint or group dials through a component
\* that has been closed: what it resolved at its start is still there (refuse,
\* dependents, the restart an edit of a member takes instead); and in a box that
\* starts each has started before what depends on it (startOutbounds).  Except one
\* that names what it replaces, itself: it resolves the component just closed.
NobodyDialsClosed ==
  /\ AtRest => \A i \in mOpen \ mOver : mRes[i] \subseteq mOpen
  /\ mBox = "starting" => \A i \in mHeld : mRes[i] \subseteq mHeld

\* There is a default outbound while the box runs, and between saves it runs:
\* the router calls it on every unmatched connection without looking.  Only a
\* component that could not be brought back may leave the box without one, or, an
\* endpoint route.final names, on the closed one.
DefaultRuns ==
  /\ mBox = "running" /\ ~ mLost => DefaultOutbound # {}
  /\ AtRest /\ (mLost => mFinal = "") => DefaultOutbound \subseteq mOpen

\* Between saves the core runs what the database says: a save that failed left
\* both as they were, and one that did not changed both -- unless a component
\* could not be brought back, or an edit waits for its restart.
CoreMatchesRows ==
  AtRest /\ ~ mLost /\ ~ mPending =>
    \A k \in ObjKind : {mObj[i] : i \in {j \in ToSet(mList[k]) : mObj[j].tag \in mRecipe[k]}} = RowsOf(k)

\* The outbounds are in the order a restart would give them, and without
\* route.final the default is the one it would take, the first: replacing one
\* in place moves nothing.  A rename does, as documented, and so does having
\* had no outbound.
DefaultAsAfterRestart ==
  AtRest /\ ~ mLost /\ ~ mMoved =>
    /\ [n \in DOMAIN mList["out"] |-> TagOf(mList["out"][n])] = [n \in DOMAIN mRows["out"] |-> mRows["out"][n].tag]
    /\ mFinal = "" => TagOf(mDefault) = mRows["out"][1].tag

\* A box built from the rows can start as far as dependencies go: nothing is
\* missing and nothing is circular, whatever was saved while the core ran.  A
\* save written while a restart waits is judged by the core of before; one written
\* while the core is down, or has lost a component, by no more than that; and one
\* that depends on itself, or on the fallback, is not refused.
RowsStartable == ~ mStale => Startable(DialerRows)

\* The hot replacement of objects, in one: between saves the core runs what the rows say,
\* leaks nothing, dials nothing closed, and a restart would change nothing.
ManagerSafety ==
  /\ ManagersTypeOK /\ NothingLeaks /\ NobodyDialsClosed /\ DefaultRuns
  /\ CoreMatchesRows /\ DefaultAsAfterRestart /\ RowsStartable
=============================================================================
