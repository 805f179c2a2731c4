----------------------------- MODULE PanelProofs -----------------------------
(***************************************************************************)
(* Proofs about the panel itself: who is let in (PanelAccount, ApiTokens,  *)
(* LoginGuard), what a tab is shown (PanelHub) and who is told (Notify),   *)
(* for any number of requests, addresses, builders, channels and changes.  *)
(***************************************************************************)
EXTENDS MCPanel, SequenceTheorems, FiniteSetTheorems, TLAPS

-----------------------------------------------------------------------------
(* The account. *)

Rows == [hash : 1 .. MaxHash, plain : BOOLEAN, secret : 0 .. MaxSecret, counter : 0 .. MaxSteps + 1]
Codes == 1 .. MaxSteps + 1
Creds == (1 .. MaxHash) \X BOOLEAN
Requests ==
  {Idle}
  \cup [pc : {"burn"}, read : Rows, code : Codes, raced : BOOLEAN]
  \cup [pc : {"upgrade", "stamp"}, read : Rows, raced : BOOLEAN]
  \cup [pc : {"save"}, read : Rows, who : {"shell", "panel"}, raced : BOOLEAN]
  \cup [pc : {"drop"}, raced : BOOLEAN]
  \cup [pc : {"enrol"}, code : Codes, raced : BOOLEAN]

AcctTypes ==
  /\ row \in Rows /\ lastHash \in 1 .. MaxHash /\ lastSecret \in 0 .. MaxSecret /\ step \in 1 .. MaxSteps
  /\ areq \in [AcctReq -> Requests]
  /\ sessions \subseteq [cred : Creds, proved : Creds, raced : BOOLEAN]
  /\ sockets \subseteq [state : {"handshake", "open"}, cred : Creds, missed : BOOLEAN]
  /\ used \subseteq (0 .. MaxSecret) \X Codes
  /\ replayed \in BOOLEAN /\ crossed \in BOOLEAN

\* Secrets and hashes are numbered as they are made; no code is spent without a secret.
FreshInv ==
  /\ row.hash <= lastHash /\ row.secret <= lastSecret
  /\ \A r \in AcctReq : /\ areq[r].pc = "burn" => 0 < areq[r].read.secret
                        /\ areq[r].pc \in {"burn", "save"} => areq[r].read.secret <= lastSecret
  /\ \A u \in used : 0 < u[1] /\ u[1] <= lastSecret
  /\ \A s \in sessions : s.cred[1] <= lastHash

\* As long as no request saved a whole row over a newer one, the counter of the row is at or
\* above every code spent under its secret: the conditional update lets none through again.
UsedInv ==
  ~crossed => /\ ~replayed
              /\ \A u \in used : u[1] = row.secret => u[2] <= row.counter

\* A login that no change of the credentials overtook read those the row has.
ReadInv ==
  \A r \in AcctReq : areq[r].pc \in {"burn", "upgrade", "stamp"} /\ ~areq[r].raced
                       => areq[r].read.hash = row.hash /\ areq[r].read.plain = row.plain

\* Every socket, registered or not, has the row's credentials, or was missed by a change of
\* them, or the one that changed them is about to drop it.
SocketInv ==
  \A s \in sockets : s.cred = CredentialFingerprint \/ s.missed \/ \E r \in AcctReq : areq[r].pc = "drop"

AcctInv == AcctTypes /\ FreshInv /\ UsedInv /\ ReadInv /\ SessionCurrent /\ SocketInv

-----------------------------------------------------------------------------
(* The tokens. *)

Fine(t) == t.expiry = 0 \/ t.expiry >= tokNow
Tokens == [id : Nat, expiry : Nat]

\* A list that lets nobody in whose token is gone.
Current(list) == \A t \in list : Fine(t) => t \in tokLive

TokTypes ==
  /\ tokNow \in Nat /\ tokMade \in Nat /\ tokRows \subseteq Tokens /\ tokMem \subseteq Tokens
  /\ tokReq \in [TokReq -> [pc : {"idle", "load", "publish"}, list : SUBSET Tokens,
                            newer : SUBSET TokReq, older : BOOLEAN]]
  /\ tokCrossed \in BOOLEAN

\* A list that was read and not outrun is current, or a reload that has read, or is to read,
\* the table after it is under way; and so is the one in memory.
TokInv ==
  /\ TokTypes
  /\ \A t \in tokRows : Fine(t) => t \in tokLive
  /\ \A r \in TokReq : tokReq[r].pc = "publish" /\ ~tokReq[r].older =>
        \/ Current(tokReq[r].list)
        \/ \E q \in TokReq \ {r} : tokReq[q].pc = "load" \/ (tokReq[q].pc = "publish" /\ q \in tokReq[r].newer)
  /\ ~tokCrossed => Current(tokMem) \/ \E q \in TokReq : tokReq[q].pc # "idle"

\* Every step of a request and of the clock keeps the invariant of the tokens.
LEMMA TokStep ==
  ASSUME TokInv, [TokNext]_tokVars
  PROVE  TokInv'
<1> USE DEF TokInv, TokTypes, Tokens, Current, Fine
<1>1. CASE UNCHANGED tokVars
  BY <1>1 DEF tokVars
<1>2. ASSUME NEW r \in TokReq, NEW e \in {0, 1}, AddToken(r, e) PROVE TokInv'
  <2> DEFINE t == [id |-> tokMade + 1, expiry |-> IF e > 0 THEN tokNow + e ELSE 0]
  <2>1. /\ tokReq[r].pc = "idle" /\ tokMade' = tokMade + 1 /\ tokRows' = tokRows \cup {t} /\ tokLive' = tokLive \cup {t}
        /\ tokReq' = [tokReq EXCEPT ![r].pc = "load"] /\ UNCHANGED <<tokNow, tokMem, tokCrossed>>
    BY <1>2 DEF AddToken
  <2>2. t \in Tokens
    OBVIOUS
  <2>3. tokMade' \in Nat
    BY <2>1
  <2> HIDE DEF t
  <2>4. TokTypes'
    BY <2>1, <2>2, <2>3
  <2>5. tokReq'[r].pc = "load" /\ \A q \in TokReq \ {r} : tokReq'[q] = tokReq[q]
    BY <2>1
  <2> QED BY <2>1, <2>4, <2>5
<1>3. ASSUME NEW r \in TokReq, NEW t \in tokRows, DeleteToken(r, t) PROVE TokInv'
  <2>1. /\ tokReq[r].pc = "idle" /\ tokRows' = tokRows \ {t} /\ tokLive' = tokLive \ {t}
        /\ tokReq' = [tokReq EXCEPT ![r].pc = "load"] /\ UNCHANGED <<tokNow, tokMem, tokMade, tokCrossed>>
    BY <1>3 DEF DeleteToken
  <2>2. TokTypes'
    BY <2>1
  <2>3. tokReq'[r].pc = "load" /\ \A q \in TokReq \ {r} : tokReq'[q] = tokReq[q]
    BY <2>1
  <2> QED BY <2>1, <2>2, <2>3
<1>4. ASSUME NEW r \in TokReq, LoadTokens(r) PROVE TokInv'
  <2>0. tokReq[r].pc = "load" /\ UNCHANGED <<tokNow, tokRows, tokMem, tokMade, tokLive>>
    BY <1>4 DEF LoadTokens
  <2>1. CASE tokReq' = Outrun(r, TokReq) /\ tokCrossed' = TRUE
    <3>1. TokTypes'
      BY <2>0, <2>1 DEF Outrun, TokIdle
    <3>2. \A q \in TokReq : tokReq'[q].pc = "publish" => tokReq'[q].older
      BY <2>0, <2>1 DEF Outrun, TokIdle
    <3> QED BY <2>0, <2>1, <3>1, <3>2
  <2>2. CASE /\ tokReq' = [q \in TokReq |->
                  IF q = r THEN [pc |-> "publish", newer |-> {}, older |-> FALSE,
                                 list |-> {t \in tokRows : t.expiry = 0 \/ t.expiry > tokNow}]
                  ELSE IF tokReq[q].pc = "publish" THEN [tokReq[q] EXCEPT !.newer = @ \cup {r}]
                  ELSE tokReq[q]]
             /\ UNCHANGED tokCrossed
    <3>1. TokTypes'
      BY <2>0, <2>2
    <3>2. tokReq'[r].pc = "publish" /\ Current(tokReq'[r].list)
      BY <2>0, <2>2
    <3>3. \A q \in TokReq \ {r} :
            /\ tokReq'[q].pc = tokReq[q].pc /\ tokReq'[q].list = tokReq[q].list /\ tokReq'[q].older = tokReq[q].older
            /\ tokReq[q].pc = "publish" => r \in tokReq'[q].newer
      BY <2>2
    <3> QED BY <2>0, <2>2, <3>1, <3>2, <3>3
  <2> QED BY <1>4, <2>1, <2>2 DEF LoadTokens
<1>5. ASSUME NEW r \in TokReq, PublishTokens(r) PROVE TokInv'
  <2> DEFINE Q == {q \in TokReq : r \in tokReq[q].newer}
  <2>1. /\ tokReq[r].pc = "publish" /\ tokMem' = tokReq[r].list /\ tokCrossed' = tokReq[r].older
        /\ tokReq' = Outrun(r, Q) /\ UNCHANGED <<tokNow, tokRows, tokMade, tokLive>>
    BY <1>5 DEF PublishTokens, Published
  <2>2. TokTypes'
    <3> HIDE DEF Q
    <3>1. TokIdle \in [pc : {"idle", "load", "publish"}, list : SUBSET Tokens, newer : SUBSET TokReq, older : BOOLEAN]
      BY DEF TokIdle
    <3>2. tokReq' \in [TokReq -> [pc : {"idle", "load", "publish"}, list : SUBSET Tokens,
                                  newer : SUBSET TokReq, older : BOOLEAN]]
      BY <2>1, <3>1 DEF Outrun
    <3> QED BY <2>1, <3>2
  <2>3. tokReq'[r].pc = "idle"
    BY <2>1 DEF Outrun, TokIdle
  <2>4. \A q \in TokReq \ {r} :
          /\ tokReq'[q].pc = tokReq[q].pc /\ tokReq'[q].list = tokReq[q].list /\ tokReq'[q].newer = tokReq[q].newer
          /\ ~tokReq'[q].older => ~tokReq[q].older /\ (tokReq[q].pc = "publish" => r \notin tokReq[q].newer)
    BY <2>1 DEF Outrun
  <2>5. Current(tokMem)' \/ tokCrossed' \/ \E q \in TokReq : tokReq'[q].pc # "idle"
    BY <2>1, <2>4
  <2> HIDE DEF Q
  <2>6. ASSUME NEW p \in TokReq, tokReq'[p].pc = "publish", ~tokReq'[p].older
        PROVE  \/ Current(tokReq[p].list)'
               \/ \E q \in TokReq \ {p} : tokReq'[q].pc = "load" \/ (tokReq'[q].pc = "publish" /\ q \in tokReq'[p].newer)
    <3>1. p # r /\ tokReq[p].pc = "publish" /\ ~tokReq[p].older /\ r \notin tokReq[p].newer
      BY <2>3, <2>4, <2>6
    <3>2. CASE Current(tokReq[p].list)
      BY <2>1, <2>4, <3>1, <3>2
    <3>3. ASSUME NEW q \in TokReq \ {p}, tokReq[q].pc = "load" \/ (tokReq[q].pc = "publish" /\ q \in tokReq[p].newer)
          PROVE  tokReq'[q].pc = "load" \/ (tokReq'[q].pc = "publish" /\ q \in tokReq'[p].newer)
      BY <2>1, <2>4, <3>1, <3>3
    <3> QED BY <3>1, <3>2, <3>3
  <2> QED BY <2>1, <2>2, <2>5, <2>6
<1>6. CASE TokTick
  <2>1. tokNow' \in Nat /\ tokNow' > tokNow
    BY <1>6 DEF TokTick
  <2>2. tokLive' = {t \in tokLive : t.expiry = 0 \/ t.expiry >= tokNow'} /\ UNCHANGED <<tokRows, tokMem, tokMade, tokReq, tokCrossed>>
    BY <1>6 DEF TokTick
  <2>3. \A list \in SUBSET Tokens : Current(list) => \A t \in list : (t.expiry = 0 \/ t.expiry >= tokNow') => t \in tokLive'
    BY <2>1, <2>2
  <2>4. \A t \in tokRows : Fine(t)' => t \in tokLive'
    BY <2>1, <2>2
  <2> QED BY <2>1, <2>2, <2>3, <2>4
<1> QED
  BY <1>1, <1>2, <1>3, <1>4, <1>5, <1>6 DEF TokNext

\* The list every request is checked against (apiV2Handler.go), for any number of reloads under
\* way: with none of them left, and the last neither failed nor outrun, it names no dead token.
THEOREM RevokedTokensRefused == TokSpec => []RevokedIsRefused
<1>1. TokInit => TokInv
  <2> SUFFICES ASSUME TokInit PROVE TokInv
    OBVIOUS
  <2>1. TokIdle \in [pc : {"idle", "load", "publish"}, list : SUBSET Tokens, newer : SUBSET TokReq, older : BOOLEAN]
    BY DEF TokIdle
  <2>2. TokTypes
    BY <2>1 DEF TokInit, TokTypes
  <2>3. \A r \in TokReq : tokReq[r].pc = "idle"
    BY DEF TokInit, TokIdle
  <2> QED BY <2>2, <2>3 DEF TokInit, TokInv, Current
<1>2. TokInv /\ [TokNext]_tokVars => TokInv'
  BY TokStep
<1>3. TokInv => RevokedIsRefused
  BY DEF TokInv, RevokedIsRefused, findUsername, Current, Fine
<1> QED
  BY <1>1, <1>2, <1>3, PTL DEF TokSpec

-----------------------------------------------------------------------------
(* The account, step by step. *)

\* The bounds are numbers.
LEMMA AcctBounds == MaxHash \in Nat \ {0} /\ MaxSteps \in Nat \ {0} /\ MaxSecret \in Nat
BY AccountConstants

\* What a request under way carries, by how far it is.
LEMMA RequestFields ==
  ASSUME NEW q \in Requests
  PROVE  /\ q.pc \in {"idle", "burn", "upgrade", "stamp", "save", "drop", "enrol"}
         /\ q.pc # "idle" => q.raced \in BOOLEAN
         /\ q.pc \in {"burn", "upgrade", "stamp", "save"} => q.read \in Rows
         /\ q.pc \in {"burn", "enrol"} => q.code \in Codes
         /\ q.pc = "save" => q.who \in {"shell", "panel"}
BY DEF Requests, Idle

\* The requests the handlers make.
LEMMA RequestMade ==
  ASSUME NEW w \in Rows, NEW c \in Codes, NEW b \in BOOLEAN, NEW o \in {"shell", "panel"}
  PROVE  /\ Idle \in Requests /\ Idle.pc = "idle"
         /\ [pc |-> "burn", read |-> w, code |-> c, raced |-> b] \in Requests
         /\ [pc |-> "upgrade", read |-> w, raced |-> b] \in Requests
         /\ [pc |-> "stamp", read |-> w, raced |-> b] \in Requests
         /\ [pc |-> "save", read |-> w, who |-> o, raced |-> b] \in Requests
         /\ [pc |-> "drop", raced |-> b] \in Requests
         /\ [pc |-> "enrol", code |-> c, raced |-> b] \in Requests
BY DEF Requests, Idle

\* A request that is overtaken, and a login that goes on, keep what they read.
LEMMA RequestMoves ==
  ASSUME NEW q \in Requests, q.pc # "idle"
  PROVE  LET o == [q EXCEPT !.raced = TRUE]
             s == [q EXCEPT !.pc = "stamp"]
         IN  /\ o \in Requests /\ o.pc = q.pc /\ o.raced = TRUE
             /\ q.pc \in {"burn", "upgrade", "stamp", "save"} => o.read = q.read
             /\ q.pc = "upgrade" => s \in Requests /\ s.pc = "stamp" /\ s.read = q.read /\ s.raced = q.raced
<1>1. CASE q \in [pc : {"burn"}, read : Rows, code : Codes, raced : BOOLEAN]
  BY <1>1 DEF Requests
<1>2. CASE q \in [pc : {"upgrade", "stamp"}, read : Rows, raced : BOOLEAN]
  BY <1>2 DEF Requests
<1>3. CASE q \in [pc : {"save"}, read : Rows, who : {"shell", "panel"}, raced : BOOLEAN]
  BY <1>3 DEF Requests
<1>4. CASE q \in [pc : {"drop"}, raced : BOOLEAN]
  BY <1>4 DEF Requests
<1>5. CASE q \in [pc : {"enrol"}, code : Codes, raced : BOOLEAN]
  BY <1>5 DEF Requests
<1> QED
  BY <1>1, <1>2, <1>3, <1>4, <1>5 DEF Requests, Idle

\* A row whose password, code counter or secret is written is a row.
LEMMA RowWritten ==
  ASSUME NEW w \in Rows, NEW h \in 1 .. MaxHash, NEW n \in 0 .. MaxSecret, NEW c \in 0 .. MaxSteps + 1
  PROVE  LET p == [w EXCEPT !.hash = h, !.plain = FALSE]
             k == [w EXCEPT !.counter = c]
             e == [w EXCEPT !.secret = n, !.counter = c]
         IN  /\ w.hash \in 1 .. MaxHash /\ w.plain \in BOOLEAN /\ w.secret \in 0 .. MaxSecret /\ w.counter \in 0 .. MaxSteps + 1
             /\ p \in Rows /\ p.hash = h /\ p.plain = FALSE /\ p.secret = w.secret /\ p.counter = w.counter
             /\ k \in Rows /\ k.hash = w.hash /\ k.plain = w.plain /\ k.secret = w.secret /\ k.counter = c
             /\ e \in Rows /\ e.hash = w.hash /\ e.plain = w.plain /\ e.secret = n /\ e.counter = c
BY DEF Rows

\* The other requests, when one has written the credentials.
LEMMA RacesFacts ==
  ASSUME AcctTypes, NEW r \in AcctReq
  PROVE  /\ Races(r) \in [AcctReq -> Requests] /\ Races(r)[r] = areq[r]
         /\ \A q \in AcctReq : Races(r)[q].pc = areq[q].pc
         /\ \A q \in AcctReq \ {r} : areq[q].pc # "idle" => Races(r)[q].raced = TRUE
         /\ \A q \in AcctReq : areq[q].pc \in {"burn", "upgrade", "stamp", "save"} => Races(r)[q].read = areq[q].read
<1>1. \A q \in AcctReq : areq[q] \in Requests
  BY DEF AcctTypes
<1>2. ASSUME NEW q \in AcctReq
      PROVE  /\ Races(r)[q] \in Requests /\ Races(r)[q].pc = areq[q].pc
             /\ q # r /\ areq[q].pc # "idle" => Races(r)[q].raced = TRUE
             /\ areq[q].pc \in {"burn", "upgrade", "stamp", "save"} => Races(r)[q].read = areq[q].read
  <2>1. CASE q # r /\ areq[q].pc # "idle"
    <3>1. Races(r)[q] = [areq[q] EXCEPT !.raced = TRUE]
      BY <2>1 DEF Races
    <3> QED BY <1>1, <2>1, <3>1, RequestMoves
  <2>2. CASE ~(q # r /\ areq[q].pc # "idle")
    <3>1. Races(r)[q] = areq[q]
      BY <2>2 DEF Races
    <3> QED BY <1>1, <2>2, <3>1
  <2> QED BY <2>1, <2>2
<1>3. Races(r) \in [AcctReq -> Requests]
  BY <1>2 DEF Races
<1>4. Races(r)[r] = areq[r]
  BY DEF Races
<1> QED
  BY <1>2, <1>3, <1>4

\* The row's credentials are a fingerprint.
LEMMA FingerprintTyped ==
  ASSUME AcctTypes
  PROVE  /\ CredentialFingerprint \in Creds
         /\ CredentialFingerprint[1] = row.hash /\ CredentialFingerprint[2] = row.plain
BY RowWritten, AcctBounds DEF AcctTypes, CredentialFingerprint, Creds, Rows

\* A step that leaves the row, the sessions, the sockets and what was spent alone, and moves one
\* request to a place that is neither a login's nor the dropping of sockets.
LEMMA CalmStep ==
  ASSUME AcctInv, NEW r \in AcctReq, NEW q \in Requests, areq' = [areq EXCEPT ![r] = q], areq[r].pc # "drop",
         q.pc = "burn" => 0 < q.read.secret, q.pc \in {"burn", "save"} => q.read.secret <= lastSecret,
         q.pc \in {"burn", "upgrade", "stamp"} /\ ~q.raced => q.read.hash = row.hash /\ q.read.plain = row.plain,
         UNCHANGED <<row, lastHash, lastSecret, step, sockets, sessions, acctGhosts>>
  PROVE  AcctInv'
<1>0. areq \in [AcctReq -> Requests]
  BY DEF AcctInv, AcctTypes
<1>1. areq'[r] = q /\ \A p \in AcctReq \ {r} : areq'[p] = areq[p]
  BY <1>0
<1>2. UNCHANGED <<row, lastHash, lastSecret, step, sockets, sessions, used, replayed, crossed>>
  BY DEF acctGhosts
<1>3. AcctTypes'
  BY <1>0, <1>2 DEF AcctInv, AcctTypes
<1>4. FreshInv' /\ UsedInv' /\ ReadInv'
  BY <1>1, <1>2 DEF AcctInv, FreshInv, UsedInv, ReadInv
<1>5. SessionCurrent'
  BY <1>2 DEF AcctInv, SessionCurrent, GetLoginUser, CredentialFingerprint
<1>6. SocketInv'
  BY <1>1, <1>2 DEF AcctInv, SocketInv, CredentialFingerprint
<1> QED
  BY <1>3, <1>4, <1>5, <1>6 DEF AcctInv

\* The codes that are valid now are codes.
LEMMA CodesTyped ==
  ASSUME AcctTypes, NEW a
  PROVE  ValidateTOTPAfter(a) \subseteq Codes
BY AcctBounds DEF AcctTypes, ValidateTOTPAfter, Codes

\* CheckUser, ReadAccount and EnableTwoFa read the row.
LEMMA ReadingStep ==
  ASSUME AcctInv, NEW r \in AcctReq,
         CheckUser(r) \/ (\E who \in {"shell", "panel"} : ReadAccount(r, who)) \/ EnableTwoFa(r)
  PROVE  AcctInv'
<1>0. AcctTypes /\ row \in Rows /\ row.secret <= lastSecret /\ row.secret \in Nat
  <2>1. AcctTypes /\ row \in Rows /\ row.secret <= lastSecret
    BY DEF AcctInv, AcctTypes, FreshInv
  <2>2. row.secret \in 0 .. MaxSecret
    BY <2>1 DEF Rows
  <2> QED BY <2>1, <2>2, AcctBounds
<1>1. CASE CheckUser(r) /\ row.secret = 0
  <2> DEFINE q == [pc |-> "upgrade", read |-> row, raced |-> FALSE]
  <2>1. q \in Requests
    BY <1>0, RequestMade DEF Requests
  <2>2. areq' = [areq EXCEPT ![r] = q] /\ areq[r].pc = "idle" /\ UNCHANGED <<row, lastHash, lastSecret, step, sockets, sessions, acctGhosts>>
    BY <1>1 DEF CheckUser
  <2>3. q.pc = "upgrade" /\ q.read = row
    OBVIOUS
  <2> HIDE DEF q
  <2> QED BY <2>1, <2>2, <2>3, CalmStep
<1>2. CASE CheckUser(r) /\ row.secret # 0
  <2>1. PICK c \in ValidateTOTPAfter(row.counter) :
          areq' = [areq EXCEPT ![r] = [pc |-> "burn", read |-> row, code |-> c, raced |-> FALSE]]
    BY <1>2 DEF CheckUser
  <2> DEFINE q == [pc |-> "burn", read |-> row, code |-> c, raced |-> FALSE]
  <2>2. q \in Requests
    BY <1>0, CodesTyped, RequestMade DEF Requests
  <2>3. areq[r].pc = "idle" /\ UNCHANGED <<row, lastHash, lastSecret, step, sockets, sessions, acctGhosts>>
    BY <1>2 DEF CheckUser
  <2>4. q.pc = "burn" /\ q.read = row /\ 0 < row.secret
    BY <1>0, <1>2
  <2>5. areq' = [areq EXCEPT ![r] = q]
    BY <2>1
  <2> HIDE DEF q
  <2> QED BY <1>0, <2>2, <2>3, <2>4, <2>5, CalmStep
<1>3. ASSUME NEW who \in {"shell", "panel"}, ReadAccount(r, who) PROVE AcctInv'
  <2> DEFINE q == [pc |-> "save", read |-> row, who |-> who, raced |-> FALSE]
  <2>1. q \in Requests /\ q.pc = "save" /\ q.read = row
    BY <1>0, RequestMade DEF Requests
  <2>2. areq' = [areq EXCEPT ![r] = q] /\ areq[r].pc = "idle" /\ UNCHANGED <<row, lastHash, lastSecret, step, sockets, sessions, acctGhosts>>
    BY <1>3 DEF ReadAccount
  <2> HIDE DEF q
  <2> QED BY <1>0, <2>1, <2>2, CalmStep
<1>4. CASE EnableTwoFa(r)
  <2>1. PICK c \in ValidateTOTPAfter(0) :
          areq' = [areq EXCEPT ![r] = [pc |-> "enrol", code |-> c, raced |-> FALSE]]
    BY <1>4 DEF EnableTwoFa
  <2> DEFINE q == [pc |-> "enrol", code |-> c, raced |-> FALSE]
  <2>2. q \in Requests /\ q.pc = "enrol"
    BY <1>0, CodesTyped, RequestMade DEF Requests
  <2>3. areq[r].pc = "idle" /\ UNCHANGED <<row, lastHash, lastSecret, step, sockets, sessions, acctGhosts>>
    BY <1>4 DEF EnableTwoFa
  <2>4. areq' = [areq EXCEPT ![r] = q]
    BY <2>1
  <2> HIDE DEF q
  <2> QED BY <2>2, <2>3, <2>4, CalmStep
<1> QED
  BY <1>1, <1>2, <1>3, <1>4

\* The secret a request has read was made.
LEMMA SecretRead ==
  ASSUME AcctInv, NEW r \in AcctReq, areq[r].pc \in {"burn", "save"}
  PROVE  areq[r].read.secret <= lastSecret /\ (areq[r].pc = "burn" => 0 < areq[r].read.secret)
<1> QED
  BY DEF AcctInv, FreshInv

\* BurnCode: the counter moves up to the code, or the login ends.
LEMMA BurnStep ==
  ASSUME AcctInv, NEW r \in AcctReq, BurnCode(r)
  PROVE  AcctInv'
<1>0. AcctTypes /\ row \in Rows /\ areq \in [AcctReq -> Requests] /\ areq[r] \in Requests /\ areq[r].pc = "burn"
  BY DEF AcctInv, AcctTypes, BurnCode
<1> DEFINE c == areq[r].code
           w == areq[r].read
           q == [pc |-> "upgrade", read |-> w, raced |-> areq[r].raced]
<1>1. c \in Codes /\ w \in Rows /\ areq[r].raced \in BOOLEAN
  BY <1>0, RequestFields
<1>2. CASE Burns(r, c)
  <2>1. /\ row' = [row EXCEPT !.counter = c] /\ used' = used \cup {<<w.secret, c>>}
        /\ replayed' = (replayed \/ (<<row.secret, c>> \in used /\ row.secret = w.secret))
        /\ areq' = [areq EXCEPT ![r] = q]
        /\ UNCHANGED <<lastHash, lastSecret, step, sockets, sessions, crossed>>
    BY <1>0, <1>2 DEF BurnCode
  <2>2. q \in Requests /\ q.pc = "upgrade" /\ q.read = w /\ q.raced = areq[r].raced
    BY <1>1, RequestMade DEF Requests
  <2>3. areq'[r] = q /\ \A p \in AcctReq \ {r} : areq'[p] = areq[p]
    BY <1>0, <2>1
  <2>4. c \in 0 .. MaxSteps + 1 /\ c \in Nat /\ row.counter \in Nat /\ w.secret \in 0 .. MaxSecret
    BY <1>0, <1>1, AcctBounds DEF Codes, Rows
  <2>5. /\ row' \in Rows /\ row'.hash = row.hash /\ row'.plain = row.plain /\ row'.secret = row.secret /\ row'.counter = c
    BY <1>0, <2>1, <2>4 DEF Rows
  <2> HIDE DEF c, w, q
  <2>6. AcctTypes'
    <3>1. areq' \in [AcctReq -> Requests]
      BY <1>0, <2>1, <2>2
    <3>2. used' \subseteq (0 .. MaxSecret) \X Codes
      BY <1>0, <1>1, <2>1, <2>4 DEF AcctTypes
    <3> QED BY <1>0, <2>1, <2>5, <3>1, <3>2 DEF AcctTypes
  <2>7. 0 < w.secret /\ w.secret <= lastSecret
    BY <1>0, SecretRead DEF w
  <2>8. FreshInv'
    BY <2>1, <2>2, <2>3, <2>5, <2>7 DEF AcctInv, FreshInv
  <2>9. UsedInv'
    <3>1. row.counter < c
      BY <1>2 DEF Burns
    <3>2. \A u \in used : u[2] \in Nat
      BY <1>0, AcctBounds DEF AcctTypes, Codes
    <3>3. ASSUME ~crossed PROVE ~replayed /\ <<row.secret, c>> \notin used
      BY <2>4, <3>1, <3>3 DEF AcctInv, UsedInv
    <3>4. ASSUME ~crossed, NEW u \in used', u[1] = row'.secret PROVE u[2] <= row'.counter
      <4>1. CASE u \in used
        BY <2>4, <2>5, <3>1, <3>2, <3>4, <4>1 DEF AcctInv, UsedInv
      <4>2. CASE u = <<w.secret, c>>
        BY <2>4, <2>5, <4>2
      <4> QED BY <2>1, <3>4, <4>1, <4>2
    <3> QED BY <2>1, <3>3, <3>4 DEF UsedInv
  <2>10. ReadInv'
    BY <1>0, <2>2, <2>3, <2>5 DEF AcctInv, ReadInv, w
  <2>11. CredentialFingerprint' = CredentialFingerprint
    BY <2>5 DEF CredentialFingerprint
  <2>12. SessionCurrent' /\ SocketInv'
    BY <1>0, <2>1, <2>3, <2>11 DEF AcctInv, SessionCurrent, SocketInv, GetLoginUser
  <2> QED BY <2>6, <2>8, <2>9, <2>10, <2>12 DEF AcctInv
<1>3. CASE ~Burns(r, c)
  <2>1. areq' = [areq EXCEPT ![r] = Idle] /\ UNCHANGED <<row, lastHash, lastSecret, step, sockets, sessions, acctGhosts>>
    BY <1>3 DEF BurnCode, acctGhosts
  <2>2. Idle \in Requests /\ Idle.pc = "idle"
    BY <1>1, RequestMade
  <2> QED BY <1>0, <2>1, <2>2, CalmStep
<1> QED
  BY <1>2, <1>3

\* The hash changes to one that was never there: no session and no code is touched, every other
\* request is overtaken, and the sockets were missed or the request is about to drop them.
LEMMA NewHashStep ==
  ASSUME AcctInv, NEW r \in AcctReq, NEW q \in Requests, lastHash < MaxHash, lastHash' = lastHash + 1,
         row' \in Rows, row'.hash = lastHash + 1,
         crossed' \in BOOLEAN, crossed => crossed',
         crossed' \/ (row'.secret = row.secret /\ row'.counter = row.counter), row'.secret <= lastSecret,
         areq' = [Races(r) EXCEPT ![r] = q], areq[r].pc \in {"upgrade", "save"},
         q.pc \in {"idle", "drop", "stamp"}, q.pc = "stamp" => q.read = row',
         \/ sockets' = Unreached
         \/ q.pc = "drop" /\ sockets' = sockets,
         UNCHANGED <<lastSecret, step, sessions, used, replayed>>
  PROVE  AcctInv'
<1>0. AcctTypes /\ areq \in [AcctReq -> Requests] /\ lastHash \in 1 .. MaxHash
  BY DEF AcctInv, AcctTypes
<1>1. areq'[r] = q /\ \A p \in AcctReq \ {r} : areq'[p] = Races(r)[p]
  BY <1>0, RacesFacts
<1>2. lastHash' \in 1 .. MaxHash
  BY <1>0, AcctBounds
<1>3. sockets' \subseteq [state : {"handshake", "open"}, cred : Creds, missed : BOOLEAN]
  <2>1. ASSUME NEW s \in [state : {"handshake", "open"}, cred : Creds, missed : BOOLEAN]
        PROVE  [s EXCEPT !.missed = TRUE] \in [state : {"handshake", "open"}, cred : Creds, missed : BOOLEAN]
    BY <2>1
  <2>2. sockets \subseteq [state : {"handshake", "open"}, cred : Creds, missed : BOOLEAN]
    BY <1>0 DEF AcctTypes
  <2> QED BY <2>1, <2>2 DEF Unreached
<1>4. AcctTypes'
  <2>1. areq' \in [AcctReq -> Requests]
    BY <1>0, RacesFacts
  <2> QED BY <1>0, <1>2, <1>3, <2>1 DEF AcctTypes
<1>5. \A p \in AcctReq \ {r} : /\ areq'[p].pc = areq[p].pc
                               /\ areq[p].pc \in {"burn", "upgrade", "stamp", "save"}
                                    => areq'[p].read = areq[p].read /\ areq'[p].raced
  <2>1. ASSUME NEW p \in AcctReq \ {r}
        PROVE  /\ areq'[p].pc = areq[p].pc
               /\ areq[p].pc \in {"burn", "upgrade", "stamp", "save"}
                    => areq'[p].read = areq[p].read /\ areq'[p].raced
    <3>1. areq'[p] = Races(r)[p] /\ Races(r)[p].pc = areq[p].pc
      BY <1>0, <1>1, RacesFacts
    <3>2. areq[p].pc # "idle" => Races(r)[p].raced = TRUE
      BY <1>0, RacesFacts
    <3>3. areq[p].pc \in {"burn", "upgrade", "stamp", "save"} => Races(r)[p].read = areq[p].read
      BY <1>0, RacesFacts
    <3> QED BY <3>1, <3>2, <3>3
  <2> QED BY <2>1
<1>6. FreshInv'
  <2>1. \A s \in sessions : s.cred[1] \in Nat /\ s.cred[1] <= lastHash
    BY <1>0, AcctBounds DEF AcctInv, AcctTypes, FreshInv, Creds
  <2>2. \A s \in sessions' : s.cred[1] <= lastHash'
    BY <1>0, <2>1
  <2>3. row'.hash <= lastHash'
    BY <1>2
  <2> QED BY <1>1, <1>5, <2>2, <2>3 DEF AcctInv, FreshInv
<1>7. UsedInv'
  BY DEF AcctInv, UsedInv
<1>8. ReadInv'
  BY <1>1, <1>5 DEF ReadInv
<1>9. SessionCurrent'
  <2>1. \A s \in sessions : s.cred[1] # row'.hash
    BY <1>0, AcctBounds DEF AcctInv, AcctTypes, FreshInv, Creds
  <2> QED BY <2>1 DEF SessionCurrent, GetLoginUser, CredentialFingerprint
<1>10. SocketInv'
  <2>1. CASE sockets' = Unreached
    <3>1. \A s \in sockets' : s.missed
      BY <1>0, <2>1 DEF AcctTypes, Unreached
    <3> QED BY <3>1 DEF SocketInv
  <2>2. CASE q.pc = "drop"
    BY <1>1, <2>2 DEF SocketInv
  <2> QED BY <2>1, <2>2
<1> QED
  BY <1>4, <1>6, <1>7, <1>8, <1>9, <1>10 DEF AcctInv

\* UpgradePassword and SaveAccount write a new hash.
LEMMA HashingStep ==
  ASSUME AcctInv, NEW r \in AcctReq, UpgradePassword(r) \/ SaveAccount(r)
  PROVE  AcctInv'
<1>0. AcctTypes /\ row \in Rows /\ areq[r] \in Requests /\ row.secret <= lastSecret /\ lastHash \in 1 .. MaxHash /\ crossed \in BOOLEAN
  BY DEF AcctInv, AcctTypes, FreshInv
<1>1. CASE UpgradePassword(r) /\ ~(areq[r].read.plain /\ lastHash < MaxHash)
  <2> DEFINE q == [areq[r] EXCEPT !.pc = "stamp"]
  <2>1. areq[r].pc = "upgrade" /\ areq' = [areq EXCEPT ![r].pc = "stamp"]
        /\ UNCHANGED <<row, lastHash, lastSecret, step, sockets, sessions, acctGhosts>>
    BY <1>1 DEF UpgradePassword, acctGhosts
  <2>2. q \in Requests /\ q.pc = "stamp" /\ q.read = areq[r].read /\ q.raced = areq[r].raced
    BY <1>0, <2>1, RequestMoves
  <2>3. areq' = [areq EXCEPT ![r] = q]
    BY <2>1
  <2>4. ~q.raced => q.read.hash = row.hash /\ q.read.plain = row.plain
    BY <2>1, <2>2 DEF AcctInv, ReadInv
  <2> HIDE DEF q
  <2> QED BY <2>1, <2>2, <2>3, <2>4, CalmStep
<1>2. CASE UpgradePassword(r) /\ areq[r].read.plain /\ lastHash < MaxHash
  <2> DEFINE q == [pc |-> "stamp", read |-> row', raced |-> areq[r].raced]
  <2>1. /\ areq[r].pc = "upgrade" /\ row' = [row EXCEPT !.hash = lastHash + 1, !.plain = FALSE] /\ lastHash' = lastHash + 1
        /\ crossed' = (crossed \/ areq[r].raced) /\ areq' = [Races(r) EXCEPT ![r] = q]
        /\ sockets' = Unreached /\ UNCHANGED <<lastSecret, step, sessions, used, replayed>>
    BY <1>2 DEF UpgradePassword
  <2>2. lastHash + 1 \in 1 .. MaxHash
    BY <1>0, <1>2, AcctBounds
  <2>3. row' \in Rows /\ row'.hash = lastHash + 1 /\ row'.secret = row.secret /\ row'.counter = row.counter
    BY <1>0, <2>1, <2>2 DEF Rows
  <2>4. areq[r].raced \in BOOLEAN
    BY <1>0, <2>1, RequestFields
  <2>5. q \in Requests /\ q.pc = "stamp" /\ q.read = row'
    BY <2>3, <2>4, RequestMade DEF Requests
  <2>6. crossed' \in BOOLEAN /\ (crossed => crossed')
    BY <1>0, <2>1, <2>4
  <2> HIDE DEF q
  <2> QED BY <1>0, <1>2, <2>1, <2>3, <2>5, <2>6, NewHashStep
<1>3. CASE SaveAccount(r)
  <2> DEFINE w == areq[r].read
             q == IF areq[r].who = "shell" THEN Idle ELSE [pc |-> "drop", raced |-> FALSE]
  <2>1. /\ areq[r].pc = "save" /\ lastHash < MaxHash /\ lastHash' = lastHash + 1
        /\ row' = [w EXCEPT !.hash = lastHash + 1, !.plain = FALSE]
        /\ crossed' = (crossed \/ [row EXCEPT !.hash = 0] # [w EXCEPT !.hash = 0])
        /\ areq' = [Races(r) EXCEPT ![r] = q]
        /\ sockets' = IF areq[r].who = "shell" THEN Unreached ELSE sockets
        /\ UNCHANGED <<lastSecret, step, sessions, used, replayed>>
    BY <1>3 DEF SaveAccount
  <2>2. w \in Rows
    BY <1>0, <2>1, RequestFields
  <2>3. lastHash + 1 \in 1 .. MaxHash
    BY <1>0, <2>1, AcctBounds
  <2>4. row' \in Rows /\ row'.hash = lastHash + 1 /\ row'.secret = w.secret /\ row'.counter = w.counter
    BY <2>1, <2>2, <2>3 DEF Rows
  <2>5. q \in Requests /\ q.pc \in {"idle", "drop"} /\ (areq[r].who # "shell" => q.pc = "drop")
    BY DEF Requests, Idle
  <2>6. crossed' \/ (w.secret = row.secret /\ w.counter = row.counter)
    <3>1. [row EXCEPT !.hash = 0] = [w EXCEPT !.hash = 0] => w.secret = row.secret /\ w.counter = row.counter
      BY <1>0, <2>2 DEF Rows
    <3> QED BY <2>1, <3>1
  <2>7. crossed' \in BOOLEAN /\ (crossed => crossed')
    BY <1>0, <2>1
  <2>8. w.secret <= lastSecret
    BY <2>1, SecretRead
  <2> HIDE DEF q, w
  <2> QED BY <1>0, <2>1, <2>4, <2>5, <2>6, <2>7, <2>8, NewHashStep
<1> QED
  BY <1>1, <1>2, <1>3

\* SetLoginUser: the session gets the fingerprint of the row, which an unraced login has read.
LEMMA StampStep ==
  ASSUME AcctInv, NEW r \in AcctReq, SetLoginUser(r)
  PROVE  AcctInv'
<1>0. AcctTypes /\ row \in Rows /\ areq \in [AcctReq -> Requests] /\ areq[r] \in Requests /\ areq[r].pc = "stamp"
  BY DEF AcctInv, AcctTypes, SetLoginUser
<1> DEFINE s == [cred |-> CredentialFingerprint, proved |-> <<areq[r].read.hash, areq[r].read.plain>>, raced |-> areq[r].raced]
<1>1. /\ sessions' = {s} /\ areq' = [areq EXCEPT ![r] = Idle]
      /\ UNCHANGED <<row, lastHash, lastSecret, step, sockets, used, replayed, crossed>>
  BY DEF SetLoginUser, acctGhosts
<1>2. areq[r].read \in Rows /\ areq[r].raced \in BOOLEAN
  BY <1>0, RequestFields
<1>3. CredentialFingerprint \in Creds /\ CredentialFingerprint[1] = row.hash
  BY <1>0, FingerprintTyped
<1>4. <<areq[r].read.hash, areq[r].read.plain>> \in Creds
  BY <1>2 DEF Rows, Creds
<1>5. s \in [cred : Creds, proved : Creds, raced : BOOLEAN] /\ s.cred = CredentialFingerprint
      /\ s.proved = <<areq[r].read.hash, areq[r].read.plain>> /\ s.raced = areq[r].raced
  BY <1>2, <1>3, <1>4
<1>6. ~s.raced => s.proved = CredentialFingerprint
  BY <1>0, <1>5 DEF AcctInv, ReadInv, CredentialFingerprint
<1> HIDE DEF s
<1>7. Idle \in Requests /\ Idle.pc = "idle"
  BY DEF Requests, Idle
<1>8. areq'[r].pc = "idle" /\ \A p \in AcctReq \ {r} : areq'[p] = areq[p]
  BY <1>0, <1>1, <1>7
<1>9. AcctTypes'
  BY <1>0, <1>1, <1>5, <1>7 DEF AcctTypes
<1>10. FreshInv' /\ UsedInv' /\ ReadInv'
  BY <1>1, <1>3, <1>5, <1>8 DEF AcctInv, FreshInv, UsedInv, ReadInv
<1>11. SessionCurrent'
  BY <1>1, <1>6 DEF SessionCurrent, GetLoginUser, CredentialFingerprint
<1>12. SocketInv'
  BY <1>0, <1>1, <1>8 DEF AcctInv, SocketInv, CredentialFingerprint
<1> QED
  BY <1>9, <1>10, <1>11, <1>12 DEF AcctInv

\* DropSockets: what is left was not registered, and was missed.
LEMMA DropStep ==
  ASSUME AcctInv, NEW r \in AcctReq, DropSockets(r)
  PROVE  AcctInv'
<1>0. AcctTypes /\ areq \in [AcctReq -> Requests]
      /\ sockets \subseteq [state : {"handshake", "open"}, cred : Creds, missed : BOOLEAN]
  BY DEF AcctInv, AcctTypes
<1>1. /\ sockets' = DropAllClients /\ areq' = [areq EXCEPT ![r] = Idle] /\ areq[r].pc = "drop"
      /\ UNCHANGED <<row, lastHash, lastSecret, step, sessions, used, replayed, crossed>>
  BY DEF DropSockets, acctGhosts
<1>2. Idle \in Requests /\ Idle.pc = "idle"
  BY DEF Requests, Idle
<1>3. areq'[r].pc = "idle" /\ \A p \in AcctReq \ {r} : areq'[p] = areq[p]
  BY <1>0, <1>1, <1>2
<1>4. ASSUME NEW s \in [state : {"handshake", "open"}, cred : Creds, missed : BOOLEAN]
      PROVE  /\ [s EXCEPT !.missed = TRUE] \in [state : {"handshake", "open"}, cred : Creds, missed : BOOLEAN]
             /\ [s EXCEPT !.missed = TRUE].missed
  BY <1>4
<1>5. sockets' \subseteq [state : {"handshake", "open"}, cred : Creds, missed : BOOLEAN] /\ \A s \in sockets' : s.missed
  BY <1>0, <1>1, <1>4 DEF DropAllClients
<1>6. AcctTypes'
  BY <1>0, <1>1, <1>2, <1>5 DEF AcctTypes
<1>7. FreshInv' /\ UsedInv' /\ ReadInv'
  BY <1>1, <1>3 DEF AcctInv, FreshInv, UsedInv, ReadInv
<1>8. SessionCurrent'
  BY <1>1 DEF AcctInv, SessionCurrent, GetLoginUser, CredentialFingerprint
<1>9. SocketInv'
  BY <1>5 DEF SocketInv
<1> QED
  BY <1>6, <1>7, <1>8, <1>9 DEF AcctInv

\* EnrolSecret and DisableTwoFa: the secret is a new one, or none.
LEMMA SecretStep ==
  ASSUME AcctInv, DisableTwoFa \/ \E r \in AcctReq : EnrolSecret(r)
  PROVE  AcctInv'
<1>0. AcctTypes /\ row \in Rows /\ areq \in [AcctReq -> Requests] /\ lastSecret \in 0 .. MaxSecret
  BY DEF AcctInv, AcctTypes
<1>1. CASE DisableTwoFa
  <2>1. /\ row' = [row EXCEPT !.secret = 0, !.counter = 0]
        /\ UNCHANGED <<lastHash, lastSecret, step, areq, sockets, sessions, used, replayed, crossed>>
    BY <1>1 DEF DisableTwoFa, acctGhosts
  <2>2. row' \in Rows /\ row'.hash = row.hash /\ row'.plain = row.plain /\ row'.secret = 0
    <3>1. 0 \in 0 .. MaxSecret /\ 0 \in 0 .. MaxSteps + 1
      BY AcctBounds
    <3> QED BY <1>0, <2>1, <3>1 DEF Rows
  <2>3. AcctTypes'
    BY <1>0, <2>1, <2>2 DEF AcctTypes
  <2>4. 0 <= lastSecret
    BY <1>0, AcctBounds
  <2>5. FreshInv' /\ ReadInv'
    BY <2>1, <2>2, <2>4 DEF AcctInv, FreshInv, ReadInv
  <2>6. UsedInv'
    BY <2>1, <2>2 DEF AcctInv, FreshInv, UsedInv
  <2>7. CredentialFingerprint' = CredentialFingerprint
    BY <2>2 DEF CredentialFingerprint
  <2>8. SessionCurrent' /\ SocketInv'
    BY <2>1, <2>7 DEF AcctInv, SessionCurrent, SocketInv, GetLoginUser
  <2> QED BY <2>3, <2>5, <2>6, <2>8 DEF AcctInv
<1>2. ASSUME NEW r \in AcctReq, EnrolSecret(r) PROVE AcctInv'
  <2> DEFINE c == areq[r].code
             n == lastSecret + 1
  <2>1. /\ areq[r].pc = "enrol" /\ lastSecret < MaxSecret /\ lastSecret' = n
        /\ row' = [row EXCEPT !.secret = n, !.counter = c] /\ used' = used \cup {<<n, c>>}
        /\ areq' = [areq EXCEPT ![r] = Idle]
        /\ UNCHANGED <<lastHash, step, sockets, sessions, replayed, crossed>>
    BY <1>2 DEF EnrolSecret
  <2>2. areq[r] \in Requests /\ c \in Codes
    BY <1>0, <2>1, RequestFields
  <2>3. n \in 0 .. MaxSecret /\ 0 < n /\ c \in 0 .. MaxSteps + 1 /\ c <= c
    BY <1>0, <2>1, <2>2, AcctBounds DEF Codes
  <2>4. lastSecret \in Nat /\ n = lastSecret + 1 /\ lastSecret < n /\ lastSecret <= n
    BY <1>0, AcctBounds
  <2> HIDE DEF c, n
  <2>5. row' \in Rows /\ row'.hash = row.hash /\ row'.plain = row.plain /\ row'.secret = n /\ row'.counter = c
    BY <1>0, <2>1, <2>3 DEF Rows
  <2>6. Idle \in Requests /\ Idle.pc = "idle"
    BY DEF Requests, Idle
  <2>7. areq'[r].pc = "idle" /\ \A p \in AcctReq \ {r} : areq'[p] = areq[p]
    BY <1>0, <2>1, <2>6
  <2>8. AcctTypes'
    <3>1. areq' \in [AcctReq -> Requests] /\ used' \subseteq (0 .. MaxSecret) \X Codes
      BY <1>0, <2>1, <2>2, <2>3, <2>6 DEF AcctTypes
    <3> QED BY <1>0, <2>1, <2>3, <2>5, <3>1 DEF AcctTypes
  <2>9. \A u \in used : u[1] \in Nat /\ u[1] <= lastSecret /\ 0 < u[1]
    BY <1>0, AcctBounds DEF AcctInv, AcctTypes, FreshInv
  <2>10. \A p \in AcctReq : areq[p].pc \in {"burn", "save"} => areq[p].read.secret \in Nat /\ areq[p].read.secret <= lastSecret
    <3>1. ASSUME NEW p \in AcctReq, areq[p].pc \in {"burn", "save"} PROVE areq[p].read.secret \in Nat
      <4>1. areq[p].read \in Rows
        BY <1>0, <3>1, RequestFields
      <4>2. areq[p].read.secret \in 0 .. MaxSecret
        BY <4>1 DEF Rows
      <4> QED BY <4>2, AcctBounds
    <3> QED BY <3>1, SecretRead
  <2>11. FreshInv'
    <3>1. \A u \in used' : 0 < u[1] /\ u[1] <= lastSecret'
      BY <2>1, <2>3, <2>4, <2>9
    <3>2. \A p \in AcctReq : /\ areq'[p].pc = "burn" => 0 < areq'[p].read.secret
                             /\ areq'[p].pc \in {"burn", "save"} => areq'[p].read.secret <= lastSecret'
      <4>1. ASSUME NEW p \in AcctReq, areq'[p].pc \in {"burn", "save"}
            PROVE  areq'[p].read.secret <= lastSecret' /\ (areq'[p].pc = "burn" => 0 < areq'[p].read.secret)
        <5>1. p # r /\ areq'[p] = areq[p]
          BY <2>7, <4>1
        <5>2. areq[p].read.secret \in Nat /\ areq[p].read.secret <= lastSecret
          BY <2>10, <4>1, <5>1
        <5>3. areq[p].pc = "burn" => 0 < areq[p].read.secret
          BY SecretRead
        <5> QED BY <2>1, <2>4, <5>1, <5>2, <5>3
      <4> QED BY <4>1
    <3> QED BY <2>1, <2>4, <2>5, <3>1, <3>2 DEF AcctInv, FreshInv
  <2>12. UsedInv'
    <3>1. \A u \in used' : u[1] = row'.secret => u[2] <= row'.counter
      BY <2>1, <2>3, <2>4, <2>5, <2>9
    <3> QED BY <2>1, <3>1 DEF AcctInv, UsedInv
  <2>13. ReadInv'
    BY <2>1, <2>5, <2>7 DEF AcctInv, ReadInv
  <2>14. CredentialFingerprint' = CredentialFingerprint
    BY <2>5 DEF CredentialFingerprint
  <2>15. SessionCurrent' /\ SocketInv'
    BY <1>0, <2>1, <2>7, <2>14 DEF AcctInv, SessionCurrent, SocketInv, GetLoginUser
  <2> QED BY <2>8, <2>11, <2>12, <2>13, <2>15 DEF AcctInv
<1> QED
  BY <1>1, <1>2

\* Sockets open, are registered and close; the clock goes on.
LEMMA SocketStep ==
  ASSUME AcctInv, \/ NextStep \/ \E s \in sessions : Handshake(s)
                  \/ \E s \in sockets : HubServe(s) \/ CloseSocket(s)
  PROVE  AcctInv'
<1>0. AcctTypes /\ sockets \subseteq [state : {"handshake", "open"}, cred : Creds, missed : BOOLEAN] /\ step \in 1 .. MaxSteps
  BY DEF AcctInv, AcctTypes
<1>1. UNCHANGED <<row, lastHash, lastSecret, areq, sessions, used, replayed, crossed>>
  BY DEF NextStep, Handshake, HubServe, CloseSocket, acctGhosts
<1>2. step' \in 1 .. MaxSteps
  BY <1>0, AcctBounds DEF NextStep, Handshake, HubServe, CloseSocket
<1>3. /\ sockets' \subseteq [state : {"handshake", "open"}, cred : Creds, missed : BOOLEAN]
      /\ \A s \in sockets' : s.cred = CredentialFingerprint \/ s.missed \/ \E r \in AcctReq : areq[r].pc = "drop"
  <2> USE DEF AcctInv, SocketInv
  <2>1. CASE NextStep
    BY <1>0, <2>1 DEF NextStep
  <2>2. ASSUME NEW s \in sessions, Handshake(s) PROVE <1>3!:
    <3>1. s.cred = CredentialFingerprint /\ CredentialFingerprint \in Creds
      BY <1>0, <2>2, FingerprintTyped DEF Handshake, GetLoginUser
    <3>2. sockets' = sockets \cup {[state |-> "handshake", cred |-> s.cred, missed |-> FALSE]}
      BY <2>2 DEF Handshake
    <3> DEFINE n == [state |-> "handshake", cred |-> s.cred, missed |-> FALSE]
    <3>3. n \in [state : {"handshake", "open"}, cred : Creds, missed : BOOLEAN] /\ n.cred = CredentialFingerprint
      BY <3>1
    <3> HIDE DEF n
    <3> QED BY <1>0, <3>2, <3>3 DEF n
  <2>3. ASSUME NEW s \in sockets, HubServe(s) PROVE <1>3!:
    <3>1. sockets' = (sockets \ {s}) \cup {[s EXCEPT !.state = "open"]}
      BY <2>3 DEF HubServe
    <3>2. /\ [s EXCEPT !.state = "open"] \in [state : {"handshake", "open"}, cred : Creds, missed : BOOLEAN]
          /\ [s EXCEPT !.state = "open"].cred = s.cred /\ [s EXCEPT !.state = "open"].missed = s.missed
      BY <1>0
    <3> QED BY <1>0, <3>1, <3>2
  <2>4. ASSUME NEW s \in sockets, CloseSocket(s) PROVE <1>3!:
    BY <1>0, <2>4 DEF CloseSocket
  <2> QED BY <2>1, <2>2, <2>3, <2>4
<1>4. AcctTypes'
  BY <1>0, <1>1, <1>2, <1>3 DEF AcctTypes
<1>5. FreshInv' /\ UsedInv' /\ ReadInv'
  BY <1>1 DEF AcctInv, FreshInv, UsedInv, ReadInv
<1>6. SessionCurrent' /\ SocketInv'
  BY <1>1, <1>3 DEF AcctInv, SessionCurrent, SocketInv, GetLoginUser, CredentialFingerprint
<1> QED
  BY <1>4, <1>5, <1>6 DEF AcctInv

\* Every step of a request, of a socket and of the clock keeps the invariant of the account.
LEMMA AcctStep ==
  ASSUME AcctInv, [AcctNext]_acctVars
  PROVE  AcctInv'
<1>1. CASE UNCHANGED acctVars
  BY <1>1 DEF acctVars, AcctInv, AcctTypes, FreshInv, UsedInv, ReadInv, SessionCurrent, SocketInv, GetLoginUser,
     CredentialFingerprint
<1>2. CASE AcctNext
  BY <1>2, ReadingStep, BurnStep, HashingStep, StampStep, DropStep, SecretStep, SocketStep DEF AcctNext
<1> QED
  BY <1>1, <1>2

\* Who is let in (service/user.go, api/session.go, api/wsHandler.go, api/apiV2Handler.go), for any
\* number of requests: a one-time code logs in once, an accepted session was issued for the
\* credentials of now, sockets of old ones are dropped, a revoked token is refused.
THEOREM AccessIsSafe == AcctSpec /\ TokSpec => []AccessSafety
<1>1. AcctInit => AcctInv
  <2> SUFFICES ASSUME AcctInit PROVE AcctInv
    OBVIOUS
  <2>1. /\ row.hash = 1 /\ row.plain \in BOOLEAN /\ row.secret = 0 /\ row.counter = 0
        /\ row \in [hash : {1}, plain : BOOLEAN, secret : {0}, counter : {0}]
    BY DEF AcctInit
  <2>2. 1 \in 1 .. MaxHash /\ 0 \in 0 .. MaxSecret /\ 1 \in 1 .. MaxSteps /\ 0 \in 0 .. MaxSteps + 1
    BY AcctBounds
  <2>3. row \in Rows
    BY <2>1, <2>2 DEF Rows
  <2>4. Idle \in Requests /\ Idle.pc = "idle"
    BY DEF Requests, Idle
  <2>5. AcctTypes
    BY <2>2, <2>3, <2>4 DEF AcctInit, AcctTypes
  <2>6. \A r \in AcctReq : areq[r].pc = "idle"
    BY <2>4 DEF AcctInit
  <2> QED BY <2>1, <2>5, <2>6 DEF AcctInit, AcctInv, FreshInv, UsedInv, ReadInv, SessionCurrent, SocketInv
<1>2. AcctInv /\ [AcctNext]_acctVars => AcctInv'
  BY AcctStep
<1>3. AcctInv => AcctTypeOK /\ CodeOnce /\ SessionCurrent /\ SocketsDropped
  <2> SUFFICES ASSUME AcctInv PROVE AcctTypeOK /\ CodeOnce /\ SessionCurrent /\ SocketsDropped
    OBVIOUS
  <2>1. AcctTypeOK
    <3>1. \A r \in AcctReq : areq[r] \in Requests
      BY DEF AcctInv, AcctTypes
    <3> QED BY <3>1, RequestFields DEF AcctInv, AcctTypes, AcctTypeOK, Rows
  <2>2. CodeOnce /\ SocketsDropped
    BY DEF AcctInv, UsedInv, SocketInv, CodeOnce, SocketsDropped
  <2> QED BY <2>1, <2>2 DEF AcctInv
<1>4. AcctSpec => [](AcctTypeOK /\ CodeOnce /\ SessionCurrent /\ SocketsDropped)
  BY <1>1, <1>2, <1>3, PTL DEF AcctSpec
<1>5. (AcctTypeOK /\ CodeOnce /\ SessionCurrent /\ SocketsDropped) /\ RevokedIsRefused => AccessSafety
  BY DEF AccessSafety
<1> QED
  BY <1>4, <1>5, RevokedTokensRefused, PTL

-----------------------------------------------------------------------------
(* The alerts. *)

\* The last alert of a queue.
End(q) == q[Len(q)]

\* The newest alert on its way to a channel, or the last one it has sent.
Latest(c) ==
  IF bus # <<>> THEN End(bus)
  ELSE IF queue[c] # <<>> THEN End(queue[c])
  ELSE IF handling[c] # Quiet THEN handling[c] ELSE told[c]

\* The suppressor's idea of the node is what an alert says; a new suppressor's is that it is up.
InStep(alertKind) == \/ alertKind = "node.down" /\ health = FALSE
                     \/ alertKind \in {"node.up", Quiet} /\ health = TRUE

AlertTypes ==
  /\ busState \in {"running", "stopping", "down"} /\ bus \in Seq(StateKinds)
  /\ queue \in [Channel -> Seq(StateKinds)]
  /\ handling \in [Channel -> StateKinds \cup {Quiet}] /\ told \in [Channel -> StateKinds \cup {Quiet}]
  /\ nodeFailStreak \in Nat

FlagTypes == health \in BOOLEAN /\ deaf \in BOOLEAN /\ missed \in BOOLEAN

\* What a channel is going to have told, once its queues are empty, is what the suppressor holds.
PipeInv == busState = "running" => \A c \in Channel \ lost : InStep(Latest(c))

\* A node that is down for the suppressor has failed often enough, unless its recovery was filtered out.
StreakInv == busState = "running" /\ ~deaf /\ ~health => nodeFailStreak >= NodeFlap

\* A worker that has returned is sending nothing, and a stopped bus has none left.
ExitInv ==
  /\ \A c \in Channel : c \in exited => handling[c] = Quiet
  /\ busState = "down" => exited = Workers

AlertInv == AlertTypes /\ FlagTypes /\ PipeInv /\ StreakInv /\ ExitInv /\ OutageReportedUnlessDeaf

TallyInv ==
  /\ failures \in Nat /\ untold = failures
  /\ TallyTold

LEMMA QueueFacts ==
  /\ \A q \in Seq(StateKinds), e \in StateKinds : Append(q, e) \in Seq(StateKinds) /\ Append(q, e) # <<>> /\ End(Append(q, e)) = e
  /\ \A q \in Seq(StateKinds) : q # <<>> => /\ Tail(q) \in Seq(StateKinds) /\ Head(q) \in StateKinds /\ End(q) \in StateKinds
                                            /\ (Tail(q) # <<>> => End(Tail(q)) = End(q))
                                            /\ (Tail(q) = <<>> => Head(q) = End(q))
<1>1. ASSUME NEW q \in Seq(StateKinds), NEW e \in StateKinds
      PROVE  Append(q, e) \in Seq(StateKinds) /\ Append(q, e) # <<>> /\ End(Append(q, e)) = e
  BY DEF End
<1>2. ASSUME NEW q \in Seq(StateKinds), q # <<>>
      PROVE  /\ Tail(q) \in Seq(StateKinds) /\ Head(q) \in StateKinds /\ End(q) \in StateKinds
             /\ (Tail(q) # <<>> => End(Tail(q)) = End(q))
             /\ (Tail(q) = <<>> => Head(q) = End(q))
  <2>1. Len(q) \in Nat /\ Len(q) >= 1 /\ Tail(q) \in Seq(StateKinds) /\ Len(Tail(q)) = Len(q) - 1
    BY <1>2
  <2>2. Head(q) = q[1] /\ Head(q) \in StateKinds /\ End(q) \in StateKinds
    BY <1>2, <2>1 DEF End
  <2>3. ASSUME Tail(q) # <<>>
        PROVE  End(Tail(q)) = End(q)
    <3>1. Len(Tail(q)) >= 1
      BY <2>1, <2>3
    <3>2. PICK k \in 1 .. Len(Tail(q)) : k = Len(Tail(q))
      <4>1. Len(Tail(q)) \in 1 .. Len(Tail(q))
        BY <2>1, <3>1
      <4> QED BY <4>1, Zenon
    <3>3. \A j \in 1 .. Len(Tail(q)) : Tail(q)[j] = q[j + 1]
      BY <1>2, HeadTailProperties, Zenon
    <3>4. k + 1 = Len(q)
      BY <2>1, <3>2
    <3>5. End(Tail(q)) = Tail(q)[k] /\ End(q) = q[k + 1]
      BY <3>2, <3>4, Zenon DEF End
    <3> QED BY <3>3, <3>5, Zenon
  <2>4. ASSUME Tail(q) = <<>>
        PROVE  Head(q) = End(q)
    <3>1. Len(q) = 1
      BY <2>1, <2>4
    <3> QED BY <2>2, <3>1 DEF End
  <2> QED BY <2>1, <2>2, <2>3, <2>4
<1> QED
  BY <1>1, <1>2

LEMMA KindFacts == "node.up" \in StateKinds /\ "node.down" \in StateKinds /\ Quiet \notin StateKinds /\ "node.up" # "node.down"
  BY DEF StateKinds, Quiet

LEMMA AlertInitial == AlertInit => AlertInv
<1> SUFFICES ASSUME AlertInit
             PROVE  AlertInv
  OBVIOUS
<1>1. /\ health = TRUE /\ deaf = FALSE /\ missed = FALSE /\ busState = "running" /\ bus = <<>> /\ nodeFailStreak = 0 /\ exited = {}
      /\ queue = [c \in Channel |-> <<>>] /\ handling = [c \in Channel |-> Quiet] /\ told = [c \in Channel |-> Quiet]
  BY DEF AlertInit
<1>2. AlertTypes
  BY <1>1 DEF AlertTypes
<1>3. FlagTypes /\ OutageReportedUnlessDeaf /\ StreakInv
  BY <1>1, Zenon DEF FlagTypes, OutageReportedUnlessDeaf, StreakInv
<1>4. PipeInv
  BY <1>1 DEF PipeInv, InStep, Latest
<1>5. ExitInv
  BY <1>1 DEF ExitInv
<1> QED
  BY <1>2, <1>3, <1>4, <1>5 DEF AlertInv

\* A publication either changes nothing or makes its kind the newest alert and the suppressor's idea.
LEMMA PublishFacts ==
  ASSUME AlertInv, NEW kind \in StateKinds, PublishEvent(kind), UNCHANGED <<busState, queue, handling, told>>
  PROVE  /\ bus' \in Seq(StateKinds) /\ health' \in BOOLEAN /\ PipeInv'
         /\ (health' = health \/ (health' = (kind = "node.up") /\ busState = "running"))
         /\ (busState = "running" /\ kind \in wants => health' = (kind = "node.up"))
<1>0. AlertTypes /\ FlagTypes /\ PipeInv
  BY DEF AlertInv
<1>1. CASE busState # "running" \/ kind \notin wants \/ ~stateChanged(kind = "node.up")
  <2>1. UNCHANGED <<health, bus, lost>>
    BY <1>1 DEF PublishEvent
  <2>2. PipeInv'
    BY <1>0, <2>1 DEF PipeInv, InStep, Latest
  <2>3. busState = "running" /\ kind \in wants => health = (kind = "node.up")
    BY <1>1, Zenon DEF stateChanged
  <2> QED BY <1>0, <2>1, <2>2, <2>3, Zenon DEF FlagTypes, AlertTypes
<1>2. CASE ~(busState # "running" \/ kind \notin wants \/ ~stateChanged(kind = "node.up"))
  <2>1. /\ health' = HealthAfter(kind)
        /\ IF Len(bus) < BusBuffer THEN bus' = Append(bus, kind) /\ lost' = lost ELSE bus' = bus /\ lost' = Channel
    BY <1>2, Zenon DEF PublishEvent
  <2>2. health' = (kind = "node.up") /\ health' \in BOOLEAN
    BY <2>1, Zenon DEF HealthAfter
  <2>3. PipeInv' /\ bus' \in Seq(StateKinds)
    <3>1. CASE bus' = Append(bus, kind) /\ lost' = lost
      <4>1. bus' # <<>> /\ End(bus') = kind /\ bus' \in Seq(StateKinds)
        BY <1>0, <3>1, QueueFacts DEF AlertTypes
      <4>2. (kind = "node.down" /\ health' = FALSE) \/ (kind \in {"node.up", Quiet} /\ health' = TRUE)
        BY <2>2 DEF StateKinds
      <4> QED BY <4>1, <4>2 DEF PipeInv, InStep, Latest
    <3>2. CASE bus' = bus /\ lost' = Channel
      BY <1>0, <3>2 DEF PipeInv, AlertTypes
    <3> QED BY <2>1, <3>1, <3>2
  <2> QED BY <1>2, <2>2, <2>3, Zenon
<1> QED
  BY <1>1, <1>2

LEMMA ProbeKeeps ==
  ASSUME AlertInv, Probe
  PROVE  AlertInv'
<1>0. AlertTypes /\ FlagTypes /\ PipeInv /\ StreakInv /\ ExitInv /\ OutageReportedUnlessDeaf
  BY DEF AlertInv
<1>1. UNCHANGED <<wants, nodeUp, busState, queue, handling, exited, starts, told>>
  BY DEF Probe
<1>2. ExitInv'
  BY <1>0, <1>1 DEF ExitInv, Workers
<1>3. nodeFailStreak \in Nat /\ NodeFlap \in Nat
  BY <1>0, NotifyConstants DEF AlertTypes
<1>4. CASE nodeUp
  <2>1. /\ nodeFailStreak' = 0 /\ PublishEvent("node.up") /\ missed' = missed
        /\ deaf' = (deaf \/ (nodeFailStreak >= NodeFlap /\ "node.up" \notin wants))
    BY <1>4 DEF Probe
  <2>2. /\ bus' \in Seq(StateKinds) /\ health' \in BOOLEAN /\ PipeInv'
        /\ (health' = health \/ (health' = ("node.up" = "node.up") /\ busState = "running"))
        /\ (busState = "running" /\ "node.up" \in wants => health' = ("node.up" = "node.up"))
    BY <1>1, <2>1, KindFacts, PublishFacts
  <2>3. AlertTypes'
    BY <1>0, <1>1, <2>1, <2>2 DEF AlertTypes
  <2>4. FlagTypes' /\ OutageReportedUnlessDeaf'
    BY <1>0, <2>1, <2>2, Zenon DEF FlagTypes, OutageReportedUnlessDeaf
  <2>5. ASSUME busState' = "running", ~deaf', ~health'
        PROVE  FALSE
    <3>1. ~deaf /\ ~(nodeFailStreak >= NodeFlap /\ "node.up" \notin wants) /\ busState = "running"
      BY <1>1, <2>1, <2>5, Zenon
    <3>0. ("node.up" = "node.up") = TRUE
      OBVIOUS
    <3>2. ~health /\ "node.up" \notin wants
      <4>1. ~(health' = TRUE)
        BY <2>5, Zenon
      <4>2. ~(health' = ("node.up" = "node.up"))
        BY <3>0, <4>1
      <4>3. health' = health /\ "node.up" \notin wants
        BY <2>2, <3>1, <4>2, Zenon
      <4> QED BY <2>5, <4>3, Zenon
    <3> QED BY <1>0, <3>1, <3>2, Zenon DEF StreakInv
  <2>6. StreakInv'
    BY <2>5, Zenon DEF StreakInv
  <2> QED BY <1>2, <2>2, <2>3, <2>4, <2>6 DEF AlertInv
<1>5. CASE ~nodeUp
  <2>1. /\ nodeFailStreak' = nodeFailStreak + 1 /\ deaf' = deaf
        /\ missed' = (missed \/ (nodeFailStreak' = NodeFlap /\ busState = "running" /\ "node.down" \in wants /\ ~health))
        /\ IF nodeFailStreak' < NodeFlap THEN UNCHANGED <<health, bus, lost>> ELSE PublishEvent("node.down")
    BY <1>5 DEF Probe
  <2>2. /\ bus' \in Seq(StateKinds) /\ health' \in BOOLEAN /\ PipeInv'
        /\ (health' = health \/ nodeFailStreak' >= NodeFlap)
    <3>1. CASE nodeFailStreak' < NodeFlap
      <4>1. UNCHANGED <<health, bus, lost>>
        BY <2>1, <3>1
      <4>2. PipeInv'
        BY <1>0, <1>1, <4>1 DEF PipeInv, InStep, Latest
      <4> QED BY <1>0, <4>1, <4>2, Zenon DEF AlertTypes, FlagTypes
    <3>2. CASE ~(nodeFailStreak' < NodeFlap)
      <4>1. PublishEvent("node.down")
        BY <2>1, <3>2
      <4>2. nodeFailStreak' >= NodeFlap
        BY <1>3, <2>1, <3>2
      <4>3. bus' \in Seq(StateKinds) /\ health' \in BOOLEAN /\ PipeInv'
        BY <1>1, <4>1, KindFacts, PublishFacts
      <4> QED BY <4>2, <4>3
    <3> QED BY <3>1, <3>2
  <2>3. AlertTypes'
    BY <1>0, <1>1, <2>1, <2>2 DEF AlertTypes
  <2>4. ~deaf /\ ~health /\ busState = "running" => nodeFailStreak' # NodeFlap /\ nodeFailStreak' >= NodeFlap
    <3>1. ~deaf /\ ~health /\ busState = "running" => nodeFailStreak >= NodeFlap
      BY <1>0, Zenon DEF StreakInv
    <3> QED BY <1>3, <2>1, <3>1
  <2>5. FlagTypes' /\ OutageReportedUnlessDeaf'
    BY <1>0, <2>1, <2>2, <2>4, Zenon DEF FlagTypes, OutageReportedUnlessDeaf
  <2>6. StreakInv'
    <3>1. deaf' = deaf /\ busState' = busState
      BY <1>1, <2>1
    <3>2. ASSUME busState = "running", ~deaf, ~health'
          PROVE  nodeFailStreak' >= NodeFlap
      <4>1. CASE health' = health
        <5>1. ~health
          BY <3>2, <4>1, Zenon
        <5> QED BY <2>4, <3>2, <5>1, Zenon
      <4> QED BY <2>2, <4>1, Zenon
    <3> QED BY <3>1, <3>2, Zenon DEF StreakInv
  <2> QED BY <1>2, <2>2, <2>3, <2>5, <2>6 DEF AlertInv
<1> QED
  BY <1>4, <1>5

LEMMA DispatchKeeps ==
  ASSUME AlertInv, Dispatch
  PROVE  AlertInv'
<1>0. AlertTypes /\ FlagTypes /\ PipeInv /\ StreakInv /\ ExitInv /\ OutageReportedUnlessDeaf
  BY DEF AlertInv
<1>1. /\ bus # <<>> /\ bus' = Tail(bus)
      /\ queue' = [c \in Channel |-> IF Len(queue[c]) < QueueSize THEN Append(queue[c], Head(bus)) ELSE queue[c]]
      /\ lost' = lost \cup {c \in Channel : Len(queue[c]) >= QueueSize}
      /\ UNCHANGED <<wants, nodeUp, nodeFailStreak, probes, health, busState, handling, exited, starts, told, deaf, missed>>
  BY DEF Dispatch, MayTake
<1>2. FlagTypes' /\ OutageReportedUnlessDeaf' /\ StreakInv' /\ ExitInv'
  BY <1>0, <1>1, Zenon DEF FlagTypes, OutageReportedUnlessDeaf, StreakInv, ExitInv, Workers
<1>3. /\ Tail(bus) \in Seq(StateKinds) /\ Head(bus) \in StateKinds
      /\ (Tail(bus) # <<>> => End(Tail(bus)) = End(bus)) /\ (Tail(bus) = <<>> => Head(bus) = End(bus))
  BY <1>0, <1>1, QueueFacts DEF AlertTypes
<1>4. ASSUME NEW c \in Channel
      PROVE  queue'[c] \in Seq(StateKinds) /\ (c \notin lost' => queue'[c] # <<>> /\ End(queue'[c]) = Head(bus))
  <2>1. queue[c] \in Seq(StateKinds) /\ Len(queue[c]) \in Nat /\ QueueSize \in Nat
    BY <1>0, NotifyConstants DEF AlertTypes
  <2>2. Append(queue[c], Head(bus)) \in Seq(StateKinds) /\ Append(queue[c], Head(bus)) # <<>> /\ End(Append(queue[c], Head(bus))) = Head(bus)
    BY <1>3, <2>1, QueueFacts
  <2>3. CASE Len(queue[c]) < QueueSize
    BY <1>1, <2>2, <2>3
  <2>4. CASE ~(Len(queue[c]) < QueueSize)
    <3>1. queue'[c] = queue[c] /\ c \in lost'
      BY <1>1, <2>1, <2>4
    <3> QED BY <2>1, <3>1
  <2> QED BY <2>3, <2>4
<1>5. AlertTypes'
  BY <1>0, <1>1, <1>3, <1>4 DEF AlertTypes
<1>6. PipeInv'
  <2> SUFFICES ASSUME busState' = "running", NEW c \in Channel \ lost'
               PROVE  InStep(Latest(c))'
    BY DEF PipeInv
  <2>1. c \in Channel \ lost /\ busState = "running"
    BY <1>1
  <2>2. InStep(Latest(c)) /\ Latest(c) = End(bus)
    BY <1>0, <1>1, <2>1 DEF PipeInv, Latest
  <2>3. Latest(c)' = End(bus)
    <3>1. CASE Tail(bus) # <<>>
      BY <1>1, <1>3, <3>1 DEF Latest
    <3>2. CASE Tail(bus) = <<>>
      BY <1>1, <1>3, <1>4, <3>2 DEF Latest
    <3> QED BY <3>1, <3>2
  <2> QED BY <1>1, <2>2, <2>3 DEF InStep
<1> QED
  BY <1>2, <1>5, <1>6 DEF AlertInv

LEMMA HandleKeeps ==
  ASSUME AlertInv, NEW c \in Channel, Handle(c) \/ Handled(c)
  PROVE  AlertInv'
<1>0. AlertTypes /\ FlagTypes /\ PipeInv /\ StreakInv /\ ExitInv /\ OutageReportedUnlessDeaf
  BY DEF AlertInv
<1>1. UNCHANGED <<wants, nodeUp, nodeFailStreak, probes, health, busState, bus, exited, starts, lost, deaf, missed>>
  BY DEF Handle, Handled
<1>2. FlagTypes' /\ OutageReportedUnlessDeaf' /\ StreakInv'
  BY <1>0, <1>1, Zenon DEF FlagTypes, OutageReportedUnlessDeaf, StreakInv
<1>3. CASE Handle(c)
  <2>1. /\ c \notin exited /\ handling[c] = Quiet /\ queue[c] # <<>> /\ told' = told
        /\ handling' = [handling EXCEPT ![c] = Head(queue[c])] /\ queue' = [queue EXCEPT ![c] = Tail(queue[c])]
    BY <1>3 DEF Handle, TakeFrom
  <2>2. queue[c] \in Seq(StateKinds)
    BY <1>0 DEF AlertTypes
  <2>3. /\ Tail(queue[c]) \in Seq(StateKinds) /\ Head(queue[c]) \in StateKinds
        /\ (Tail(queue[c]) # <<>> => End(Tail(queue[c])) = End(queue[c]))
        /\ (Tail(queue[c]) = <<>> => Head(queue[c]) = End(queue[c]))
    BY <2>1, <2>2, QueueFacts
  <2>4. AlertTypes'
    BY <1>0, <1>1, <2>1, <2>3 DEF AlertTypes
  <2>5. ExitInv'
    BY <1>0, <1>1, <2>1 DEF ExitInv, AlertTypes, Workers
  <2>6. \A d \in Channel : Latest(d)' = Latest(d)
    <3> TAKE d \in Channel
    <3>1. CASE d # c
      <4>1. queue'[d] = queue[d] /\ handling'[d] = handling[d] /\ told'[d] = told[d] /\ bus' = bus
        BY <1>0, <1>1, <2>1, <3>1 DEF AlertTypes
      <4> QED BY <4>1 DEF Latest
    <3>2. CASE d = c
      <4>1. queue'[c] = Tail(queue[c]) /\ handling'[c] = Head(queue[c]) /\ bus' = bus
        BY <1>0, <1>1, <2>1 DEF AlertTypes
      <4>2. Head(queue[c]) # Quiet
        BY <2>3, KindFacts
      <4> QED BY <2>1, <2>3, <3>2, <4>1, <4>2 DEF Latest
    <3> QED BY <3>1, <3>2
  <2>7. PipeInv'
    BY <1>0, <1>1, <2>6 DEF PipeInv, InStep
  <2> QED BY <1>2, <2>4, <2>5, <2>7 DEF AlertInv
<1>4. CASE Handled(c)
  <2>1. /\ handling[c] # Quiet /\ queue' = queue /\ told' = [told EXCEPT ![c] = handling[c]]
        /\ handling' = [handling EXCEPT ![c] = Quiet]
    BY <1>4 DEF Handled
  <2>2. AlertTypes'
    BY <1>0, <1>1, <2>1 DEF AlertTypes
  <2>3. ExitInv'
    BY <1>0, <1>1, <2>1 DEF ExitInv, AlertTypes, Workers
  <2>4. \A d \in Channel : Latest(d)' = Latest(d)
    <3> TAKE d \in Channel
    <3>1. CASE d # c
      <4>1. queue'[d] = queue[d] /\ handling'[d] = handling[d] /\ told'[d] = told[d] /\ bus' = bus
        BY <1>0, <1>1, <2>1, <3>1 DEF AlertTypes
      <4> QED BY <4>1 DEF Latest
    <3>2. CASE d = c
      <4>1. queue'[c] = queue[c] /\ handling'[c] = Quiet /\ told'[c] = handling[c] /\ bus' = bus
        BY <1>0, <1>1, <2>1 DEF AlertTypes
      <4> QED BY <2>1, <3>2, <4>1 DEF Latest
    <3> QED BY <3>1, <3>2
  <2>5. PipeInv'
    BY <1>0, <1>1, <2>4 DEF PipeInv, InStep
  <2> QED BY <1>2, <2>2, <2>3, <2>5 DEF AlertInv
<1> QED
  BY <1>3, <1>4

LEMMA BusStepKeeps ==
  ASSUME AlertInv, Stop \/ Stopped \/ Start \/ (\E w \in Workers : Exit(w))
  PROVE  AlertInv'
<1>0. AlertTypes /\ FlagTypes /\ PipeInv /\ StreakInv /\ ExitInv /\ OutageReportedUnlessDeaf
  BY DEF AlertInv
<1>1. CASE Stop \/ Stopped \/ (\E w \in Workers : Exit(w))
  <2>1. /\ UNCHANGED <<wants, nodeUp, nodeFailStreak, probes, health, bus, queue, handling, starts, told, lost, deaf, missed>>
        /\ busState' # "running" /\ busState' \in {"running", "stopping", "down"}
    BY <1>1 DEF Stop, Stopped, Exit
  <2>2. AlertTypes'
    BY <1>0, <2>1 DEF AlertTypes
  <2>3. FlagTypes' /\ OutageReportedUnlessDeaf' /\ StreakInv' /\ PipeInv'
    BY <1>0, <2>1, Zenon DEF FlagTypes, OutageReportedUnlessDeaf, StreakInv, PipeInv
  <2>4. ExitInv'
    <3>1. CASE Stop
      BY <1>0, <3>1 DEF ExitInv, Stop
    <3>2. CASE Stopped
      BY <1>0, <3>2 DEF ExitInv, Stopped, AllExited, Workers
    <3>3. CASE \E w \in Workers : Exit(w)
      BY <1>0, <3>3 DEF ExitInv, Exit
    <3> QED BY <1>1, <3>1, <3>2, <3>3
  <2> QED BY <2>2, <2>3, <2>4 DEF AlertInv
<1>2. CASE Start
  <2>1. /\ busState = "down" /\ busState' = "running" /\ health' = TRUE /\ bus' = <<>> /\ queue' = [c \in Channel |-> <<>>]
        /\ exited' = {} /\ told' = [c \in Channel |-> Quiet] /\ lost' = {} /\ deaf' = FALSE /\ missed' = FALSE
        /\ nodeFailStreak' = nodeFailStreak /\ handling' = handling
    BY <1>2 DEF Start
  <2>2. AlertTypes'
    BY <1>0, <2>1 DEF AlertTypes
  <2>3. FlagTypes' /\ OutageReportedUnlessDeaf' /\ StreakInv'
    BY <2>1, Zenon DEF FlagTypes, OutageReportedUnlessDeaf, StreakInv
  <2>4. ExitInv'
    BY <2>1 DEF ExitInv
  <2>5. \A c \in Channel : handling'[c] = Quiet
    BY <1>0, <2>1 DEF ExitInv, Workers
  <2>6. PipeInv'
    BY <2>1, <2>5 DEF PipeInv, InStep, Latest
  <2> QED BY <2>2, <2>3, <2>4, <2>6 DEF AlertInv
<1> QED
  BY <1>1, <1>2

\* The notifier, for any channels, buffers and flap, however settings, restarts and the node's
\* changes fall between the steps: a channel no alert was dropped for ends up telling what the
\* suppressor holds, an outage is reported unless a recovery was filtered out, and no worker
\* outlives a stop.
THEOREM AlertsAreSafe == AlertSpec => [](ChannelsAgree /\ OutageReportedUnlessDeaf /\ StopWaits)
<1>1. AlertInv /\ [AlertNext]_alertVars => AlertInv'
  <2> SUFFICES ASSUME AlertInv, [AlertNext]_alertVars
               PROVE  AlertInv'
    OBVIOUS
  <2>1. CASE UNCHANGED alertVars \/ NodeFlips \/ \E w \in SUBSET StateKinds : SetWants(w)
    <3>1. UNCHANGED <<nodeFailStreak, health, busState, bus, queue, handling, exited, told, lost, deaf, missed>>
      BY <2>1 DEF alertVars, NodeFlips, SetWants
    <3> QED BY <3>1 DEF AlertInv, AlertTypes, FlagTypes, PipeInv, Latest, InStep, StreakInv, ExitInv, OutageReportedUnlessDeaf, Workers
  <2> QED BY <2>1, ProbeKeeps, DispatchKeeps, HandleKeeps, BusStepKeeps DEF AlertNext
<1>2. AlertInv => ChannelsAgree /\ OutageReportedUnlessDeaf /\ StopWaits
  <2> SUFFICES ASSUME AlertInv
               PROVE  ChannelsAgree /\ StopWaits
    BY DEF AlertInv
  <2>0. PipeInv /\ ExitInv
    BY DEF AlertInv
  <2>1. StopWaits
    BY <2>0 DEF StopWaits, ExitInv, Workers
  <2>2. ASSUME busState = "running", NEW c \in Channel \ lost, bus = <<>>, queue[c] = <<>>, handling[c] = Quiet
        PROVE  told[c] = (IF health THEN IF told[c] = Quiet THEN Quiet ELSE "node.up" ELSE "node.down")
    <3>1. InStep(told[c])
      BY <2>0, <2>2 DEF PipeInv, Latest
    <3> QED BY <3>1, Zenon DEF InStep
  <2> QED BY <2>1, <2>2 DEF ChannelsAgree
<1> QED
  BY <1>1, <1>2, AlertInitial, PTL DEF AlertSpec

\* An alert about failed logins counts all of them since the last one.
THEOREM TallyIsTold == TallySpec => []TallyTold
<1>1. TallyInit => TallyInv
  BY DEF TallyInit, TallyInv, TallyTold
<1>2. TallyInv /\ [TallyNext]_tallyVars => TallyInv'
  <2> SUFFICES ASSUME TallyInv, [TallyNext]_tallyVars
               PROVE  TallyInv'
    OBVIOUS
  <2>1. CASE LoginFailed
    <3> DEFINE gone == now - lastPrune >= PruneEvery /\ until <= now
               n == (IF gone THEN 0 ELSE failures) + 1
    <3>1. CASE until <= now
      <4>1. failures' = 0 /\ untold' = 0 /\ alert' = [said |-> n, made |-> untold + 1, pruned |-> gone]
        BY <2>1, <3>1 DEF LoginFailed, CountAfterAlert
      <4>2. alert'.pruned \/ alert'.said = alert'.made
        BY <4>1 DEF TallyInv
      <4> QED BY <4>1, <4>2 DEF TallyInv, TallyTold
    <3>2. CASE ~(until <= now)
      <4>1. failures' = failures + 1 /\ untold' = untold + 1 /\ alert' = alert
        BY <2>1, <3>2 DEF LoginFailed
      <4> QED BY <4>1 DEF TallyInv, TallyTold
    <3> QED BY <3>1, <3>2
  <2>2. CASE TimeGoes \/ UNCHANGED tallyVars
    BY <2>2 DEF TimeGoes, tallyVars, TallyInv, TallyTold
  <2> QED BY <2>1, <2>2 DEF TallyNext
<1>3. TallyInv => TallyTold
  BY DEF TallyInv
<1> QED
  BY <1>1, <1>2, <1>3, PTL DEF TallySpec

\* The alerts and the tally, run side by side, keep what the notifier promises.
THEOREM AlertIsSafe == AlertSpec /\ TallySpec => []AlertSafety
  BY AlertsAreSafe, TallyIsTold, PTL DEF AlertSafety

-----------------------------------------------------------------------------
(* What a tab is shown. *)

Payload == [valid : BOOLEAN, host : Nat, marks : Nat, stamp : Nat, seq : Nat, version : Nat]
Builds == [pc : {"idle", "lock", "read", "send"}, marks : Nat, load : Payload]
Tabs == [up : BOOLEAN, sub : BOOLEAN, queue : Seq(Payload), version : Nat, seq : Nat, lu : Nat, blind : BOOLEAN]

HubTypes ==
  /\ sec \in Nat /\ version \in Nat /\ marks \in Nat /\ configSeq \in Nat \ {0}
  /\ cache \in Payload /\ build \in [Builder -> Builds] /\ tab \in Tabs
  /\ saving \in [Saver -> [pc : {"idle", "commit", "mark"}, dt : Nat]]
  /\ cacheLock \in {"free"} \cup Builder /\ notifier \in {"idle", "debounce", "push"}

\* A number and the configuration it was given to.
Mark(load) == <<load.seq, load.version>>

ServerMarks == {Mark(cache)} \cup {Mark(build[b].load) : b \in {x \in Builder : build[x].pc # "read"}}
TabMarks == {<<tab.seq, tab.version>>} \cup {Mark(tab.queue[i]) : i \in DOMAIN tab.queue}
Marks == ServerMarks \cup TabMarks

\* A higher number was given to a configuration that is no older.
InOrder == \A p, q \in Marks : p[1] < q[1] => p[2] <= q[2]

\* Numbers and configurations are at most the last ones; while the entry is being built its number is
\* the last and nobody else has it.
Bounded ==
  \A p \in Marks : /\ p[1] \in Nat /\ p[1] <= configSeq /\ p[2] \in Nat /\ p[2] <= version
                   /\ cacheLock # "free" => p[1] < configSeq

LockHeld == \A b \in Builder : build[b].pc = "read" => cacheLock = b /\ build[b].load.seq = configSeq

HostInv ==
  /\ \A b \in Builder : build[b].pc \in {"read", "send"} => build[b].load.host = HostOf(b)
  /\ OwnHost

\* A save that holds the transaction has room for its commit, and there is one.
CommitInv ==
  /\ version <= MaxCommits /\ Len(tab.queue) <= SendBuffer
  /\ \A s \in Saver : saving[s].pc = "commit" => /\ version < MaxCommits
                                                 /\ \A t \in Saver : saving[t].pc = "commit" => t = s

HubInv == HubTypes /\ InOrder /\ Bounded /\ LockHeld /\ HostInv /\ CommitInv

LEMMA Blanks ==
  /\ NoCache \in Payload /\ Mark(NoCache) = <<0, 0>> /\ NoBuild \in Builds /\ NoBuild.pc = "idle" /\ NoBuild.load = NoCache
  /\ NoSave \in [pc : {"idle", "commit", "mark"}, dt : Nat] /\ NoSave.pc = "idle"
<1>1. NoCache \in Payload /\ Mark(NoCache) = <<0, 0>>
  BY DEF NoCache, Payload, Mark
<1>2. NoBuild \in Builds /\ NoBuild.pc = "idle" /\ NoBuild.load = NoCache
  BY <1>1 DEF NoBuild, Builds
<1>3. NoSave \in [pc : {"idle", "commit", "mark"}, dt : Nat] /\ NoSave.pc = "idle"
  BY DEF NoSave
<1> QED
  BY <1>1, <1>2, <1>3

LEMMA HubInitial == HubInit => HubInv
<1> SUFFICES ASSUME HubInit
             PROVE  HubInv
  OBVIOUS
<1>1. /\ sec = 1 /\ version = 0 /\ marks = 0 /\ configSeq = 1 /\ cache = NoCache /\ cacheLock = "free" /\ notifier = "idle"
      /\ saving = [s \in Saver |-> NoSave] /\ build = [b \in Builder |-> NoBuild]
      /\ tab = [up |-> FALSE, sub |-> FALSE, queue |-> <<>>, version |-> 0, seq |-> 0, lu |-> 0, blind |-> FALSE]
  BY DEF HubInit
<1>2. tab \in Tabs /\ tab.queue = <<>> /\ tab.seq = 0 /\ tab.version = 0
  BY <1>1 DEF Tabs
<1>3. HubTypes
  BY <1>1, <1>2, Blanks DEF HubTypes
<1>4. \A p \in Marks : p = <<0, 0>>
  BY <1>1, <1>2, Blanks DEF Marks, ServerMarks, TabMarks
<1>5. InOrder /\ Bounded
  BY <1>1, <1>4 DEF InOrder, Bounded
<1>6. LockHeld /\ HostInv
  BY <1>1, <1>2, Blanks DEF LockHeld, HostInv, OwnHost
<1>7. CommitInv
  BY <1>1, <1>2, Blanks, HubConstants DEF CommitInv
<1> QED
  BY <1>3, <1>5, <1>6, <1>7 DEF HubInv

\* No number is given out anew.
LEMMA NumbersKept ==
  ASSUME InOrder, Bounded, configSeq \in Nat \ {0}, version \in Nat, configSeq' \in Nat, version' \in Nat,
         configSeq <= configSeq', version <= version', Marks' \subseteq Marks \cup {<<0, 0>>},
         cacheLock' # "free" => cacheLock # "free" \/ configSeq < configSeq'
  PROVE  InOrder' /\ Bounded'
<1>1. ASSUME NEW p \in Marks'
      PROVE  /\ p \in Marks \/ p = <<0, 0>>
             /\ p[1] \in Nat /\ p[1] <= configSeq' /\ p[2] \in Nat /\ p[2] <= version'
             /\ cacheLock' # "free" => p[1] < configSeq'
  <2>1. CASE p = <<0, 0>>
    BY <2>1
  <2>2. CASE p \in Marks
    <3>1. /\ p[1] \in Nat /\ p[1] <= configSeq /\ p[2] \in Nat /\ p[2] <= version
          /\ cacheLock # "free" => p[1] < configSeq
      BY <2>2 DEF Bounded
    <3> QED BY <2>2, <3>1
  <2> QED BY <2>1, <2>2
<1>2. ASSUME NEW p \in Marks', NEW q \in Marks', p[1] < q[1]
      PROVE  p[2] <= q[2]
  <2>1. CASE p = <<0, 0>>
    BY <1>1, <2>1
  <2>2. CASE q = <<0, 0>>
    BY <1>1, <1>2, <2>2
  <2>3. CASE p \in Marks /\ q \in Marks
    BY <1>2, <2>3 DEF InOrder
  <2> QED BY <1>1, <2>1, <2>2, <2>3
<1>3. Bounded'
  BY <1>1 DEF Bounded
<1> QED
  BY <1>2, <1>3 DEF InOrder

\* The payloads, the lock and the tab are as they were.
LEMMA HubRest ==
  ASSUME HubInv, UNCHANGED <<cache, build, tab, configSeq, cacheLock>>, version' \in Nat, version <= version', HubTypes', CommitInv'
  PROVE  HubInv'
<1>1. Marks' = Marks
  BY DEF Marks, ServerMarks, TabMarks
<1>2. InOrder' /\ Bounded'
  BY <1>1, NumbersKept DEF HubInv, HubTypes
<1>3. LockHeld' /\ HostInv'
  BY DEF HubInv, LockHeld, HostInv, OwnHost
<1> QED
  BY <1>2, <1>3 DEF HubInv

LEMMA SaveStepKeeps ==
  ASSUME HubInv, NEW s \in Saver, BeginSave(s) \/ Commit(s) \/ SetLastUpdate(s)
  PROVE  HubInv' /\ tab' = tab
<1>0. HubTypes /\ CommitInv
  BY DEF HubInv
<1>1. UNCHANGED <<sec, cache, cacheLock, notifier, configSeq, build, tab>> /\ marks' \in {marks, marks + 1}
  BY DEF BeginSave, Commit, SetLastUpdate
<1>2. saving[s] \in [pc : {"idle", "commit", "mark"}, dt : Nat]
  BY <1>0 DEF HubTypes
<1>3. CASE BeginSave(s)
  <2>1. /\ version < MaxCommits /\ version' = version /\ \A t \in Saver : saving[t].pc # "commit"
        /\ saving' = [saving EXCEPT ![s] = [pc |-> "commit", dt |-> sec]]
    BY <1>3 DEF BeginSave
  <2>2. HubTypes'
    BY <1>0, <1>1, <2>1 DEF HubTypes
  <2>3. CommitInv'
    BY <1>0, <1>1, <2>1 DEF CommitInv, HubTypes
  <2> QED BY <1>0, <1>1, <2>1, <2>2, <2>3, HubRest DEF HubTypes
<1>4. CASE Commit(s)
  <2>1. saving[s].pc = "commit" /\ version' = version + 1 /\ saving' = [saving EXCEPT ![s].pc = "mark"]
    BY <1>4 DEF Commit
  <2>2. version \in Nat /\ version' \in Nat /\ version <= version' /\ version < MaxCommits /\ MaxCommits \in Nat
    BY <1>0, <2>1, HubConstants DEF HubTypes, CommitInv
  <2>3. HubTypes'
    BY <1>0, <1>1, <1>2, <2>1, <2>2 DEF HubTypes
  <2>4. version' <= MaxCommits
    BY <2>1, <2>2
  <2>5. \A t \in Saver : saving'[t].pc # "commit"
    BY <1>0, <2>1 DEF CommitInv, HubTypes
  <2>6. CommitInv'
    BY <1>0, <1>1, <2>4, <2>5 DEF CommitInv
  <2> QED BY <1>1, <2>2, <2>3, <2>6, HubRest
<1>5. CASE SetLastUpdate(s)
  <2>1. version' = version /\ saving' = [saving EXCEPT ![s] = NoSave]
    BY <1>5 DEF SetLastUpdate
  <2>2. HubTypes'
    BY <1>0, <1>1, <2>1, Blanks DEF HubTypes
  <2>3. CommitInv'
    BY <1>0, <1>1, <2>1, Blanks DEF CommitInv, HubTypes
  <2> QED BY <1>0, <1>1, <2>1, <2>2, <2>3, HubRest DEF HubTypes
<1> QED
  BY <1>1, <1>3, <1>4, <1>5

LEMMA NotifierKeeps ==
  ASSUME HubInv, Wake \/ Debounced \/ PushNobody \/ HubTick \/ UNCHANGED hubVars
  PROVE  HubInv' /\ tab' = tab
<1>1. /\ UNCHANGED <<version, saving, marks, cache, cacheLock, configSeq, build, tab>> /\ sec' \in {sec, sec + 1}
      /\ notifier' \in {notifier, "idle", "debounce", "push"}
  BY DEF Wake, Debounced, PushNobody, HubTick, hubVars, hubServer
<1>2. HubTypes' /\ CommitInv' /\ version' \in Nat /\ version <= version'
  BY <1>1 DEF HubInv, HubTypes, CommitInv
<1> QED
  BY <1>1, <1>2, HubRest

\* One builder's payload is replaced.
LEMMA BuildMarks ==
  ASSUME HubTypes, NEW b \in Builder, NEW v \in Builds, build' = [build EXCEPT ![b] = v]
  PROVE  /\ build' \in [Builder -> Builds]
         /\ \A x \in Builder : build'[x] = IF x = b THEN v ELSE build[x]
         /\ \A p \in ServerMarks' : p \in ServerMarks \/ p = Mark(cache') \/ (v.pc # "read" /\ p = Mark(v.load))
<1>1. build' \in [Builder -> Builds] /\ \A x \in Builder : build'[x] = IF x = b THEN v ELSE build[x]
  BY DEF HubTypes
<1>2. ASSUME NEW p \in ServerMarks'
      PROVE  p \in ServerMarks \/ p = Mark(cache') \/ (v.pc # "read" /\ p = Mark(v.load))
  <2>1. p = Mark(cache') \/ \E x \in Builder : build'[x].pc # "read" /\ p = Mark(build'[x].load)
    BY <1>2 DEF ServerMarks, Mark
  <2>2. CASE \E x \in Builder : build'[x].pc # "read" /\ p = Mark(build'[x].load)
    <3>1. PICK x \in Builder : build'[x].pc # "read" /\ p = Mark(build'[x].load)
      BY <2>2
    <3>2. CASE x = b
      BY <1>1, <3>1, <3>2
    <3>3. CASE x # b
      BY <1>1, <3>1, <3>3 DEF ServerMarks
    <3> QED BY <3>2, <3>3
  <2> QED BY <2>1, <2>2
<1> QED
  BY <1>1, <1>2

LEMMA StartBuildKeeps ==
  ASSUME HubInv, NEW b \in Builder, StartBuild(b)
  PROVE  HubInv' /\ tab' = tab
<1>0. HubTypes /\ InOrder /\ Bounded /\ LockHeld /\ HostInv /\ CommitInv
  BY DEF HubInv
<1> DEFINE v == [NoBuild EXCEPT !.pc = "lock", !.marks = marks]
<1>1. build' = [build EXCEPT ![b] = v] /\ UNCHANGED <<sec, version, changed, hubServer, configSeq, tab>>
  BY DEF StartBuild
<1>2. UNCHANGED <<saving, marks, cache, cacheLock, notifier>>
  BY <1>1 DEF hubServer
<1>3. v \in Builds /\ v.pc = "lock" /\ v.load = NoCache
  BY <1>0, Blanks DEF HubTypes, Builds, NoBuild
<1> HIDE DEF v
<1>4. /\ build' \in [Builder -> Builds] /\ \A x \in Builder : build'[x] = IF x = b THEN v ELSE build[x]
      /\ \A p \in ServerMarks' : p \in ServerMarks \/ p = Mark(cache') \/ (v.pc # "read" /\ p = Mark(v.load))
  BY <1>0, <1>1, <1>3, BuildMarks
<1>5. Marks' \subseteq Marks \cup {<<0, 0>>}
  BY <1>1, <1>2, <1>3, <1>4, Blanks DEF Marks, TabMarks, ServerMarks
<1>6. InOrder' /\ Bounded'
  BY <1>0, <1>1, <1>2, <1>5, NumbersKept DEF HubTypes
<1>7. HubTypes'
  BY <1>0, <1>1, <1>2, <1>4 DEF HubTypes
<1>8. LockHeld' /\ HostInv'
  BY <1>0, <1>1, <1>2, <1>3, <1>4 DEF LockHeld, HostInv, OwnHost
<1>9. CommitInv'
  BY <1>0, <1>1, <1>2 DEF CommitInv
<1> QED
  BY <1>1, <1>6, <1>7, <1>8, <1>9 DEF HubInv

LEMMA LockCacheKeeps ==
  ASSUME HubInv, NEW b \in Builder, LockCache(b)
  PROVE  HubInv' /\ tab' = tab
<1>0. HubTypes /\ InOrder /\ Bounded /\ LockHeld /\ HostInv /\ CommitInv
  BY DEF HubInv
<1>1. /\ UNCHANGED <<sec, version, saving, marks, cache, notifier, tab>>
      /\ build[b].pc = "lock" /\ cacheLock = "free"
  BY DEF LockCache
<1>2. build[b] \in Builds
  BY <1>0 DEF HubTypes
<1>3. \A x \in Builder : build[x].pc # "read"
  BY <1>0, <1>1 DEF LockHeld, Builder
<1>4. CommitInv'
  BY <1>0, <1>1 DEF CommitInv
<1>5. CASE configCacheUsable(b)
  <2> DEFINE v == [build[b] EXCEPT !.pc = "send", !.load = cache]
  <2>1. build' = [build EXCEPT ![b] = v] /\ cacheLock' = cacheLock /\ configSeq' = configSeq
    BY <1>0, <1>5 DEF LockCache, HubTypes
  <2>2. v \in Builds /\ v.pc = "send" /\ v.load = cache
    BY <1>0, <1>2 DEF HubTypes, Builds
  <2> HIDE DEF v
  <2>3. /\ build' \in [Builder -> Builds] /\ \A x \in Builder : build'[x] = IF x = b THEN v ELSE build[x]
        /\ \A p \in ServerMarks' : p \in ServerMarks \/ p = Mark(cache') \/ (v.pc # "read" /\ p = Mark(v.load))
    BY <1>0, <2>1, <2>2, BuildMarks
  <2>4. Marks' \subseteq Marks \cup {<<0, 0>>}
    BY <1>1, <2>1, <2>2, <2>3 DEF Marks, TabMarks, ServerMarks
  <2>5. InOrder' /\ Bounded'
    BY <1>0, <1>1, <2>1, <2>4, NumbersKept DEF HubTypes
  <2>6. HubTypes'
    BY <1>0, <1>1, <2>1, <2>3 DEF HubTypes
  <2>7. LockHeld'
    BY <1>3, <2>2, <2>3 DEF LockHeld
  <2>8. cache.host = HostOf(b)
    BY <1>5 DEF configCacheUsable
  <2>9. HostInv'
    BY <1>0, <1>1, <2>2, <2>3, <2>8 DEF HostInv, OwnHost
  <2> QED BY <1>1, <1>4, <2>5, <2>6, <2>7, <2>9 DEF HubInv
<1>6. CASE ~configCacheUsable(b)
  <2> DEFINE load == [valid |-> TRUE, host |-> HostOf(b), marks |-> build[b].marks, stamp |-> sec, seq |-> configSeq + 1, version |-> 0]
             v == [build[b] EXCEPT !.pc = "read", !.load = load]
  <2>1. build' = [build EXCEPT ![b] = v] /\ cacheLock' = b /\ configSeq' = configSeq + 1
    BY <1>0, <1>6 DEF LockCache, HubTypes
  <2>2. v \in Builds /\ v.pc = "read" /\ v.load = load /\ load.seq = configSeq + 1 /\ load.host = HostOf(b)
    <3>1. sec \in Nat /\ configSeq + 1 \in Nat /\ build[b].marks \in Nat /\ HostOf(b) \in Nat
      BY <1>0, <1>2 DEF HubTypes, Builds, HostOf
    <3>2. load \in Payload /\ load.seq = configSeq + 1 /\ load.host = HostOf(b)
      BY <3>1 DEF Payload
    <3> HIDE DEF load
    <3> QED BY <1>2, <3>2 DEF Builds
  <2> HIDE DEF v
  <2>3. /\ build' \in [Builder -> Builds] /\ \A x \in Builder : build'[x] = IF x = b THEN v ELSE build[x]
        /\ \A p \in ServerMarks' : p \in ServerMarks \/ p = Mark(cache') \/ (v.pc # "read" /\ p = Mark(v.load))
    BY <1>0, <2>1, <2>2, BuildMarks
  <2>4. Marks' \subseteq Marks \cup {<<0, 0>>}
    BY <1>1, <2>1, <2>2, <2>3 DEF Marks, TabMarks, ServerMarks
  <2>5. configSeq' \in Nat \ {0} /\ configSeq < configSeq' /\ configSeq <= configSeq'
    BY <1>0, <2>1 DEF HubTypes
  <2>6. InOrder' /\ Bounded'
    BY <1>0, <1>1, <2>4, <2>5, NumbersKept DEF HubTypes
  <2>7. HubTypes'
    BY <1>0, <1>1, <2>1, <2>3, <2>5 DEF HubTypes
  <2>8. LockHeld'
    BY <1>3, <2>1, <2>2, <2>3 DEF LockHeld
  <2>9. HostInv'
    BY <1>0, <1>1, <2>2, <2>3 DEF HostInv, OwnHost
  <2> QED BY <1>1, <1>4, <2>6, <2>7, <2>8, <2>9 DEF HubInv
<1> QED
  BY <1>5, <1>6

\* The number is given to what is read after it was taken.
LEMMA ReadTablesKeeps ==
  ASSUME HubInv, NEW b \in Builder, ReadTables(b)
  PROVE  HubInv' /\ tab' = tab
<1>0. HubTypes /\ InOrder /\ Bounded /\ LockHeld /\ HostInv /\ CommitInv
  BY DEF HubInv
<1> DEFINE load == [build[b].load EXCEPT !.version = version]
           v == [build[b] EXCEPT !.pc = "send", !.load = load]
<1>1. /\ UNCHANGED <<sec, version, saving, marks, configSeq, notifier, tab>>
      /\ build[b].pc = "read" /\ cacheLock' = "free" /\ cache' = load
      /\ build' = [build EXCEPT ![b] = v]
  BY <1>0 DEF ReadTables, HubTypes
<1>2. build[b] \in Builds /\ build[b].load \in Payload
  BY <1>0 DEF HubTypes, Builds
<1>3. cacheLock = b /\ cacheLock # "free" /\ build[b].load.seq = configSeq
  BY <1>0, <1>1 DEF LockHeld, Builder
<1>4. load \in Payload /\ load.seq = configSeq /\ load.version = version /\ load.host = build[b].load.host
  BY <1>0, <1>2, <1>3 DEF HubTypes, Payload
<1> HIDE DEF load
<1>5. v \in Builds /\ v.pc = "send" /\ v.load = load
  BY <1>2, <1>4 DEF Builds
<1> HIDE DEF v
<1>6. /\ build' \in [Builder -> Builds] /\ \A x \in Builder : build'[x] = IF x = b THEN v ELSE build[x]
      /\ \A p \in ServerMarks' : p \in ServerMarks \/ p = Mark(cache') \/ (v.pc # "read" /\ p = Mark(v.load))
  BY <1>0, <1>1, <1>5, BuildMarks
<1>7. \A p \in Marks' : p \in Marks \/ p = <<configSeq, version>>
  <2>1. Mark(load) = <<configSeq, version>> /\ TabMarks' = TabMarks
    BY <1>1, <1>4 DEF Mark, TabMarks
  <2> QED BY <1>1, <1>5, <1>6, <2>1 DEF Marks
<1>8. configSeq \in Nat /\ version \in Nat
  BY <1>0 DEF HubTypes
<1>9. ASSUME NEW p \in Marks
      PROVE  p[1] \in Nat /\ p[1] < configSeq /\ p[2] \in Nat /\ p[2] <= version
  BY <1>0, <1>3 DEF Bounded
<1>10. Bounded'
  <2> SUFFICES ASSUME NEW p \in Marks'
               PROVE  p[1] \in Nat /\ p[1] <= configSeq /\ p[2] \in Nat /\ p[2] <= version
    BY <1>1 DEF Bounded
  <2>1. CASE p \in Marks
    BY <1>8, <1>9, <2>1
  <2>2. CASE p = <<configSeq, version>>
    BY <1>8, <2>2
  <2> QED BY <1>7, <2>1, <2>2
<1>11. InOrder'
  <2> SUFFICES ASSUME NEW p \in Marks', NEW q \in Marks', p[1] < q[1]
               PROVE  p[2] <= q[2]
    BY DEF InOrder
  <2>1. CASE p \in Marks /\ q \in Marks
    BY <1>0, <2>1 DEF InOrder
  <2>2. CASE q = <<configSeq, version>>
    <3>1. p[2] \in Nat /\ p[2] <= version
      BY <1>1, <1>10 DEF Bounded
    <3> QED BY <2>2, <3>1
  <2>3. CASE p = <<configSeq, version>> /\ q \in Marks
    <3>1. q[1] < configSeq /\ q[1] \in Nat
      BY <1>9, <2>3
    <3> QED BY <1>8, <2>3, <3>1
  <2> QED BY <1>7, <2>1, <2>2, <2>3
<1>12. HubTypes'
  BY <1>0, <1>1, <1>4, <1>6 DEF HubTypes
<1>13. LockHeld'
  <2> SUFFICES ASSUME NEW x \in Builder, build'[x].pc = "read"
               PROVE  FALSE
    BY DEF LockHeld
  <2>1. x # b /\ build[x].pc = "read"
    BY <1>5, <1>6
  <2> QED BY <1>0, <1>3, <2>1 DEF LockHeld
<1>14. HostInv'
  BY <1>0, <1>1, <1>4, <1>5, <1>6 DEF HostInv, OwnHost
<1>15. CommitInv'
  BY <1>0, <1>1 DEF CommitInv
<1> QED
  BY <1>1, <1>10, <1>11, <1>12, <1>13, <1>14, <1>15 DEF HubInv

\* A tab whose socket changes keeps what it shows.
LEMMA SocketFacts ==
  ASSUME NEW t \in Tabs, NEW u \in BOOLEAN, NEW q \in Seq(Payload), NEW bl \in BOOLEAN
  PROVE  /\ [t EXCEPT !.up = u, !.sub = u, !.queue = q, !.blind = bl] \in Tabs
         /\ [t EXCEPT !.up = u, !.sub = u, !.queue = q] \in Tabs
  BY DEF Tabs

\* Sending moves payloads towards the tab: its marks are among the marks there were.
LEMMA TabStepKeeps ==
  ASSUME HubInv, UNCHANGED <<version, saving, cache, cacheLock, configSeq>>, sec' = sec, marks' = marks,
         notifier' \in {"idle", "debounce", "push"}, tab' \in Tabs, build' \in [Builder -> Builds],
         \A b \in Builder : build'[b] = build[b] \/ (build'[b].pc \in {"idle", "lock"} /\ build'[b].load = NoCache),
         TabMarks' \subseteq Marks, OwnHost', Len(tab'.queue) <= SendBuffer
  PROVE  HubInv'
<1>0. HubTypes /\ InOrder /\ Bounded /\ LockHeld /\ HostInv /\ CommitInv
  BY DEF HubInv
<1>1. ServerMarks' \subseteq ServerMarks \cup {<<0, 0>>}
  <2> SUFFICES ASSUME NEW p \in ServerMarks'
               PROVE  p \in ServerMarks \/ p = <<0, 0>>
    OBVIOUS
  <2>1. CASE p = Mark(cache')
    BY <2>1 DEF ServerMarks, Mark
  <2>2. CASE \E b \in Builder : build'[b].pc # "read" /\ p = Mark(build'[b].load)
    <3>1. PICK b \in Builder : build'[b].pc # "read" /\ p = Mark(build'[b].load)
      BY <2>2
    <3>2. CASE build'[b] = build[b]
      BY <3>1, <3>2 DEF ServerMarks
    <3>3. CASE build'[b].load = NoCache
      BY <3>1, <3>3, Blanks
    <3> QED BY <3>2, <3>3
  <2> QED BY <2>1, <2>2 DEF ServerMarks, Mark
<1>2. Marks' \subseteq Marks \cup {<<0, 0>>}
  BY <1>1 DEF Marks
<1>3. InOrder' /\ Bounded'
  BY <1>0, <1>2, NumbersKept DEF HubTypes
<1>4. HubTypes'
  BY <1>0 DEF HubTypes
<1>5. LockHeld'
  <2> SUFFICES ASSUME NEW b \in Builder, build'[b].pc = "read"
               PROVE  cacheLock' = b /\ build'[b].load.seq = configSeq'
    BY DEF LockHeld
  <2>1. build'[b] = build[b]
    OBVIOUS
  <2> QED BY <1>0, <2>1 DEF LockHeld
<1>6. HostInv'
  <2> SUFFICES ASSUME NEW b \in Builder, build'[b].pc \in {"read", "send"}
               PROVE  build'[b].load.host = HostOf(b)
    BY DEF HostInv
  <2>1. build'[b] = build[b]
    OBVIOUS
  <2> QED BY <1>0, <2>1 DEF HostInv
<1>7. CommitInv'
  BY <1>0 DEF CommitInv
<1> QED
  BY <1>3, <1>4, <1>5, <1>6, <1>7 DEF HubInv

LEMMA SendPayloadKeeps ==
  ASSUME HubInv, NEW b \in Builder, SendPayload(b)
  PROVE  HubInv' /\ tab'.version = tab.version
<1>0. HubTypes /\ HostInv /\ CommitInv
  BY DEF HubInv
<1> DEFINE load == build[b].load
<1>1. /\ UNCHANGED <<sec, version, saving, marks, cache, cacheLock, configSeq>> /\ build[b].pc = "send"
      /\ build' = [build EXCEPT ![b] = NoBuild]
      /\ tab' = IF b = "other" THEN tab ELSE Enqueue(load)
      /\ notifier' = IF b = "push" THEN "idle" ELSE notifier
  BY DEF SendPayload, Free
<1>2. /\ build' \in [Builder -> Builds]
      /\ \A x \in Builder : build'[x] = build[x] \/ (build'[x].pc \in {"idle", "lock"} /\ build'[x].load = NoCache)
  BY <1>0, <1>1, Blanks DEF HubTypes
<1>3. load \in Payload /\ Mark(load) \in Marks /\ (b # "other" => load.host = 1)
  <2>1. load \in Payload /\ (b # "other" => load.host = 1)
    BY <1>0, <1>1 DEF HubTypes, Builds, HostInv, HostOf
  <2>2. Mark(load) \in Marks
    BY <1>1 DEF Marks, ServerMarks
  <2> QED BY <2>1, <2>2
<1>4. tab \in Tabs /\ tab.queue \in Seq(Payload) /\ Len(tab.queue) <= SendBuffer /\ Len(tab.queue) \in Nat /\ SendBuffer \in Nat
  BY <1>0, HubConstants DEF HubTypes, Tabs, CommitInv
<1> HIDE DEF load
<1>5. /\ tab' \in Tabs /\ TabMarks' \subseteq Marks /\ OwnHost' /\ Len(tab'.queue) <= SendBuffer
      /\ tab'.version = tab.version
  <2>1. CASE tab' = tab
    BY <1>0, <1>4, <2>1 DEF Marks, TabMarks, HostInv, OwnHost
  <2>2. CASE b # "other" /\ Len(tab.queue) < SendBuffer /\ tab' = [tab EXCEPT !.queue = Append(@, load)]
    <3>1. tab'.queue = Append(tab.queue, load) /\ tab'.seq = tab.seq /\ tab'.version = tab.version
      BY <1>4, <2>2 DEF Tabs
    <3>2. Append(tab.queue, load) \in Seq(Payload) /\ Len(Append(tab.queue, load)) = Len(tab.queue) + 1
      BY <1>3, <1>4
    <3>3. \A i \in DOMAIN Append(tab.queue, load) :
             (i \in DOMAIN tab.queue /\ Append(tab.queue, load)[i] = tab.queue[i]) \/ Append(tab.queue, load)[i] = load
      BY <1>3, <1>4
    <3>4. tab' \in Tabs
      BY <1>4, <2>2, <3>2 DEF Tabs
    <3>5. TabMarks' \subseteq Marks
      BY <1>3, <3>1, <3>3 DEF Marks, TabMarks
    <3>6. OwnHost'
      BY <1>0, <1>3, <2>2, <3>1, <3>3 DEF HostInv, OwnHost
    <3>7. Len(tab'.queue) <= SendBuffer
      BY <1>4, <2>2, <3>1, <3>2
    <3> QED BY <3>1, <3>4, <3>5, <3>6, <3>7
  <2>3. CASE tab' = [tab EXCEPT !.up = FALSE, !.sub = FALSE, !.queue = <<>>]
    <3>1. tab' \in Tabs /\ tab'.queue = <<>> /\ tab'.seq = tab.seq /\ tab'.version = tab.version
      <4>1. <<>> \in Seq(Payload) /\ FALSE \in BOOLEAN
        OBVIOUS
      <4>2. tab' \in Tabs
        BY <1>4, <2>3, <4>1, SocketFacts
      <4>3. tab'.queue = <<>> /\ tab'.seq = tab.seq /\ tab'.version = tab.version
        BY <1>4, <2>3 DEF Tabs
      <4> QED BY <4>2, <4>3
    <3> QED BY <1>4, <3>1 DEF Marks, TabMarks, OwnHost
  <2> QED BY <1>1, <2>1, <2>2, <2>3 DEF Enqueue
<1>6. notifier' \in {"idle", "debounce", "push"}
  BY <1>0, <1>1 DEF HubTypes
<1> QED
  BY <1>1, <1>2, <1>5, <1>6, TabStepKeeps

LEMMA SubscribeKeeps ==
  ASSUME HubInv, SubscribeLoad \/ Disconnect
  PROVE  HubInv' /\ tab'.version = tab.version
<1>0. HubTypes /\ HostInv /\ CommitInv
  BY DEF HubInv
<1>1. tab \in Tabs /\ SendBuffer \in Nat
  BY <1>0, HubConstants DEF HubTypes
<1>2. CASE SubscribeLoad
  <2> DEFINE blind == ~CheckChanges(tab.lu) /\ tab.version < version
             v == [NoBuild EXCEPT !.pc = "lock", !.marks = marks]
  <2>1. /\ UNCHANGED <<sec, version, saving, marks, cache, cacheLock, notifier, configSeq>>
        /\ tab' = [tab EXCEPT !.up = TRUE, !.sub = TRUE, !.queue = <<>>, !.blind = blind]
        /\ build' = build \/ build' = [build EXCEPT !["snap"] = v]
    BY <1>2 DEF SubscribeLoad
  <2>2. blind \in BOOLEAN
    BY Zenon
  <2> HIDE DEF blind
  <2>3. tab' \in Tabs /\ tab'.queue = <<>> /\ tab'.seq = tab.seq /\ tab'.version = tab.version
    <3>1. <<>> \in Seq(Payload) /\ TRUE \in BOOLEAN
      OBVIOUS
    <3>2. tab' \in Tabs
      BY <1>1, <2>1, <2>2, <3>1, SocketFacts
    <3>3. tab'.queue = <<>> /\ tab'.seq = tab.seq /\ tab'.version = tab.version
      BY <1>1, <2>1 DEF Tabs
    <3> QED BY <3>2, <3>3
  <2>4. v \in Builds /\ v.pc = "lock" /\ v.load = NoCache
    BY <1>0, Blanks DEF HubTypes, Builds, NoBuild
  <2> HIDE DEF v
  <2>5. /\ build' \in [Builder -> Builds]
        /\ \A x \in Builder : build'[x] = build[x] \/ (build'[x].pc \in {"idle", "lock"} /\ build'[x].load = NoCache)
    BY <1>0, <2>1, <2>4 DEF HubTypes
  <2>6. TabMarks' \subseteq Marks /\ OwnHost' /\ Len(tab'.queue) <= SendBuffer /\ notifier' \in {"idle", "debounce", "push"}
    BY <1>0, <1>1, <2>1, <2>3 DEF Marks, TabMarks, OwnHost, HubTypes
  <2> QED BY <2>1, <2>3, <2>5, <2>6, TabStepKeeps
<1>3. CASE Disconnect
  <2>1. /\ UNCHANGED <<sec, version, hubServer, configSeq, build>>
        /\ tab' = [tab EXCEPT !.up = FALSE, !.sub = FALSE, !.queue = <<>>]
    BY <1>3 DEF Disconnect
  <2>2. tab' \in Tabs /\ tab'.queue = <<>> /\ tab'.seq = tab.seq /\ tab'.version = tab.version
    <3>1. <<>> \in Seq(Payload) /\ FALSE \in BOOLEAN
      OBVIOUS
    <3>2. tab' \in Tabs
      BY <1>1, <2>1, <3>1, SocketFacts
    <3>3. tab'.queue = <<>> /\ tab'.seq = tab.seq /\ tab'.version = tab.version
      BY <1>1, <2>1 DEF Tabs
    <3> QED BY <3>2, <3>3
  <2>3. TabMarks' \subseteq Marks /\ OwnHost' /\ Len(tab'.queue) <= SendBuffer
    BY <1>1, <2>2 DEF Marks, TabMarks, OwnHost
  <2> QED BY <1>0, <2>1, <2>2, <2>3, TabStepKeeps DEF hubServer, HubTypes
<1> QED
  BY <1>2, <1>3

\* What the tab applies has a higher number than what it shows, so that it is no older.
LEMMA ReceiveKeeps ==
  ASSUME HubInv, Receive
  PROVE  HubInv' /\ tab'.version >= tab.version
<1>0. HubTypes /\ HostInv /\ CommitInv /\ InOrder
  BY DEF HubInv
<1> DEFINE load == Head(tab.queue)
           rest == [tab EXCEPT !.queue = Tail(tab.queue)]
<1>1. /\ UNCHANGED <<sec, version, hubServer, configSeq, build>> /\ tab.queue # <<>>
      /\ tab' = IF ApplyNewer(load)
                THEN [rest EXCEPT !.version = load.version, !.seq = load.seq, !.lu = load.stamp, !.blind = FALSE]
                ELSE rest
  BY DEF Receive
<1>2. tab \in Tabs /\ tab.queue \in Seq(Payload) /\ tab.version \in Nat /\ SendBuffer \in Nat
  BY <1>0, HubConstants DEF HubTypes, Tabs
<1>3. /\ load \in Payload /\ Tail(tab.queue) \in Seq(Payload) /\ Len(Tail(tab.queue)) = Len(tab.queue) - 1
      /\ Len(tab.queue) \in Nat /\ 1 \in DOMAIN tab.queue /\ load = tab.queue[1]
  BY <1>1, <1>2
<1>4. \A i \in DOMAIN Tail(tab.queue) : i + 1 \in DOMAIN tab.queue /\ Tail(tab.queue)[i] = tab.queue[i + 1]
  <2>1. \A i \in 1 .. Len(Tail(tab.queue)) : Tail(tab.queue)[i] = tab.queue[i + 1]
    BY <1>1, <1>2, HeadTailProperties, Zenon
  <2>2. DOMAIN Tail(tab.queue) = 1 .. Len(tab.queue) - 1 /\ DOMAIN tab.queue = 1 .. Len(tab.queue)
    BY <1>2, <1>3
  <2>3. ASSUME NEW i \in DOMAIN Tail(tab.queue)
        PROVE  i + 1 \in DOMAIN tab.queue /\ i \in 1 .. Len(Tail(tab.queue))
    BY <1>3, <2>2
  <2> QED BY <2>1, <2>3, Zenon
<1>5. Mark(load) \in Marks /\ <<tab.seq, tab.version>> \in Marks /\ \A i \in DOMAIN tab.queue : Mark(tab.queue[i]) \in Marks
  BY <1>3 DEF Marks, TabMarks
<1>6. rest \in Tabs /\ rest.queue = Tail(tab.queue) /\ rest.seq = tab.seq /\ rest.version = tab.version
  BY <1>2, <1>3 DEF Tabs
<1> HIDE DEF rest, load
<1>7. /\ tab' \in Tabs /\ tab'.queue = Tail(tab.queue)
      /\ \/ tab'.seq = tab.seq /\ tab'.version = tab.version
         \/ tab'.seq = load.seq /\ tab'.version = load.version /\ load.seq > tab.seq
  <2>1. CASE ApplyNewer(load)
    <3>1. tab' = [rest EXCEPT !.version = load.version, !.seq = load.seq, !.lu = load.stamp, !.blind = FALSE]
      BY <1>1, <2>1
    <3>2. load.version \in Nat /\ load.seq \in Nat /\ load.stamp \in Nat
      BY <1>3 DEF Payload
    <3> QED BY <1>6, <2>1, <3>1, <3>2 DEF Tabs, ApplyNewer
  <2>2. CASE ~ApplyNewer(load)
    BY <1>1, <1>6, <2>2
  <2> QED BY <2>1, <2>2
<1>8. \A i \in DOMAIN tab'.queue : Mark(tab'.queue[i]) \in Marks /\ tab'.queue[i].host = 1
  BY <1>0, <1>4, <1>5, <1>7 DEF HostInv, OwnHost
<1>9. <<tab'.seq, tab'.version>> \in Marks
  BY <1>5, <1>7 DEF Mark
<1>10. TabMarks' \subseteq Marks
  BY <1>8, <1>9 DEF TabMarks, Mark
<1>11. OwnHost' /\ Len(tab'.queue) <= SendBuffer
  <2>1. Len(tab.queue) <= SendBuffer
    BY <1>0 DEF CommitInv
  <2> QED BY <1>2, <1>3, <1>7, <1>8, <2>1 DEF OwnHost
<1>12. tab'.version >= tab.version
  <2>1. CASE tab'.version = tab.version
    BY <1>2, <2>1
  <2>2. CASE tab'.version = load.version /\ load.seq > tab.seq
    <3>1. tab.seq \in Nat /\ load.seq \in Nat /\ load.version \in Nat
      BY <1>2, <1>3 DEF Tabs, Payload
    <3>2. tab.seq < load.seq
      BY <2>2, <3>1
    <3>3. <<tab.seq, tab.version>>[1] < Mark(load)[1] => <<tab.seq, tab.version>>[2] <= Mark(load)[2]
      BY <1>0, <1>5 DEF InOrder
    <3>4. tab.version <= load.version
      BY <3>2, <3>3 DEF Mark
    <3> QED BY <1>2, <2>2, <3>1, <3>4
  <2> QED BY <1>7, <2>1, <2>2
<1>13. /\ build' \in [Builder -> Builds] /\ \A x \in Builder : build'[x] = build[x] /\ UNCHANGED <<saving, marks, cache, cacheLock>>
       /\ notifier' \in {"idle", "debounce", "push"}
  BY <1>0, <1>1 DEF HubTypes, hubServer
<1>14. UNCHANGED <<saving, marks, cache, cacheLock>>
  BY <1>1 DEF hubServer
<1> QED
  BY <1>1, <1>7, <1>10, <1>11, <1>12, <1>13, <1>14, TabStepKeeps

LEMMA PanelEndsKeeps ==
  ASSUME HubInv, RestartPanel \/ ExpireCache
  PROVE  HubInv' /\ tab'.version = tab.version
<1>0. HubTypes /\ InOrder /\ Bounded /\ LockHeld /\ HostInv /\ CommitInv
  BY DEF HubInv
<1>1. CASE RestartPanel
  <2>1. /\ saving' = [s \in Saver |-> NoSave] /\ marks' = 0 /\ configSeq' = configSeq + 1 /\ cache' = NoCache /\ cacheLock' = "free"
        /\ notifier' = "idle" /\ build' = [b \in Builder |-> NoBuild] /\ sec' = sec /\ version' = version
        /\ tab' = [tab EXCEPT !.up = FALSE, !.sub = FALSE, !.queue = <<>>]
    BY <1>1 DEF RestartPanel, SeqSeed
  <2>2. tab' \in Tabs /\ tab'.queue = <<>> /\ tab'.seq = tab.seq /\ tab'.version = tab.version
    <3>1. <<>> \in Seq(Payload) /\ FALSE \in BOOLEAN
      OBVIOUS
    <3>2. tab' \in Tabs
      BY <1>0, <2>1, <3>1, SocketFacts DEF HubTypes
    <3>3. tab'.queue = <<>> /\ tab'.seq = tab.seq /\ tab'.version = tab.version
      BY <1>0, <2>1 DEF HubTypes, Tabs
    <3> QED BY <3>2, <3>3
  <2>3. configSeq' \in Nat \ {0} /\ configSeq <= configSeq'
    BY <1>0, <2>1 DEF HubTypes
  <2>4. HubTypes'
    BY <1>0, <2>1, <2>2, <2>3, Blanks DEF HubTypes
  <2>5. Marks' \subseteq Marks \cup {<<0, 0>>}
    BY <2>1, <2>2, Blanks DEF Marks, ServerMarks, TabMarks
  <2>6. InOrder' /\ Bounded'
    BY <1>0, <2>1, <2>3, <2>5, NumbersKept DEF HubTypes
  <2>7. LockHeld' /\ HostInv'
    BY <2>1, <2>2, Blanks DEF LockHeld, HostInv, OwnHost
  <2>8. CommitInv'
    BY <1>0, <2>1, <2>2, Blanks, HubConstants DEF CommitInv
  <2> QED BY <2>2, <2>4, <2>6, <2>7, <2>8 DEF HubInv
<1>2. CASE ExpireCache
  <2>1. cache' = NoCache /\ UNCHANGED <<sec, version, saving, marks, cacheLock, notifier, configSeq, build, tab>>
    BY <1>2 DEF ExpireCache
  <2>2. HubTypes'
    BY <1>0, <2>1, Blanks DEF HubTypes
  <2>3. Marks' \subseteq Marks \cup {<<0, 0>>}
    BY <2>1, Blanks DEF Marks, ServerMarks, TabMarks
  <2>4. InOrder' /\ Bounded'
    BY <1>0, <2>1, <2>3, NumbersKept DEF HubTypes
  <2>5. LockHeld' /\ HostInv' /\ CommitInv'
    BY <1>0, <2>1 DEF LockHeld, HostInv, OwnHost, CommitInv
  <2> QED BY <2>1, <2>2, <2>4, <2>5 DEF HubInv
<1> QED
  BY <1>1, <1>2

\* Whatever the order of builds, pushes, answers, lost sockets and restarts, and for any number of
\* saves, a tab's configuration never goes back and is its own hostname's.
THEOREM HubIsSafe == HubSpec => HubSafety
<1>1. HubInv /\ [HubNext]_hubVars => HubInv' /\ tab'.version >= tab.version
  <2> SUFFICES ASSUME HubInv, [HubNext]_hubVars
               PROVE  HubInv' /\ tab'.version >= tab.version
    OBVIOUS
  <2>0. tab.version \in Nat
    BY DEF HubInv, HubTypes, Tabs
  <2>1. CASE \/ Receive
             \/ SubscribeLoad \/ Disconnect \/ RestartPanel \/ ExpireCache
             \/ \E b \in Builder : SendPayload(b)
    BY <2>0, <2>1, ReceiveKeeps, SubscribeKeeps, PanelEndsKeeps, SendPayloadKeeps
  <2>2. CASE \/ \E s \in Saver : BeginSave(s) \/ Commit(s) \/ SetLastUpdate(s)
             \/ \E b \in Builder : StartBuild(b) \/ LockCache(b) \/ ReadTables(b)
             \/ Wake \/ Debounced \/ PushNobody \/ HubTick \/ UNCHANGED hubVars
    BY <2>0, <2>2, SaveStepKeeps, StartBuildKeeps, LockCacheKeeps, ReadTablesKeeps, NotifierKeeps
  <2> QED BY <2>1, <2>2 DEF HubNext
<1>2. HubInv => HubTypeOK /\ OwnHost
  <2> SUFFICES ASSUME HubInv
               PROVE  HubTypeOK /\ OwnHost
    OBVIOUS
  <2>0. HubTypes /\ Bounded /\ HostInv /\ CommitInv
    BY DEF HubInv
  <2>1. tab.version \in Nat /\ tab.version <= version /\ version \in Nat /\ version <= MaxCommits /\ MaxCommits \in Nat
    <3>1. <<tab.seq, tab.version>> \in Marks
      BY DEF Marks, TabMarks
    <3>2. <<tab.seq, tab.version>>[2] <= version
      BY <2>0, <3>1 DEF Bounded
    <3> QED BY <2>0, <3>2, HubConstants DEF HubTypes, Tabs, CommitInv
  <2>2. version \in 0 .. MaxCommits /\ tab.version \in 0 .. MaxCommits
    BY <2>1
  <2> QED BY <2>0, <2>2 DEF HubTypeOK, HubTypes, Builds, HostInv, CommitInv
<1> QED
  BY <1>1, <1>2, HubInitial, PTL DEF HubSpec, HubSafety, TabNeverBack

-----------------------------------------------------------------------------
(* The login guard. *)

\* A row's window began, and its ban was set, in the past.
GuardRow == [failures : Nat, start : Nat, until : Nat]
GuardTypes ==
  /\ guardNow \in Nat \ {0} /\ guardNow <= GuardTicks
  /\ guardFaulted \in Nat /\ guardFaulted <= GuardFaults
  /\ attempts \in [GuardKey -> GuardRow]
  /\ lateChecks \in [GuardKey -> Nat]
  /\ lastUser \in Nat
RowInv ==
  \A k \in GuardKey :
    attempts[k].start <= guardNow /\ attempts[k].until <= guardNow + GuardBan

\* A request has the rows of its outcome still to write, and took the time for
\* them at most a tick ago.
Logins == [pc : {"idle", "check", "bump", "forget"}, ip : LoginIp \cup {0}, left : Seq(GuardKey), at : Nat]
LoginOK(q, clock) ==
  /\ q.pc # "idle" => q.ip \in LoginIp
  /\ q.pc = "bump" => /\ q.left \in {<<IpKey(q.ip), UserKey>>, <<UserKey>>, <<PromptKey(q.ip)>>, <<>>}
                      /\ clock - 1 <= q.at /\ q.at <= clock /\ q.at # 0
  /\ q.pc = "forget" =>
       q.left \in {<<IpKey(q.ip), UserKey, PromptKey(q.ip)>>, <<UserKey, PromptKey(q.ip)>>, <<PromptKey(q.ip)>>}
LoginInv ==
  /\ logins \in [LoginReq -> Logins]
  /\ \A r \in LoginReq : LoginOK(logins[r], guardNow)

\* The failures of an address are those of the row's window and less than a
\* budget of an earlier one, which the next window leaves behind.
Split(F, A, old, clock) ==
  /\ Cardinality(A) < MaxFailures /\ Cardinality(F \ A) < MaxFailures
  /\ old.start # 0 => /\ Cardinality(A) <= old.failures
                      /\ \A f \in A : f[1] < old.start + GuardWindow
                      /\ \A f \in F \ A : f[1] < old.start
  /\ old.start = 0 => /\ \A f \in A : f[1] < clock - 1
                      /\ \A f \in F \ A : f[1] < clock - GuardWindow
Windowed(F, old, clock) ==
  /\ F \subseteq Nat \X Nat /\ IsFiniteSet(F)
  /\ \E A \in SUBSET F : Split(F, A, old, clock)
FailInv ==
  /\ failedAt \in [LoginIp -> SUBSET (Nat \X Nat)]
  /\ \A i \in LoginIp : Windowed(failedAt[i], attempts[IpKey(i)], guardNow)

\* A request that may still check a password for a banned address was under way
\* when the ban began, or came through a fault.
Checking(i) == {r \in LoginReq : logins[r].pc = "check" /\ logins[r].ip = i}
LateBound == Cardinality(LoginReq) - 1 + guardFaulted
LateRow(i, k) ==
  /\ lateChecks[k] <= LateBound
  /\ attempts[k].until > guardNow => lateChecks[k] + Cardinality(Checking(i)) <= LateBound
LateInv ==
  \A i \in LoginIp : \A k \in {IpKey(i), PromptKey(i)} : LateRow(i, k)

\* A name that was banned keeps its row until its pause is over.
SpacedInv ==
  /\ lastUser <= guardNow
  /\ userBanned => \/ attempts[UserKey].until > 0 /\ attempts[UserKey].start = lastUser
                   \/ attempts[UserKey].until = 0 /\ lastUser < guardNow - GuardRetention

GuardInv == GuardTypes /\ RowInv /\ LoginInv /\ FailInv /\ LateInv /\ SpacedInv

\* The keys of the rows are what they look like.
LEMMA KeyFacts ==
  /\ UserKey \in GuardKey
  /\ \A i \in LoginIp : IpKey(i) \in GuardKey /\ PromptKey(i) \in GuardKey
  /\ \A i \in LoginIp : UserKey # IpKey(i) /\ UserKey # PromptKey(i)
  /\ \A i, j \in LoginIp : IpKey(i) # PromptKey(j)
  /\ \A i, j \in LoginIp : IpKey(i) = IpKey(j) => i = j
  /\ \A i, j \in LoginIp : PromptKey(i) = PromptKey(j) => i = j
BY DEF GuardKey, UserKey, IpKey, PromptKey

\* The budgets.
LEMMA BudgetFacts ==
  /\ \A i \in LoginIp : Budget(IpKey(i)) = MaxFailures
  /\ \A k \in GuardKey : Budget(k) \in Nat \ {0}
<1>1. \A m, n \in Nat \ {0} : m * n \in Nat \ {0}
  OBVIOUS
<1>2. MaxFailures * promptBudgetFactor \in Nat \ {0}
  BY <1>1, GuardConstants
<1>3. \A i \in LoginIp : IpKey(i)[1] = "ip"
  BY DEF IpKey
<1> QED
  BY <1>2, <1>3, GuardConstants DEF Budget

\* One more event: the ban, or the count in the window it falls in.
Counted(new, k, old, t, budget) ==
  LET fresh == old.start = 0 \/ t - old.start >= GuardWindow IN
  /\ new \in GuardRow
  /\ \/ /\ new.failures = 0 /\ new.until = t + GuardBan /\ new.start = IF k = UserKey THEN t ELSE 0
     \/ /\ fresh /\ 1 < budget
        /\ new.failures = 1 /\ new.until = old.until /\ new.start = t
     \/ /\ ~fresh /\ old.failures + 1 < budget
        /\ new.failures = old.failures + 1 /\ new.until = old.until /\ new.start = old.start

LEMMA CountFacts ==
  ASSUME NEW k \in GuardKey, NEW old \in GuardRow, NEW t \in Nat \ {0}, NEW budget \in Nat \ {0}
  PROVE  Counted(CountOne(k, old, t, budget), k, old, t, budget)
<1> DEFINE fresh == old.start = 0 \/ t - old.start >= GuardWindow
           new == CountOne(k, old, t, budget)
<1>1. old.start \in Nat /\ old.failures \in Nat /\ old.until \in Nat /\ GuardWindow \in Nat /\ GuardBan \in Nat
  BY GuardConstants DEF GuardRow
<1>2. CASE (fresh /\ 1 >= budget) \/ (~fresh /\ old.failures + 1 >= budget)
  <2>1. new = [failures |-> 0, until |-> t + GuardBan, start |-> IF k = UserKey THEN t ELSE 0]
    BY <1>1, <1>2 DEF CountOne
  <2>2. new \in GuardRow /\ new.failures = 0 /\ new.until = t + GuardBan /\ new.start = IF k = UserKey THEN t ELSE 0
    BY <1>1, <2>1 DEF GuardRow
  <2> QED BY <2>2 DEF Counted
<1>3. CASE fresh /\ ~ 1 >= budget
  <2>1. new = [old EXCEPT !.failures = 1, !.start = t]
    BY <1>3 DEF CountOne
  <2>2. new \in GuardRow /\ new.failures = 1 /\ new.until = old.until /\ new.start = t
    <3> DEFINE one == [old EXCEPT !.failures = 1]
    <3>1. one \in GuardRow /\ one.failures = 1 /\ one.until = old.until /\ one.start = old.start
      BY <1>1 DEF GuardRow
    <3>2. new = [one EXCEPT !.start = t]
      BY <2>1
    <3> HIDE DEF one, new
    <3> QED BY <1>1, <3>1, <3>2 DEF GuardRow
  <2> QED BY <1>3, <2>2 DEF Counted
<1>4. CASE ~fresh /\ ~ old.failures + 1 >= budget
  <2>1. new = [old EXCEPT !.failures = old.failures + 1, !.start = old.start]
    BY <1>4 DEF CountOne
  <2>2. new \in GuardRow /\ new.failures = old.failures + 1 /\ new.until = old.until /\ new.start = old.start
    <3> DEFINE one == [old EXCEPT !.failures = old.failures + 1]
    <3>1. one \in GuardRow /\ one.failures = old.failures + 1 /\ one.until = old.until /\ one.start = old.start
      BY <1>1 DEF GuardRow
    <3>2. new = [one EXCEPT !.start = old.start]
      BY <2>1
    <3> HIDE DEF one, new
    <3> QED BY <1>1, <3>1, <3>2 DEF GuardRow
  <2>3. old.failures + 1 < budget
    BY <1>1, <1>4
  <2> QED BY <1>4, <2>2, <2>3 DEF Counted
<1> QED
  BY <1>2, <1>3, <1>4

\* A failure of an address or of its prompts.
LEMMA PlanOther ==
  ASSUME NEW k \in GuardKey, k # UserKey, NEW old \in GuardRow, NEW t \in Nat \ {0}
  PROVE  LET new == planLoginFailure(k, old, t) IN
         /\ old.until > t => new = old
         /\ old.until <= t => Counted(new, k, old, t, Budget(k))
<1>1. old.until \in Nat
  BY DEF GuardRow
<1>2. old.until > t => loginBanRemaining(old, t) > 0
  BY <1>1 DEF loginBanRemaining
<1>3. old.until <= t => ~ loginBanRemaining(old, t) > 0
  BY <1>1 DEF loginBanRemaining
<1>4. Counted(CountOne(k, old, t, Budget(k)), k, old, t, Budget(k))
  BY CountFacts, BudgetFacts
<1> QED
  BY <1>2, <1>3, <1>4 DEF planLoginFailure

\* A failure of the name: what is left of an earlier ban decides.
LEMMA PlanUser ==
  ASSUME NEW old \in GuardRow, NEW t \in Nat \ {0}
  PROVE  LET new == planLoginFailure(UserKey, old, t) IN
         /\ new \in GuardRow
         /\ old.until > t => new = old
         /\ old.until <= t /\ old.until > 0 /\ old.start > 0 /\ t - old.start < GuardRetention =>
              new.until = old.until /\ new.start = t
         /\ old.until <= t /\ old.until > 0 /\ ~ (old.start > 0 /\ t - old.start < GuardRetention) =>
              new.until \in {0, t + GuardBan} /\ new.start = t
         /\ old.until = 0 =>
              new.until \in {0, t + GuardBan} /\ (new.until # 0 => new.start = t) /\ new.start \in {old.start, t}
<1> DEFINE new == planLoginFailure(UserKey, old, t)
<1>0. old.until \in Nat /\ old.start \in Nat /\ t + GuardBan \in Nat
  BY GuardConstants DEF GuardRow
<1>1. old.until > t => loginBanRemaining(old, t) > 0
  BY <1>0 DEF loginBanRemaining
<1>2. old.until <= t => ~ loginBanRemaining(old, t) > 0
  BY <1>0 DEF loginBanRemaining
<1>3. NoRow \in GuardRow /\ NoRow.start = 0 /\ NoRow.until = 0
  BY DEF NoRow, GuardRow
<1>4. CASE old.until > t
  BY <1>0, <1>1, <1>4 DEF planLoginFailure
<1>5. CASE old.until <= t /\ old.until > 0 /\ old.start > 0 /\ t - old.start < GuardRetention
  <2>1. new = [old EXCEPT !.start = t]
    BY <1>2, <1>5 DEF planLoginFailure
  <2>2. new \in GuardRow /\ new.until = old.until /\ new.start = t
    BY <2>1 DEF GuardRow
  <2> QED BY <1>0, <1>5, <2>2
<1>6. CASE old.until <= t /\ old.until > 0 /\ ~ (old.start > 0 /\ t - old.start < GuardRetention)
  <2>1. new = CountOne(UserKey, NoRow, t, Budget(UserKey))
    BY <1>2, <1>6 DEF planLoginFailure
  <2>2. Counted(new, UserKey, NoRow, t, Budget(UserKey))
    BY <1>3, <2>1, CountFacts, BudgetFacts, KeyFacts
  <2>3. new \in GuardRow /\ new.until \in {0, t + GuardBan} /\ new.start = t
    BY <1>3, <2>2 DEF Counted
  <2> QED BY <1>0, <1>6, <2>3
<1>7. CASE old.until = 0
  <2>1. new = CountOne(UserKey, old, t, Budget(UserKey))
    BY <1>0, <1>2, <1>7 DEF planLoginFailure
  <2>2. Counted(new, UserKey, old, t, Budget(UserKey))
    BY <2>1, CountFacts, BudgetFacts, KeyFacts
  <2>3. /\ new \in GuardRow /\ new.until \in {0, t + GuardBan}
        /\ (new.until # 0 => new.start = t) /\ new.start \in {old.start, t}
    BY <1>7, <2>2 DEF Counted
  <2> QED BY <1>0, <1>7, <2>3
<1> QED
  BY <1>0, <1>4, <1>5, <1>6, <1>7

\* Short tuples.
LEMMA Heads ==
  /\ \A a : Head(<<a>>) = a /\ Tail(<<a>>) = <<>> /\ Len(<<a>>) = 1
  /\ \A a, b : Head(<<a, b>>) = a /\ Tail(<<a, b>>) = <<b>>
  /\ \A a, b, c : Head(<<a, b, c>>) = a /\ Tail(<<a, b, c>>) = <<b, c>>
<1>1. ASSUME NEW a PROVE Head(<<a>>) = a /\ Tail(<<a>>) = <<>> /\ Len(<<a>>) = 1
  OBVIOUS
<1>2. ASSUME NEW a, NEW b PROVE Head(<<a, b>>) = a /\ Tail(<<a, b>>) = <<b>>
  OBVIOUS
<1>3. ASSUME NEW a, NEW b, NEW c PROVE Head(<<a, b, c>>) = a /\ Tail(<<a, b, c>>) = <<b, c>>
  OBVIOUS
<1> QED BY <1>1, <1>2, <1>3

LEMMA KeyTuples ==
  ASSUME NEW S, NEW a \in S, NEW b \in S, NEW c \in S
  PROVE  /\ <<>> \in Seq(S) /\ <<a>> \in Seq(S) /\ <<a, b>> \in Seq(S) /\ <<a, b, c>> \in Seq(S)
         /\ <<a, b>> \o <<c>> = <<a, b, c>>
<1> DEFINE s == <<a, b>> \o <<c>>
           u == <<a, b, c>>
<1>1. <<>> \in Seq(S) /\ <<a>> \in Seq(S) /\ <<c>> \in Seq(S) /\ <<a, b>> \in Seq(S) /\ u \in Seq(S)
  OBVIOUS
<1>2. Len(<<a, b>>) = 2 /\ Len(<<c>>) = 1 /\ Len(u) = 3 /\ <<a, b>>[1] = a /\ <<a, b>>[2] = b /\ <<c>>[1] = c
  OBVIOUS
<1>3. u[1] = a /\ u[2] = b /\ u[3] = c
  OBVIOUS
<1>4. /\ s \in Seq(S) /\ Len(s) = Len(<<a, b>>) + Len(<<c>>)
      /\ \A i \in 1 .. Len(<<a, b>>) + Len(<<c>>) : s[i] = IF i <= Len(<<a, b>>) THEN <<a, b>>[i] ELSE <<c>>[i - Len(<<a, b>>)]
  BY <1>1, ConcatProperties, Zenon
<1> HIDE DEF s, u
<1>5. Len(s) = 3 /\ s[1] = a /\ s[2] = b /\ s[3] = c
  BY <1>2, <1>4
<1>6. s = u
  BY <1>1, <1>2, <1>3, <1>4, <1>5, SeqEqual
<1> QED BY <1>1, <1>6 DEF s, u

LEMMA LoginPut ==
  ASSUME LoginInv, guardNow' = guardNow, NEW r \in LoginReq, NEW q \in Logins, LoginOK(q, guardNow),
         logins' = [logins EXCEPT ![r] = q]
  PROVE  LoginInv'
<1>1. logins' \in [LoginReq -> Logins]
  BY DEF LoginInv
<1>2. ASSUME NEW p \in LoginReq PROVE LoginOK(logins'[p], guardNow)
  BY DEF LoginInv
<1> QED BY <1>1, <1>2 DEF LoginInv

\* The row a request writes next, and what is left then.
LEMMA HeadFacts ==
  ASSUME GuardTypes, LoginInv, NEW r \in LoginReq
  PROVE  LET q == logins[r]
             k == Head(q.left)
         IN  /\ q.pc = "bump" /\ q.left # <<>> =>
                  /\ q.ip \in LoginIp /\ k \in {IpKey(q.ip), UserKey, PromptKey(q.ip)} /\ k \in GuardKey
                  /\ Tail(q.left) \in {<<UserKey>>, <<>>}
             /\ q.pc = "forget" =>
                  /\ q.ip \in LoginIp /\ k \in {IpKey(q.ip), UserKey, PromptKey(q.ip)} /\ k \in GuardKey
                  /\ Len(q.left) # 1 => Tail(q.left) \in {<<UserKey, PromptKey(q.ip)>>, <<PromptKey(q.ip)>>}
<1> DEFINE q == logins[r]
<1>1. LoginOK(q, guardNow)
  BY DEF LoginInv
<1>2. CASE q.pc = "bump"
  <2>1. q.ip \in LoginIp /\ q.left \in {<<IpKey(q.ip), UserKey>>, <<UserKey>>, <<PromptKey(q.ip)>>, <<>>}
    BY <1>1, <1>2 DEF LoginOK
  <2> HIDE DEF q
  <2>0. IpKey(q.ip) \in GuardKey /\ UserKey \in GuardKey /\ PromptKey(q.ip) \in GuardKey
    BY <2>1, KeyFacts
  <2>2. CASE q.left = <<IpKey(q.ip), UserKey>>
    <3>1. Head(q.left) = IpKey(q.ip) /\ Tail(q.left) = <<UserKey>>
      BY <2>0, <2>2, Heads, Zenon
    <3> QED BY <1>2, <2>0, <2>1, <3>1 DEF q
  <2>3. CASE q.left = <<UserKey>>
    <3>1. Head(q.left) = UserKey /\ Tail(q.left) = <<>>
      BY <2>0, <2>3, Heads, Zenon
    <3> QED BY <1>2, <2>0, <2>1, <3>1 DEF q
  <2>4. CASE q.left = <<PromptKey(q.ip)>>
    <3>1. Head(q.left) = PromptKey(q.ip) /\ Tail(q.left) = <<>>
      BY <2>0, <2>4, Heads, Zenon
    <3> QED BY <1>2, <2>0, <2>1, <3>1 DEF q
  <2> QED BY <1>2, <2>1, <2>2, <2>3, <2>4 DEF q
<1>3. CASE q.pc = "forget"
  <2>1. q.ip \in LoginIp /\ q.left \in {<<IpKey(q.ip), UserKey, PromptKey(q.ip)>>, <<UserKey, PromptKey(q.ip)>>, <<PromptKey(q.ip)>>}
    BY <1>1, <1>3 DEF LoginOK
  <2> HIDE DEF q
  <2>0. IpKey(q.ip) \in GuardKey /\ UserKey \in GuardKey /\ PromptKey(q.ip) \in GuardKey
    BY <2>1, KeyFacts
  <2>2. CASE q.left = <<IpKey(q.ip), UserKey, PromptKey(q.ip)>>
    <3>1. Head(q.left) = IpKey(q.ip) /\ Tail(q.left) = <<UserKey, PromptKey(q.ip)>>
      <4>1. \A a, b, c : Head(<<a, b, c>>) = a /\ Tail(<<a, b, c>>) = <<b, c>>
        BY Heads, Zenon
      <4>2. Head(<<IpKey(q.ip), UserKey, PromptKey(q.ip)>>) = IpKey(q.ip)
        BY <4>1, Zenon
      <4>3. Tail(<<IpKey(q.ip), UserKey, PromptKey(q.ip)>>) = <<UserKey, PromptKey(q.ip)>>
        BY <4>1, Zenon
      <4> QED BY <2>2, <4>2, <4>3, Zenon
    <3> QED BY <1>3, <2>0, <2>1, <3>1 DEF q
  <2>3. CASE q.left = <<UserKey, PromptKey(q.ip)>>
    <3>1. Head(q.left) = UserKey /\ Tail(q.left) = <<PromptKey(q.ip)>>
      BY <2>0, <2>3, Heads, Zenon
    <3> QED BY <1>3, <2>0, <2>1, <3>1 DEF q
  <2>4. CASE q.left = <<PromptKey(q.ip)>>
    <3>1. Head(q.left) = PromptKey(q.ip) /\ Len(q.left) = 1
      BY <2>0, <2>4, Heads, Zenon
    <3> QED BY <1>3, <2>0, <2>1, <3>1 DEF q
  <2> QED BY <1>3, <2>1, <2>2, <2>3, <2>4 DEF q
<1> QED BY <1>2, <1>3

LEMMA BlankLogin ==
  /\ NoLogin \in Logins /\ NoLogin.pc = "idle"
  /\ NoRow \in GuardRow /\ NoRow.failures = 0 /\ NoRow.start = 0 /\ NoRow.until = 0
BY DEF NoLogin, Logins, NoRow, GuardRow

\* Every step keeps the requests in order.
LEMMA LoginStep ==
  ASSUME GuardTypes, LoginInv, [GuardNext]_guardVars
  PROVE  LoginInv'
<1>1. ASSUME NEW r \in LoginReq, NEW i \in LoginIp, BanRemaining(r, i) PROVE LoginInv'
  <2> DEFINE q == [NoLogin EXCEPT !.pc = "check", !.ip = i]
           p == [NoLogin EXCEPT !.pc = "check"]
  <2>1. p \in Logins /\ p.pc = "check"
    BY BlankLogin DEF Logins
  <2>2. q = [p EXCEPT !.ip = i]
    OBVIOUS
  <2>3. logins' = [logins EXCEPT ![r] = q] /\ guardNow' = guardNow
    BY <1>1 DEF BanRemaining
  <2> HIDE DEF p, q
  <2>4. q \in Logins /\ q.pc = "check" /\ q.ip = i
    BY <2>1, <2>2 DEF Logins
  <2>5. LoginOK(q, guardNow)
    BY <2>4 DEF LoginOK
  <2> QED BY <2>3, <2>4, <2>5, LoginPut
<1>2. ASSUME NEW r \in LoginReq, CheckPassword(r) PROVE LoginInv'
  <2> DEFINE q == logins[r]
             i == q.ip
  <2>1. q \in Logins /\ i \in LoginIp
    BY <1>2 DEF CheckPassword, LoginInv, LoginOK
  <2>2. /\ guardNow' = guardNow
        /\ \/ logins' = [logins EXCEPT ![r] = [[[q EXCEPT !.pc = "bump"] EXCEPT !.left = loginKeys(i)] EXCEPT !.at = guardNow]]
           \/ logins' = [logins EXCEPT ![r] = [[[q EXCEPT !.pc = "bump"] EXCEPT !.left = <<PromptKey(i)>>] EXCEPT !.at = guardNow]]
           \/ logins' = [logins EXCEPT ![r] = [[q EXCEPT !.pc = "forget"] EXCEPT !.left = banKeys(i)]]
    BY <1>2 DEF CheckPassword, LoginInv
  <2>3. loginKeys(i) = <<IpKey(i), UserKey>> /\ banKeys(i) = <<IpKey(i), UserKey, PromptKey(i)>>
    <3>1. <<IpKey(i), UserKey>> \o <<PromptKey(i)>> = <<IpKey(i), UserKey, PromptKey(i)>>
      BY <2>1, KeyFacts, KeyTuples
    <3> QED BY <3>1 DEF loginKeys, banKeys
  <2>4. /\ <<IpKey(i), UserKey>> \in Seq(GuardKey) /\ <<PromptKey(i)>> \in Seq(GuardKey)
        /\ <<IpKey(i), UserKey, PromptKey(i)>> \in Seq(GuardKey)
    BY <2>1, KeyFacts
  <2>5. guardNow \in Nat \ {0}
    BY DEF GuardTypes
  <2>9. CASE logins' = [logins EXCEPT ![r] = [[q EXCEPT !.pc = "forget"] EXCEPT !.left = banKeys(i)]]
    <3> DEFINE p == [q EXCEPT !.pc = "forget"]
               n == [p EXCEPT !.left = banKeys(i)]
    <3>1. p \in Logins /\ p.pc = "forget" /\ p.ip = i
      BY <2>1 DEF Logins
    <3> HIDE DEF p
    <3>2. n \in Logins /\ n.pc = "forget" /\ n.ip = i /\ n.left = <<IpKey(i), UserKey, PromptKey(i)>>
      BY <3>1, <2>3, <2>4 DEF Logins
    <3>3. logins' = [logins EXCEPT ![r] = n]
      BY <2>9 DEF p
    <3> HIDE DEF n, q
    <3>4. LoginOK(n, guardNow)
      BY <2>1, <3>2 DEF LoginOK
    <3> QED BY <2>2, <3>2, <3>3, <3>4, LoginPut
  <2>10. ASSUME NEW l \in {<<IpKey(i), UserKey>>, <<PromptKey(i)>>},
                logins' = [logins EXCEPT ![r] = [[[q EXCEPT !.pc = "bump"] EXCEPT !.left = l] EXCEPT !.at = guardNow]]
         PROVE  LoginInv'
    <3> DEFINE p == [q EXCEPT !.pc = "bump"]
               m == [p EXCEPT !.left = l]
               n == [m EXCEPT !.at = guardNow]
    <3>1. p \in Logins /\ p.pc = "bump" /\ p.ip = i
      BY <2>1 DEF Logins
    <3>2. logins' = [logins EXCEPT ![r] = n]
      BY <2>10
    <3>3. l \in Seq(GuardKey)
      BY <2>4
    <3> HIDE DEF p
    <3>4. m \in Logins /\ m.pc = "bump" /\ m.ip = i /\ m.left = l
      BY <3>1, <3>3 DEF Logins
    <3> HIDE DEF m
    <3>5. n \in Logins /\ n.pc = "bump" /\ n.ip = i /\ n.left = l /\ n.at = guardNow
      BY <3>4, <2>5 DEF Logins
    <3> HIDE DEF n, q
    <3>6. LoginOK(n, guardNow)
      BY <2>1, <2>5, <3>5 DEF LoginOK
    <3> QED BY <2>2, <3>2, <3>5, <3>6, LoginPut
  <2> QED BY <2>2, <2>3, <2>9, <2>10
<1>3. ASSUME NEW r \in LoginReq, Bump(r) PROVE LoginInv'
  <2> DEFINE q == [logins[r] EXCEPT !.left = Tail(logins[r].left)]
  <2>1. logins[r] \in Logins /\ logins[r].pc = "bump" /\ logins[r].left # <<>> /\ LoginOK(logins[r], guardNow)
    BY <1>3 DEF Bump, LoginInv
  <2>2. Tail(logins[r].left) \in {<<UserKey>>, <<>>}
    BY <2>1, HeadFacts
  <2>3. Tail(logins[r].left) \in Seq(GuardKey)
    <3>1. <<>> \in Seq(GuardKey) /\ <<UserKey>> \in Seq(GuardKey)
      BY KeyFacts
    <3> QED BY <2>2, <3>1, Zenon
  <2>4. q \in Logins /\ q.pc = "bump" /\ q.ip = logins[r].ip /\ q.at = logins[r].at /\ q.left = Tail(logins[r].left)
    BY <2>1, <2>3 DEF Logins
  <2>5. logins' = [logins EXCEPT ![r] = q] /\ guardNow' = guardNow
    BY <1>3 DEF Bump, LoginInv
  <2> HIDE DEF q
  <2>6. LoginOK(q, guardNow)
    BY <2>1, <2>2, <2>4 DEF LoginOK
  <2> QED BY <2>4, <2>5, <2>6, LoginPut
<1>4. ASSUME NEW r \in LoginReq, Sweep(r) PROVE LoginInv'
  <2>1. LoginOK(NoLogin, guardNow)
    BY BlankLogin DEF LoginOK
  <2> QED BY <1>4, <2>1, BlankLogin, LoginPut DEF Sweep
<1>5. ASSUME NEW r \in LoginReq, RecordSuccess(r) PROVE LoginInv'
  <2>1. logins[r] \in Logins /\ logins[r].pc = "forget" /\ LoginOK(logins[r], guardNow)
    BY <1>5 DEF RecordSuccess, LoginInv
  <2>2. LoginOK(NoLogin, guardNow)
    BY BlankLogin DEF LoginOK
  <2>3. CASE Len(logins[r].left) = 1
    BY <1>5, <2>2, <2>3, BlankLogin, LoginPut DEF RecordSuccess, LoginInv
  <2>4. CASE Len(logins[r].left) # 1
    <3> DEFINE q == [logins[r] EXCEPT !.left = Tail(logins[r].left)]
    <3>1. Tail(logins[r].left) \in {<<UserKey, PromptKey(logins[r].ip)>>, <<PromptKey(logins[r].ip)>>} /\ logins[r].ip \in LoginIp
      BY <2>1, <2>4, HeadFacts
    <3>2. Tail(logins[r].left) \in Seq(GuardKey)
      <4>1. <<UserKey, PromptKey(logins[r].ip)>> \in Seq(GuardKey) /\ <<PromptKey(logins[r].ip)>> \in Seq(GuardKey)
        BY <3>1, KeyFacts, KeyTuples
      <4> QED BY <3>1, <4>1, Zenon
    <3>3. q \in Logins /\ q.pc = "forget" /\ q.ip = logins[r].ip /\ q.left = Tail(logins[r].left)
      BY <2>1, <3>2 DEF Logins
    <3>4. logins' = [logins EXCEPT ![r] = q] /\ guardNow' = guardNow
      BY <1>5, <2>4 DEF RecordSuccess
    <3> HIDE DEF q
    <3>5. LoginOK(q, guardNow)
      BY <3>1, <3>3 DEF LoginOK
    <3> QED BY <3>3, <3>4, <3>5, LoginPut
  <2> QED BY <2>3, <2>4
<1>6. CASE ClearAll \/ UNCHANGED guardVars
  BY <1>6 DEF ClearAll, LoginInv, guardVars
<1>7. CASE GuardTick
  <2>1. guardNow \in Nat /\ guardNow' = guardNow + 1 /\ logins' = logins
    BY <1>7 DEF GuardTick, GuardTypes
  <2>2. ASSUME NEW r \in LoginReq PROVE LoginOK(logins[r], guardNow + 1)
    <3>1. LoginOK(logins[r], guardNow) /\ logins[r] \in Logins
      BY DEF LoginInv
    <3>2. logins[r].pc = "bump" => logins[r].at = guardNow
      BY <1>7 DEF GuardTick
    <3> QED BY <2>1, <3>1, <3>2 DEF LoginOK
  <2> QED BY <2>1, <2>2 DEF LoginInv
<1> QED
  BY <1>1, <1>2, <1>3, <1>4, <1>5, <1>6, <1>7 DEF GuardNext

\* The row a failure is counted in, and what becomes of it.
LEMMA BumpFacts ==
  ASSUME GuardTypes, RowInv, LoginInv, NEW r \in LoginReq, Bump(r)
  PROVE  LET k == Head(logins[r].left)
             t == logins[r].at
             i == logins[r].ip
             new == planLoginFailure(k, attempts[k], t)
         IN  /\ logins[r].pc = "bump" /\ i \in LoginIp /\ k \in GuardKey /\ k \in {IpKey(i), UserKey, PromptKey(i)}
             /\ t \in Nat \ {0} /\ guardNow - 1 <= t /\ t <= guardNow
             /\ attempts[k] \in GuardRow /\ new \in GuardRow
             /\ new.start \in {attempts[k].start, t, 0} /\ new.until \in {attempts[k].until, t + GuardBan, 0}
             /\ attempts[k].until > t => new = attempts[k]
             /\ k # UserKey /\ attempts[k].until <= t => Counted(new, k, attempts[k], t, Budget(k))
<1> DEFINE k == Head(logins[r].left)
           t == logins[r].at
           i == logins[r].ip
           new == planLoginFailure(k, attempts[k], t)
<1>1. logins[r] \in Logins /\ LoginOK(logins[r], guardNow) /\ logins[r].pc = "bump" /\ logins[r].left # <<>>
  BY DEF Bump, LoginInv
<1>2. i \in LoginIp /\ k \in GuardKey /\ k \in {IpKey(i), UserKey, PromptKey(i)}
  BY <1>1, HeadFacts
<1>3. t \in Nat \ {0} /\ guardNow - 1 <= t /\ t <= guardNow
  BY <1>1 DEF Logins, LoginOK
<1>4. attempts[k] \in GuardRow
  BY <1>2 DEF GuardTypes
<1> HIDE DEF k, t, i
<1>5. attempts[k].until \in Nat /\ attempts[k].start \in Nat /\ t + GuardBan \in Nat
  BY <1>3, <1>4, GuardConstants DEF GuardRow
<1>6. CASE k = UserKey
  <2>1. new \in GuardRow /\ (attempts[k].until > t => new = attempts[k])
    BY <1>3, <1>4, <1>6, PlanUser
  <2>2. CASE attempts[k].until > t
    BY <1>1, <1>2, <1>3, <1>4, <1>6, <2>1, <2>2 DEF k, t, i
  <2>3. CASE attempts[k].until <= t /\ attempts[k].until > 0 /\ attempts[k].start > 0 /\ t - attempts[k].start < GuardRetention
    <3>1. new.until = attempts[k].until /\ new.start = t
      BY <1>3, <1>4, <1>6, <2>3, PlanUser
    <3> QED BY <1>1, <1>2, <1>3, <1>4, <1>6, <2>1, <3>1 DEF k, t, i
  <2>4. CASE attempts[k].until <= t /\ attempts[k].until > 0 /\ ~ (attempts[k].start > 0 /\ t - attempts[k].start < GuardRetention)
    <3>1. new.until \in {0, t + GuardBan} /\ new.start = t
      BY <1>3, <1>4, <1>6, <2>4, PlanUser
    <3> QED BY <1>1, <1>2, <1>3, <1>4, <1>6, <2>1, <3>1 DEF k, t, i
  <2>5. CASE attempts[k].until = 0
    <3>1. new.until \in {0, t + GuardBan} /\ new.start \in {attempts[k].start, t}
      BY <1>3, <1>4, <1>6, <2>5, PlanUser
    <3> QED BY <1>1, <1>2, <1>3, <1>4, <1>6, <2>1, <3>1 DEF k, t, i
  <2> QED BY <1>3, <1>5, <2>2, <2>3, <2>4, <2>5
<1>7. CASE k # UserKey
  <2>1. /\ attempts[k].until > t => new = attempts[k]
        /\ attempts[k].until <= t => Counted(new, k, attempts[k], t, Budget(k))
    BY <1>2, <1>3, <1>4, <1>7, PlanOther
  <2>2. CASE attempts[k].until > t
    BY <1>1, <1>2, <1>3, <1>4, <1>5, <1>7, <2>1, <2>2 DEF k, t, i
  <2>3. CASE attempts[k].until <= t
    <3>1. new \in GuardRow /\ new.start \in {attempts[k].start, t, 0} /\ new.until \in {attempts[k].until, t + GuardBan}
      BY <1>7, <2>1, <2>3 DEF Counted
    <3> QED BY <1>1, <1>2, <1>3, <1>4, <1>5, <1>7, <2>1, <2>3, <3>1 DEF k, t, i
  <2> QED BY <1>3, <1>5, <2>2, <2>3
<1> QED BY <1>6, <1>7 DEF k, t, i

\* Every step keeps the rows and the counts, and dates no row in the future.
LEMMA GuardTypesStep ==
  ASSUME GuardTypes, RowInv, LoginInv, [GuardNext]_guardVars
  PROVE  GuardTypes' /\ RowInv'
<1>0. /\ guardNow \in Nat \ {0} /\ GuardTicks \in Nat /\ GuardBan \in Nat
      /\ guardFaulted \in Nat /\ GuardFaults \in Nat /\ lastUser \in Nat
      /\ attempts \in [GuardKey -> GuardRow] /\ lateChecks \in [GuardKey -> Nat]
  BY GuardConstants DEF GuardTypes
<1>f. GuardFault => guardFaulted' \in Nat /\ guardFaulted' <= GuardFaults
  BY <1>0 DEF GuardFault
<1>1. ASSUME NEW r \in LoginReq, NEW i \in LoginIp, BanRemaining(r, i) PROVE GuardTypes' /\ RowInv'
  <2>1. guardFaulted' \in Nat /\ guardFaulted' <= GuardFaults
    BY <1>1, <1>f DEF BanRemaining, GuardTypes
  <2> QED BY <1>1, <2>1 DEF BanRemaining, GuardTypes, RowInv
<1>2. ASSUME NEW r \in LoginReq, CheckPassword(r) PROVE GuardTypes' /\ RowInv'
  <2>1. lateChecks' \in [GuardKey -> Nat]
    BY <1>0, <1>2 DEF CheckPassword
  <2> QED BY <1>2, <2>1 DEF CheckPassword, GuardTypes, RowInv
<1>3. ASSUME NEW r \in LoginReq, Bump(r) PROVE GuardTypes' /\ RowInv'
  <2> DEFINE k == Head(logins[r].left)
             t == logins[r].at
             new == planLoginFailure(k, attempts[k], t)
  <2>1. /\ k \in GuardKey /\ t \in Nat /\ t <= guardNow /\ new \in GuardRow
        /\ new.start \in {attempts[k].start, t, 0} /\ new.until \in {attempts[k].until, t + GuardBan, 0}
    BY <1>3, BumpFacts
  <2>2. /\ guardNow' = guardNow
        /\ attempts' = attempts \/ attempts' = [attempts EXCEPT ![k] = new]
        /\ lateChecks' = lateChecks \/ lateChecks' = [lateChecks EXCEPT ![k] = 0]
        /\ lastUser' \in {t, lastUser}
        /\ GuardFault \/ guardFaulted' = guardFaulted
    BY <1>3 DEF Bump
  <2> HIDE DEF k, t, new
  <2>3. guardFaulted' \in Nat /\ guardFaulted' <= GuardFaults
    BY <1>f, <2>2 DEF GuardTypes
  <2>4. attempts' \in [GuardKey -> GuardRow] /\ lateChecks' \in [GuardKey -> Nat] /\ lastUser' \in Nat
    BY <1>0, <2>1, <2>2
  <2>5. GuardTypes'
    BY <2>2, <2>3, <2>4 DEF GuardTypes
  <2>6. attempts[k].start <= guardNow /\ attempts[k].until <= guardNow + GuardBan
    BY <2>1 DEF RowInv
  <2>7. new.start <= guardNow /\ new.until <= guardNow + GuardBan
    BY <1>0, <2>1, <2>6
  <2>8. RowInv'
    BY <1>0, <2>1, <2>2, <2>7 DEF RowInv
  <2> QED BY <2>5, <2>8
<1>4. ASSUME NEW r \in LoginReq, Sweep(r) PROVE GuardTypes' /\ RowInv'
  <2>1. \A k \in GuardKey : attempts'[k] \in {NoRow, attempts[k]}
    BY <1>4 DEF Sweep, sweep
  <2>2. attempts' \in [GuardKey -> GuardRow]
    BY <1>0, <1>4, BlankLogin DEF Sweep, sweep
  <2>3. GuardTypes'
    BY <1>4, <2>2 DEF Sweep, GuardTypes
  <2> QED BY <1>0, <1>4, <2>1, <2>3, BlankLogin DEF Sweep, RowInv
<1>5. ASSUME NEW r \in LoginReq, RecordSuccess(r) PROVE GuardTypes' /\ RowInv'
  <2> DEFINE k == Head(logins[r].left)
  <2>1. k \in GuardKey
    BY <1>5, HeadFacts DEF RecordSuccess
  <2>2. /\ guardNow' = guardNow
        /\ attempts' = attempts \/ attempts' = [attempts EXCEPT ![k] = NoRow]
        /\ lateChecks' = lateChecks \/ lateChecks' = [lateChecks EXCEPT ![k] = 0]
        /\ lastUser' \in {0, lastUser}
        /\ GuardFault \/ guardFaulted' = guardFaulted
    BY <1>5 DEF RecordSuccess, Reset
  <2> HIDE DEF k
  <2>3. guardFaulted' \in Nat /\ guardFaulted' <= GuardFaults
    BY <1>f, <2>2 DEF GuardTypes
  <2>4. attempts' \in [GuardKey -> GuardRow] /\ lateChecks' \in [GuardKey -> Nat] /\ lastUser' \in Nat
    BY <1>0, <2>1, <2>2, BlankLogin
  <2>5. GuardTypes'
    BY <2>2, <2>3, <2>4 DEF GuardTypes
  <2>8. RowInv'
    BY <1>0, <2>1, <2>2, BlankLogin DEF RowInv
  <2> QED BY <2>5, <2>8
<1>6. CASE ClearAll
  <2>1. attempts' \in [GuardKey -> GuardRow] /\ \A k \in GuardKey : attempts'[k] = NoRow
    BY <1>6, BlankLogin DEF ClearAll
  <2>2. lateChecks' \in [GuardKey -> Nat]
    BY <1>6 DEF ClearAll
  <2> QED BY <1>0, <1>6, <2>1, <2>2, BlankLogin DEF ClearAll, GuardTypes, RowInv
<1>7. CASE GuardTick
  <2>1. guardNow' = guardNow + 1 /\ guardNow' <= GuardTicks /\ UNCHANGED <<attempts, guardFaulted, lastUser, lateChecks>>
    BY <1>0, <1>7 DEF GuardTick
  <2>2. GuardTypes'
    BY <1>0, <2>1 DEF GuardTypes
  <2>3. ASSUME NEW k \in GuardKey PROVE attempts[k].start <= guardNow + 1 /\ attempts[k].until <= guardNow + 1 + GuardBan
    <3>1. attempts[k].start \in Nat /\ attempts[k].until \in Nat
      BY <1>0 DEF GuardRow
    <3> QED BY <1>0, <3>1 DEF RowInv
  <2> QED BY <2>1, <2>2, <2>3 DEF RowInv
<1>8. CASE UNCHANGED guardVars
  BY <1>8 DEF guardVars, GuardTypes, RowInv
<1> QED
  BY <1>1, <1>2, <1>3, <1>4, <1>5, <1>6, <1>7, <1>8 DEF GuardNext

\* The rows of a name: what a step leaves of an earlier ban, and that only a
\* rested name is banned again.
LEMMA SpacedStep ==
  ASSUME GuardTypes, RowInv, LoginInv, SpacedInv, [GuardNext]_guardVars
  PROVE  /\ SpacedInv'
         /\ attempts'[UserKey].until > attempts[UserKey].until /\ userBanned =>
              \E r \in LoginReq : logins'[r] # logins[r] /\ Rested(logins[r].at)
<1> DEFINE Spaced == attempts'[UserKey].until > attempts[UserKey].until /\ userBanned =>
                       \E r \in LoginReq : logins'[r] # logins[r] /\ Rested(logins[r].at)
           old == attempts[UserKey]
<1>0. /\ guardNow \in Nat \ {0} /\ lastUser \in Nat /\ old \in GuardRow /\ UserKey \in GuardKey
      /\ GuardRetention \in Nat /\ GuardWindow \in Nat \ {0} /\ GuardBan \in Nat \ {0}
      /\ old.until \in Nat /\ old.start \in Nat
  BY GuardConstants, KeyFacts DEF GuardTypes, GuardRow
<1>k. old.until > old.until <=> FALSE
  BY <1>0
<1>1. ASSUME UNCHANGED <<guardNow, lastUser, userBanned>>, attempts'[UserKey] = old PROVE SpacedInv' /\ Spaced
  BY <1>1, <1>k DEF SpacedInv
<1>2. ASSUME NEW r \in LoginReq, Bump(r) PROVE SpacedInv' /\ Spaced
  <2> DEFINE k == Head(logins[r].left)
             t == logins[r].at
             new == planLoginFailure(k, attempts[k], t)
             banned == new.until > t /\ loginBanRemaining(attempts[k], t) = 0
  <2>1. k \in GuardKey /\ t \in Nat \ {0} /\ guardNow - 1 <= t /\ t <= guardNow
    BY <1>2, BumpFacts
  <2>2. CASE k # UserKey \/ GuardFault
    <3>1. attempts'[UserKey] = old
      BY <1>0, <1>2, <2>1, <2>2 DEF Bump, GuardTypes, GuardFault
    <3>2. UNCHANGED <<guardNow, lastUser, userBanned>>
      BY <1>0, <1>2, <2>2 DEF Bump, GuardTypes, GuardFault
    <3> QED BY <1>1, <3>1, <3>2
  <2>3. CASE k = UserKey /\ ~ GuardFault
    <3>1. /\ attempts' = [attempts EXCEPT ![UserKey] = new] /\ guardNow' = guardNow
          /\ lastUser' = IF banned \/ loginBanRemaining(old, t) = 0 THEN t ELSE lastUser
          /\ userBanned' = (banned \/ (userBanned /\ ~Rested(t)))
      BY <1>2, <2>3 DEF Bump
    <3>2. attempts'[UserKey] = new
      BY <1>0, <3>1 DEF GuardTypes
    <3>3. new = planLoginFailure(UserKey, old, t) /\ (banned <=> new.until > t /\ loginBanRemaining(old, t) = 0)
      BY <2>3
    <3>4. loginBanRemaining(old, t) = 0 <=> old.until <= t
      BY <1>0, <2>1 DEF loginBanRemaining
    <3>5. logins'[r] # logins[r]
      <4>1. logins[r].left \in Seq(GuardKey) /\ logins[r].left # <<>> /\ logins[r] \in Logins
        BY <1>2 DEF Bump, LoginInv, Logins
      <4>2. Len(Tail(logins[r].left)) = Len(logins[r].left) - 1 /\ Len(logins[r].left) \in Nat
        BY <4>1, HeadTailProperties, LenProperties, Zenon
      <4>3. logins'[r].left = Tail(logins[r].left)
        BY <1>2, <4>1 DEF Bump, LoginInv, Logins
      <4>4. \A n \in Nat : n # n - 1
        OBVIOUS
      <4>5. Tail(logins[r].left) # logins[r].left
        BY <4>2, <4>4, Zenon
      <4> QED BY <4>3, <4>5, Zenon
    <3>6. lastUser = 0 \/ t - lastUser >= GuardRetention <=> Rested(t)
      BY DEF Rested
    <3>7. userBanned /\ ~Rested(t) => old.until > 0 /\ old.start = lastUser /\ lastUser > 0 /\ t - lastUser < GuardRetention
      BY <1>0, <2>1, <3>6 DEF SpacedInv
    <3> HIDE DEF k, t, new, banned
    <3>8. CASE old.until > t
      <4>1. new = old
        BY <1>0, <2>1, <3>3, <3>8, PlanUser
      <4>2. ~banned /\ lastUser' = lastUser
        BY <1>0, <2>1, <3>1, <3>3, <3>4, <3>8
      <4>3. Spaced
        BY <3>2, <4>1, <1>k
      <4>4. SpacedInv'
        BY <3>1, <3>2, <4>1, <4>2 DEF SpacedInv
      <4> QED BY <4>3, <4>4
    <3>9. CASE old.until <= t /\ old.until > 0 /\ old.start > 0 /\ t - old.start < GuardRetention
      <4>1. new.until = old.until /\ new.start = t
        BY <1>0, <2>1, <3>3, <3>9, PlanUser
      <4>2. ~banned /\ lastUser' = t
        BY <1>0, <2>1, <3>1, <3>3, <3>4, <3>9, <4>1
      <4>3. Spaced
        BY <3>2, <4>1, <1>k
      <4>4. SpacedInv'
        BY <1>0, <2>1, <3>1, <3>2, <3>9, <4>1, <4>2 DEF SpacedInv
      <4> QED BY <4>3, <4>4
    <3>10. CASE old.until <= t /\ ~ (old.until > 0 /\ old.start > 0 /\ t - old.start < GuardRetention)
      <4>1. new.until \in {0, t + GuardBan} /\ (new.until # 0 => new.start = t)
        BY <1>0, <2>1, <3>3, <3>10, PlanUser
      <4>2. lastUser' = t
        BY <1>0, <2>1, <3>1, <3>4, <3>10
      <4>3. userBanned => Rested(t)
        BY <1>0, <3>7, <3>10
      <4>4. Spaced
        BY <3>5, <4>3 DEF t
      <4>5. userBanned' => new.until > t
        BY <3>1, <3>3, <4>3
      <4>6. SpacedInv'
        BY <1>0, <2>1, <3>1, <3>2, <4>1, <4>2, <4>5 DEF SpacedInv
      <4> QED BY <4>4, <4>6
    <3> QED BY <1>0, <2>1, <3>8, <3>9, <3>10
  <2> QED BY <2>2, <2>3
<1>3. ASSUME NEW r \in LoginReq, Sweep(r) PROVE SpacedInv' /\ Spaced
  <2>1. CASE attempts'[UserKey] = old
    BY <1>1, <1>3, <2>1 DEF Sweep
  <2>2. CASE attempts'[UserKey] # old
    <3> DEFINE t == logins[r].at
    <3>1. t \in Nat /\ t <= guardNow
      BY <1>3 DEF Sweep, LoginInv, LoginOK, Logins
    <3>2. attempts'[UserKey] = NoRow /\ old.start <= t - GuardWindow - GuardRetention
      BY <1>0, <1>3, <2>2 DEF Sweep, sweep
    <3>3. UNCHANGED <<guardNow, lastUser, userBanned>>
      BY <1>3 DEF Sweep
    <3> HIDE DEF t
    <3>4. old.start < guardNow - GuardRetention
      BY <1>0, <3>1, <3>2
    <3>5. attempts'[UserKey].until = 0
      BY <3>2, BlankLogin
    <3>6. Spaced
      BY <1>0, <3>5
    <3>7. SpacedInv'
      BY <1>0, <3>3, <3>4, <3>5 DEF SpacedInv
    <3> QED BY <3>6, <3>7
  <2> QED BY <2>1, <2>2
<1>4. ASSUME NEW r \in LoginReq, RecordSuccess(r) PROVE SpacedInv' /\ Spaced
  <2> DEFINE k == Head(logins[r].left)
  <2>1. k \in GuardKey
    BY <1>4, HeadFacts DEF RecordSuccess
  <2>2. CASE UNCHANGED <<attempts, lastUser, userBanned>>
    BY <1>1, <1>4, <2>2 DEF RecordSuccess
  <2>3. CASE attempts' = [attempts EXCEPT ![k] = NoRow] /\ Reset(k)
    <3>1. CASE k = UserKey
      <4>1. attempts'[UserKey] = NoRow /\ lastUser' = 0 /\ ~userBanned' /\ guardNow' = guardNow
        BY <1>0, <1>4, <2>1, <2>3, <3>1 DEF Reset, RecordSuccess, GuardTypes
      <4> QED BY <1>0, <4>1, BlankLogin DEF SpacedInv
    <3>2. CASE k # UserKey
      <4>1. attempts'[UserKey] = old /\ lastUser' = lastUser /\ userBanned' = userBanned /\ guardNow' = guardNow
        BY <1>0, <1>4, <2>1, <2>3, <3>2 DEF Reset, RecordSuccess, GuardTypes
      <4> QED BY <1>1, <4>1
    <3> QED BY <3>1, <3>2
  <2> QED BY <1>4, <2>2, <2>3 DEF RecordSuccess
<1>5. CASE ClearAll
  <2>1. attempts'[UserKey] = NoRow /\ lastUser' = 0 /\ ~userBanned' /\ guardNow' = guardNow
    BY <1>0, <1>5 DEF ClearAll
  <2> QED BY <1>0, <2>1, BlankLogin DEF SpacedInv
<1>6. CASE GuardTick
  <2>1. guardNow' = guardNow + 1 /\ UNCHANGED <<attempts, lastUser, userBanned>>
    BY <1>6 DEF GuardTick
  <2> QED BY <1>0, <1>k, <2>1 DEF SpacedInv
<1>7. CASE \/ \E r \in LoginReq : CheckPassword(r) \/ \E i \in LoginIp : BanRemaining(r, i)
           \/ UNCHANGED guardVars
  BY <1>1, <1>7 DEF CheckPassword, BanRemaining, guardVars
<1> QED
  BY <1>2, <1>3, <1>4, <1>5, <1>6, <1>7 DEF GuardNext

\* Time passes: what was old stays old.
LEMMA WindowedLater ==
  ASSUME NEW F, NEW old \in GuardRow, NEW clock \in Nat, Windowed(F, old, clock)
  PROVE  Windowed(F, old, clock + 1)
<1>1. PICK A \in SUBSET F : Split(F, A, old, clock)
  BY DEF Windowed
<1>2. \A f \in F : f[1] \in Nat
  BY DEF Windowed
<1>3. Split(F, A, old, clock + 1)
  BY <1>1, <1>2, GuardConstants DEF Split
<1> QED BY <1>3 DEF Windowed

\* An address without failures.
LEMMA WindowedNone ==
  ASSUME NEW old \in GuardRow, NEW clock \in Nat
  PROVE  Windowed({}, old, clock)
<1>1. Cardinality({}) = 0 /\ {} \ {} = {} /\ IsFiniteSet({})
  BY FS_EmptySet
<1>2. old.failures \in Nat
  BY DEF GuardRow
<1>3. Split({}, {}, old, clock)
  BY <1>1, <1>2, GuardConstants DEF Split
<1> QED BY <1>1, <1>3 DEF Windowed

\* A swept row: its failures are older than the window.
LEMMA WindowedSwept ==
  ASSUME NEW F, NEW old \in GuardRow, NEW clock \in Nat, NEW t \in Nat, t <= clock,
         Windowed(F, old, clock), old.start <= t - GuardWindow - GuardRetention
  PROVE  Windowed(F, NoRow, clock)
<1>1. PICK A \in SUBSET F : Split(F, A, old, clock)
  BY DEF Windowed
<1>2. \A f \in F : f[1] \in Nat
  BY DEF Windowed
<1>3. old.start \in Nat /\ GuardWindow \in Nat \ {0} /\ GuardRetention \in Nat /\ GuardRetention > 1
  BY GuardConstants DEF GuardRow
<1>4. CASE old.start = 0
  <2>1. Split(F, A, NoRow, clock)
    BY <1>1, <1>4, BlankLogin DEF Split
  <2> QED BY <2>1 DEF Windowed
<1>5. CASE old.start # 0
  <2>1. \A f \in A : f[1] < clock - 1
    BY <1>1, <1>2, <1>3, <1>5 DEF Split
  <2>2. \A f \in F \ A : f[1] < clock - GuardWindow
    BY <1>1, <1>2, <1>3, <1>5 DEF Split
  <2>3. Split(F, A, NoRow, clock)
    BY <1>1, <2>1, <2>2, BlankLogin DEF Split
  <2> QED BY <2>3 DEF Windowed
<1> QED BY <1>4, <1>5

\* One more failure that does not ban: in a window of its own, which leaves behind
\* what was left of the one before the last, or in the row's.
LEMMA WindowedCount ==
  ASSUME NEW F, NEW old \in GuardRow, NEW new \in GuardRow, NEW k \in GuardKey, k # UserKey,
         NEW clock \in Nat, NEW t \in Nat \ {0}, clock - 1 <= t, t <= clock,
         Windowed(F, old, clock), Counted(new, k, old, t, MaxFailures), new.until # t + GuardBan,
         NEW x \in Nat \X Nat, x[1] = t
  PROVE  Windowed(InWindow(F \cup {x}, t), new, clock)
<1> DEFINE G == InWindow(F \cup {x}, t)
<1>1. PICK A \in SUBSET F : Split(F, A, old, clock)
  BY DEF Windowed
<1>2. (\A f \in F : f[1] \in Nat) /\ F \subseteq Nat \X Nat /\ IsFiniteSet(F)
  BY DEF Windowed
<1>3. old.start \in Nat /\ old.failures \in Nat /\ GuardWindow \in Nat \ {0} /\ MaxFailures \in Nat \ {0}
  BY GuardConstants DEF GuardRow
<1>4. G = {f \in F \cup {x} : f[1] > t - GuardWindow} /\ G \subseteq F \cup {x} /\ x \in G
  BY <1>3 DEF InWindow
<1> HIDE DEF G
<1>5. G \subseteq Nat \X Nat /\ IsFiniteSet(G)
  BY <1>2, <1>4, FS_AddElement, FS_Subset
<1>6. IsFiniteSet(A) /\ IsFiniteSet(F \ A) /\ Cardinality(A) \in Nat /\ Cardinality(F \ A) \in Nat
  BY <1>2, FS_Subset, FS_CardinalityType
<1>7. CASE old.start = 0 \/ t - old.start >= GuardWindow
  <2>1. new.failures = 1 /\ new.start = t /\ 1 < MaxFailures
    BY <1>3, <1>7 DEF Counted
  <2>2. G \ {x} \subseteq A
    <3> SUFFICES ASSUME NEW f \in F, f \notin A, f[1] > t - GuardWindow PROVE FALSE
      BY <1>4
    <3>1. f[1] \in Nat
      BY <1>2
    <3> QED BY <1>1, <1>3, <1>7, <3>1 DEF Split
  <2>3. \A f \in G \ {x} : f[1] < t
    <3> SUFFICES ASSUME NEW f \in A PROVE f[1] < t
      BY <2>2
    <3>1. f[1] \in Nat
      BY <1>2
    <3> QED BY <1>1, <1>3, <1>7, <3>1 DEF Split
  <2>4. Cardinality(G \ {x}) <= Cardinality(A) /\ Cardinality(G \ {x}) \in Nat
    BY <1>6, <2>2, FS_Subset, FS_CardinalityType
  <2>5. Cardinality({x}) = 1
    BY FS_Singleton
  <2>6. Cardinality(A) < MaxFailures
    BY <1>1 DEF Split
  <2>7. Cardinality(G \ {x}) < MaxFailures
    BY <1>3, <1>6, <2>4, <2>6
  <2>8. \A f \in {x} : f[1] < new.start + GuardWindow
    BY <1>3, <2>1
  <2>9. Split(G, {x}, new, clock)
    BY <1>3, <2>1, <2>3, <2>5, <2>7, <2>8 DEF Split
  <2> QED BY <1>4, <1>5, <2>9 DEF Windowed, G
<1>8. CASE ~ (old.start = 0 \/ t - old.start >= GuardWindow)
  <2> DEFINE B == (A \cup {x}) \cap G
  <2>1. new.failures = old.failures + 1 /\ new.start = old.start /\ old.failures + 1 < MaxFailures
    BY <1>3, <1>8 DEF Counted
  <2>2. Cardinality(A) <= old.failures
    BY <1>1, <1>8 DEF Split
  <2>3. IsFiniteSet(A \cup {x}) /\ Cardinality(A \cup {x}) <= Cardinality(A) + 1
    <3>1. /\ IsFiniteSet(A \cup {x})
          /\ Cardinality(A \cup {x}) = IF x \in A THEN Cardinality(A) ELSE Cardinality(A) + 1
      BY <1>6, FS_AddElement, Zenon
    <3> QED BY <1>6, <3>1
  <2>4. Cardinality(B) <= Cardinality(A \cup {x}) /\ Cardinality(B) \in Nat /\ Cardinality(A \cup {x}) \in Nat
    BY <2>3, FS_Subset, FS_CardinalityType
  <2>5. Cardinality(B) <= new.failures /\ Cardinality(B) < MaxFailures
    BY <1>3, <1>6, <2>1, <2>2, <2>3, <2>4
  <2>6. G \ B \subseteq F \ A
    BY <1>4
  <2>7. Cardinality(G \ B) <= Cardinality(F \ A) /\ Cardinality(G \ B) \in Nat
    BY <1>6, <2>6, FS_Subset, FS_CardinalityType
  <2>8. Cardinality(G \ B) < MaxFailures
    BY <1>1, <1>3, <1>6, <2>7 DEF Split
  <2>9. \A f \in B : f[1] < new.start + GuardWindow
    <3>1. x[1] < old.start + GuardWindow
      BY <1>3, <1>8
    <3>2. \A f \in A : f[1] < old.start + GuardWindow
      BY <1>1, <1>8 DEF Split
    <3> QED BY <2>1, <3>1, <3>2
  <2>10. \A f \in G \ B : f[1] < new.start
    BY <1>1, <1>8, <2>1, <2>6 DEF Split
  <2>11. B \in SUBSET G
    OBVIOUS
  <2> HIDE DEF B
  <2>12. Split(G, B, new, clock)
    BY <1>8, <2>1, <2>5, <2>8, <2>9, <2>10 DEF Split
  <2> QED BY <1>5, <2>11, <2>12 DEF Windowed, G
<1> QED BY <1>7, <1>8

\* No step puts more failures into a window than the two budgets it may touch.
LEMMA FailStep ==
  ASSUME GuardTypes, RowInv, LoginInv, FailInv, [GuardNext]_guardVars
  PROVE  FailInv'
<1>0. guardNow \in Nat /\ attempts \in [GuardKey -> GuardRow] /\ MaxFailures \in Nat \ {0}
  BY GuardConstants DEF GuardTypes
<1>r. \A i \in LoginIp : attempts[IpKey(i)] \in GuardRow /\ Windowed(failedAt[i], attempts[IpKey(i)], guardNow)
  BY <1>0, KeyFacts DEF FailInv
<1>1. ASSUME UNCHANGED <<guardNow, failedAt>>, \A i \in LoginIp : attempts'[IpKey(i)] = attempts[IpKey(i)]
      PROVE  FailInv'
  BY <1>1 DEF FailInv
<1>2. ASSUME NEW r \in LoginReq, Bump(r) PROVE FailInv'
  <2> DEFINE k == Head(logins[r].left)
             t == logins[r].at
             j == logins[r].ip
             old == attempts[k]
             new == planLoginFailure(k, old, t)
             banned == new.until > t /\ loginBanRemaining(old, t) = 0
  <2>1. /\ j \in LoginIp /\ k \in GuardKey /\ t \in Nat \ {0} /\ guardNow - 1 <= t /\ t <= guardNow
        /\ old \in GuardRow /\ new \in GuardRow
        /\ old.until > t => new = old
        /\ k # UserKey /\ old.until <= t => Counted(new, k, old, t, Budget(k))
        /\ k \in {IpKey(j), UserKey, PromptKey(j)}
    BY <1>2, BumpFacts
  <2>2. CASE k # IpKey(j) \/ GuardFault
    <3>1. UNCHANGED <<guardNow, failedAt>>
      BY <1>2, <2>2 DEF Bump, GuardFault, GuardTypes
    <3>2. \A i \in LoginIp : attempts'[IpKey(i)] = attempts[IpKey(i)]
      <4>1. \A i \in LoginIp : k # IpKey(j) => k # IpKey(i)
        BY <2>1, KeyFacts
      <4>2. attempts' = attempts \/ (attempts' = [attempts EXCEPT ![k] = new] /\ k # IpKey(j))
        BY <1>2, <2>2 DEF Bump, GuardFault, GuardTypes
      <4> HIDE DEF k, new
      <4> QED BY <1>0, <2>1, <4>1, <4>2, KeyFacts
    <3> QED BY <1>1, <3>1, <3>2
  <2>3. CASE k = IpKey(j) /\ ~ GuardFault
    <3> DEFINE x == NextAt(failedAt[j], t)
               G == IF banned THEN {}
                    ELSE IF loginBanRemaining(old, t) > 0 THEN failedAt[j]
                    ELSE InWindow(failedAt[j] \cup {x}, t)
    <3>1. /\ guardNow' = guardNow
          /\ attempts' = [attempts EXCEPT ![k] = new]
          /\ failedAt' = [failedAt EXCEPT ![j] = G]
      BY <1>2, <2>3 DEF Bump
    <3>2. Windowed(failedAt[j], old, guardNow)
      BY <1>r, <2>1, <2>3
    <3>3. old.until \in Nat /\ GuardBan \in Nat \ {0}
      BY <2>1, GuardConstants DEF GuardRow
    <3>4. k # UserKey /\ Budget(k) = MaxFailures
      BY <2>1, <2>3, KeyFacts, BudgetFacts
    <3>5. x \in Nat \X Nat /\ x[1] = t
      <4>1. failedAt[j] \subseteq Nat \X Nat /\ IsFiniteSet(failedAt[j])
        BY <3>2 DEF Windowed
      <4>2. Cardinality({f \in failedAt[j] : f[1] = t}) \in Nat
        BY <4>1, FS_Subset, FS_CardinalityType
      <4> QED BY <2>1, <4>2 DEF NextAt
    <3> HIDE DEF x
    <3>6. (loginBanRemaining(old, t) = 0 <=> old.until <= t) /\ (loginBanRemaining(old, t) > 0 <=> old.until > t)
      BY <2>1, <3>3 DEF loginBanRemaining
    <3> HIDE DEF k, t, old, new
    <3>7. Windowed(G, new, guardNow)
      <4>1. CASE banned
        <5>1. G = {}
          BY <4>1
        <5> QED BY <1>0, <2>1, <5>1, WindowedNone
      <4>2. CASE old.until > t
        <5>1. G = failedAt[j] /\ new = old
          BY <2>1, <3>3, <3>6, <4>2
        <5> QED BY <3>2, <5>1
      <4>3. CASE ~banned /\ ~ old.until > t
        <5>1. old.until <= t /\ new.until <= t /\ new.until \in Nat
          BY <2>1, <3>3, <3>6, <4>3 DEF GuardRow
        <5>2. G = InWindow(failedAt[j] \cup {x}, t)
          BY <2>1, <3>3, <3>6, <4>3
        <5>3. Counted(new, k, old, t, MaxFailures) /\ new.until # t + GuardBan
          BY <2>1, <3>3, <3>4, <5>1
        <5> HIDE DEF G
        <5> QED BY <1>0, <2>1, <3>2, <3>4, <3>5, <5>2, <5>3, WindowedCount
      <4> QED BY <4>1, <4>2, <4>3
    <3> HIDE DEF G
    <3>8. ASSUME NEW i \in LoginIp PROVE Windowed(failedAt'[i], attempts'[IpKey(i)], guardNow')
      <4>1. CASE i = j
        <5>1. failedAt'[i] = G /\ attempts'[IpKey(i)] = new
          BY <1>0, <2>1, <2>3, <3>1, <4>1 DEF FailInv
        <5> QED BY <3>1, <3>7, <5>1
      <4>2. CASE i # j
        <5>1. IpKey(i) # k /\ IpKey(i) \in GuardKey
          BY <2>1, <2>3, <4>2, KeyFacts
        <5>2. failedAt'[i] = failedAt[i] /\ attempts'[IpKey(i)] = attempts[IpKey(i)]
          BY <1>0, <3>1, <4>2, <5>1 DEF FailInv
        <5> QED BY <1>r, <3>1, <5>2
      <4> QED BY <4>1, <4>2
    <3>9. failedAt' \in [LoginIp -> SUBSET (Nat \X Nat)]
      <4>1. G \subseteq Nat \X Nat
        BY <3>7 DEF Windowed
      <4> QED BY <3>1, <4>1 DEF FailInv
    <3> QED BY <3>8, <3>9 DEF FailInv
  <2> QED BY <2>2, <2>3
<1>3. ASSUME NEW r \in LoginReq, Sweep(r) PROVE FailInv'
  <2> DEFINE t == logins[r].at
  <2>1. t \in Nat /\ t <= guardNow
    BY <1>3 DEF Sweep, LoginInv, LoginOK, Logins
  <2>2. UNCHANGED <<guardNow, failedAt>>
    BY <1>3 DEF Sweep
  <2>3. ASSUME NEW i \in LoginIp PROVE Windowed(failedAt[i], attempts'[IpKey(i)], guardNow)
    <3>1. \/ attempts'[IpKey(i)] = attempts[IpKey(i)]
          \/ attempts'[IpKey(i)] = NoRow /\ attempts[IpKey(i)].start <= t - GuardWindow - GuardRetention
      BY <1>3, KeyFacts DEF Sweep, sweep
    <3> HIDE DEF t
    <3> QED BY <1>0, <1>r, <2>1, <3>1, WindowedSwept
  <2> QED BY <2>2, <2>3 DEF FailInv
<1>4. ASSUME NEW r \in LoginReq, RecordSuccess(r) PROVE FailInv'
  <2> DEFINE k == Head(logins[r].left)
  <2>1. k \in GuardKey
    BY <1>4, HeadFacts DEF RecordSuccess
  <2>2. CASE UNCHANGED <<attempts, failedAt>>
    BY <1>1, <1>4, <2>2 DEF RecordSuccess
  <2>3. CASE attempts' = [attempts EXCEPT ![k] = NoRow] /\ Reset(k)
    <3>1. failedAt' = [i \in LoginIp |-> IF k = IpKey(i) THEN {} ELSE failedAt[i]] /\ guardNow' = guardNow
      BY <1>4, <2>3 DEF Reset, RecordSuccess
    <3> HIDE DEF k
    <3>2. ASSUME NEW i \in LoginIp PROVE Windowed(failedAt'[i], attempts'[IpKey(i)], guardNow)
      <4>1. CASE k = IpKey(i)
        <5>1. failedAt'[i] = {} /\ attempts'[IpKey(i)] = NoRow
          BY <1>0, <2>1, <2>3, <3>1, <4>1
        <5> QED BY <1>0, <5>1, WindowedNone, BlankLogin
      <4>2. CASE k # IpKey(i)
        <5>1. failedAt'[i] = failedAt[i] /\ attempts'[IpKey(i)] = attempts[IpKey(i)]
          BY <1>0, <2>1, <2>3, <3>1, <4>2, KeyFacts
        <5> QED BY <1>r, <5>1
      <4> QED BY <4>1, <4>2
    <3>3. failedAt' \in [LoginIp -> SUBSET (Nat \X Nat)]
      BY <3>1 DEF FailInv
    <3> QED BY <3>1, <3>2, <3>3 DEF FailInv
  <2> QED BY <1>4, <2>2, <2>3 DEF RecordSuccess
<1>5. CASE ClearAll
  <2>1. guardNow' = guardNow /\ failedAt' \in [LoginIp -> SUBSET (Nat \X Nat)]
    BY <1>5 DEF ClearAll
  <2>2. \A i \in LoginIp : failedAt'[i] = {} /\ attempts'[IpKey(i)] = NoRow
    BY <1>5, KeyFacts DEF ClearAll
  <2> QED BY <1>0, <2>1, <2>2, WindowedNone, BlankLogin DEF FailInv
<1>6. CASE GuardTick
  <2>1. guardNow' = guardNow + 1 /\ UNCHANGED <<attempts, failedAt>>
    BY <1>6 DEF GuardTick
  <2> QED BY <1>0, <1>r, <2>1, WindowedLater DEF FailInv
<1>7. CASE \/ \E r \in LoginReq : CheckPassword(r) \/ \E i \in LoginIp : BanRemaining(r, i)
           \/ UNCHANGED guardVars
  BY <1>1, <1>7 DEF CheckPassword, BanRemaining, guardVars
<1> QED
  BY <1>2, <1>3, <1>4, <1>5, <1>6, <1>7 DEF GuardNext

\* What a row's bound needs of a step that moves no clock.
LEMMA LateRowKept ==
  ASSUME NEW b \in Int, NEW e \in {b, b + 1}, NEW clock \in Nat, NEW c \in Nat, NEW d \in Nat,
         NEW l \in Nat, NEW m \in Nat, NEW u \in Nat, NEW v \in Nat,
         l <= b, u > clock => l + c <= b,
         \/ v = u /\ m = l /\ (d <= c \/ u <= clock)
         \/ v = u /\ m = l /\ d <= c + 1 /\ e = b + 1
         \/ v <= clock /\ m \in {0, l}
         \/ v = u /\ u > clock /\ m = l + 1 /\ d + 1 <= c
         \/ m = 0 /\ d <= b
  PROVE  m <= e /\ (v > clock => m + d <= e)
OBVIOUS

\* A ban is followed by no more password checks of the address than requests
\* were under way and faults let through.
LEMMA LateStep ==
  ASSUME GuardTypes, RowInv, LoginInv, LateInv, [GuardNext]_guardVars
  PROVE  LateInv'
<1> DEFINE N == Cardinality(LoginReq)
           Key(i) == {IpKey(i), PromptKey(i)}
<1>0. /\ guardNow \in Nat /\ guardFaulted \in Nat
      /\ attempts \in [GuardKey -> GuardRow] /\ lateChecks \in [GuardKey -> Nat]
      /\ attempts' \in [GuardKey -> GuardRow] /\ lateChecks' \in [GuardKey -> Nat]
      /\ IsFiniteSet(LoginReq) /\ N \in Nat
  BY GuardConstants, FS_CardinalityType, GuardTypesStep DEF GuardTypes
<1>c. \A i \in LoginIp : Checking(i) \subseteq LoginReq /\ IsFiniteSet(Checking(i)) /\ Cardinality(Checking(i)) \in Nat
  BY <1>0, FS_Subset, FS_CardinalityType DEF Checking
<1>d. \A i \in LoginIp : IsFiniteSet(Checking(i)') /\ Cardinality(Checking(i)') \in Nat
  BY <1>0, FS_Subset, FS_CardinalityType DEF Checking
<1>k. \A i \in LoginIp : \A k \in Key(i) :
        /\ k \in GuardKey /\ lateChecks[k] \in Nat /\ attempts[k].until \in Nat
        /\ lateChecks'[k] \in Nat /\ attempts'[k].until \in Nat
        /\ LateRow(i, k)
  BY <1>0, KeyFacts DEF GuardRow, LateInv
<1>b. LateBound \in Int /\ N - 1 <= LateBound
  BY <1>0 DEF LateBound
<1>f. guardFaulted' = guardFaulted + 1 => LateBound' = LateBound + 1
  BY <1>0 DEF LateBound
<1>g. guardFaulted' = guardFaulted => LateBound' = LateBound
  BY DEF LateBound
<1> HIDE DEF N
\* The bound of a row, whichever way the step goes.
<1>1. ASSUME guardNow' = guardNow, guardFaulted' \in {guardFaulted, guardFaulted + 1},
             NEW i \in LoginIp, NEW k \in Key(i),
             LET c == Cardinality(Checking(i))
                 d == Cardinality(Checking(i)')
                 l == lateChecks[k]
                 m == lateChecks'[k]
                 u == attempts[k].until
                 v == attempts'[k].until
             IN  \/ v = u /\ m = l /\ (d <= c \/ u <= guardNow)
                 \/ v = u /\ m = l /\ d <= c + 1 /\ guardFaulted' = guardFaulted + 1
                 \/ v <= guardNow /\ m \in {0, l}
                 \/ v = u /\ u > guardNow /\ m = l + 1 /\ d + 1 <= c
                 \/ m = 0 /\ d <= N - 1
      PROVE  LateRow(i, k)'
  <2> DEFINE c == Cardinality(Checking(i))
             d == Cardinality(Checking(i)')
             l == lateChecks[k]
             m == lateChecks'[k]
             u == attempts[k].until
             v == attempts'[k].until
             b == LateBound
             e == LateBound'
  <2>1. /\ c \in Nat /\ d \in Nat /\ l \in Nat /\ m \in Nat /\ u \in Nat /\ v \in Nat
        /\ b \in Int /\ e \in {b, b + 1}
    BY <1>1, <1>b, <1>c, <1>d, <1>f, <1>g, <1>k
  <2>2. l <= b /\ (u > guardNow => l + c <= b)
    BY <1>1, <1>k DEF LateRow
  <2>3. \/ v = u /\ m = l /\ (d <= c \/ u <= guardNow)
        \/ v = u /\ m = l /\ d <= c + 1 /\ e = b + 1
        \/ v <= guardNow /\ m \in {0, l}
        \/ v = u /\ u > guardNow /\ m = l + 1 /\ d + 1 <= c
        \/ m = 0 /\ d <= b
    <3>1. N - 1 <= b /\ N \in Int
      BY <1>0, <1>b
    <3>2. d <= N - 1 => d <= b
      BY <2>1, <3>1
    <3> QED BY <1>1, <1>f, <3>2
  <2> HIDE DEF c, d, l, m, u, v, b, e
  <2>4. m <= e /\ (v > guardNow => m + d <= e)
    BY <1>0, <2>1, <2>2, <2>3, LateRowKept
  <2> QED BY <1>1, <2>4 DEF LateRow, c, d, l, m, u, v, b, e
<1>s. ASSUME NEW i \in LoginIp, Checking(i)' \subseteq Checking(i)
      PROVE  Cardinality(Checking(i)') <= Cardinality(Checking(i))
  BY <1>c, <1>s, FS_Subset
\* A step that takes nobody into the check, and counts nothing.
<1>2. ASSUME guardNow' = guardNow, guardFaulted' \in {guardFaulted, guardFaulted + 1},
             \A i \in LoginIp : Checking(i)' \subseteq Checking(i),
             \A i \in LoginIp : \A k \in Key(i) :
               \/ attempts'[k].until = attempts[k].until /\ lateChecks'[k] = lateChecks[k]
               \/ attempts'[k].until <= guardNow /\ lateChecks'[k] \in {0, lateChecks[k]}
      PROVE  LateInv'
  <2>1. ASSUME NEW i \in LoginIp, NEW k \in Key(i) PROVE LateRow(i, k)'
    <3>1. Cardinality(Checking(i)') <= Cardinality(Checking(i))
      BY <1>2, <1>s
    <3> QED BY <1>1, <1>2, <3>1
  <2> QED BY <2>1 DEF LateInv
\* A request that is not let in leaves the others where they are.
<1>3. ASSUME NEW r \in LoginReq, logins'[r].pc # "check", \A q \in LoginReq \ {r} : logins'[q] = logins[q]
      PROVE  \A i \in LoginIp : Checking(i)' \subseteq Checking(i) \ {r}
  BY <1>3 DEF Checking
<1>4. ASSUME NEW r \in LoginReq, NEW j \in LoginIp, BanRemaining(r, j) PROVE LateInv'
  <2>1. /\ logins' = [logins EXCEPT ![r] = [NoLogin EXCEPT !.pc = "check", !.ip = j]]
        /\ UNCHANGED <<guardNow, attempts, lateChecks>>
    BY <1>4 DEF BanRemaining
  <2>2. logins'[r].pc = "check" /\ logins'[r].ip = j /\ \A q \in LoginReq \ {r} : logins'[q] = logins[q]
    BY <2>1 DEF LoginInv, NoLogin
  <2>3. \/ /\ \A n \in DOMAIN banKeys(j) : loginBanRemaining(attempts[banKeys(j)[n]], guardNow) = 0
           /\ guardFaulted' = guardFaulted
        \/ guardFaulted' = guardFaulted + 1
    BY <1>4 DEF BanRemaining, GuardFault
  <2>4. ASSUME NEW i \in LoginIp, NEW k \in Key(i) PROVE LateRow(i, k)'
    <3>1. CASE i # j
      <4>1. Checking(i)' \subseteq Checking(i)
        BY <2>2, <3>1 DEF Checking
      <4>2. Cardinality(Checking(i)') <= Cardinality(Checking(i))
        BY <1>s, <4>1
      <4> QED BY <1>1, <2>1, <2>3, <4>2
    <3>2. CASE i = j /\ guardFaulted' = guardFaulted + 1
      <4>1. Checking(i)' \subseteq Checking(i) \cup {r}
        BY <2>2 DEF Checking
      <4>2. /\ IsFiniteSet(Checking(i) \cup {r})
            /\ Cardinality(Checking(i) \cup {r}) = IF r \in Checking(i) THEN Cardinality(Checking(i)) ELSE Cardinality(Checking(i)) + 1
        BY <1>c, FS_AddElement, Zenon
      <4>3. Cardinality(Checking(i)') <= Cardinality(Checking(i) \cup {r})
        BY <4>1, <4>2, FS_Subset
      <4>4. Cardinality(Checking(i)') <= Cardinality(Checking(i)) + 1
        BY <1>c, <1>d, <4>2, <4>3
      <4> QED BY <1>1, <2>1, <3>2, <4>4
    <3>3. CASE i = j /\ guardFaulted' = guardFaulted /\ guardFaulted' # guardFaulted + 1
      <4>1. banKeys(i) = <<IpKey(i), UserKey, PromptKey(i)>>
        <5>1. IpKey(i) \in GuardKey /\ UserKey \in GuardKey /\ PromptKey(i) \in GuardKey
          BY KeyFacts
        <5> QED BY <5>1, KeyTuples DEF banKeys, loginKeys
      <4>2. \A n \in {1, 3} : n \in DOMAIN banKeys(i)
        BY <4>1
      <4>3. banKeys(i)[1] = IpKey(i) /\ banKeys(i)[3] = PromptKey(i)
        BY <4>1
      <4>4. loginBanRemaining(attempts[k], guardNow) = 0
        BY <2>3, <3>3, <4>2, <4>3
      <4>5. attempts[k].until <= guardNow
        BY <1>0, <1>k, <4>4 DEF loginBanRemaining
      <4> QED BY <1>1, <2>1, <3>3, <4>5
    <3> QED BY <2>3, <3>1, <3>2, <3>3
  <2> QED BY <2>4 DEF LateInv
<1>5. ASSUME NEW r \in LoginReq, CheckPassword(r) PROVE LateInv'
  <2> DEFINE j == logins[r].ip
  <2>1. UNCHANGED <<guardNow, attempts, guardFaulted>> /\ logins[r].pc = "check" /\ logins[r] \in Logins
    BY <1>5 DEF CheckPassword, LoginInv
  <2>2. logins'[r].pc # "check" /\ \A q \in LoginReq \ {r} : logins'[q] = logins[q]
    BY <1>5, <2>1 DEF CheckPassword, LoginInv, Logins
  <2>3. \A k \in GuardKey :
          lateChecks'[k] = IF k \in {IpKey(j), UserKey, PromptKey(j)} /\ loginBanRemaining(attempts[k], guardNow) > 0
                           THEN lateChecks[k] + 1 ELSE lateChecks[k]
    BY <1>5 DEF CheckPassword
  <2>j. j \in LoginIp
    BY <2>1 DEF LoginInv, LoginOK
  <2>4. ASSUME NEW i \in LoginIp, NEW k \in Key(i) PROVE LateRow(i, k)'
    <3>1. Checking(i)' \subseteq Checking(i) \ {r}
      BY <1>3, <2>2
    <3>2. Cardinality(Checking(i)') <= Cardinality(Checking(i))
      BY <1>s, <3>1
    <3>3. k \in GuardKey /\ lateChecks[k] \in Nat /\ attempts[k].until \in Nat
      BY <1>k
    <3>4. CASE lateChecks'[k] = lateChecks[k]
      BY <1>1, <2>1, <3>2, <3>4
    <3>5. CASE lateChecks'[k] # lateChecks[k]
      <4>1. k \in {IpKey(j), UserKey, PromptKey(j)} /\ loginBanRemaining(attempts[k], guardNow) > 0 /\ lateChecks'[k] = lateChecks[k] + 1
        BY <2>3, <3>3, <3>5
      <4>2. i = j
        BY <2>j, <4>1, KeyFacts
      <4>3. r \in Checking(i)
        BY <2>1, <4>2 DEF Checking
      <4>4. IsFiniteSet(Checking(i) \ {r}) /\ Cardinality(Checking(i) \ {r}) = IF r \in Checking(i) THEN Cardinality(Checking(i)) - 1 ELSE Cardinality(Checking(i))
        BY <1>c, FS_RemoveElement, Zenon
      <4>5. Cardinality(Checking(i)') <= Cardinality(Checking(i) \ {r})
        BY <3>1, <4>4, FS_Subset
      <4>6. Cardinality(Checking(i)') + 1 <= Cardinality(Checking(i))
        BY <1>c, <1>d, <4>3, <4>4, <4>5
      <4>7. attempts[k].until > guardNow
        BY <1>0, <3>3, <4>1 DEF loginBanRemaining
      <4> QED BY <1>1, <2>1, <4>1, <4>6, <4>7
    <3> QED BY <3>4, <3>5
  <2> QED BY <2>4 DEF LateInv
<1>6. ASSUME NEW r \in LoginReq, Bump(r) PROVE LateInv'
  <2> DEFINE k == Head(logins[r].left)
             t == logins[r].at
             old == attempts[k]
             new == planLoginFailure(k, old, t)
             banned == new.until > t /\ loginBanRemaining(old, t) = 0
  <2>1. /\ k \in GuardKey /\ t \in Nat \ {0} /\ t <= guardNow
        /\ old \in GuardRow /\ new \in GuardRow
        /\ old.until > t => new = old
        /\ logins[r].pc = "bump"
    BY <1>6, BumpFacts
  <2>2. guardNow' = guardNow /\ logins[r] \in Logins /\ logins' = [logins EXCEPT ![r].left = Tail(@)]
    BY <1>6 DEF Bump, LoginInv
  <2>3. logins'[r].pc # "check" /\ \A q \in LoginReq \ {r} : logins'[q] = logins[q]
    BY <2>1, <2>2 DEF LoginInv, Logins
  <2>4. \A i \in LoginIp : Checking(i)' \subseteq Checking(i) \ {r}
    BY <1>3, <2>3
  <2>5. CASE UNCHANGED <<attempts, lateChecks>> /\ GuardFault
    <3>1. guardFaulted' = guardFaulted + 1
      BY <2>5 DEF GuardFault
    <3> QED BY <1>2, <2>2, <2>4, <2>5, <3>1
  <2>6. CASE /\ attempts' = [attempts EXCEPT ![k] = new]
             /\ lateChecks' = IF banned THEN [lateChecks EXCEPT ![k] = 0] ELSE lateChecks
             /\ UNCHANGED guardFaulted
    <3>0. old.until \in Nat /\ new.until \in Nat
      BY <2>1 DEF GuardRow
    <3>1. loginBanRemaining(old, t) = 0 <=> old.until <= t
      BY <2>1, <3>0 DEF loginBanRemaining
    <3>2. banned <=> new.until > t /\ old.until <= t
      BY <3>1
    <3> HIDE DEF new, banned, t
    <3>3. ASSUME NEW i \in LoginIp, NEW h \in Key(i) PROVE LateRow(i, h)'
      <4>1. Cardinality(Checking(i)') <= Cardinality(Checking(i))
        BY <1>s, <2>4
      <4>2. h \in GuardKey
        BY <1>k
      <4>3. CASE h # k
        <5>1. attempts'[h] = attempts[h] /\ lateChecks'[h] = lateChecks[h]
          BY <1>0, <2>6, <4>2, <4>3
        <5> QED BY <1>1, <2>2, <2>6, <4>1, <5>1
      <4>4. CASE h = k /\ banned
        <5>1. lateChecks'[h] = 0
          BY <1>0, <2>6, <4>2, <4>4
        <5>2. Checking(i)' \subseteq LoginReq \ {r}
          BY <1>c, <2>4
        <5>3. IsFiniteSet(LoginReq \ {r}) /\ Cardinality(LoginReq \ {r}) = IF r \in LoginReq THEN Cardinality(LoginReq) - 1 ELSE Cardinality(LoginReq)
          BY <1>0, FS_RemoveElement, Zenon
        <5>4. Cardinality(Checking(i)') <= Cardinality(LoginReq \ {r})
          BY <5>2, <5>3, FS_Subset
        <5>5. Cardinality(Checking(i)') <= N - 1
          BY <5>3, <5>4 DEF N
        <5> QED BY <1>1, <2>2, <2>6, <5>1, <5>5
      <4>5. CASE h = k /\ ~banned
        <5>1. attempts'[h] = new /\ lateChecks'[h] = lateChecks[h] /\ attempts[h] = old
          BY <1>0, <2>1, <2>6, <4>5
        <5>2. CASE old.until > t
          <6>1. attempts'[h].until = attempts[h].until
            BY <2>1, <5>1, <5>2
          <6> QED BY <1>1, <2>2, <2>6, <4>1, <5>1, <6>1
        <5>3. CASE old.until <= t
          <6>1. new.until <= guardNow
            BY <1>0, <2>1, <3>0, <3>2, <4>5, <5>3
          <6>2. attempts'[h].until <= guardNow
            BY <5>1, <6>1
          <6> QED BY <1>1, <2>2, <2>6, <5>1, <6>2
        <5> QED BY <2>1, <3>0, <5>2, <5>3
      <4> QED BY <4>3, <4>4, <4>5
    <3> QED BY <3>3 DEF LateInv
  <2> QED BY <1>6, <2>5, <2>6 DEF Bump
<1>7. ASSUME NEW r \in LoginReq, Sweep(r) PROVE LateInv'
  <2> DEFINE t == logins[r].at
  <2>1. /\ UNCHANGED <<guardNow, guardFaulted, lateChecks>> /\ logins[r].pc = "bump"
        /\ attempts' = sweep(attempts, t) /\ logins' = [logins EXCEPT ![r] = NoLogin]
    BY <1>7 DEF Sweep
  <2>2. logins'[r].pc # "check" /\ \A q \in LoginReq \ {r} : logins'[q] = logins[q]
    BY <2>1, BlankLogin DEF LoginInv
  <2>3. \A i \in LoginIp : Checking(i)' \subseteq Checking(i) \ {r}
    BY <1>3, <2>2
  <2>4. \A k \in GuardKey : attempts'[k] = attempts[k] \/ attempts'[k] = NoRow
    BY <2>1 DEF sweep
  <2>5. ASSUME NEW i \in LoginIp, NEW k \in Key(i)
        PROVE  attempts'[k].until = attempts[k].until \/ attempts'[k].until <= guardNow
    BY <1>0, <1>k, <2>4, BlankLogin
  <2> QED BY <1>2, <2>1, <2>3, <2>5
<1>8. ASSUME NEW r \in LoginReq, RecordSuccess(r) PROVE LateInv'
  <2> DEFINE k == Head(logins[r].left)
  <2>1. k \in GuardKey /\ guardNow' = guardNow /\ logins[r].pc = "forget" /\ logins[r] \in Logins
    BY <1>8, HeadFacts DEF RecordSuccess, LoginInv
  <2>2. logins'[r].pc # "check" /\ \A q \in LoginReq \ {r} : logins'[q] = logins[q]
    <3>1. logins' = [logins EXCEPT ![r] = NoLogin] \/ logins' = [logins EXCEPT ![r].left = Tail(@)]
      BY <1>8 DEF RecordSuccess
    <3> QED BY <2>1, <3>1, BlankLogin DEF LoginInv, Logins
  <2>3. \A i \in LoginIp : Checking(i)' \subseteq Checking(i) \ {r}
    BY <1>3, <2>2
  <2>4. CASE UNCHANGED <<attempts, lateChecks>> /\ GuardFault
    <3>1. guardFaulted' = guardFaulted + 1
      BY <2>4 DEF GuardFault
    <3> QED BY <1>2, <2>1, <2>3, <2>4, <3>1
  <2>5. CASE attempts' = [attempts EXCEPT ![k] = NoRow] /\ Reset(k) /\ guardFaulted' = guardFaulted
    <3>1. lateChecks' = [lateChecks EXCEPT ![k] = 0]
      BY <2>5 DEF Reset
    <3> HIDE DEF k
    <3>2. ASSUME NEW i \in LoginIp, NEW h \in Key(i)
          PROVE  \/ attempts'[h].until = attempts[h].until /\ lateChecks'[h] = lateChecks[h]
                 \/ attempts'[h].until <= guardNow /\ lateChecks'[h] \in {0, lateChecks[h]}
      <4>1. h \in GuardKey
        BY <1>k
      <4>2. CASE h = k
        BY <1>0, <2>5, <3>1, <4>1, <4>2, BlankLogin
      <4>3. CASE h # k
        BY <1>0, <2>5, <3>1, <4>1, <4>3
      <4> QED BY <4>2, <4>3
    <3> QED BY <1>2, <2>1, <2>3, <2>5, <3>2
  <2> QED BY <1>8, <2>4, <2>5 DEF RecordSuccess
<1>9. CASE ClearAll
  <2>1. UNCHANGED <<guardNow, guardFaulted, logins>>
    BY <1>9 DEF ClearAll
  <2>2. \A i \in LoginIp : Checking(i)' \subseteq Checking(i)
    BY <2>1 DEF Checking
  <2>3. ASSUME NEW i \in LoginIp, NEW k \in Key(i)
        PROVE  attempts'[k].until <= guardNow /\ lateChecks'[k] \in {0, lateChecks[k]}
    <3>1. k \in GuardKey
      BY <1>k
    <3>2. attempts'[k] = NoRow /\ lateChecks'[k] = 0
      BY <1>9, <3>1 DEF ClearAll
    <3> QED BY <1>0, <3>2, BlankLogin
  <2> QED BY <1>2, <2>1, <2>2, <2>3
<1>10. CASE GuardTick
  <2>1. guardNow' = guardNow + 1 /\ UNCHANGED <<attempts, lateChecks, logins, guardFaulted>>
    BY <1>10 DEF GuardTick
  <2>2. ASSUME NEW i \in LoginIp, NEW k \in Key(i) PROVE LateRow(i, k)'
    <3>1. Checking(i)' = Checking(i) /\ LateBound' = LateBound
      BY <2>1 DEF Checking, LateBound
    <3>2. attempts[k].until > guardNow + 1 => attempts[k].until > guardNow
      BY <1>0, <1>k
    <3>3. LateRow(i, k)
      BY <1>k
    <3> QED BY <2>1, <3>1, <3>2, <3>3 DEF LateRow
  <2> QED BY <2>2 DEF LateInv
<1>11. CASE UNCHANGED guardVars
  BY <1>11 DEF guardVars, LateInv, LateRow, LateBound, Checking
<1> QED
  BY <1>4, <1>5, <1>6, <1>7, <1>8, <1>9, <1>10, <1>11 DEF GuardNext

\* The guard starts with no rows, no requests and no bans.
LEMMA GuardInitial == GuardInit => GuardInv
<1> SUFFICES ASSUME GuardInit PROVE GuardInv
  OBVIOUS
<1>0. /\ GuardTicks \in Nat \ {0} /\ GuardFaults \in Nat /\ GuardBan \in Nat /\ MaxFailures \in Nat \ {0}
      /\ IsFiniteSet(LoginReq) /\ LoginReq # {}
  BY GuardConstants
<1>1. /\ guardNow = 1 /\ guardFaulted = 0 /\ lastUser = 0 /\ userBanned = FALSE
      /\ attempts = [k \in GuardKey |-> NoRow] /\ logins = [r \in LoginReq |-> NoLogin]
      /\ failedAt = [i \in LoginIp |-> {}] /\ lateChecks = [k \in GuardKey |-> 0]
  BY DEF GuardInit
<1>2. GuardTypes /\ RowInv
  BY <1>0, <1>1, BlankLogin DEF GuardTypes, RowInv
<1>3. LoginInv
  <2>1. \A r \in LoginReq : logins[r] = NoLogin
    BY <1>1
  <2>2. logins \in [LoginReq -> Logins]
    BY <1>1, BlankLogin
  <2> QED BY <2>1, <2>2, BlankLogin DEF LoginInv, LoginOK
<1>4. FailInv
  <2>1. failedAt \in [LoginIp -> SUBSET (Nat \X Nat)]
    BY <1>1
  <2>2. \A i \in LoginIp : failedAt[i] = {} /\ attempts[IpKey(i)] = NoRow
    BY <1>1, KeyFacts
  <2> QED BY <1>1, <2>1, <2>2, WindowedNone, BlankLogin DEF FailInv
<1>5. LateInv
  <2>1. Cardinality(LoginReq) \in Nat /\ Cardinality(LoginReq) # 0
    BY <1>0, FS_CardinalityType, FS_EmptySet
  <2>2. LateBound >= 0
    BY <1>1, <2>1 DEF LateBound
  <2>3. \A k \in GuardKey : lateChecks[k] = 0 /\ attempts[k].until = 0
    BY <1>1, BlankLogin
  <2>4. LateBound \in Int
    BY <1>1, <2>1 DEF LateBound
  <2>5. ASSUME NEW i \in LoginIp, NEW k \in {IpKey(i), PromptKey(i)} PROVE LateRow(i, k)
    <3>1. k \in GuardKey
      BY KeyFacts
    <3>2. lateChecks[k] = 0 /\ attempts[k].until = 0
      BY <2>3, <3>1
    <3> QED BY <1>1, <2>2, <2>4, <3>2 DEF LateRow
  <2> QED BY <2>5 DEF LateInv
<1>6. SpacedInv
  BY <1>1 DEF SpacedInv
<1> QED
  BY <1>2, <1>3, <1>4, <1>5, <1>6 DEF GuardInv

\* For any number of requests, addresses and failed statements, and whatever order
\* their steps take: an address never gets two budgets of failures into a window
\* without a ban, a ban is followed by no more password checks than requests were
\* under way or a fault let through, and a name is not banned again before its pause.
THEOREM GuardIsSafe == GuardSpec => GuardSafety
<1> DEFINE Spaced == attempts'[UserKey].until > attempts[UserKey].until /\ userBanned =>
                       \E r \in LoginReq : logins'[r] # logins[r] /\ Rested(logins[r].at)
<1>1. GuardInv /\ [GuardNext]_guardVars => GuardInv' /\ Spaced
  <2> SUFFICES ASSUME GuardInv, [GuardNext]_guardVars PROVE GuardInv' /\ Spaced
    OBVIOUS
  <2>1. GuardTypes /\ RowInv /\ LoginInv /\ FailInv /\ LateInv /\ SpacedInv
    BY DEF GuardInv
  <2>2. GuardTypes' /\ RowInv' /\ LoginInv' /\ FailInv' /\ LateInv' /\ SpacedInv' /\ Spaced
    BY <2>1, GuardTypesStep, LoginStep, FailStep, LateStep, SpacedStep
  <2> QED BY <2>2 DEF GuardInv
<1>2. GuardInv => GuardTypeOK /\ FailuresBounded /\ BanStopsChecks
  <2> SUFFICES ASSUME GuardInv PROVE GuardTypeOK /\ FailuresBounded /\ BanStopsChecks
    OBVIOUS
  <2>0. GuardTypes /\ RowInv /\ LoginInv /\ FailInv /\ LateInv
    BY DEF GuardInv
  <2>1. GuardTypeOK
    <3>1. guardNow \in 1 .. GuardTicks /\ guardFaulted \in 0 .. GuardFaults
      BY <2>0, GuardConstants DEF GuardTypes
    <3>2. ASSUME NEW k \in GuardKey
          PROVE  /\ attempts[k].failures \in Nat /\ attempts[k].start \in 0 .. GuardTicks
                 /\ attempts[k].until \in 0 .. GuardTicks + GuardBan
      <4>1. attempts[k].failures \in Nat /\ attempts[k].start \in Nat /\ attempts[k].until \in Nat
        BY <2>0 DEF GuardTypes, GuardRow
      <4>2. /\ attempts[k].start <= guardNow /\ attempts[k].until <= guardNow + GuardBan
            /\ guardNow \in Nat /\ guardNow <= GuardTicks /\ GuardTicks \in Nat /\ GuardBan \in Nat
        BY <2>0, GuardConstants DEF GuardTypes, RowInv
      <4> QED BY <4>1, <4>2
    <3>3. \A r \in LoginReq : logins[r].pc \in {"idle", "check", "bump", "forget"}
      BY <2>0 DEF LoginInv, Logins
    <3> QED BY <3>1, <3>2, <3>3 DEF GuardTypeOK
  <2>2. FailuresBounded
    <3> SUFFICES ASSUME NEW i \in LoginIp PROVE Cardinality(failedAt[i]) <= 2 * (MaxFailures - 1)
      BY DEF FailuresBounded
    <3> DEFINE F == failedAt[i]
    <3>1. Windowed(F, attempts[IpKey(i)], guardNow)
      BY <2>0 DEF FailInv
    <3> HIDE DEF F
    <3>2. PICK A \in SUBSET F : Split(F, A, attempts[IpKey(i)], guardNow)
      BY <3>1 DEF Windowed
    <3>3. /\ IsFiniteSet(F) /\ IsFiniteSet(A) /\ IsFiniteSet(F \ A)
          /\ Cardinality(A) \in Nat /\ Cardinality(F \ A) \in Nat
      BY <3>1, FS_Subset, FS_CardinalityType DEF Windowed
    <3>4. A \cup (F \ A) = F /\ A \cap (F \ A) = {}
      OBVIOUS
    <3>5. Cardinality(A \cup (F \ A)) = Cardinality(A) + Cardinality(F \ A) - Cardinality(A \cap (F \ A))
      BY <3>3, FS_Union, Zenon
    <3>6. Cardinality(F) = Cardinality(A) + Cardinality(F \ A)
      BY <3>3, <3>4, <3>5, FS_EmptySet
    <3>7. Cardinality(A) < MaxFailures /\ Cardinality(F \ A) < MaxFailures /\ MaxFailures \in Nat
      BY <3>2, GuardConstants DEF Split
    <3> QED BY <3>3, <3>6, <3>7 DEF F
  <2>3. BanStopsChecks
    BY <2>0 DEF LateInv, LateRow, LateBound, BanStopsChecks
  <2> QED BY <2>1, <2>2, <2>3
<1> QED
  BY <1>1, <1>2, GuardInitial, PTL DEF GuardSpec, GuardSafety, BansSpaced

-----------------------------------------------------------------------------
(* The sampler of ClientRates, for every number of tabs and every size of the *)
(* windows and of the traffic.  A sample's delta is never negative (BookInv), *)
(* and a watched panel that does not sample is one whose tick has just paused *)
(* and is about to look again (WatchInv).                                     *)


BookInv == Booked /\ sampled <= counter + drained

WatchInv ==
  (~live /\ \E t \in tabs : pc[t] # "resume") => pc[Tick] \in {"clear", "relook", "resume"}

RatesIInv == TypeOK /\ BookInv /\ WatchInv

-----------------------------------------------------------------------------
(* Each part of the invariant, step by step.                                *)

\* Types are preserved; a sample's delta is never negative.
LEMMA RatesTypeStep ==
  ASSUME TypeOK, BookInv, [Next]_vars
  PROVE  TypeOK'
<1>1. CASE SwitchCore
  BY <1>1, RateConstants DEF TypeOK, BookInv, Proc, Booked, Delta, SwitchCore, tracker, run
<1>2. CASE Move
  BY <1>2, RateConstants DEF TypeOK, BookInv, Proc, Booked, Delta, Move, tracker, run
<1>3. CASE Elapse
  BY <1>3, RateConstants DEF TypeOK, BookInv, Proc, Booked, Delta, Elapse, tracker, run
<1>4. CASE GetStats
  BY <1>4, RateConstants DEF TypeOK, BookInv, Proc, Booked, Delta, GetStats, tracker, run
<1>5. ASSUME NEW p \in Proc, Sample(p) PROVE TypeOK'
  <2>1. Delta \in Nat
    BY DEF TypeOK, BookInv, Delta
  <2>2. reported' \in Nat /\ sampled' \in Nat /\ drained' \in Nat /\ counter' \in Nat
        /\ moved' \in Nat
    BY <1>5, <2>1 DEF Sample, TypeOK, tracker
  <2>3. win' \in 0 .. MaxWindow + 1
    BY <1>5, RateConstants DEF Sample, TypeOK, tracker
  <2>4. res' \in [Proc -> BOOLEAN]
    <3>1. Shows \in BOOLEAN
      BY DEF Shows
    <3> QED
      BY <1>5, <3>1, Zenon DEF Sample, TypeOK
  <2>5. pc' \in [Proc -> {"idle", "resume", "sample", "publish", "store", "pause", "clear", "relook"}]
    BY <1>5 DEF Sample, Goto, TypeOK
  <2>6. up' \in BOOLEAN /\ live' \in BOOLEAN /\ rates' \in BOOLEAN /\ tabs' \subseteq Tab
    BY <1>5 DEF Sample, TypeOK
  <2> QED
    BY <2>2, <2>3, <2>4, <2>5, <2>6 DEF TypeOK
<1>6. ASSUME NEW p \in Proc, Publish(p) PROVE TypeOK'
  BY <1>6, RateConstants DEF TypeOK, BookInv, Proc, Booked, Delta, Publish, Goto, tracker, run
<1>7. ASSUME NEW p \in Proc, Resume(p) PROVE TypeOK'
  BY <1>7, RateConstants DEF TypeOK, BookInv, Proc, Booked, Delta, Resume, Goto, tracker, run
<1>8. ASSUME NEW t \in Tab, Subscribe(t) PROVE TypeOK'
  BY <1>8, RateConstants DEF TypeOK, BookInv, Proc, Booked, Delta, Subscribe, Goto, tracker, run
<1>9. ASSUME NEW t \in Tab, Leave(t) PROVE TypeOK'
  BY <1>9, RateConstants DEF TypeOK, BookInv, Proc, Booked, Delta, Leave, tracker, run
<1>10. CASE Look
  BY <1>10, RateConstants DEF TypeOK, BookInv, Proc, Booked, Delta, Look, Goto, tracker, run
<1>11. CASE Store
  BY <1>11, RateConstants DEF TypeOK, BookInv, Proc, Booked, Delta, Store, Goto, tracker, run
<1>12. CASE Pause
  BY <1>12, RateConstants DEF TypeOK, BookInv, Proc, Booked, Delta, Pause, Goto, tracker, run
<1>13. CASE Clear
  BY <1>13, RateConstants DEF TypeOK, BookInv, Proc, Booked, Delta, Clear, Goto, tracker, run
<1>14. CASE Relook
  BY <1>14, RateConstants DEF TypeOK, BookInv, Proc, Booked, Delta, Relook, Goto, tracker, run
<1>15. CASE UNCHANGED vars
  BY <1>15 DEF TypeOK, BookInv, Proc, Booked, Delta, vars, tracker, run
<1> QED
  BY <1>1, <1>2, <1>3, <1>4, <1>5, <1>6, <1>7, <1>8, <1>9, <1>10, <1>11, <1>12, <1>13, <1>14, <1>15 DEF Next, TickStep

\* A drain moves bytes from the counter to the book, a sample from both to the report.
LEMMA BookInvStep ==
  ASSUME TypeOK, BookInv, [Next]_vars
  PROVE  BookInv'
<1>1. CASE SwitchCore
  BY <1>1 DEF TypeOK, BookInv, Booked, Delta, SwitchCore, tracker, run
<1>2. CASE Move
  BY <1>2 DEF TypeOK, BookInv, Booked, Delta, Move, tracker, run
<1>3. CASE Elapse
  BY <1>3 DEF TypeOK, BookInv, Booked, Delta, Elapse, tracker, run
<1>4. CASE GetStats
  BY <1>4 DEF TypeOK, BookInv, Booked, Delta, GetStats, tracker, run
<1>5. ASSUME NEW p \in Proc, Sample(p) PROVE BookInv'
  BY <1>5 DEF TypeOK, BookInv, Booked, Delta, Sample, Goto, Shows, tracker, run
<1>6. ASSUME NEW p \in Proc, Publish(p) PROVE BookInv'
  BY <1>6 DEF TypeOK, BookInv, Booked, Delta, Publish, Goto, tracker, run
<1>7. ASSUME NEW p \in Proc, Resume(p) PROVE BookInv'
  BY <1>7 DEF TypeOK, BookInv, Booked, Delta, Resume, Goto, tracker, run
<1>8. ASSUME NEW t \in Tab, Subscribe(t) PROVE BookInv'
  BY <1>8 DEF TypeOK, BookInv, Booked, Delta, Subscribe, Goto, tracker, run
<1>9. ASSUME NEW t \in Tab, Leave(t) PROVE BookInv'
  BY <1>9 DEF TypeOK, BookInv, Booked, Delta, Leave, tracker, run
<1>10. CASE Look
  BY <1>10 DEF TypeOK, BookInv, Booked, Delta, Look, Goto, tracker, run
<1>11. CASE Store
  BY <1>11 DEF TypeOK, BookInv, Booked, Delta, Store, Goto, tracker, run
<1>12. CASE Pause
  BY <1>12 DEF TypeOK, BookInv, Booked, Delta, Pause, Goto, tracker, run
<1>13. CASE Clear
  BY <1>13 DEF TypeOK, BookInv, Booked, Delta, Clear, Goto, tracker, run
<1>14. CASE Relook
  BY <1>14 DEF TypeOK, BookInv, Booked, Delta, Relook, Goto, tracker, run
<1>15. CASE UNCHANGED vars
  BY <1>15 DEF TypeOK, BookInv, Booked, Delta, vars, tracker, run
<1> QED
  BY <1>1, <1>2, <1>3, <1>4, <1>5, <1>6, <1>7, <1>8, <1>9, <1>10, <1>11, <1>12, <1>13, <1>14, <1>15 DEF Next, TickStep

\* Only the pause of a tick ends sampling, and that tick looks again.
LEMMA WatchInvStep ==
  ASSUME TypeOK, WatchInv, [Next]_vars
  PROVE  WatchInv'
<1>1. CASE SwitchCore
  BY <1>1, RateConstants DEF TypeOK, WatchInv, Proc, SwitchCore, tracker, run
<1>2. CASE Move
  BY <1>2, RateConstants DEF TypeOK, WatchInv, Proc, Move, tracker, run
<1>3. CASE Elapse
  BY <1>3, RateConstants DEF TypeOK, WatchInv, Proc, Elapse, tracker, run
<1>4. CASE GetStats
  BY <1>4, RateConstants DEF TypeOK, WatchInv, Proc, GetStats, tracker, run
<1>5. ASSUME NEW p \in Proc, Sample(p) PROVE WatchInv'
  BY <1>5, RateConstants DEF TypeOK, WatchInv, Proc, Sample, Goto, Shows, Delta, tracker, run
<1>6. ASSUME NEW p \in Proc, Publish(p) PROVE WatchInv'
  BY <1>6, RateConstants DEF TypeOK, WatchInv, Proc, Publish, Goto, tracker, run
<1>7. ASSUME NEW p \in Proc, Resume(p) PROVE WatchInv'
  BY <1>7, RateConstants DEF TypeOK, WatchInv, Proc, Resume, Goto, tracker, run
<1>8. ASSUME NEW t \in Tab, Subscribe(t) PROVE WatchInv'
  BY <1>8, RateConstants DEF TypeOK, WatchInv, Proc, Subscribe, Goto, tracker, run
<1>9. ASSUME NEW t \in Tab, Leave(t) PROVE WatchInv'
  BY <1>9, RateConstants DEF TypeOK, WatchInv, Proc, Leave, tracker, run
<1>10. CASE Look
  BY <1>10, RateConstants DEF TypeOK, WatchInv, Proc, Look, Goto, tracker, run
<1>11. CASE Store
  BY <1>11, RateConstants DEF TypeOK, WatchInv, Proc, Store, Goto, tracker, run
<1>12. CASE Pause
  BY <1>12, RateConstants DEF TypeOK, WatchInv, Proc, Pause, Goto, tracker, run
<1>13. CASE Clear
  BY <1>13, RateConstants DEF TypeOK, WatchInv, Proc, Clear, Goto, tracker, run
<1>14. CASE Relook
  BY <1>14, RateConstants DEF TypeOK, WatchInv, Proc, Relook, Goto, tracker, run
<1>15. CASE UNCHANGED vars
  BY <1>15 DEF TypeOK, WatchInv, Proc, vars, tracker, run
<1> QED
  BY <1>1, <1>2, <1>3, <1>4, <1>5, <1>6, <1>7, <1>8, <1>9, <1>10, <1>11, <1>12, <1>13, <1>14, <1>15 DEF Next, TickStep

-----------------------------------------------------------------------------
(* The theorems.                                                            *)

LEMMA RatesInit == Init => RatesIInv
<1>1. Init => TypeOK
  <2> SUFFICES ASSUME Init PROVE TypeOK
    OBVIOUS
  <2>1. res \in [Proc -> BOOLEAN]
    BY Zenon DEF Init
  <2>2. win \in 0 .. MaxWindow + 1
    BY RateConstants DEF Init
  <2>3. pc \in [Proc -> {"idle", "resume", "sample", "publish", "store", "pause", "clear", "relook"}]
    BY DEF Init
  <2>4. up \in BOOLEAN /\ live \in BOOLEAN /\ rates \in BOOLEAN /\ tabs \subseteq Tab
    BY DEF Init
  <2> QED
    BY <2>1, <2>2, <2>3, <2>4 DEF Init, TypeOK
<1>2. Init => BookInv
  BY DEF Init, BookInv, Booked, Delta
<1>3. Init => WatchInv
  BY DEF Init, WatchInv
<1> QED
  BY <1>1, <1>2, <1>3 DEF RatesIInv

\* The inductive invariant of the tracker, the tick and the tabs.
THEOREM RatesInvariance == Spec => []RatesIInv
<1>1. RatesIInv /\ [Next]_vars => RatesIInv'
  BY RatesTypeStep, BookInvStep, WatchInvStep DEF RatesIInv
<1> QED
  BY RatesInit, <1>1, PTL DEF Spec

\* The variables of the sampler keep their types.
THEOREM RatesTypes == Spec => []TypeOK
<1>1. RatesIInv => TypeOK
  BY DEF RatesIInv
<1> QED
  BY RatesInvariance, <1>1, PTL

\* Samples and drains share the counters without losing or repeating a byte (SampleUsers,
\* GetStats), and the pause of a tick never outlasts it while a tab watches
\* (TickClientRates).
THEOREM RatesAreSafe == Spec => []RatesSafety
<1>1. RatesIInv => RatesSafety
  BY DEF RatesIInv, BookInv, WatchInv, WatchedIsLive, RatesSafety
<1> QED
  BY RatesInvariance, <1>1, PTL
=============================================================================
