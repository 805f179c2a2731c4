------------------------------ MODULE ApiTokens ------------------------------
(***************************************************************************)
(* The tokens of the v2 API: the table of service/user.go and the copy     *)
(* every request is checked against, api/apiV2Handler.go.  The copy is     *)
(* replaced after an add or a delete: the table is read, then the list is  *)
(* published, and two of these may cross.                                  *)
(***************************************************************************)
EXTENDS Integers, FiniteSets

CONSTANTS
  TokReq,     \* requests that can be under way at once
  MaxTokens,  \* bound on the tokens made
  TokTicks    \* bound on the clock

ASSUME TokenConstants == {MaxTokens, TokTicks} \subseteq Nat

VARIABLES
  tokNow,     \* the clock
  tokRows,    \* tokens: number and expiry, 0 for never
  tokMem,     \* APIv2Handler.tokens
  tokMade,    \* how many were made
  tokReq,     \* the reloads under way; newer and older are ghosts: the reloads that read the
              \* table after this one, and whether one of them was done first
  tokCrossed, \* ghost: the last reload failed, or published its list after a newer one
  tokLive     \* ghost: the tokens that are neither deleted nor expired

tokVars == <<tokNow, tokRows, tokMem, tokMade, tokReq, tokCrossed, tokLive>>

TokIdle == [pc |-> "idle", list |-> {}, newer |-> {}, older |-> FALSE]

TokInit ==
  /\ tokNow = 1 /\ tokRows = {} /\ tokMem = {} /\ tokMade = 0 /\ tokLive = {}
  /\ tokReq = [r \in TokReq |-> TokIdle] /\ tokCrossed = FALSE

\* AddToken: expiry in days from now, or never; then ReloadTokens.
AddToken(r, expiry) ==
  /\ tokReq[r].pc = "idle" /\ tokMade < MaxTokens
  /\ tokMade' = tokMade + 1
  /\ LET t == [id |-> tokMade + 1, expiry |-> IF expiry > 0 THEN tokNow + expiry ELSE 0]
     IN  tokRows' = tokRows \cup {t} /\ tokLive' = tokLive \cup {t}
  /\ tokReq' = [tokReq EXCEPT ![r].pc = "load"]
  /\ UNCHANGED <<tokNow, tokMem, tokCrossed>>

\* DeleteToken; then ReloadTokens, whatever came of it.
DeleteToken(r, t) ==
  /\ tokReq[r].pc = "idle" /\ t \in tokRows
  /\ tokRows' = tokRows \ {t} /\ tokLive' = tokLive \ {t}
  /\ tokReq' = [tokReq EXCEPT ![r].pc = "load"]
  /\ UNCHANGED <<tokNow, tokMem, tokMade, tokCrossed>>

\* A reload ends, before those in Q that have read the table.
Outrun(r, Q) ==
  [q \in TokReq |-> IF q = r THEN TokIdle
                    ELSE IF q \in Q /\ tokReq[q].pc = "publish" THEN [tokReq[q] EXCEPT !.older = TRUE]
                    ELSE tokReq[q]]

\* LoadTokens: the rows that have not expired.  The read may fail, and then
\* nothing is published.
LoadTokens(r) ==
  /\ tokReq[r].pc = "load"
  /\ \/ /\ tokReq' = [q \in TokReq |->
                         IF q = r THEN [pc |-> "publish", newer |-> {}, older |-> FALSE,
                                        list |-> {t \in tokRows : t.expiry = 0 \/ t.expiry > tokNow}]
                         ELSE IF tokReq[q].pc = "publish" THEN [tokReq[q] EXCEPT !.newer = @ \cup {r}]
                         ELSE tokReq[q]]
        /\ UNCHANGED tokCrossed
     \/ tokReq' = Outrun(r, TokReq) /\ tokCrossed' = TRUE
  /\ UNCHANGED <<tokNow, tokRows, tokMem, tokMade, tokLive>>

Published(r) == tokReq[r].list

PublishTokens(r) ==
  /\ tokReq[r].pc = "publish"
  /\ tokMem' = Published(r)
  /\ tokCrossed' = tokReq[r].older
  /\ tokReq' = Outrun(r, {q \in TokReq : r \in tokReq[q].newer})
  /\ UNCHANGED <<tokNow, tokRows, tokMade, tokLive>>

\* findUsername: the tokens a request may come with.
findUsername == {t \in tokMem : t.expiry = 0 \/ t.expiry >= tokNow}

TokTick ==
  /\ tokNow < TokTicks
  /\ tokNow' = tokNow + 1
  /\ tokLive' = {t \in tokLive : t.expiry = 0 \/ t.expiry >= tokNow'}
  /\ UNCHANGED <<tokRows, tokMem, tokMade, tokReq, tokCrossed>>

TokNext ==
  \/ \E r \in TokReq :
       \/ \E e \in {0, 1} : AddToken(r, e)
       \/ \E t \in tokRows : DeleteToken(r, t)
       \/ LoadTokens(r) \/ PublishTokens(r)
  \/ TokTick
TokSpec == TokInit /\ [][TokNext]_tokVars

\* A token that was deleted, or has expired, is refused as soon as no reload is
\* under way, unless the last one failed or published an older list than the one
\* before it.
RevokedIsRefused ==
  (\A r \in TokReq : tokReq[r].pc = "idle") /\ ~tokCrossed => findUsername \subseteq tokLive
=============================================================================
