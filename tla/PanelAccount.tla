---------------------------- MODULE PanelAccount ----------------------------
(***************************************************************************)
(* The panel's account: service/user.go, api/session.go and the handshake  *)
(* of api/wsHandler.go.                                                    *)
(*                                                                         *)
(* Requests read the row, decide, and write: a login burns its one-time    *)
(* code with a conditional update and stamps its session from the row as   *)
(* it is by then; a change of credentials saves the whole row it read.     *)
(* There is one account, as the panel has.  A password hash is a number    *)
(* that no two saves share; a one-time code is named by the time step it   *)
(* is for.                                                                 *)
(***************************************************************************)
EXTENDS Integers, FiniteSets

CONSTANTS
  AcctReq,    \* requests that can be under way at once
  MaxHash,    \* bound on the hashes made
  MaxSteps,   \* bound on the time steps of the one-time codes
  MaxSecret   \* bound on the enrolments

ASSUME AccountConstants == {MaxHash, MaxSteps} \subseteq Nat \ {0} /\ MaxSecret \in Nat

VARIABLES
  row,       \* users: hash, plain (a hash not made yet), secret (0: none), counter
  lastHash, lastSecret, \* how many were made
  step,      \* the time step of the clock
  areq,      \* the requests under way: pc, the row they read, their code
  sessions,  \* the cookie of the browser, if it has one: the fingerprint it carries, and
             \* (ghosts) the one its login proved and whether that changed under it
  sockets,   \* websockets: "handshake" or "open", what they authenticated with, and
             \* whether a change passed that does not reach them
  used,      \* ghost: <<secret, code>> that a login burned
  replayed,  \* ghost: one was burned twice
  crossed    \* ghost: a row was read, written by another request and saved whole

acctVars == <<row, lastHash, lastSecret, step, areq, sockets, sessions, used, replayed, crossed>>
acctGhosts == <<used, replayed, crossed>>

Idle == [pc |-> "idle"]

AcctInit ==
  /\ row \in [hash : {1}, plain : BOOLEAN, secret : {0}, counter : {0}]
  /\ lastHash = 1 /\ lastSecret = 0 /\ step = 1
  /\ areq = [r \in AcctReq |-> Idle]
  /\ sockets = {} /\ sessions = {}
  /\ used = {} /\ replayed = FALSE /\ crossed = FALSE

\* CredentialFingerprint: a digest of the stored hash; a plain password is a
\* stored value like any other.
CredentialFingerprint == <<row.hash, row.plain>>

\* ValidateTOTPAfter: the codes of the step and its neighbours, above the last used.
ValidateTOTPAfter(after) == {c \in {step - 1, step, step + 1} : c > 0 /\ (after = 0 \/ c > after)}

-----------------------------------------------------------------------------
(* A login.                                                                 *)

\* CheckUser: read the row and compare; a wrong password or code ends here.
CheckUser(r) ==
  /\ areq[r].pc = "idle"
  /\ \/ /\ row.secret = 0
        /\ areq' = [areq EXCEPT ![r] = [pc |-> "upgrade", read |-> row, raced |-> FALSE]]
     \/ /\ row.secret # 0
        /\ \E c \in ValidateTOTPAfter(row.counter) :
             areq' = [areq EXCEPT ![r] = [pc |-> "burn", read |-> row, code |-> c, raced |-> FALSE]]
  /\ UNCHANGED <<row, lastHash, lastSecret, step, sockets, sessions, acctGhosts>>

\* Mutant: the counter is written whatever it is by now.
BurnAnyway(r, c) == TRUE

\* The update's condition on the row as it is now.
Burns(r, c) == row.counter < c

BurnCode(r) ==
  LET c == areq[r].code
  IN  /\ areq[r].pc = "burn"
      /\ IF Burns(r, c)
         THEN /\ row' = [row EXCEPT !.counter = c]
              /\ used' = used \cup {<<areq[r].read.secret, c>>}
              /\ replayed' = (replayed \/ (<<row.secret, c>> \in used /\ row.secret = areq[r].read.secret))
              /\ areq' = [areq EXCEPT ![r] = [pc |-> "upgrade", read |-> areq[r].read, raced |-> areq[r].raced]]
         ELSE /\ areq' = [areq EXCEPT ![r] = Idle]
              /\ UNCHANGED <<row, used, replayed>>
  /\ UNCHANGED <<lastHash, lastSecret, step, sockets, sessions, crossed>>

\* Every other request that read the row sees it change.
Races(self) == [r \in AcctReq |-> IF r # self /\ areq[r].pc # "idle" THEN [areq[r] EXCEPT !.raced = TRUE] ELSE areq[r]]

\* Nobody tells the sockets of a hash that changes here or in another process.
Unreached == {[s EXCEPT !.missed = TRUE] : s \in sockets}

\* A legacy plain password is hashed now that it is known to match.
UpgradePassword(r) ==
  /\ areq[r].pc = "upgrade"
  /\ IF areq[r].read.plain /\ lastHash < MaxHash
     THEN /\ row' = [row EXCEPT !.hash = lastHash + 1, !.plain = FALSE]
          /\ lastHash' = lastHash + 1
          /\ crossed' = (crossed \/ areq[r].raced)
          /\ areq' = [Races(r) EXCEPT ![r] = [pc |-> "stamp", read |-> row', raced |-> areq[r].raced]]
          /\ sockets' = Unreached
     ELSE /\ areq' = [areq EXCEPT ![r].pc = "stamp"]
          /\ UNCHANGED <<row, lastHash, crossed, sockets>>
  /\ UNCHANGED <<lastSecret, step, sessions, used, replayed>>

\* SetLoginUser: the session carries the row's fingerprint as it is by now.
SetLoginUser(r) ==
  /\ areq[r].pc = "stamp"
  /\ sessions' = {[cred |-> CredentialFingerprint, proved |-> <<areq[r].read.hash, areq[r].read.plain>>,
                    raced |-> areq[r].raced]}
  /\ areq' = [areq EXCEPT ![r] = Idle]
  /\ UNCHANGED <<row, lastHash, lastSecret, step, sockets, acctGhosts>>

\* GetLoginUser: the session's fingerprint is the row's.
GetLoginUser(s) == s.cred = CredentialFingerprint

-----------------------------------------------------------------------------
(* Changes of the account.                                                  *)

\* ChangePass (and UpdateFirstUser, in a process of its own): read the row, ...
ReadAccount(r, who) ==
  /\ areq[r].pc = "idle"
  /\ who = "shell" \/ \E s \in sessions : GetLoginUser(s)
  /\ areq' = [areq EXCEPT ![r] = [pc |-> "save", read |-> row, who |-> who, raced |-> FALSE]]
  /\ UNCHANGED <<row, lastHash, lastSecret, step, sockets, sessions, acctGhosts>>

\* ... save all of it ...
SaveAccount(r) ==
  /\ areq[r].pc = "save" /\ lastHash < MaxHash
  /\ lastHash' = lastHash + 1
  /\ row' = [areq[r].read EXCEPT !.hash = lastHash + 1, !.plain = FALSE]
  /\ crossed' = (crossed \/ [row EXCEPT !.hash = 0] # [areq[r].read EXCEPT !.hash = 0])
  /\ areq' = [Races(r) EXCEPT ![r] = IF areq[r].who = "shell" THEN Idle
                                     ELSE [pc |-> "drop", raced |-> FALSE]]
  /\ sockets' = IF areq[r].who = "shell" THEN Unreached ELSE sockets
  /\ UNCHANGED <<lastSecret, step, sessions, used, replayed>>

\* DropAllClients: a socket that is not registered yet is not in the list.
DropAllClients == {[s EXCEPT !.missed = TRUE] : s \in {t \in sockets : t.state = "handshake"}}

\* ... and drop the sockets.
DropSockets(r) ==
  /\ areq[r].pc = "drop"
  /\ sockets' = DropAllClients
  /\ areq' = [areq EXCEPT ![r] = Idle]
  /\ UNCHANGED <<row, lastHash, lastSecret, step, sessions, acctGhosts>>

\* EnableTwoFa: read and check, then write the two columns; the code of the
\* enrolment counts as used.
EnableTwoFa(r) ==
  /\ areq[r].pc = "idle" /\ row.secret = 0 /\ lastSecret < MaxSecret
  /\ \E s \in sessions : GetLoginUser(s)
  /\ \E c \in ValidateTOTPAfter(0) :
       areq' = [areq EXCEPT ![r] = [pc |-> "enrol", code |-> c, raced |-> FALSE]]
  /\ UNCHANGED <<row, lastHash, lastSecret, step, sockets, sessions, acctGhosts>>

EnrolSecret(r) ==
  /\ areq[r].pc = "enrol" /\ lastSecret < MaxSecret
  /\ lastSecret' = lastSecret + 1
  /\ row' = [row EXCEPT !.secret = lastSecret + 1, !.counter = areq[r].code]
  /\ used' = used \cup {<<lastSecret + 1, areq[r].code>>}
  /\ areq' = [areq EXCEPT ![r] = Idle]
  /\ UNCHANGED <<lastHash, step, sockets, sessions, replayed, crossed>>

\* DisableTwoFa and ClearFirstUserTwoFa: the counter goes with the secret.
DisableTwoFa ==
  /\ row.secret # 0
  /\ row' = [row EXCEPT !.secret = 0, !.counter = 0]
  /\ UNCHANGED <<lastHash, lastSecret, step, areq, sockets, sessions, acctGhosts>>

-----------------------------------------------------------------------------
(* Sockets.                                                                 *)

\* WsHandler: the session is checked, and the socket is registered later.
Handshake(s) ==
  /\ GetLoginUser(s) /\ sockets = {}
  /\ sockets' = sockets \cup {[state |-> "handshake", cred |-> s.cred, missed |-> FALSE]}
  /\ UNCHANGED <<row, lastHash, lastSecret, step, areq, sessions, acctGhosts>>

HubServe(s) ==
  /\ s.state = "handshake"
  /\ sockets' = (sockets \ {s}) \cup {[s EXCEPT !.state = "open"]}
  /\ UNCHANGED <<row, lastHash, lastSecret, step, areq, sessions, acctGhosts>>

CloseSocket(s) ==
  /\ sockets' = sockets \ {s}
  /\ UNCHANGED <<row, lastHash, lastSecret, step, areq, sessions, acctGhosts>>

NextStep ==
  /\ step < MaxSteps /\ step' = step + 1
  /\ UNCHANGED <<row, lastHash, lastSecret, areq, sockets, sessions, acctGhosts>>

AcctNext ==
  \/ \E r \in AcctReq :
       \/ CheckUser(r) \/ BurnCode(r) \/ UpgradePassword(r) \/ SetLoginUser(r)
       \/ \E who \in {"shell", "panel"} : ReadAccount(r, who)
       \/ SaveAccount(r) \/ DropSockets(r) \/ EnableTwoFa(r) \/ EnrolSecret(r)
  \/ DisableTwoFa \/ NextStep
  \/ \E s \in sessions : Handshake(s)
  \/ \E s \in sockets : HubServe(s) \/ CloseSocket(s)
AcctSpec == AcctInit /\ [][AcctNext]_acctVars

-----------------------------------------------------------------------------
(* Properties.                                                              *)

AcctTypeOK ==
  /\ row.hash \in 1 .. MaxHash /\ row.secret \in 0 .. MaxSecret /\ row.counter \in 0 .. MaxSteps + 1
  /\ \A r \in AcctReq : areq[r].pc \in {"idle", "burn", "upgrade", "stamp", "save", "drop", "enrol"}
  /\ \A s \in sockets : s.state \in {"handshake", "open"}

\* "two requests replaying the same code both pass the check above, but only one
\* can move the counter": a one-time code logs in once, and the code of an
\* enrolment not at all, unless a request saved the whole row over a newer one.
CodeOnce == replayed => crossed

\* A session that is accepted was issued to someone who proved the credentials
\* the account has now, unless they changed between the check and the stamp.
SessionCurrent ==
  \A s \in sessions : GetLoginUser(s) => s.proved = CredentialFingerprint \/ s.raced

\* Once a change of the password is through, the sockets that authenticated with
\* the old one are gone, but for the ones that were not registered yet or whose
\* credentials were changed elsewhere.
SocketsDropped ==
  \A s \in sockets : s.state = "open" =>
    s.cred = CredentialFingerprint \/ s.missed \/ \E r \in AcctReq : areq[r].pc = "drop"
=============================================================================
