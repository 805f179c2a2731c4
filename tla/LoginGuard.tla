----------------------------- MODULE LoginGuard -----------------------------
(***************************************************************************)
(* The login limiter: service/loginguard.go, as ApiService.Login calls it. *)
(*                                                                         *)
(* An attempt is let through by BanRemaining, checked, and then recorded   *)
(* row by row, each row in a transaction of its own.  Several attempts     *)
(* are under way at once, the clock moves between their steps, and any     *)
(* statement on the table may fail.  There is one username, which is       *)
(* enough to tell the rows of an address from the row of a name.           *)
(***************************************************************************)
EXTENDS Integers, Sequences, FiniteSets

CONSTANTS
  LoginReq,         \* requests that can be under way at once
  LoginIp,          \* source addresses
  MaxFailures, GuardWindow, GuardBan, GuardRetention, promptBudgetFactor,
  GuardTicks,       \* bound on the clock
  GuardFaults       \* bound on the statements that fail

\* A ban that outlasts the retention leaves the username row no quiet time to be
\* measured after it; the defaults are 30 minutes and an hour.
ASSUME GuardConstants ==
  /\ {MaxFailures, GuardWindow, GuardBan, promptBudgetFactor} \subseteq Nat \ {0}
  /\ GuardRetention \in Nat /\ GuardBan < GuardRetention
  /\ GuardTicks \in Nat \ {0} /\ GuardFaults \in Nat
  /\ IsFiniteSet(LoginReq) /\ LoginReq # {}

VARIABLES
  guardNow,     \* the clock
  attempts,     \* login_attempts; a row of zeros is a row that is not there
  logins,       \* the requests: pc, address, the rows left to write, and the time they took
  guardFaulted, \* statements that failed so far
  failedAt,     \* ghost: an address's counted failures since its last ban or reset, as
                \* <<time, number within that time>>
  lastUser,     \* ghost: the last failure counted against the name, 0 after a reset
  userBanned,   \* ghost: the name was banned since its last reset or pause
  lateChecks    \* ghost: password checks per row since it was banned, while it was

guardVars == <<guardNow, attempts, logins, guardFaulted, failedAt, lastUser, userBanned, lateChecks>>

IpKey(i)     == <<"ip", i>>
PromptKey(i) == <<"prompt", i>>
UserKey      == <<"user", 0>>
GuardKey     == {UserKey} \cup {IpKey(i) : i \in LoginIp} \cup {PromptKey(i) : i \in LoginIp}

NoRow   == [failures |-> 0, start |-> 0, until |-> 0]
NoLogin == [pc |-> "idle", ip |-> 0, left |-> <<>>, at |-> 0]

GuardInit ==
  /\ guardNow = 1 /\ guardFaulted = 0
  /\ attempts = [k \in GuardKey |-> NoRow]
  /\ logins = [r \in LoginReq |-> NoLogin]
  /\ failedAt = [i \in LoginIp |-> {}] /\ lastUser = 0 /\ userBanned = FALSE
  /\ lateChecks = [k \in GuardKey |-> 0]

-----------------------------------------------------------------------------
(* The policy.                                                              *)

loginBanRemaining(row, now) == IF row.until <= now THEN 0 ELSE row.until - now

loginKeys(i) == <<IpKey(i), UserKey>>

\* Mutant: the prompt row neither refuses nor is cleared.
PromptIsFree(i) == loginKeys(i)

banKeys(i) == loginKeys(i) \o <<PromptKey(i)>>

\* The budget of a row: prompts have more.
Budget(k) == IF k[1] = "prompt" THEN MaxFailures * promptBudgetFactor ELSE MaxFailures

\* One more event in the row's window, and the ban when the budget is spent.
CountOne(k, row, now, budget) ==
  LET fresh == row.start = 0 \/ now - row.start >= GuardWindow
      n     == IF fresh THEN 1 ELSE row.failures + 1
  IN  IF n >= budget
      THEN [failures |-> 0, until |-> now + GuardBan, start |-> IF k = UserKey THEN now ELSE 0]
      ELSE [row EXCEPT !.failures = n, !.start = IF fresh THEN now ELSE row.start]

\* A standing ban is left alone, and a served username ban stays disarmed until
\* the failures pause.
planLoginFailure(k, row, now) ==
  IF loginBanRemaining(row, now) > 0 THEN row
  ELSE IF k = UserKey /\ row.until > 0
  THEN IF row.start > 0 /\ now - row.start < GuardRetention
       THEN [row EXCEPT !.start = now]
       ELSE CountOne(k, NoRow, now, Budget(k))
  ELSE CountOne(k, row, now, Budget(k))

\* Rows that refuse nothing, count nothing and keep no served ban go.
sweep(rows, now) ==
  [k \in GuardKey |-> IF rows[k].until <= now /\ rows[k].start <= now - GuardWindow - GuardRetention
                      THEN NoRow ELSE rows[k]]

-----------------------------------------------------------------------------
(* One attempt.                                                             *)

GuardFault == guardFaulted < GuardFaults /\ guardFaulted' = guardFaulted + 1

\* BanRemaining: refused attempts leave no trace; a table that cannot be read
\* lets the attempt through.
BanRemaining(r, i) ==
  /\ logins[r].pc = "idle"
  /\ \/ /\ \A n \in DOMAIN banKeys(i) : loginBanRemaining(attempts[banKeys(i)[n]], guardNow) = 0
        /\ UNCHANGED guardFaulted
     \/ GuardFault
  /\ logins' = [logins EXCEPT ![r] = [NoLogin EXCEPT !.pc = "check", !.ip = i]]
  /\ UNCHANGED <<guardNow, attempts, failedAt, lastUser, userBanned, lateChecks>>

\* The password check, and which rows its outcome goes to.
CheckPassword(r) ==
  LET i == logins[r].ip
  IN  /\ logins[r].pc = "check"
      /\ \/ logins' = [logins EXCEPT ![r].pc = "bump", ![r].left = loginKeys(i), ![r].at = guardNow]
         \/ logins' = [logins EXCEPT ![r].pc = "bump", ![r].left = <<PromptKey(i)>>, ![r].at = guardNow]
         \/ logins' = [logins EXCEPT ![r].pc = "forget", ![r].left = banKeys(i)]
      /\ lateChecks' = [k \in GuardKey |->
           IF k \in {IpKey(i), UserKey, PromptKey(i)} /\ loginBanRemaining(attempts[k], guardNow) > 0
           THEN lateChecks[k] + 1 ELSE lateChecks[k]]
      /\ UNCHANGED <<guardNow, attempts, guardFaulted, failedAt, lastUser, userBanned>>

\* Ghosts: a row starts over.
Reset(k) ==
  /\ failedAt' = [i \in LoginIp |-> IF k = IpKey(i) THEN {} ELSE failedAt[i]]
  /\ lastUser' = IF k = UserKey THEN 0 ELSE lastUser
  /\ userBanned' = IF k = UserKey THEN FALSE ELSE userBanned
  /\ lateChecks' = [lateChecks EXCEPT ![k] = 0]

\* Ghosts: one more failure at t, and those less than a window old at t.
NextAt(F, t) == <<t, Cardinality({f \in F : f[1] = t})>>
InWindow(F, t) == {f \in F : f[1] > t - GuardWindow}

\* Ghost: the name had its pause.
Rested(t) == lastUser = 0 \/ t - lastUser >= GuardRetention

\* RecordFailure and RecordPrompt, row by row: bump.
Bump(r) ==
  LET k == Head(logins[r].left)
      t == logins[r].at
      row == planLoginFailure(k, attempts[k], t)
      banned == row.until > t /\ loginBanRemaining(attempts[k], t) = 0
      i == logins[r].ip
  IN  /\ logins[r].pc = "bump" /\ logins[r].left # <<>>
      /\ logins' = [logins EXCEPT ![r].left = Tail(@)]
      /\ \/ /\ GuardFault
            /\ UNCHANGED <<attempts, failedAt, lastUser, userBanned, lateChecks>>
         \/ /\ attempts' = [attempts EXCEPT ![k] = row]
            /\ lateChecks' = IF banned THEN [lateChecks EXCEPT ![k] = 0] ELSE lateChecks
            /\ failedAt' = IF k # IpKey(i) THEN failedAt
                           ELSE [failedAt EXCEPT ![i] =
                                  IF banned THEN {}
                                  ELSE IF loginBanRemaining(attempts[k], t) > 0 THEN @
                                  ELSE InWindow(@ \cup {NextAt(@, t)}, t)]
            /\ lastUser' = IF k = UserKey /\ (banned \/ loginBanRemaining(attempts[k], t) = 0)
                           THEN t ELSE lastUser
            /\ userBanned' = IF k # UserKey THEN userBanned
                             ELSE banned \/ (userBanned /\ ~Rested(t))
            /\ UNCHANGED guardFaulted
  /\ UNCHANGED guardNow

Sweep(r) ==
  /\ logins[r].pc = "bump" /\ logins[r].left = <<>>
  /\ attempts' = sweep(attempts, logins[r].at)
  /\ logins' = [logins EXCEPT ![r] = NoLogin]
  /\ UNCHANGED <<guardNow, guardFaulted, failedAt, lastUser, userBanned, lateChecks>>

\* RecordSuccess, row by row.
RecordSuccess(r) ==
  /\ logins[r].pc = "forget"
  /\ LET k == Head(logins[r].left)
     IN  \/ /\ attempts' = [attempts EXCEPT ![k] = NoRow] /\ Reset(k)
            /\ UNCHANGED guardFaulted
         \/ GuardFault /\ UNCHANGED <<attempts, failedAt, lastUser, userBanned, lateChecks>>
  /\ logins' = IF Len(logins[r].left) = 1 THEN [logins EXCEPT ![r] = NoLogin]
               ELSE [logins EXCEPT ![r].left = Tail(@)]
  /\ UNCHANGED guardNow

\* The operator's way out, from the shell or the bot.
ClearAll ==
  /\ \E k \in GuardKey : attempts[k] # NoRow
  /\ attempts' = [k \in GuardKey |-> NoRow]
  /\ failedAt' = [i \in LoginIp |-> {}] /\ lastUser' = 0 /\ userBanned' = FALSE
  /\ lateChecks' = [k \in GuardKey |-> 0]
  /\ UNCHANGED <<guardNow, logins, guardFaulted>>

\* The rows of an attempt are written within a tick of its reading the clock.
GuardTick ==
  /\ guardNow < GuardTicks
  /\ \A r \in LoginReq : logins[r].pc = "bump" => logins[r].at = guardNow
  /\ guardNow' = guardNow + 1
  /\ UNCHANGED <<attempts, logins, guardFaulted, failedAt, lastUser, userBanned, lateChecks>>

GuardNext ==
  \/ \E r \in LoginReq :
       \/ \E i \in LoginIp : BanRemaining(r, i)
       \/ CheckPassword(r) \/ Bump(r) \/ Sweep(r) \/ RecordSuccess(r)
  \/ ClearAll \/ GuardTick

GuardSpec == GuardInit /\ [][GuardNext]_guardVars

-----------------------------------------------------------------------------
(* Properties.                                                              *)

GuardTypeOK ==
  /\ guardNow \in 1 .. GuardTicks /\ guardFaulted \in 0 .. GuardFaults
  /\ \A k \in GuardKey : /\ attempts[k].failures \in Nat
                         /\ attempts[k].start \in 0 .. GuardTicks
                         /\ attempts[k].until \in 0 .. GuardTicks + GuardBan
  /\ \A r \in LoginReq : logins[r].pc \in {"idle", "check", "bump", "forget"}

\* The window is a fixed one, so the budget may be spent at the end of one window
\* and at the start of the next, but no more than that: an address never gets
\* 2 * MaxFailures - 1 failures into one window's length without a ban.
FailuresBounded == \A i \in LoginIp : Cardinality(failedAt[i]) <= 2 * (MaxFailures - 1)

\* "A username lockout can otherwise be renewed forever": a second ban of the name
\* follows a success, a reset, or a pause of the retention.
BansSpaced ==
  [][attempts'[UserKey].until > attempts[UserKey].until /\ userBanned =>
       \E r \in LoginReq : logins'[r] # logins[r] /\ Rested(logins[r].at)]_guardVars

\* A ban ends the password checks of the address: what is still checked while it
\* stands was let through before it, or by a table that could not be read.
BanStopsChecks ==
  \A i \in LoginIp : \A k \in {IpKey(i), PromptKey(i)} :
    lateChecks[k] <= Cardinality(LoginReq) - 1 + guardFaulted

\* The guard, in one: failures are bounded, a ban stops the checks, and bans of a name
\* are spaced.
GuardSafety == [](GuardTypeOK /\ FailuresBounded /\ BanStopsChecks) /\ BansSpaced
=============================================================================
