---------------------------- MODULE ClientSchedule ----------------------------
(***************************************************************************)
(* The reset schedule of a client (service/client.go), the job that clears *)
(* and disables clients once a minute, and the panel-wide reset of         *)
(* cronjob/resetTrafficJob.go.  The clock counts half days: midnight of    *)
(* day d is at 2d in zone 0 and at 2d + 1 in zone 1, and a month has as    *)
(* many days as MonthLen says.                                             *)
(***************************************************************************)
EXTENDS Integers, Sequences, FiniteSets

CONSTANTS
  MonthLen,      \* the lengths of the months
  ResetDaysSet,  \* periods a client may have, in days; 0 for none
  ResetDomSet,   \* days of the month it may have; 0 for none
  SpecSet,       \* schedules of the panel-wide reset
  Volume,        \* the quota
  MaxClock       \* bound on the clock

ASSUME ScheduleConstants ==
  /\ MonthLen \in Seq(Nat \ {0}) /\ Len(MonthLen) > 0
  /\ {0} \subseteq ResetDaysSet \cap ResetDomSet /\ ResetDaysSet \cup ResetDomSet \subseteq Nat
  /\ SpecSet \subseteq Nat /\ {Volume, MaxClock} \subseteq Nat

VARIABLES
  clock,     \* the time
  zone,      \* the panel's time zone
  row,       \* the client: enable, the schedule, next boundary, used since the last clear
  listed,    \* enable as the client list of some tab has it
  last,      \* ghost: the last clear of the client, unless its date was typed in, and its month
  prev,      \* ghost: the one before
  due,       \* ghost: the month the boundary stands for, 0 for none
  spec,      \* the schedule of the panel-wide reset: every so many days, 0 for off
  gnext,     \* globalResetLast: its next boundary
  gfor,      \* globalResetArmed: the schedule and zone that boundary belongs to
  glast      \* ghost: the boundary the last panel-wide reset was for, 0 after arming

schVars == <<clock, zone, row, listed, last, prev, due, spec, gnext, gfor, glast>>

Months == 1..Len(MonthLen)
\* The day before the first day of a month.
DaysBefore[m \in 1..Len(MonthLen) + 1] == IF m = 1 THEN 0 ELSE DaysBefore[m - 1] + MonthLen[m - 1]
LastDay == DaysBefore[Len(MonthLen) + 1]
Midnight(day, z) == 2 * day + z

NoClear == [at |-> -1, month |-> 0, dom |-> 0]

ScheduleInit ==
  /\ clock = 2 /\ zone = 1 /\ listed = TRUE
  /\ row = [enable |-> TRUE, auto |-> FALSE, delay |-> FALSE, days |-> 0, dom |-> 0, next |-> 0, used |-> 0]
  /\ last = NoClear /\ prev = NoClear /\ due = 0
  /\ spec = 0 /\ gnext = 0 /\ gfor = <<0, 0>> /\ glast = 0

-----------------------------------------------------------------------------
(* Boundaries. *)

\* The day a month resets on: dom, or its last day when it has fewer.
ResetDay(m, dom) == DaysBefore[m] + (IF dom > MonthLen[m] THEN MonthLen[m] ELSE dom)

\* Mutant: today's midnight counts as upcoming.
MonthlyFromToday(from, dom, z) ==
  CHOOSE m \in Months \cup {0} :
    /\ m # 0 => Midnight(ResetDay(m, dom), z) >= from - 1
    /\ \A k \in Months : Midnight(ResetDay(k, dom), z) >= from - 1 => m # 0 /\ m <= k

\* nextMonthlyReset: the month of the first boundary after from; 0 past the end of
\* the calendar.
nextMonthlyReset(from, dom, z) ==
  CHOOSE m \in Months \cup {0} :
    /\ m # 0 => Midnight(ResetDay(m, dom), z) > from
    /\ \A k \in Months : Midnight(ResetDay(k, dom), z) > from => m # 0 /\ m <= k

\* nextResetAt, and the month it is for.
nextResetAt(c, dt, z) ==
  LET m == nextMonthlyReset(dt, c.dom, z)
  IN  IF c.dom > 0
      THEN [at |-> IF m = 0 THEN 2 * LastDay + 9 ELSE Midnight(ResetDay(m, c.dom), z), month |-> m]
      ELSE [at |-> dt + 2 * c.days, month |-> 0]

HasPeriod(c) == c.days > 0 \/ c.dom > 0

\* The boundary has passed and the job has not seen it yet.
Passed == ~row.delay /\ row.auto /\ HasPeriod(row) /\ row.next < clock

\* normalizeResetSchedule: a changed period moves the stored boundary by the
\* difference, and without auto reset there is no schedule.
normalizeResetSchedule(c, hasNext, stored) ==
  LET shifted == IF /\ ~hasNext /\ c.auto /\ stored.auto /\ c.dom = 0 /\ stored.dom = 0
                    /\ c.days > 0 /\ stored.days > 0 /\ stored.next > 0
                 THEN [c EXCEPT !.next = stored.next + 2 * (c.days - stored.days)]
                 ELSE c
  IN  IF c.auto THEN shifted ELSE [shifted EXCEPT !.delay = FALSE, !.days = 0, !.dom = 0]

\* alignNextReset on an edit: the boundary is kept, or computed when there is none
\* to keep.
alignNextReset(c, stored) ==
  IF ~c.auto \/ c.delay THEN [next |-> 0, month |-> 0]
  ELSE IF /\ HasPeriod(c)
          /\ c.next <= 0 \/ stored.dom # c.dom \/ (~stored.auto /\ c.next <= clock)
  THEN [next |-> nextResetAt(c, clock, zone).at, month |-> nextResetAt(c, clock, zone).month]
  ELSE [next |-> c.next, month |-> due]

-----------------------------------------------------------------------------
(* What an operator does. *)

\* Ghost: a date that was typed in, or a new day of the month, starts a history of
\* its own.
Restart(anew) == IF anew THEN last' = NoClear /\ prev' = NoClear ELSE UNCHANGED <<last, prev>>

\* Save of an edited client: only the fields sent differ from the stored row.
EditClient(c, hasNext) ==
  LET n == normalizeResetSchedule(c, hasNext, row)
      a == alignNextReset(n, row)
  IN  /\ row' = [n EXCEPT !.next = a.next]
      /\ due' = IF hasNext /\ a.next = c.next THEN 0 ELSE a.month
      /\ Restart((hasNext /\ c.next # 0) \/ n.dom # row.dom \/ (n.dom > 0 /\ a.next # row.next))
      /\ UNCHANGED <<clock, zone, listed, spec, gnext, gfor, glast>>

\* What the drawer may send: one field, or the period along with auto reset.  It
\* does not send auto reset without a period.
ByDays(wait) == {[row EXCEPT !.auto = TRUE, !.days = d, !.delay = wait] : d \in ResetDaysSet \ {0}}
Edits ==
  [c : {[row EXCEPT !.enable = e] : e \in BOOLEAN} \cup {[row EXCEPT !.used = 0]}
       \cup ByDays(TRUE) \cup ByDays(FALSE)
       \cup {[row EXCEPT !.auto = TRUE, !.dom = d] : d \in {x \in ResetDomSet : x > 0 \/ row.days > 0}}
       \cup {[row EXCEPT !.auto = FALSE]},
   hasNext : {FALSE}]
  \cup [c : {[row EXCEPT !.next = t] : t \in {0, clock - 1, clock + 1}}, hasNext : {TRUE}]

\* resetpolicy: a schedule for a selection of clients.  One that is on it already
\* keeps its boundary.
ResetPolicy(auto, days, dom) ==
  /\ auto => days > 0 \/ dom > 0
  /\ LET c    == [row EXCEPT !.auto = auto, !.days = IF auto THEN days ELSE 0, !.dom = IF auto THEN dom ELSE 0,
                             !.delay = auto /\ row.delay]
         keep == auto /\ row.auto /\ row.days = days /\ row.dom = dom /\ row.next > clock
         n    == nextResetAt(c, clock, zone)
     IN  /\ row' = [c EXCEPT !.next = IF row.delay \/ ~auto THEN 0 ELSE IF keep THEN row.next ELSE n.at]
         /\ due' = IF row.delay \/ ~auto THEN 0 ELSE IF keep THEN due ELSE n.month
         /\ Restart(c.dom # row.dom \/ (c.dom > 0 /\ ~keep))
  /\ UNCHANGED <<clock, zone, listed, spec, gnext, gfor, glast>>

\* A tab reads the client list.
ListClients ==
  /\ listed' = row.enable
  /\ UNCHANGED <<clock, zone, row, last, prev, due, spec, gnext, gfor, glast>>

\* editbulk: the list's row goes back, except what findInboundsChanges and
\* preserveServerManagedFields take from the stored one.
EditBulk(e) ==
  /\ row' = [row EXCEPT !.enable = e]
  /\ UNCHANGED <<clock, zone, listed, last, prev, due, spec, gnext, gfor, glast>>

\* Where the boundary of the same month is in the new zone; one that has passed
\* falls due at once.
RebasedTo(z) ==
  LET m == nextMonthlyReset(clock, row.dom, zone)
      b == Midnight(ResetDay(m, row.dom), z)
  IN  IF b <= clock THEN clock - 1 ELSE b

\* The time zone is saved, with rebaseMonthlyResets: only a boundary the old zone
\* would compute now is moved.  One that has passed stays, and is no month's of the
\* new zone: until the job has served it, a change of zone may bring a second clear.
SetZone(z) ==
  /\ z # zone /\ zone' = z
  /\ LET m == nextMonthlyReset(clock, row.dom, zone)
     IN  row' = IF /\ row.auto /\ ~row.delay /\ row.dom > 0 /\ row.next > clock
                   /\ m # 0 /\ row.next = Midnight(ResetDay(m, row.dom), zone)
                THEN [row EXCEPT !.next = RebasedTo(z)] ELSE row
  /\ due' = IF Passed THEN 0 ELSE due
  /\ UNCHANGED <<clock, listed, last, prev, spec, gnext, gfor, glast>>

\* The panel-wide schedule is saved.
SetSpec(s) ==
  /\ s # spec /\ spec' = s
  /\ UNCHANGED <<clock, zone, row, listed, last, prev, due, gnext, gfor, glast>>

-----------------------------------------------------------------------------
(* What the jobs do. *)

\* ResetClients: first use sets the first boundary, a boundary that has passed
\* clears the client and turns it on again.
FirstUse == row.enable /\ row.delay /\ row.used > 0

AfterReset ==
  IF FirstUse THEN [row EXCEPT !.delay = FALSE,
                               !.next = IF row.auto /\ HasPeriod(row) THEN nextResetAt(row, clock, zone).at ELSE @]
  ELSE IF Passed THEN [row EXCEPT !.next = nextResetAt(row, clock, zone).at, !.used = 0, !.enable = TRUE]
  ELSE row

\* DepleteClients: ResetClients, then whoever is over the quota is turned off.
DepleteClients ==
  /\ row' = IF AfterReset.enable /\ AfterReset.used > Volume
            THEN [AfterReset EXCEPT !.enable = FALSE] ELSE AfterReset
  /\ due' = IF AfterReset.next # row.next \/ Passed THEN nextResetAt(row, clock, zone).month ELSE due
  /\ IF Passed
     THEN /\ prev' = last
          /\ last' = IF row.dom > 0 /\ due = 0 THEN NoClear ELSE [at |-> clock, month |-> due, dom |-> row.dom]
     ELSE UNCHANGED <<last, prev>>
  /\ UNCHANGED <<clock, zone, listed, spec, gnext, gfor, glast>>

\* The panel-wide schedule occurs at t, a moment at or near the present one.
Occurs(t) == \E k \in 0..(clock + 1) : t = Midnight(k * spec, zone)

\* The next occurrence after now.
ScheduleNext ==
  CHOOSE t \in (clock + 1)..(clock + 2 * spec + 1) :
    Occurs(t) /\ \A u \in (clock + 1)..(t - 1) : ~Occurs(u)

\* planGlobalReset.
planGlobalReset ==
  IF gfor # <<spec, zone>> \/ gnext = 0 THEN "arm" ELSE IF gnext > clock THEN "wait" ELSE "run"

\* ResetAllClientsTraffic.
ResetAllClientsTraffic == row' = [row EXCEPT !.used = 0, !.enable = TRUE]

\* ResetTrafficJob.Run: the boundary is armed, or everyone is reset and it moves on
\* in the same transaction.
GlobalReset ==
  /\ spec > 0 /\ planGlobalReset # "wait"
  /\ IF planGlobalReset = "arm"
     THEN glast' = 0 /\ UNCHANGED row
     ELSE glast' = gnext /\ ResetAllClientsTraffic
  /\ gnext' = ScheduleNext /\ gfor' = <<spec, zone>>
  /\ UNCHANGED <<clock, zone, listed, last, prev, due, spec>>

-----------------------------------------------------------------------------
UseTraffic ==
  /\ row.enable /\ row.used <= Volume
  /\ row' = [row EXCEPT !.used = @ + 1]
  /\ UNCHANGED <<clock, zone, listed, last, prev, due, spec, gnext, gfor, glast>>

TimePasses ==
  /\ clock < MaxClock /\ clock' = clock + 1
  /\ UNCHANGED <<zone, row, listed, last, prev, due, spec, gnext, gfor, glast>>

ScheduleNextStep ==
  \/ \E e \in Edits : EditClient(e.c, e.hasNext)
  \/ \E a \in BOOLEAN, d \in ResetDaysSet, m \in ResetDomSet : ResetPolicy(a, d, m)
  \/ ListClients \/ EditBulk(listed)
  \/ \E z \in {0, 1} : SetZone(z)
  \/ \E s \in SpecSet : SetSpec(s)
  \/ DepleteClients \/ GlobalReset \/ UseTraffic \/ TimePasses

ScheduleSpec == ScheduleInit /\ [][ScheduleNextStep]_schVars

-----------------------------------------------------------------------------
\* A client on a period is cleared at most once at one time: no edit, policy, time zone or
\* first use leaves a boundary behind that has already been served, unless a date
\* was typed in.
ClearedOnce == last.at >= 0 /\ last.dom = 0 /\ prev.dom = 0 => prev.at < last.at

\* One on a day of the month is not cleared for one month twice, however the time zone moves its midnight.
MonthOnce == last.dom > 0 /\ last.dom = prev.dom /\ last.month > 0 => prev.month < last.month

\* The panel-wide reset runs once per boundary of the schedule that is set, and
\* never for a boundary of a schedule that was replaced.
GlobalOnce ==
  [][glast' # glast /\ glast' > 0 => /\ glast < glast' /\ glast' <= clock /\ clock < gnext'
                                   /\ gfor = <<spec, zone>>]_schVars

\* Each period is reset once: a client's own, by days and by month, and everyone's.
ResetsOnce == [](ClearedOnce /\ MonthOnce) /\ GlobalOnce
=============================================================================
