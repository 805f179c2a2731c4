----------------------------- MODULE ClientRates -----------------------------
(***************************************************************************)
(* Per-client throughput, sampled beside the flush that empties the same   *)
(* counters, and only while a tab is watching.                             *)
(*                                                                         *)
(* core/tracker_stats.go (GetStats, SampleUsers, Reset), service/stats.go  *)
(* (sampleClientRates, pauseClientRates, resumeClientRates) and            *)
(* service/hub.go (subscribe, dropClient, TickClientRates).                *)
(*                                                                         *)
(* Users and directions do not interact, so there is one counter.  A rate  *)
(* is a number of bytes over a window; what is told apart is whether the   *)
(* published rates are empty.                                              *)
(***************************************************************************)
EXTENDS Integers

CONSTANTS
  Tab,        \* websocket clients that subscribe to the live payload
  Tick,       \* the goroutine of ClientRateJob
  MinWindow,  \* minRateWindow
  MaxWindow,  \* maxRateWindow
  MaxBytes    \* bound on what one core counts

ASSUME RateConstants ==
  /\ Tick \notin Tab
  /\ MinWindow \in Nat /\ MaxWindow \in Nat /\ MaxBytes \in Nat
  /\ 0 < MinWindow /\ MinWindow <= MaxWindow

VARIABLES
  up,         \* the core runs
  counter,    \* the user's counter
  sampled,    \* the counter as the last sample read it
  drained,    \* what GetStats took since
  win,        \* the time since the last sample, up to just over MaxWindow
  moved,      \* all that this core's counter was ever given
  reported,   \* all that this core's samples added up to
  live,       \* ratesLive
  rates,      \* clientRates is not empty
  tabs,       \* clients of the hub that subscribe to the live payload
  pc,         \* where a goroutine is
  res         \* what its sample is about to publish

tracker == <<counter, sampled, drained, win, moved, reported>>
run     == <<pc, res>>
vars == <<up, tracker, live, rates, tabs, run>>

Proc == Tab \cup {Tick}

Init ==
  /\ up = FALSE
  /\ counter = 0 /\ sampled = 0 /\ drained = 0 /\ win = 0 /\ moved = 0 /\ reported = 0
  /\ live = FALSE /\ rates = FALSE
  /\ tabs = {}
  /\ pc = [p \in Proc |-> "idle"]
  /\ res = [p \in Proc |-> FALSE]

-----------------------------------------------------------------------------
(* The core.                                                                *)

\* Box.Start makes a tracker, Box.Close resets it.
SwitchCore ==
  /\ up' = ~up
  /\ counter' = 0 /\ sampled' = 0 /\ drained' = 0 /\ win' = 0
  /\ moved' = 0 /\ reported' = 0
  /\ UNCHANGED <<live, rates, tabs, run>>

\* A connection counts a byte, holding no lock.
Move ==
  /\ up
  /\ moved < MaxBytes
  /\ moved' = moved + 1
  /\ counter' = counter + 1
  /\ UNCHANGED <<up, sampled, drained, win, reported, live, rates, tabs, run>>

Elapse ==
  /\ win <= MaxWindow
  /\ win' = win + 1
  /\ UNCHANGED <<up, counter, sampled, drained, moved, reported, live, rates, tabs, run>>

\* GetStats, of the flush and of carryOverStats.
GetStats ==
  /\ up
  /\ drained' = drained + counter
  /\ counter' = 0
  /\ UNCHANGED <<up, sampled, win, moved, reported, live, rates, tabs, run>>

-----------------------------------------------------------------------------
(* A sample.                                                                *)

Goto(p, label) == pc' = [pc EXCEPT ![p] = label]

Delta == counter + drained - sampled

\* ratesOf: only a window up to MaxWindow is a current speed.
Shows == win <= MaxWindow /\ Delta # 0

\* sampleClientRates and SampleUsers: with the core down the rates go empty; a
\* window too short to close leaves everything as it is.
Sample(p) ==
  /\ pc[p] = "sample"
  /\ \/ /\ ~up
        /\ res' = [res EXCEPT ![p] = FALSE]
        /\ Goto(p, "publish")
        /\ UNCHANGED tracker
     \/ /\ up /\ win < MinWindow
        /\ Goto(p, "idle")
        /\ UNCHANGED <<res, tracker>>
     \/ /\ up /\ win >= MinWindow
        /\ reported' = reported + Delta
        /\ sampled' = counter /\ drained' = 0 /\ win' = 0
        /\ res' = [res EXCEPT ![p] = Shows]
        /\ Goto(p, "publish")
        /\ UNCHANGED <<counter, moved>>
  /\ UNCHANGED <<up, live, rates, tabs>>

\* setClientRates.
Publish(p) ==
  /\ pc[p] = "publish"
  /\ rates' = res[p]
  /\ Goto(p, "idle")
  /\ UNCHANGED <<up, tracker, live, tabs, res>>

\* resumeClientRates: the first subscriber after a pause samples at once.
Resume(p) ==
  /\ pc[p] = "resume"
  /\ live' = TRUE
  /\ Goto(p, IF live THEN "idle" ELSE "sample")
  /\ UNCHANGED <<up, tracker, rates, tabs, res>>

-----------------------------------------------------------------------------
(* The tabs and the tick.                                                   *)

\* subscribe "load", on the client's own goroutine.
Subscribe(t) ==
  /\ pc[t] = "idle"
  /\ t \notin tabs
  /\ tabs' = tabs \cup {t}
  /\ Goto(t, "resume")
  /\ UNCHANGED <<up, tracker, live, rates, res>>

\* dropClient or unsubscribe; a write that failed drops a client at any moment.
Leave(t) ==
  /\ t \in tabs
  /\ tabs' = tabs \ {t}
  /\ UNCHANGED <<up, tracker, live, rates, run>>

\* TickClientRates takes the list of subscribers ...
Look ==
  /\ pc[Tick] = "idle"
  /\ Goto(Tick, IF tabs = {} THEN "pause" ELSE "store")
  /\ UNCHANGED <<up, tracker, live, rates, tabs, res>>

\* ... and samples for them, ...
Store ==
  /\ pc[Tick] = "store"
  /\ live' = TRUE
  /\ Goto(Tick, "sample")
  /\ UNCHANGED <<up, tracker, rates, tabs, res>>

\* ... or, finding none, pauses: pauseClientRates, ...
Pause ==
  /\ pc[Tick] = "pause"
  /\ live' = FALSE
  /\ Goto(Tick, IF live THEN "clear" ELSE "idle")
  /\ UNCHANGED <<up, tracker, rates, tabs, res>>

Clear ==
  /\ pc[Tick] = "clear"
  /\ rates' = FALSE
  /\ Goto(Tick, "relook")
  /\ UNCHANGED <<up, tracker, live, tabs, res>>

\* Mutant: the tick does not look again.
NoRelook ==
  /\ pc[Tick] = "relook"
  /\ Goto(Tick, "idle")
  /\ UNCHANGED <<up, tracker, live, rates, tabs, res>>

\* Mutant: the tick resumes whether or not a tab came.
AlwaysResume ==
  /\ pc[Tick] = "relook"
  /\ Goto(Tick, "resume")
  /\ UNCHANGED <<up, tracker, live, rates, tabs, res>>

\* ... and looks again for a tab whose resume the pause has just undone.
Relook ==
  /\ pc[Tick] = "relook"
  /\ Goto(Tick, IF tabs = {} THEN "idle" ELSE "resume")
  /\ UNCHANGED <<up, tracker, live, rates, tabs, res>>

TickStep == Look \/ Store \/ Pause \/ Clear \/ Relook

Next ==
  \/ SwitchCore \/ Move \/ Elapse \/ GetStats
  \/ \E p \in Proc : Sample(p) \/ Publish(p) \/ Resume(p)
  \/ \E t \in Tab : Subscribe(t) \/ Leave(t)
  \/ TickStep

Spec == Init /\ [][Next]_vars

\* Cron ticks for ever and a goroutine that was scheduled goes on.
Fairness ==
  /\ WF_vars(TickStep)
  /\ \A p \in Proc : WF_vars(Sample(p) \/ Publish(p) \/ Resume(p))

LiveSpec == Spec /\ Fairness

-----------------------------------------------------------------------------
(* Properties.                                                              *)

TypeOK ==
  /\ up \in BOOLEAN /\ live \in BOOLEAN /\ rates \in BOOLEAN
  /\ counter \in Nat /\ sampled \in Nat /\ drained \in Nat
  /\ win \in 0 .. MaxWindow + 1
  /\ moved \in Nat /\ reported \in Nat
  /\ tabs \subseteq Tab
  /\ pc \in [Proc -> {"idle", "resume", "sample", "publish",
                      "store", "pause", "clear", "relook"}]
  /\ res \in [Proc -> BOOLEAN]

\* SampleUsers: "Bytes added between the read here and a later drain are not
\* lost: the drain books them, and the next sample counts them" - once.
Booked == reported + Delta = moved

\* TickClientRates: a pause never leaves a tab that is watching without
\* sampling, however its subscribe and the tick interleave.
WatchedIsLive == (pc[Tick] = "idle" /\ \E t \in tabs : pc[t] = "idle") => live

\* What the sampler of rates promises, through drains, core stops and tabs that come and go:
\* every byte is in one sample, and who watches is sampled.
RatesSafety == Booked /\ WatchedIsLive

\* pauseClientRates empties the rates "so api/load does not serve the last ones
\* as current": once sampling is paused and nothing is under way, none are left.
\* A subscribe whose tab was dropped refutes it (README, section 6).
PausedIsEmpty == (~live /\ \A p \in Proc : pc[p] = "idle") => ~rates

\* A panel nobody watches ends up not sampling.
IdlePanelRests == <>[](tabs = {}) => <>[](~live)

=============================================================================
