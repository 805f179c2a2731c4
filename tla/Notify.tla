------------------------------- MODULE Notify -------------------------------
(***************************************************************************)
(* Alerts: the probe of a node (service/node.go) as a source, or of an     *)
(* outbound (cronjob/checkOutboundJob.go, with a flap of 1), the           *)
(* suppressor that lets only changes through, the bus with a queue and a   *)
(* worker per channel (service/notify), settings that switch kinds on and  *)
(* off at any time, and the stop that waits for every worker.  The         *)
(* cooldown of failed logins shares nothing with them but the suppressor's *)
(* lock and is a specification of its own (Tally).                         *)
(***************************************************************************)
EXTENDS Naturals, Sequences

CONSTANTS
  Channel,    \* the subscribers
  Wedged,     \* the ones whose receiver may never answer
  BusBuffer, QueueSize,
  NodeFlap,   \* failed probes in a row that make a node down
  loginCooldown, PruneEvery,
  MaxProbes, MaxAttempts, MaxNow, MaxStarts \* bounds

ASSUME NotifyConstants ==
  /\ Wedged \subseteq Channel
  /\ {BusBuffer, QueueSize, NodeFlap, loginCooldown, PruneEvery, MaxProbes, MaxAttempts, MaxNow, MaxStarts} \subseteq Nat

VARIABLES
  wants,     \* the kinds the operator switched on
  nodeUp,    \* whether the node answers
  nodeFailStreak,
  probes,    \* probes so far
  health,    \* the suppressor's idea of the node
  busState,  \* "running", "stopping" or "down"
  bus, queue,
  handling,  \* the alert a channel's worker is sending
  exited,    \* dispatch and the workers that have returned
  starts,    \* times the notifier was started
  told,      \* ghost: the last alert each channel has sent
  lost,      \* ghost: channels an alert was dropped for
  deaf,      \* ghost: the node came back, was probed so, and that kind was off
  missed     \* ghost: the node was found down after it was found up, that kind was on, and it was suppressed

alertVars == <<wants, nodeUp, nodeFailStreak, probes, health, busState, bus, queue, handling, exited, starts, told, lost, deaf, missed>>

StateKinds == {"node.down", "node.up"}
Quiet == "none"

AlertInit ==
  /\ wants = StateKinds /\ nodeUp = TRUE /\ nodeFailStreak = 0 /\ probes = 0 /\ health = TRUE
  /\ busState = "running" /\ bus = <<>> /\ queue = [c \in Channel |-> <<>>] /\ handling = [c \in Channel |-> Quiet]
  /\ exited = {} /\ starts = 1
  /\ told = [c \in Channel |-> Quiet] /\ lost = {} /\ deaf = FALSE /\ missed = FALSE

-----------------------------------------------------------------------------
(* The source and the suppressor. *)

\* stateChangedLocked: only a flip is sent.
stateChanged(up) == health # up
HealthAfter(kind) == kind = "node.up"

\* publish: the operator's filter, the decision, the bus, which drops when it is full.
PublishEvent(kind) ==
  IF busState # "running" \/ kind \notin wants \/ ~stateChanged(kind = "node.up")
  THEN UNCHANGED <<health, bus, lost>>
  ELSE /\ health' = HealthAfter(kind)
       /\ IF Len(bus) < BusBuffer THEN bus' = Append(bus, kind) /\ lost' = lost ELSE bus' = bus /\ lost' = Channel

\* RefreshAll and notifyStatuses: one pass of the job.
Probe ==
  /\ probes < MaxProbes /\ probes' = probes + 1
  /\ IF nodeUp
     THEN /\ nodeFailStreak' = 0
          /\ PublishEvent("node.up")
          /\ deaf' = (deaf \/ (nodeFailStreak >= NodeFlap /\ "node.up" \notin wants))
          /\ missed' = missed
     ELSE /\ nodeFailStreak' = nodeFailStreak + 1
          /\ IF nodeFailStreak' < NodeFlap THEN UNCHANGED <<health, bus, lost>> ELSE PublishEvent("node.down")
          /\ missed' = (missed \/ (nodeFailStreak' = NodeFlap /\ busState = "running" /\ "node.down" \in wants
                                   /\ ~health))
          /\ deaf' = deaf
  /\ UNCHANGED <<wants, nodeUp, busState, queue, handling, exited, starts, told>>

NodeFlips == nodeUp' = ~nodeUp /\ UNCHANGED <<wants, nodeFailStreak, probes, health, busState, bus, queue, handling, exited, starts, told, lost, deaf, missed>>
SetWants(w) ==
  /\ wants # w /\ wants' = w
  /\ UNCHANGED <<nodeUp, nodeFailStreak, probes, health, busState, bus, queue, handling, exited, starts, told, lost, deaf, missed>>

-----------------------------------------------------------------------------
(* The bus. *)

Workers == Channel \cup {"dispatch"}

MayTake == bus # <<>>
Dispatch ==
  /\ "dispatch" \notin exited /\ busState # "down" /\ MayTake
  /\ bus' = Tail(bus)
  /\ queue' = [c \in Channel |-> IF Len(queue[c]) < QueueSize THEN Append(queue[c], Head(bus)) ELSE queue[c]]
  /\ lost' = lost \cup {c \in Channel : Len(queue[c]) >= QueueSize}
  /\ UNCHANGED <<wants, nodeUp, nodeFailStreak, probes, health, busState, handling, exited, starts, told, deaf, missed>>

\* Mutant: a worker takes the newest alert.
NewestFirst(q) == <<q[Len(q)], SubSeq(q, 1, Len(q) - 1)>>
TakeFrom(q) == <<Head(q), Tail(q)>>
\* runWorker takes an alert and calls the handler, which may fail or panic: the worker goes on.
Handle(c) ==
  /\ c \notin exited /\ busState # "down" /\ handling[c] = Quiet /\ queue[c] # <<>>
  /\ handling' = [handling EXCEPT ![c] = TakeFrom(queue[c])[1]]
  /\ queue' = [queue EXCEPT ![c] = TakeFrom(queue[c])[2]]
  /\ UNCHANGED <<wants, nodeUp, nodeFailStreak, probes, health, busState, bus, exited, starts, told, lost, deaf, missed>>
Handled(c) ==
  /\ handling[c] # Quiet
  /\ told' = [told EXCEPT ![c] = handling[c]]
  /\ handling' = [handling EXCEPT ![c] = Quiet]
  /\ UNCHANGED <<wants, nodeUp, nodeFailStreak, probes, health, busState, bus, queue, exited, starts, lost, deaf, missed>>

\* Stop closes done; dispatch and idle workers return whatever is queued, a busy one after its handler.
Stop ==
  /\ busState = "running" /\ busState' = "stopping"
  /\ UNCHANGED <<wants, nodeUp, nodeFailStreak, probes, health, bus, queue, handling, exited, starts, told, lost, deaf, missed>>
Exit(w) ==
  /\ busState = "stopping" /\ w \notin exited /\ (w \in Channel => handling[w] = Quiet)
  /\ exited' = exited \cup {w}
  /\ UNCHANGED <<wants, nodeUp, nodeFailStreak, probes, health, busState, bus, queue, handling, starts, told, lost, deaf, missed>>
AllExited == exited = Workers
Stopped ==
  /\ busState = "stopping" /\ AllExited /\ busState' = "down"
  /\ UNCHANGED <<wants, nodeUp, nodeFailStreak, probes, health, bus, queue, handling, exited, starts, told, lost, deaf, missed>>

\* Start: a new bus and a new suppressor, which takes everything for healthy.
Start ==
  /\ busState = "down" /\ starts < MaxStarts /\ starts' = starts + 1
  /\ busState' = "running" /\ health' = TRUE /\ bus' = <<>> /\ queue' = [c \in Channel |-> <<>>] /\ exited' = {}
  /\ told' = [c \in Channel |-> Quiet] /\ lost' = {} /\ deaf' = FALSE /\ missed' = FALSE
  /\ UNCHANGED <<wants, nodeUp, nodeFailStreak, probes, handling>>

AlertNext ==
  \/ Probe \/ NodeFlips \/ Dispatch \/ Stop \/ Stopped \/ Start
  \/ \E w \in SUBSET StateKinds : SetWants(w)
  \/ \E c \in Channel : Handle(c) \/ Handled(c)
  \/ \E w \in Workers : Exit(w)

AlertSpec == AlertInit /\ [][AlertNext]_alertVars

\* Goroutines keep running, and a handler returns because every sender has a timeout; nothing is
\* assumed of the wedged channels.
GoOn ==
  \/ Dispatch \/ Stopped
  \/ \E c \in Channel \ Wedged : Handle(c) \/ Handled(c)
  \/ \E w \in Workers \ Wedged : Exit(w)

-----------------------------------------------------------------------------
(* The tally of failed logins (Decide, LoginFailed). *)

VARIABLES now, until, failures, lastPrune,
  loginTries, \* failed logins so far
  untold,   \* ghost: failed logins since the last alert
  alert     \* ghost: the last alert: the count it gave, those since the one before, and whether
            \* the count was dropped with an expired cooldown

tallyVars == <<now, until, failures, lastPrune, loginTries, untold, alert>>

TallyInit == now = 0 /\ until = 0 /\ failures = 0 /\ lastPrune = 0 /\ loginTries = 0 /\ untold = 0 /\ alert = [said |-> 0, made |-> 0, pruned |-> FALSE]

CountAfterAlert(n) == 0
LoginFailed ==
  LET due == now - lastPrune >= PruneEvery          \* pruneLocked
      gone == due /\ until <= now
      n == (IF gone THEN 0 ELSE failures) + 1
  IN /\ loginTries < MaxAttempts /\ loginTries' = loginTries + 1
     /\ lastPrune' = IF due THEN now ELSE lastPrune
     /\ IF until <= now                              \* allowLocked
        THEN /\ until' = now + loginCooldown /\ failures' = CountAfterAlert(n) /\ untold' = 0
             /\ alert' = [said |-> n, made |-> untold + 1, pruned |-> gone]
        ELSE /\ until' = until /\ failures' = n /\ untold' = untold + 1 /\ alert' = alert
     /\ UNCHANGED now
TimeGoes == now < MaxNow /\ now' = now + 1 /\ UNCHANGED <<until, failures, lastPrune, loginTries, untold, alert>>
TallyNext == LoginFailed \/ TimeGoes

TallySpec == TallyInit /\ [][TallyNext]_tallyVars

-----------------------------------------------------------------------------
(* Properties. *)

\* Once nothing is on its way, a channel no alert was dropped for has last told what the suppressor
\* holds, so two channels cannot disagree about the node.
ChannelsAgree ==
  busState = "running" =>
    \A c \in Channel \ lost : bus = <<>> /\ queue[c] = <<>> /\ handling[c] = Quiet =>
      told[c] = (IF health THEN IF told[c] = Quiet THEN Quiet ELSE "node.up" ELSE "node.down")

\* Every outage the probe confirms is reported while that kind is on, as long as recoveries were
\* not switched off when one was probed.
OutageReportedUnlessDeaf == deaf \/ ~missed
\* CheckOutboundJob "reports outbounds that stop being reachable": every confirmed outage of a
\* subject whose down kind is on is reported.  A recovery that is filtered out refutes it
\* (README, section 6).
OutageReported == ~missed

\* No worker of a stopped notifier is still sending when the next one starts.
StopWaits == busState = "down" => \A c \in Channel : handling[c] = Quiet

\* A channel whose receiver hangs does not hold up the others: what is queued for them is sent, or
\* the notifier stops.
OthersGoOn ==
  /\ bus # <<>> ~> bus = <<>> \/ busState # "running"
  /\ \A c \in Channel \ Wedged : queue[c] # <<>> ~> queue[c] = <<>> \/ busState # "running"

\* "let the next alert carry the count of what was swallowed": an alert counts exactly the failures
\* since the last one, unless it is the one whose decision pruned the expired cooldown.
TallyTold == alert.pruned \/ alert.said = alert.made

\* The notifier, in one: channels agree, outages are reported, a stop waits for the
\* workers, and an alert carries the count of what was swallowed.
AlertSafety == ChannelsAgree /\ OutageReportedUnlessDeaf /\ StopWaits /\ TallyTold
=============================================================================
