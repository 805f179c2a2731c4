------------------------------- MODULE MCLive -------------------------------
(* What must eventually happen in the parts that share no state with each      *)
(* other: the limit of addresses, the push of the panel's data to a tab, the   *)
(* sampling of rates, the alerts, the panel's own update.  A behaviour runs    *)
(* one part, chosen at the start, and the others rest; the bounds are smaller  *)
(* than where the same parts are checked for safety.                           *)
EXTENDS IpLimit, PanelHub, ClientRates, Notify, SelfUpdate

VARIABLE part

MCSource == {<<"v4", 1>>, <<"v6", 2>>}

\* Only p moves.
Alone(p) ==
  /\ part = p /\ UNCHANGED part
  /\ p # "limit" => UNCHANGED limVars
  /\ p # "hub" => UNCHANGED hubVars
  /\ p # "rates" => UNCHANGED vars
  /\ p # "alerts" => UNCHANGED alertVars
  /\ p # "update" => UNCHANGED updVars
  /\ UNCHANGED tallyVars

LiveInit ==
  /\ part \in {"limit", "hub", "rates", "alerts", "update"}
  /\ LimitInit /\ (part # "limit" => ~managed /\ limitIp = 0)
  /\ UpdateInit /\ (part # "update" => latest = 0 /\ image.exe = 1 /\ ~docker)
  /\ HubInit /\ Init /\ AlertInit /\ TallyInit

LiveNext ==
  \/ Alone("limit") /\ LimitNext
  \/ Alone("hub") /\ HubNext
  \/ Alone("rates") /\ Next
  \/ Alone("alerts") /\ AlertNext
  \/ Alone("update") /\ UpdateNext

\* The limiter's job, the sampling job and the clock go on, an accepted connection
\* is tracked; the goroutines of the hub, of a sample, of the bus and of an update
\* go on with what they have begun (see the modules).
LiveFairness ==
  /\ WF_limVars(part = "limit" /\ LimitScan) /\ WF_limVars(part = "limit" /\ LimitTick)
  /\ WF_limVars(part = "limit" /\ \E c \in DOMAIN conns : Track(c))
  /\ WF_hubVars(part = "hub" /\ HubWork)
  /\ WF_vars(part = "rates" /\ TickStep)
  /\ \A p \in Proc : WF_vars(part = "rates" /\ (Sample(p) \/ Publish(p) \/ Resume(p)))
  /\ WF_alertVars(part = "alerts" /\ GoOn)
  /\ WF_updVars(part = "update" /\ RunSteps)

AllSpec ==
  /\ LiveInit /\ LiveFairness
  /\ [][LiveNext]_<<part, limVars, hubVars, vars, alertVars, tallyVars, updVars>>

\* What runs in the background ends, or goes on past what hangs: sampling stops when nobody
\* watches, a channel that hangs holds up no other, and an update run ends.
BackgroundGoesOn == IdlePanelRests /\ OthersGoOn /\ RunSettles
=============================================================================
