------------------------------- MODULE MCPanel -------------------------------
(* The panel and the people at it: the login guard, the account and the API    *)
(* tokens, the data and the rates a tab is shown, the alerts that are sent.    *)
(* They share no state, so a behaviour runs one of them, chosen at the start,  *)
(* and the others rest.                                                        *)
EXTENDS LoginGuard, PanelAccount, ApiTokens, PanelHub, ClientRates, Notify, TLC

VARIABLE part

\* Only p moves.
Alone(p) ==
  /\ part = p /\ UNCHANGED part
  /\ p # "guard" => UNCHANGED guardVars
  /\ p # "account" => UNCHANGED acctVars
  /\ p # "tokens" => UNCHANGED tokVars
  /\ p # "hub" => UNCHANGED hubVars
  /\ p # "rates" => UNCHANGED vars
  /\ p # "alerts" => UNCHANGED alertVars
  /\ p # "tally" => UNCHANGED tallyVars

PanelInit ==
  /\ part \in {"guard", "account", "tokens", "hub", "rates", "alerts", "tally"}
  /\ AcctInit /\ (part # "account" => ~row.plain)
  /\ GuardInit /\ TokInit /\ HubInit /\ Init /\ AlertInit /\ TallyInit

PanelNext ==
  \/ Alone("guard") /\ GuardNext
  \/ Alone("account") /\ AcctNext
  \/ Alone("tokens") /\ TokNext
  \/ Alone("hub") /\ HubNext
  \/ Alone("rates") /\ Next
  \/ Alone("alerts") /\ AlertNext
  \/ Alone("tally") /\ TallyNext

PanelSpec ==
  /\ PanelInit
  /\ [][PanelNext]_<<part, guardVars, acctVars, tokVars, hubVars, vars, alertVars, tallyVars>>

\* Tabs, and the requests of one kind, are interchangeable; the instances take
\* the same values for them, so that one set of permutations does.
Symmetry == Permutations(Tab)

\* Who is let in: a code and a session count for the credentials of now, sockets of old
\* ones are gone, and a token that was revoked is refused.
AccessSafety == AcctTypeOK /\ CodeOnce /\ SessionCurrent /\ SocketsDropped /\ RevokedIsRefused
=============================================================================
