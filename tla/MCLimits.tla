------------------------------ MODULE MCLimits ------------------------------
(* Who may stay connected: the limit of addresses of a client (IpLimit) and    *)
(* the sessions of the users an update removes (UserSessions).  They share no  *)
(* state, so a behaviour runs one of them, chosen at the start, and the other  *)
(* rests.                                                                      *)
EXTENDS IpLimit, UserSessions, TLC

VARIABLE part

\* One address in both its forms, two addresses of one IPv6 prefix.
MCSource == {<<"v4", 1>>, <<"mapped", 1>>, <<"v6", 2>>, <<"v6", 3>>}

Init ==
  /\ part \in {"limit", "sessions"}
  /\ LimitInit /\ (part # "limit" => ~managed /\ limitIp = 0)
  /\ SessionInit /\ (part # "sessions" => kind = "plain")

Next ==
  \/ part = "limit" /\ LimitNext /\ UNCHANGED <<part, sesVars>>
  \/ part = "sessions" /\ SessionNext /\ UNCHANGED <<part, limVars>>

Spec == Init /\ [][Next]_<<part, limVars, sesVars>>

\* Sessions are interchangeable.
Symmetry == Permutations(Session)
=============================================================================
