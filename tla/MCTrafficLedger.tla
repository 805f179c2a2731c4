-------------------------- MODULE MCTrafficLedger --------------------------
(* Small instances of TrafficLedger for TLC. *)
EXTENDS TrafficLedger, TLC

CONSTANTS cUser, cInbound, kUser, kInbound

\* One chunk of a user, one of an inbound: two rows in a drain at most.
TwoChunks == {cUser, cInbound}
TwoKeyOf == (cUser :> kUser) @@ (cInbound :> kInbound)
=============================================================================
