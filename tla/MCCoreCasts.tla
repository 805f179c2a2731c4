----------------------------- MODULE MCCoreCasts -----------------------------
(* CoreLifecycle with every role declared and, in each behaviour, one cast of  *)
(* goroutines that act: saves in place, restarts and buttons in one, the reset,*)
(* maintenance and the panel's own stop in the other.  Those outside the cast  *)
(* stay where Init put them.                                                   *)
EXTENDS CoreLifecycle, TLC

CONSTANT Casts
VARIABLE cast

ASSUME CastsAssumption == \A c \in Casts : c \subseteq Proc

CastInit == Init /\ cast \in Casts

CastNext ==
  \/ CooldownPasses /\ UNCHANGED cast
  \/ \E p \in cast :
       \/ Lifecycle(p) /\ UNCHANGED cast
       \/ Write(p) /\ UNCHANGED cast
       \/ Tick(p) /\ UNCHANGED cast
       \/ Press(p) /\ UNCHANGED cast
       \/ (\E on \in BOOLEAN : SetRow(p, on)) /\ UNCHANGED cast
       \/ SetFlag(p) /\ UNCHANGED cast
       \/ Retire(p) /\ UNCHANGED cast
       \/ Reclaim(p) /\ UNCHANGED cast

CastSpec == CastInit /\ [][CastNext]_<<vars, cast>>

\* For the liveness of one cast that has everybody.
CastLiveSpec == CastSpec /\ Fairness

\* Goroutines of one role in one cast are interchangeable.
CastSymmetry ==
  UNION {Permutations(S \cap c) : S \in {HotSaver, RestartSaver}, c \in Casts}
=============================================================================
